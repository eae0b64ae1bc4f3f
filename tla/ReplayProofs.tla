---------------------------- MODULE ReplayProofs ----------------------------
(***************************************************************************)
(* Proofs about what durable steps tell a workflow: a completed workflow   *)
(* has the results of all its steps, and - for one engine and steps with   *)
(* names of their own - no step runs again once its result is recorded,    *)
(* and every execution is told what the first one was.                     *)
(***************************************************************************)
EXTENDS EffectProofs

-----------------------------------------------------------------------------
(* A completed workflow has the results of all its steps                   *)

(* What the goroutine of an effect does to the place of its thread.        *)
Stays(p, t, at) ==
  \/ \E o : o.kind # "completed" /\ Quits(p, o)
  \/ \E th : Alters(p, t, th) /\ th.at = at

LEMMA LeavesOrStays ==
  ASSUME NEW p, NEW t, NEW o, NEW at, NEW view, Leaves(p, t, o, at, view),
         o.kind # "completed"
  PROVE  Stays(p, t, at)
BY DEF Leaves, Stays

LEMMA EffectPlaces ==
  ASSUME NEW p, NEW t, Effect(p, t)
  PROVE  \/ Stays(p, t, run[p].thread[t].at)
         \/ Learns(p, t) /\ Stays(p, t, run[p].thread[t].at + 1)
<1>1. CASE Fails(p, t)
  <2>1. PICK o : ErrOK(o, SignalOf(p)) /\ Leaves(p, t, o, run[p].thread[t].at, run[p].view)
    BY <1>1 DEF Fails
  <2> QED
    BY <2>1, LeavesOrStays DEF ErrOK
<1>2. CASE Enters(p, t) \/ Misses(p, t) \/ Computes(p, t)
  BY <1>2 DEF Enters, Misses, Computes, Goes, Stays
<1>3. CASE Waits(p, t) \/ Yields(p, t)
  <2>1. PICK n : Leaves(p, t, [kind |-> "suspend", resumeAt |-> n],
                        run[p].thread[t].at, run[p].view)
    BY <1>3 DEF Waits, Yields
  <2>2. [kind |-> "suspend", resumeAt |-> n].kind # "completed"
    OBVIOUS
  <2> QED
    BY <2>1, <2>2, LeavesOrStays
<1>4. CASE Learns(p, t)
  <2> DEFINE next == run[p].thread[t].at + 1
  <2>1. PICK n, view : \/ Leaves(p, t, [kind |-> "suspend", resumeAt |-> n], next, view)
                       \/ Goes(p, t, "enter", next, view)
    BY <1>4 DEF Learns
  <2>2. [kind |-> "suspend", resumeAt |-> n].kind # "completed"
    OBVIOUS
  <2> QED
    BY <1>4, <2>1, <2>2, LeavesOrStays DEF Goes, Stays
<1> QED
  BY <1>1, <1>2, <1>3, <1>4 DEF Effect

Recorded(w) == Names[w] \subseteq DOMAIN results[w]

(* An execution has got beyond recorded steps only, and what it knows from *)
(* before was recorded.                                                    *)
PassedRecorded(p) ==
  run[p] # NoRun =>
    /\ \A s \in Sites(task[p].id) : PassedBy(run[p], s) =>
         NameOf[task[p].id][s] \in DOMAIN results[task[p].id]
    /\ DOMAIN run[p].cache \subseteq DOMAIN results[task[p].id]

CompletesRecorded(p) ==
  pc[p] = "resolve" /\ outcome[p].kind = "completed" => Recorded(task[p].id)

WholeInv ==
  /\ \A p \in Workers : PassedRecorded(p) /\ CompletesRecorded(p)
  /\ CompletedHasResults

LEMMA JoinedNone ==
  ASSUME NEW r, IsRun(r), NEW signal, ErrsAt(r, signal), Joined(r.thread) = NoOutcome
  PROVE  \A t \in DOMAIN r.thread : r.thread[t].err.kind = "none"
<1> DEFINE T == r.thread
<1>1. \A t \in DOMAIN T : t \in Nat /\ ErrOK(T[t].err, signal)
  BY RunDomain DEF ErrsAt
<1>2. NoOutcome.kind = "none"
  BY DEF NoOutcome, OutcomeOf
<1>3. \A t \in DOMAIN T : T[t].err.resumeAt \in 0..Horizon
  BY <1>1 DEF ErrOK, Outcome
<1> HIDE DEF T
<1>4. Failed(T) = {}
  <2> SUFFICES ASSUME Failed(T) # {} PROVE FALSE
    OBVIOUS
  <2>1. Failed(T) \in SUBSET Nat
    BY <1>1 DEF Failed, Errors
  <2>2. First(Failed(T)) \in Failed(T)
    BY <2>1, FirstIn
  <2>3. T[First(Failed(T))].err = NoOutcome
    BY DEF Joined, T
  <2> QED
    BY <1>2, <2>2, <2>3 DEF Failed, Errors, Failures
<1>5. Asleep(T) = {}
  <2> SUFFICES ASSUME Asleep(T) # {} PROVE FALSE
    OBVIOUS
  <2> DEFINE f == [t \in Asleep(T) |-> T[t].err.resumeAt]
             latest == CHOOSE t \in Asleep(T) : \A u \in Asleep(T) :
                         T[t].err.resumeAt >= T[u].err.resumeAt
  <2>1. \A t \in Asleep(T) : f[t] \in 0..Horizon /\ f[t] = T[t].err.resumeAt
    BY <1>3 DEF Asleep, Errors
  <2> HIDE DEF f
  <2>2. \E t \in Asleep(T) : \A u \in Asleep(T) : f[t] >= f[u]
    BY <2>1, LatestIn
  <2>3. \E t \in Asleep(T) : \A u \in Asleep(T) :
          T[t].err.resumeAt >= T[u].err.resumeAt
    BY <2>1, <2>2
  <2>4. latest \in Asleep(T)
    BY <2>3
  <2>5. T[latest].err = NoOutcome
    BY <1>4 DEF Joined, T
  <2> HIDE DEF latest
  <2> QED
    BY <1>2, <2>4, <2>5 DEF Asleep, Errors
<1>6. ASSUME NEW t \in DOMAIN T
      PROVE  T[t].err.kind = "none"
  <2>1. T[t].err \in Outcome /\ T[t].err.kind # "completed"
    BY <1>1 DEF ErrOK
  <2>2. T[t].err.kind \notin {"cancelled", "permanent", "transient", "suspend"}
    BY <1>4, <1>5 DEF Failed, Asleep, Errors, Failures
  <2> QED
    BY <2>1, <2>2 DEF Outcome
<1> QED
  BY <1>6 DEF T

(* A Parallel that gives no error has run all the steps of its branches.   *)
LEMMA BranchesRun ==
  ASSUME NEW p \in Workers, task[p].id \in Workflows,
         ContextAt(run[p], task[p].id, SignalOf(p)), Joinable(p),
         Joined(run[p].thread) = NoOutcome,
         NEW s \in Sites(task[p].id), s[1] = Here(p)
  PROVE  PassedBy(run[p], s)
<1> DEFINE w == task[p].id
           r == run[p]
           t == s[2] + 1
           code == Program[w][s[1]].branches[s[2]].steps
<1>1. /\ IsRun(r) /\ ErrsAt(r, SignalOf(p)) /\ Forks(r, w)
      /\ \A u \in DOMAIN r.thread : ThreadAt(r.thread[u], CodeOf(w, Here(p), u))
  BY DEF ContextAt, PlacedAt, Here
<1>2. /\ r.thread[1].at = s[1]
      /\ Program[w][s[1]].kind = "parallel"
      /\ DOMAIN r.thread = 1..(Len(Program[w][s[1]].branches) + 1)
  BY <1>1 DEF Joinable, Forked, Forks, Here
<1>3. /\ s[1] \in DOMAIN Program[w] /\ s[2] \in Nat \ {0}
      /\ s[2] \in DOMAIN Program[w][s[1]].branches
      /\ s[3] \in DOMAIN code
  BY <1>2, SiteParts
<1>4. /\ Len(Program[w][s[1]].branches) \in Nat
      /\ DOMAIN Program[w][s[1]].branches = 1..Len(Program[w][s[1]].branches)
      /\ Len(code) \in Nat /\ DOMAIN code = 1..Len(code)
  BY <1>2, <1>3, BranchCode
<1> HIDE DEF code
<1>5. t \in DOMAIN r.thread /\ t # 1 /\ t - 1 = s[2]
  BY <1>2, <1>3, <1>4
<1>6. CodeOf(w, Here(p), t) = code /\ Code(p, t) = code
  BY <1>2, <1>5 DEF CodeOf, Code, Main, Here, code
<1>7. r.thread[t].err.kind = "none"
  BY <1>1, <1>5, JoinedNone
<1>8. ThreadAt(r.thread[t], code)
  BY <1>1, <1>5, <1>6
<1>9. r.thread[t].at \in 1..(Len(code) + 1) /\ r.thread[t].loc # "done"
  BY <1>7, <1>8 DEF ThreadAt
<1>10. r.thread[t].at \notin DOMAIN code
  BY <1>5, <1>6, <1>9 DEF Joinable
<1>11. s[3] < r.thread[t].at
  BY <1>3, <1>4, <1>9, <1>10
<1> QED
  BY <1>2, <1>5, <1>11 DEF PassedBy, BeyondIn

-----------------------------------------------------------------------------
(* The results of a completed workflow: the steps                          *)

LEMMA OtherOutcomes ==
  ASSUME TypeOK, RunsOK, NEW p \in Workers, NEW q \in Workers, q # p, WorkerForm(p)
  PROVE  /\ run'[q] = run[q] /\ pc'[q] = pc[q] /\ task'[q] = task[q]
         /\ outcome'[q] = outcome[q]
<1>1. ASSUME WorkerStep(p)
      PROVE  outcome'[q] = outcome[q]
  BY <1>1 DEF TypeOK, WorkerStep, DropUnregistered, DropHeld, Acquire,
     ObserveCancel, BeginExecute, Execute, Return, RecordCancelled,
     RecordPermanent, RecordSuspend, RecordExhausted, RecordRetry,
     RecordCompleted, Resolving, Conflict, StoreFails, Release
<1>2. ASSUME UNCHANGED vars
      PROVE  outcome'[q] = outcome[q]
  BY <1>2 DEF vars, memoryVars
<1> QED
  BY <1>1, <1>2, WorkerImplements, OtherWorkers

(* A worker that does not move, or is gone.                                *)
Idles(p) ==
  \/ run'[p] = NoRun /\ pc'[p] = "idle"
  \/ /\ run'[p] = run[p] /\ pc'[p] = pc[p] /\ task'[p] = task[p]
     /\ outcome'[p] = outcome[p]

LEMMA IdleWorkers ==
  ASSUME TypeOK, StepsInv, [StepsNext]_allVars, NEW p \in Workers
  PROVE  Idles(p) \/ StepsWorker(p)
<1>1. ASSUME NEW q \in Workers, StepsWorker(q), q # p
      PROVE  Idles(p)
  BY <1>1, WorkerForms, OtherOutcomes DEF StepsInv, Idles
<1>2. ASSUME NEW e \in Engines, Dies(e)
      PROVE  Idles(p)
  BY <1>2 DEF Dies, Idles
<1>3. CASE Besides
  BY <1>3 DEF Besides, Idles
<1> QED
  BY <1>1, <1>2, <1>3, StepKinds

TasksOK == \A p \in Workers : pc[p] # "idle" => task[p].id \in Workflows

LEMMA TypeTasks == TypeOK => TasksOK
BY TaskOfWorker DEF TasksOK

(* The results of the site a goroutine learns about are in the store.      *)
LEMMA LearnsRecorded ==
  ASSUME TypeOK, StepsInv, NEW p \in Workers, NEW t, AtStep(p, t), Learns(p, t),
         DOMAIN run[p].cache \subseteq DOMAIN results[task[p].id]
  PROVE  NameOf[task[p].id][Site(p, t)] \in DOMAIN results'[task[p].id]
<1> DEFINE v == task[p].id
           n == NameOf[v][Site(p, t)]
<1>1. PICK x : Told(p, t, x)
  BY DEF Learns
<1>2. CASE Finds(p, t, x)
  <2>1. NameHere(p, t) = n
    BY <1>2, NameHereForm DEF Finds
  <2> QED
    BY <1>2, <2>1 DEF Finds
<1>3. CASE Saves(p, t)
  <2>1. results'[v] = Put(results[v], n, run[p].thread[t].val)
    BY <1>3, SavedResults DEF StepsInv
  <2> QED
    BY <2>1 DEF Put, Merge
<1> QED
  BY <1>1, <1>2, <1>3 DEF Told

LEMMA PassedKept ==
  ASSUME NEW p, PassedRecorded(p), run'[p] = run[p], task'[p] = task[p],
         DOMAIN results[task[p].id] \subseteq DOMAIN results'[task[p].id]
  PROVE  PassedRecorded(p)'
BY DEF PassedRecorded

LEMMA PassedGoroutine ==
  ASSUME TypeOK, StepsInv, NEW p \in Workers, PassedRecorded(p), run[p] # NoRun,
         NEW t, AtStep(p, t), Effect(p, t),
         DOMAIN results[task[p].id] \subseteq DOMAIN results'[task[p].id]
  PROVE  PassedRecorded(p)'
<1> DEFINE w == task[p].id
           at == run[p].thread[t].at
<1>1. CASE run'[p] = NoRun
  BY <1>1 DEF PassedRecorded
<1>2. ASSUME NEW th, Alters(p, t, th), th.at \in {at, at + 1},
             th.at = at \/ Learns(p, t)
      PROVE  PassedRecorded(p)'
  <2>1. run'[p].cache = run[p].cache /\ task' = task
    BY <1>2, AltersSwaps DEF Alters, vars, memoryVars
  <2>2. DOMAIN run[p].cache \subseteq DOMAIN results[w]
    BY DEF PassedRecorded
  <2>3. ASSUME NEW s \in Sites(w), PassedBy(run'[p], s)
        PROVE  NameOf[w][s] \in DOMAIN results'[w]
    <3>1. CASE PassedBy(run[p], s)
      BY <3>1 DEF PassedRecorded
    <3>2. CASE th.at = at + 1 /\ s = Site(p, t)
      <4>1. at \in Nat
        BY AtStepCode
      <4>2. Learns(p, t)
        BY <1>2, <3>2, <4>1
      <4> QED
        BY <2>2, <3>2, <4>2, LearnsRecorded
    <3> QED
      BY <1>2, <2>3, <3>1, <3>2, PassedMore
  <2> QED
    BY <2>1, <2>2, <2>3 DEF PassedRecorded
<1>3. ASSUME NEW o, Quits(p, o)
      PROVE  run'[p] = NoRun
  BY <1>3 DEF Quits, StepsInv, RunsOK
<1> QED
  BY <1>1, <1>2, <1>3, EffectPlaces DEF Stays

LEMMA PassedOwn ==
  ASSUME TypeOK, StepsInv, NEW p \in Workers, PassedRecorded(p), StepsWorker(p),
         task[p].id \in Workflows =>
           DOMAIN results[task[p].id] \subseteq DOMAIN results'[task[p].id]
  PROVE  PassedRecorded(p)'
<1> DEFINE w == task[p].id
<1>0. p \in DOMAIN run /\ RunOK(p)
  BY DEF StepsInv, RunsOK
<1>1. CASE Starts(p) /\ w \in Workflows
  <2>1. task' = task /\ results' = results
    BY <1>1 DEF Starts, vars, memoryVars
  <2>2. ASSUME NEW s \in Sites(w)
        PROVE  ~PassedBy(run'[p], s)
    <3>1. s[1] \in Nat \ {0}
      BY <1>1, SiteParts
    <3> QED
      BY <1>1, <3>1 DEF Starts, PassedBy, BeyondIn
  <2> QED
    BY <1>1, <2>1, <2>2 DEF Starts, PassedRecorded
<1>2. CASE Around(p)
  <2>1. CASE run'[p] = NoRun
    BY <2>1 DEF PassedRecorded
  <2>2. CASE run' = run /\ task'[p] = task[p] /\ run[p] # NoRun
    BY <1>0, <2>2, PassedKept DEF RunOK
  <2> QED
    BY <1>0, <1>2, <2>1, <2>2 DEF Around
<1>3. ASSUME pc[p] = "execute" /\ w \in Workflows, NEW t \in DOMAIN run[p].thread,
             AtStep(p, t), Effect(p, t)
      PROVE  PassedRecorded(p)'
  BY <1>0, <1>3, PassedGoroutine DEF RunOK
<1>4. CASE pc[p] = "execute" /\ w \in Workflows /\ Splits(p)
  <2>1. task' = task /\ results' = results
    BY <1>4 DEF Splits, vars, memoryVars
  <2>2. ASSUME NEW s \in Sites(w), PassedBy(run'[p], s)
        PROVE  PassedBy(run[p], s)
    <3>1. s[2] = 0 \/ s[3] \in Nat \ {0}
      BY <1>4, SiteParts
    <3>2. s[2] \in Nat /\ s[3] \in Nat
      BY <1>4, SiteParts
    <3>3. run'[p].thread[1].at = run[p].thread[1].at
      BY <1>4 DEF Splits, Here
    <3>4. ASSUME NEW t \in DOMAIN run'[p].thread
          PROVE  ~BeyondIn(run'[p], t, s)
      BY <1>4, <3>1, <3>2 DEF BeyondIn, Splits
    <3> QED
      BY <2>2, <3>3, <3>4 DEF PassedBy
  <2> QED
    BY <1>0, <1>4, <2>1, <2>2 DEF Splits, PassedRecorded, RunOK
<1>5. CASE /\ pc[p] = "execute" /\ w \in Workflows
           /\ ContextAt(run[p], w, SignalOf(p)) /\ Resumes(p)
  <2>1. task' = task /\ results' = results
    BY <1>5 DEF Resumes, vars, memoryVars
  <2>2. ASSUME NEW s \in Sites(w), PassedBy(run'[p], s)
        PROVE  PassedBy(run[p], s)
    <3>1. s[1] < Here(p) + 1
      BY <1>5, <2>2 DEF Resumes, PassedBy, BeyondIn
    <3>2. s[1] \in Nat /\ Here(p) \in Nat
      BY <1>5, SiteParts, RunDomain DEF ContextAt, PlacedAt, IsThread, Here
    <3>3. CASE s[1] < Here(p)
      BY <3>3 DEF PassedBy, Here
    <3>4. CASE s[1] = Here(p)
      BY <1>5, <3>4, BranchesRun DEF Resumes
    <3> QED
      BY <3>1, <3>2, <3>3, <3>4
  <2>3. run[p] # NoRun
    BY <1>0, <1>5 DEF RunOK
  <2>4. DOMAIN run'[p].cache \subseteq DOMAIN results'[w]
    BY <1>5, <2>1, <2>3 DEF Resumes, PassedRecorded
  <2> QED
    BY <2>1, <2>2, <2>3, <2>4 DEF PassedRecorded
<1>6. CASE GivesUp(p) \/ Completes(p)
  <2>1. run'[p] = NoRun
    BY <1>0, <1>6 DEF GivesUp, Completes, Quits
  <2> QED
    BY <2>1 DEF PassedRecorded
<1> QED
  BY <1>1, <1>2, <1>3, <1>4, <1>5, <1>6, WorkerEffects DEF WorkerEffect

-----------------------------------------------------------------------------
(* The results of a completed workflow: the theorem                        *)

LEMMA RecordedKept ==
  ASSUME NEW w, Recorded(w), DOMAIN results[w] \subseteq DOMAIN results'[w]
  PROVE  Recorded(w)'
BY DEF Recorded

(* An execution that has come to its end has got beyond all its steps.     *)
LEMMA AllPassed ==
  ASSUME NEW p \in Workers, task[p].id \in Workflows,
         ContextAt(run[p], task[p].id, SignalOf(p)), run[p] # NoRun,
         Here(p) \notin DOMAIN Main(p), PassedRecorded(p)
  PROVE  Recorded(task[p].id)
<1> DEFINE w == task[p].id
<1>1. Here(p) \in 1..(Len(Program[w]) + 1)
  BY RunDomain DEF ContextAt, PlacedAt, ThreadAt, CodeOf, Here
<1>2. Len(Program[w]) \in Nat /\ DOMAIN Program[w] = 1..Len(Program[w])
  BY MainCode
<1>3. ASSUME NEW s \in Sites(w)
      PROVE  NameOf[w][s] \in DOMAIN results[w]
  <2>1. s[1] \in DOMAIN Program[w]
    BY SiteParts
  <2>2. s[1] < Here(p)
    BY <1>1, <1>2, <2>1 DEF Main
  <2> QED
    BY <2>2 DEF PassedRecorded, PassedBy, Here
<1>4. DOMAIN NameOf[w] = Sites(w)
  BY DEF NameOf
<1> QED
  BY <1>3, <1>4 DEF Recorded, Names, Range

LEMMA CompletesOwn ==
  ASSUME TypeOK, StepsInv, NEW p \in Workers, PassedRecorded(p), StepsWorker(p),
         pc'[p] = "resolve", outcome'[p].kind = "completed"
  PROVE  Recorded(task[p].id) /\ task'[p] = task[p] /\ task[p].id \in Workflows
<1> DEFINE w == task[p].id
<1>0. \A o : Quits(p, o) => outcome'[p] = o /\ task' = task
  BY DEF Quits, Return, TypeOK
<1>1. CASE Starts(p) /\ pc[p] = "signal"
  BY <1>1 DEF Starts, vars, memoryVars
<1>2. CASE Around(p)
  BY <1>2 DEF Around
<1>3. ASSUME pc[p] = "execute", NEW t \in DOMAIN run[p].thread, AtStep(p, t), Effect(p, t)
      PROVE  FALSE
  <2>1. ASSUME NEW o, o.kind # "completed", Quits(p, o)
        PROVE  FALSE
    BY <1>0, <2>1
  <2>2. ASSUME NEW th, Alters(p, t, th)
        PROVE  FALSE
    BY <1>3, <2>2 DEF Alters, vars, memoryVars
  <2> QED
    BY <1>3, <2>1, <2>2, EffectPlaces DEF Stays
<1>4. CASE pc[p] = "execute" /\ (Splits(p) \/ Resumes(p))
  BY <1>4 DEF Splits, Resumes, vars, memoryVars
<1>5. CASE ContextAt(run[p], w, SignalOf(p)) /\ GivesUp(p)
  <2>1. ErrOK(Joined(run[p].thread), SignalOf(p))
    BY <1>5, JoinedIsAnError DEF GivesUp, ContextAt, PlacedAt
  <2> QED
    BY <1>0, <1>5, <2>1 DEF GivesUp, ErrOK
<1>6. CASE /\ pc[p] = "execute" /\ w \in Workflows
           /\ ContextAt(run[p], w, SignalOf(p)) /\ Completes(p)
  <2>1. run[p] # NoRun
    BY <1>6 DEF StepsInv, RunsOK, RunOK
  <2> QED
    BY <1>0, <1>6, <2>1, AllPassed DEF Completes
<1> QED
  BY <1>1, <1>2, <1>3, <1>4, <1>5, <1>6, WorkerEffects DEF WorkerEffect

LEMMA WholeInit == StepsInit => WholeInv
<1> SUFFICES ASSUME StepsInit PROVE WholeInv
  OBVIOUS
<1>1. \A p \in Workers : run[p] = NoRun /\ pc[p] = "idle"
  BY DEF StepsInit, Init
<1>2. \A w \in Workflows : wf[w].status = "absent"
  BY DEF StepsInit, Init, StoreInit, AbsentRow
<1> QED
  BY <1>1, <1>2 DEF WholeInv, PassedRecorded, CompletesRecorded, CompletedHasResults

LEMMA WholeNext ==
  ASSUME TypeOK, CopiesCurrent, StepsInv, WholeInv, [StepsNext]_allVars
  PROVE  WholeInv'
<1>1. \A w \in Workflows : DOMAIN results[w] \subseteq DOMAIN results'[w]
  BY ResultsGrow
<1>2. [Next]_vars
  BY StepsNextInv
<1>3. ASSUME NEW p \in Workers
      PROVE  PassedRecorded(p)'
  <2>1. PassedRecorded(p) /\ RunOK(p)
    BY DEF WholeInv, StepsInv, RunsOK
  <2>2. CASE StepsWorker(p)
    BY <1>1, <2>1, <2>2, PassedOwn
  <2>3. CASE Idles(p)
    <3>1. CASE run'[p] = NoRun
      BY <3>1 DEF PassedRecorded
    <3>2. CASE run'[p] = run[p] /\ task'[p] = task[p] /\ run[p] # NoRun
      BY <1>1, <2>1, <3>2, PassedKept DEF RunOK
    <3> QED
      BY <2>3, <3>1, <3>2 DEF Idles
  <2> QED
    BY <2>2, <2>3, IdleWorkers
<1>4. ASSUME NEW p \in Workers
      PROVE  CompletesRecorded(p)'
  <2> SUFFICES ASSUME pc'[p] = "resolve", outcome'[p].kind = "completed"
               PROVE  Recorded(task[p].id)'
    BY DEF CompletesRecorded
  <2>1. Recorded(task[p].id) /\ task'[p] = task[p] /\ task[p].id \in Workflows
    <3>1. CASE StepsWorker(p)
      BY <3>1, CompletesOwn DEF WholeInv
    <3>2. CASE Idles(p)
      BY <3>2, TypeTasks DEF Idles, WholeInv, CompletesRecorded, TasksOK
    <3> QED
      BY <3>1, <3>2, IdleWorkers
  <2> QED
    BY <1>1, <2>1 DEF Recorded
<1>5. ASSUME NEW w \in Workflows, wf'[w].status = "completed"
      PROVE  Recorded(w)'
  <2>1. RowStep(w) /\ wf[w] \in Row
    BY <1>2, RowSteps, RowTypes
  <2>2. Recorded(w)
    <3>1. ASSUME NEW p \in Workers, RowRecorded(w, p)
          PROVE  Recorded(w)
      <4>1. outcome[p].kind = "completed"
        BY <1>5, <2>1, <3>1 DEF RowRecorded, Row
      <4> QED
        BY <3>1, <4>1 DEF RowRecorded, WholeInv, CompletesRecorded
    <3>2. CASE wf[w].status = "completed"
      BY <3>2 DEF WholeInv, CompletedHasResults, Recorded
    <3>3. wf'[w] = NewRow => wf'[w].status # "completed"
      BY DEF NewRow
    <3>4. wf'[w] = PromotedRow(wf[w]) => wf'[w].status # "completed"
      BY <2>1 DEF PromotedRow, Row
    <3>5. wf'[w] = [wf[w] EXCEPT !.signal = "cancel_requested"] =>
            wf'[w].status = wf[w].status
      BY <2>1 DEF Row
    <3> QED
      BY <1>5, <2>1, <3>1, <3>2, <3>3, <3>4, <3>5 DEF RowStep
  <2> QED
    BY <1>1, <2>2, RecordedKept
<1> QED
  BY <1>3, <1>4, <1>5 DEF WholeInv, CompletedHasResults, Recorded

(* A workflow is recorded as completed only with the results of all its    *)
(* steps in the store, however many engines and workers execute stale      *)
(* copies of it, whatever fails and whichever branches interleave.  Names  *)
(* may be shared between steps: a completed execution passed each of them. *)
THEOREM CompletedCorrect == StepsSpec => []CompletedHasResults
<1>1. TypeOK /\ CopiesCurrent /\ StepsInv /\ WholeInv /\ [StepsNext]_allVars
        => WholeInv'
  BY WholeNext
<1>2. WholeInv => CompletedHasResults
  BY DEF WholeInv
<1> QED
  BY <1>1, <1>2, WholeInit, StepsInvariant, PTL DEF StepsSpec

-----------------------------------------------------------------------------
(* What an execution is told is what is recorded: the invariant            *)

(* One engine, and steps with names of their own: what two engines record  *)
(* of one workflow, and steps that share a name, may differ.               *)
OneEngine == \A e, f \in Engines : e = f

NamesDistinct ==
  \A w \in Workflows : \A s, u \in Sites(w) :
    NameOf[w][s] = NameOf[w][u] => s = u

SiteIn(r, t) == SiteOf(r.thread[1].at, t, r.thread[t].at)
Kind(w, s) == StepAt(w, s).kind

(* The results f of workflow w have one for the call site s.               *)
Has(w, f, s) == NameOf[w][s] \in DOMAIN f
Got(w, f, s) == f[NameOf[w][s]]

(* What the workflow was told, and what is in the cache, is in the results; *)
(* a function runs only for want of a result, and no event is saved here.  *)
ReplayIn(r, w, f) ==
  /\ \A s \in DOMAIN r.view : Kind(w, s) # "wait" =>
       Has(w, f, s) /\ Got(w, f, s) = r.view[s]
  /\ \A s \in Sites(w) : Kind(w, s) # "wait" /\ Has(w, r.cache, s) =>
       Has(w, f, s) /\ Got(w, f, s) = Got(w, r.cache, s)
  /\ \A t \in DOMAIN r.thread : r.thread[t].loc \in {"fn", "save"} =>
       /\ Kind(w, SiteIn(r, t)) # "wait" => ~Has(w, f, SiteIn(r, t))
       /\ r.thread[t].loc = "save" => Kind(w, SiteIn(r, t)) # "wait"

ReplayOK(p) == run[p] # NoRun => ReplayIn(run[p], task[p].id, results[task[p].id])

(* Only events are waited for.                                             *)
WaitsOK(sub) ==
  \E u \in Sites(sub.id) : sub.name = NameOf[sub.id][u] /\ Kind(sub.id, u) = "wait"

AwaitedOK == \A k \in Keys : subs[k] # NoSub => WaitsOK(subs[k])

ReplayInv == AwaitedOK /\ \A p \in Workers : ReplayOK(p)

(* The results of the steps that do not wait are left alone.               *)
Undisturbed(w, f, g) ==
  \A s \in Sites(w) : Kind(w, s) # "wait" =>
    /\ Has(w, g, s) <=> Has(w, f, s)
    /\ Has(w, f, s) => Got(w, g, s) = Got(w, f, s)

LEMMA PlacedAtStep ==
  ASSUME NEW p, task[p].id \in Workflows,
         ContextAt(run[p], task[p].id, SignalOf(p)),
         NEW t \in DOMAIN run[p].thread,
         run[p].thread[t].loc \in {"lookup", "fn", "save"}
  PROVE  AtStep(p, t)
<1>1. ThreadAt(run[p].thread[t], CodeOf(task[p].id, run[p].thread[1].at, t))
  BY DEF ContextAt, PlacedAt
<1>2. Code(p, t) = CodeOf(task[p].id, run[p].thread[1].at, t)
  BY DEF Code, CodeOf, Main, Here
<1> QED
  BY <1>1, <1>2 DEF ThreadAt, AtStep, Step

LEMMA SiteInForm ==
  ASSUME NEW p, NEW t, AtStep(p, t)
  PROVE  /\ Site(p, t) = SiteIn(run[p], t) /\ Site(p, t) \in Sites(task[p].id)
         /\ Kind(task[p].id, Site(p, t)) = Step(p, t).kind
         /\ t \in Nat
<1>1. Site(p, t) = SiteIn(run[p], t)
  BY AtStepForm DEF SiteIn
<1>2. /\ Site(p, t) \in DOMAIN NameOf[task[p].id]
      /\ StepAt(task[p].id, Site(p, t)) = Step(p, t)
  BY AtStepCode
<1>3. task[p].id \in Workflows
  BY DEF AtStep
<1>4. DOMAIN NameOf[task[p].id] = Sites(task[p].id)
  BY <1>3 DEF NameOf
<1>5. t \in Nat
  BY AtStepForm DEF Reached
<1> QED
  BY <1>1, <1>2, <1>4, <1>5 DEF Kind

(* Goroutines are at call sites of their own.                              *)
LEMMA SitesDiffer ==
  ASSUME NEW p, NEW t, AtStep(p, t), NEW u, AtStep(p, u), u # t
  PROVE  SiteIn(run[p], u) # SiteIn(run[p], t)
<1>1. t \in Nat /\ u \in Nat
  BY SiteInForm
<1>2. SiteIn(run[p], u)[2] = u - 1 /\ SiteIn(run[p], t)[2] = t - 1
  BY DEF SiteIn, SiteOf
<1> QED
  BY <1>1, <1>2

LEMMA ReplayUndisturbed ==
  ASSUME NEW p, RunOK(p), run[p] # NoRun, NEW f, NEW g,
         ReplayIn(run[p], task[p].id, f), Undisturbed(task[p].id, f, g)
  PROVE  ReplayIn(run[p], task[p].id, g)
<1> DEFINE w == task[p].id
           r == run[p]
<1>1. w \in Workflows /\ ContextAt(r, w, SignalOf(p))
  BY DEF RunOK
<1>2. DOMAIN r.view \subseteq Sites(w)
  BY <1>1 DEF ContextAt, DataAt, Known, NameOf
<1>3. \A t \in DOMAIN r.thread : r.thread[t].loc \in {"fn", "save"} =>
        SiteIn(r, t) \in Sites(w)
  <2> TAKE t \in DOMAIN r.thread
  <2> HAVE r.thread[t].loc \in {"fn", "save"}
  <2>1. AtStep(p, t)
    BY <1>1, PlacedAtStep
  <2> QED
    BY <2>1, SiteInForm
<1> HIDE DEF w, r
<1>4. ReplayIn(r, w, f) /\ Undisturbed(w, f, g)
  BY DEF w, r
<1>5. ReplayIn(r, w, g)
  BY <1>2, <1>3, <1>4 DEF ReplayIn, Undisturbed
<1> QED
  BY <1>5 DEF w, r

(* Events and timeouts touch the results of waiting steps only.            *)
LEMMA DeliversUndisturbed ==
  ASSUME NamesDistinct, StepsInv, AwaitedOK, Delivers, NEW w \in Workflows
  PROVE  Undisturbed(w, results[w], results'[w])
<1> SUFFICES ASSUME NEW s \in Sites(w), Kind(w, s) # "wait"
             PROVE  ~Awaited(w, NameOf[w][s])
  BY DeliveredResults DEF Undisturbed, Has, Got
<1> SUFFICES ASSUME NEW k \in Keys, subs[k] # NoSub, subs[k].id = w,
                    subs[k].name = NameOf[w][s]
             PROVE  FALSE
  BY DEF Awaited
<1>1. PICK u \in Sites(w) : NameOf[w][s] = NameOf[w][u] /\ Kind(w, u) = "wait"
  BY DEF AwaitedOK, WaitsOK
<1>2. s = u
  BY <1>1 DEF NamesDistinct
<1> QED
  BY <1>1, <1>2

-----------------------------------------------------------------------------
(* What an execution is told is what is recorded: the steps                *)

(* Nothing of the results f is replaced.                                   *)
Extends(f, g) == \A n \in DOMAIN f : n \in DOMAIN g /\ g[n] = f[n]

(* A result is saved where there is none, and it is no event.              *)
LEMMA SavesFresh ==
  ASSUME NEW p, NEW t, AtStep(p, t), Saves(p, t), TablesOK,
         ReplayIn(run[p], task[p].id, results[task[p].id])
  PROVE  /\ NameOf[task[p].id][Site(p, t)] \notin DOMAIN results[task[p].id]
         /\ Step(p, t).kind # "wait"
         /\ Extends(results[task[p].id], results'[task[p].id])
         /\ DOMAIN results'[task[p].id]
              = DOMAIN results[task[p].id] \cup {NameOf[task[p].id][Site(p, t)]}
         /\ results'[task[p].id][NameOf[task[p].id][Site(p, t)]]
              = run[p].thread[t].val
<1> DEFINE w == task[p].id
           n == NameOf[w][Site(p, t)]
           f == results[w]
           g == results'[w]
           x == run[p].thread[t].val
<1>1. run[p].thread[t].loc = "save" /\ t \in DOMAIN run[p].thread
  BY DEF Saves, InStep
<1>2. /\ Site(p, t) = SiteIn(run[p], t)
      /\ Kind(w, Site(p, t)) = Step(p, t).kind
  BY SiteInForm
<1>3. Step(p, t).kind # "wait" /\ n \notin DOMAIN f
  BY <1>1, <1>2 DEF ReplayIn, Has
<1>4. g = Put(f, n, x)
  BY SavedResults
<1> HIDE DEF w, n, f, g, x
<1>5. /\ DOMAIN g = DOMAIN f \cup {n} /\ g[n] = x
      /\ \A m \in DOMAIN f : m # n => g[m] = f[m]
  BY <1>4 DEF Put, Merge
<1>6. Extends(f, g)
  BY <1>3, <1>5 DEF Extends
<1> QED
  BY <1>3, <1>5, <1>6 DEF w, n, f, g, x

(* What a goroutine leaves of what is known of its execution: its threads. *)
LEMMA ReplayGoesOn ==
  ASSUME NEW r, NEW q, NEW w, NEW f, NEW g, NEW t, NEW th,
         ReplayIn(r, w, f), Extends(f, g), Swapped(r, q, t, th), q.cache = r.cache,
         \A s \in DOMAIN q.view : Kind(w, s) # "wait" =>
           Has(w, g, s) /\ Got(w, g, s) = q.view[s],
         \A u \in DOMAIN q.thread : q.thread[u].loc \in {"fn", "save"} =>
           /\ Kind(w, SiteIn(q, u)) # "wait" => ~Has(w, g, SiteIn(q, u))
           /\ q.thread[u].loc = "save" => Kind(w, SiteIn(q, u)) # "wait"
  PROVE  ReplayIn(q, w, g)
<1>1. ASSUME NEW s \in Sites(w), Kind(w, s) # "wait", Has(w, q.cache, s)
      PROVE  Has(w, g, s) /\ Got(w, g, s) = Got(w, q.cache, s)
  BY <1>1 DEF ReplayIn, Extends, Has, Got
<1> QED
  BY <1>1 DEF ReplayIn

(* The other goroutines of an execution still have no result.              *)
LEMMA OthersMiss ==
  ASSUME NamesDistinct, TablesOK, NEW p, NEW t, AtStep(p, t), NEW th, Alters(p, t, th),
         task[p].id \in Workflows,
         \/ results' = results
         \/ Saves(p, t),
         ReplayIn(run[p], task[p].id, results[task[p].id]),
         NEW u \in DOMAIN run[p].thread, u # t, run[p].thread[u].loc \in {"fn", "save"}
  PROVE  /\ SiteIn(run'[p], u) = SiteIn(run[p], u)
         /\ run'[p].thread[u] = run[p].thread[u]
         /\ Kind(task[p].id, SiteIn(run[p], u)) # "wait" =>
              ~Has(task[p].id, results'[task[p].id], SiteIn(run[p], u))
         /\ run[p].thread[u].loc = "save" =>
              Kind(task[p].id, SiteIn(run[p], u)) # "wait"
<1> DEFINE w == task[p].id
           r == run[p]
           s == SiteIn(r, u)
<1>1. Swapped(r, run'[p], t, th) /\ IsRun(r)
  BY AtStepForm, AltersSwaps
<1>2. 1 \in DOMAIN r.thread /\ t \in DOMAIN r.thread
  BY <1>1, RunDomain DEF AtStep
<1>3. AtStep(p, u)
  BY PlacedAtStep DEF AtStep
<1>4. t # 1
  BY AloneWhenMain
<1>5. run'[p].thread[u] = r.thread[u] /\ run'[p].thread[1] = r.thread[1]
  BY <1>1, <1>2, <1>4 DEF Swapped
<1>6. SiteIn(run'[p], u) = s
  BY <1>5 DEF SiteIn
<1>7. ASSUME Kind(w, s) # "wait"
      PROVE  ~Has(w, results'[w], s)
  <2>1. ~Has(w, results[w], s)
    BY <1>7 DEF ReplayIn
  <2>2. CASE results' = results
    BY <2>1, <2>2
  <2>3. CASE Saves(p, t)
    <3>1. DOMAIN results'[w] = DOMAIN results[w] \cup {NameOf[w][Site(p, t)]}
      BY <2>3, SavesFresh
    <3>2. Site(p, t) = SiteIn(r, t) /\ Site(p, t) \in Sites(w) /\ s \in Sites(w)
      BY <1>3, SiteInForm
    <3>3. s # Site(p, t)
      BY <1>3, <3>2, SitesDiffer
    <3>4. NameOf[w][s] # NameOf[w][Site(p, t)]
      BY <3>2, <3>3 DEF NamesDistinct
    <3> QED
      BY <2>1, <3>1, <3>4 DEF Has
  <2> QED
    BY <2>2, <2>3
<1>8. r.thread[u].loc = "save" => Kind(w, s) # "wait"
  BY DEF ReplayIn
<1> QED
  BY <1>5, <1>6, <1>7, <1>8

(* What a goroutine tells the workflow of a step is recorded.              *)
LEMMA ToldRecorded ==
  ASSUME TablesOK, NEW p, NEW t, AtStep(p, t), NEW x, Told(p, t, x),
         ReplayIn(run[p], task[p].id, results[task[p].id]), Step(p, t).kind # "wait"
  PROVE  /\ NameOf[task[p].id][Site(p, t)] \in DOMAIN results'[task[p].id]
         /\ results'[task[p].id][NameOf[task[p].id][Site(p, t)]] = x
<1> DEFINE w == task[p].id
           s == Site(p, t)
<1>1. CASE Saves(p, t) /\ x = run[p].thread[t].val
  BY <1>1, SavesFresh
<1>2. CASE Finds(p, t, x)
  <2>1. NameHere(p, t) = NameOf[w][s]
    BY <1>2, NameHereForm DEF Finds
  <2>2. s \in Sites(w) /\ Kind(w, s) # "wait"
    BY SiteInForm
  <2>3. CASE NameOf[w][s] \in DOMAIN run[p].cache /\ x = run[p].cache[NameOf[w][s]]
    <3>1. Has(w, results[w], s) /\ Got(w, results[w], s) = Got(w, run[p].cache, s)
      BY <2>2, <2>3 DEF ReplayIn, Has
    <3> QED
      BY <1>2, <2>3, <3>1 DEF Has, Got, Finds
  <2> QED
    BY <1>2, <2>1, <2>3 DEF Finds
<1> QED
  BY <1>1, <1>2 DEF Told

(* A goroutine that goes on leaves all of it true.                         *)
LEMMA ReplayAlters ==
  ASSUME NamesDistinct, TablesOK, NEW p, NEW t, AtStep(p, t), NEW th, Alters(p, t, th),
         ReplayIn(run[p], task[p].id, results[task[p].id]),
         results' = results \/ Saves(p, t),
         th.loc \in {"fn", "save"} =>
           /\ results' = results /\ th.at = run[p].thread[t].at
           /\ Step(p, t).kind # "wait" =>
                ~Has(task[p].id, results[task[p].id], Site(p, t))
           /\ th.loc = "save" => Step(p, t).kind # "wait",
         \/ run'[p].view = run[p].view
         \/ \E x : /\ run'[p].view = Put(run[p].view, Site(p, t), x)
                   /\ Told(p, t, x)
  PROVE  ReplayIn(run'[p], task[p].id, results'[task[p].id])
<1> DEFINE w == task[p].id
           r == run[p]
           q == run'[p]
           f == results[w]
           g == results'[w]
<1>1. Swapped(r, q, t, th) /\ q.cache = r.cache /\ IsRun(r)
  BY AtStepForm, AltersSwaps
<1>2. w \in Workflows /\ t \in DOMAIN r.thread
  BY DEF AtStep
<1>3. Extends(f, g)
  <2>1. CASE results' = results
    BY <2>1 DEF Extends
  <2> QED
    BY <2>1, SavesFresh
<1>4. ASSUME NEW s \in DOMAIN q.view, Kind(w, s) # "wait"
      PROVE  Has(w, g, s) /\ Got(w, g, s) = q.view[s]
  <2>1. ASSUME s \in DOMAIN r.view, q.view[s] = r.view[s]
        PROVE  Has(w, g, s) /\ Got(w, g, s) = q.view[s]
    BY <1>3, <1>4, <2>1 DEF ReplayIn, Has, Got, Extends
  <2>2. ASSUME NEW x, q.view = Put(r.view, Site(p, t), x), Told(p, t, x)
        PROVE  Has(w, g, s) /\ Got(w, g, s) = q.view[s]
    <3>1. CASE s = Site(p, t)
      <4>1. q.view[s] = x
        BY <2>2, <3>1 DEF Put, Merge
      <4>2. Step(p, t).kind # "wait"
        BY <1>4, <3>1, SiteInForm
      <4> QED
        BY <2>2, <3>1, <4>1, <4>2, ToldRecorded DEF Has, Got
    <3>2. CASE s # Site(p, t)
      <4>1. s \in DOMAIN r.view /\ q.view[s] = r.view[s]
        BY <1>4, <2>2, <3>2 DEF Put, Merge
      <4> QED
        BY <2>1, <4>1
    <3> QED
      BY <3>1, <3>2
  <2> QED
    BY <1>4, <2>1, <2>2
<1>5. ASSUME NEW u \in DOMAIN q.thread, q.thread[u].loc \in {"fn", "save"}
      PROVE  /\ Kind(w, SiteIn(q, u)) # "wait" => ~Has(w, g, SiteIn(q, u))
             /\ q.thread[u].loc = "save" => Kind(w, SiteIn(q, u)) # "wait"
  <2>1. CASE u = t
    <3>1. th.loc \in {"fn", "save"} /\ q.thread[u].loc = th.loc
      BY <1>1, <1>5, <2>1 DEF Swapped
    <3>2. th.at = r.thread[t].at
      BY <3>1
    <3>3. q.thread[1].at = r.thread[1].at
      BY <1>1, <1>2, <3>2, RunDomain DEF Swapped
    <3>4. SiteIn(q, u) = SiteIn(r, t)
      BY <1>1, <2>1, <3>2, <3>3 DEF Swapped, SiteIn
    <3>5. Site(p, t) = SiteIn(r, t) /\ Kind(w, Site(p, t)) = Step(p, t).kind
      BY SiteInForm
    <3> QED
      BY <3>1, <3>4, <3>5
  <2>2. CASE u # t
    <3>1. u \in DOMAIN r.thread /\ q.thread[u] = r.thread[u]
      BY <1>1, <1>5, <2>2 DEF Swapped
    <3> QED
      BY <1>2, <1>5, <2>2, <3>1, OthersMiss
  <2> QED
    BY <2>1, <2>2
<1> HIDE DEF w, r, q, f, g
<1>6. ReplayIn(r, w, f)
  BY DEF w, r, f
<1>7. ReplayIn(q, w, g)
  BY <1>1, <1>3, <1>4, <1>5, <1>6, ReplayGoesOn
<1> QED
  BY <1>7 DEF w, q, g

LEMMA QuitsForgets ==
  ASSUME StepsInv, NEW p \in Workers, NEW o, Quits(p, o)
  PROVE  run'[p] = NoRun
BY DEF Quits, StepsInv, RunsOK

LEMMA ReplayLeaves ==
  ASSUME NamesDistinct, StepsInv, NEW p \in Workers, NEW t, AtStep(p, t),
         NEW o, NEW at, NEW view, Leaves(p, t, o, at, view),
         ReplayIn(run[p], task[p].id, results[task[p].id]),
         results' = results \/ Saves(p, t),
         \/ view = run[p].view
         \/ \E x : view = Put(run[p].view, Site(p, t), x) /\ Told(p, t, x)
  PROVE  ReplayOK(p)'
<1>1. CASE Quits(p, o)
  BY <1>1, QuitsForgets DEF ReplayOK
<1>2. CASE ~Quits(p, o)
  <2>1. PICK th : Alters(p, t, th) /\ run'[p].view = view /\ th.loc = "done"
    BY <1>2 DEF Leaves
  <2>2. task' = task /\ TablesOK
    BY <2>1 DEF Alters, vars, memoryVars, StepsInv
  <2> QED
    BY <2>1, <2>2, ReplayAlters DEF ReplayOK
<1> QED
  BY <1>1, <1>2

LEMMA ReplayGoes ==
  ASSUME NamesDistinct, StepsInv, NEW p \in Workers, NEW t, AtStep(p, t),
         NEW loc \in {"enter", "lookup"}, NEW at, NEW view, Goes(p, t, loc, at, view),
         ReplayIn(run[p], task[p].id, results[task[p].id]),
         results' = results \/ Saves(p, t),
         \/ view = run[p].view
         \/ \E x : view = Put(run[p].view, Site(p, t), x) /\ Told(p, t, x)
  PROVE  ReplayOK(p)'
<1>1. PICK th : Alters(p, t, th) /\ run'[p].view = view /\ th.loc = loc
  BY DEF Goes
<1>2. task' = task /\ TablesOK /\ th.loc \notin {"fn", "save"}
  BY <1>1 DEF Alters, vars, memoryVars, StepsInv
<1> QED
  BY <1>1, <1>2, ReplayAlters DEF ReplayOK

LEMMA ReplayGoroutine ==
  ASSUME NamesDistinct, StepsInv, NEW p \in Workers, NEW t, AtStep(p, t),
         ReplayIn(run[p], task[p].id, results[task[p].id]), Effect(p, t)
  PROVE  ReplayOK(p)'
<1> DEFINE r == run[p]
           at == r.thread[t].at
<1>0. TablesOK
  BY DEF StepsInv
<1>1. CASE Fails(p, t)
  <2>1. PICK o : Leaves(p, t, o, at, r.view) /\ results' = results
    BY <1>1 DEF Fails
  <2> QED
    BY <2>1, ReplayLeaves
<1>2. CASE Enters(p, t)
  BY <1>2, ReplayGoes DEF Enters
<1>3. CASE Misses(p, t)
  <2>1. PICK th : /\ Alters(p, t, th) /\ run'[p].view = r.view
                  /\ th.at = at /\ th.loc = "fn"
    BY <1>3 DEF Misses, Goes
  <2>2. results' = results /\ task' = task
    BY <1>3, <2>1 DEF Misses, Alters, vars, memoryVars
  <2>3. ~Has(task[p].id, results[task[p].id], Site(p, t))
    BY <1>3, NameHereForm DEF Misses, Has
  <2> QED
    BY <1>0, <2>1, <2>2, <2>3, ReplayAlters DEF ReplayOK
<1>4. CASE Computes(p, t)
  <2>1. PICK th : /\ Alters(p, t, th) /\ run'[p].view = r.view
                  /\ th.at = at /\ th.loc = "save"
    BY <1>4 DEF Computes
  <2>2. results' = results /\ task' = task /\ Step(p, t).kind # "wait"
    BY <1>4, <2>1 DEF Computes, Alters, vars, memoryVars
  <2>3. ~Has(task[p].id, results[task[p].id], Site(p, t))
    <3>1. Site(p, t) = SiteIn(r, t) /\ Kind(task[p].id, Site(p, t)) # "wait"
      BY <2>2, SiteInForm
    <3>2. t \in DOMAIN r.thread /\ r.thread[t].loc = "fn"
      BY <1>4 DEF Computes, AtStep
    <3> QED
      BY <3>1, <3>2 DEF ReplayIn
  <2> QED
    BY <1>0, <2>1, <2>2, <2>3, ReplayAlters DEF ReplayOK
<1>5. CASE Learns(p, t)
  <2>1. PICK x : /\ Told(p, t, x)
                 /\ \/ \E o : Leaves(p, t, o, at + 1, Put(r.view, Site(p, t), x))
                    \/ Goes(p, t, "enter", at + 1, Put(r.view, Site(p, t), x))
    BY <1>5 DEF Learns
  <2>2. results' = results \/ Saves(p, t)
    BY <2>1 DEF Told, Finds
  <2> QED
    BY <2>1, <2>2, ReplayLeaves, ReplayGoes
<1>6. CASE Waits(p, t) \/ Yields(p, t)
  <2>1. PICK o : Leaves(p, t, o, at, r.view) /\ results' = results
    BY <1>6 DEF Waits, SubscribesTo, Yields
  <2> QED
    BY <2>1, ReplayLeaves
<1> QED
  BY <1>1, <1>2, <1>3, <1>4, <1>5, <1>6 DEF Effect

LEMMA ReplayOwn ==
  ASSUME NamesDistinct, TypeOK, StepsInv, NEW p \in Workers, ReplayOK(p), StepsWorker(p)
  PROVE  ReplayOK(p)'
<1> DEFINE w == task[p].id
<1>0. p \in DOMAIN run /\ RunOK(p)
  BY DEF StepsInv, RunsOK
<1>1. CASE Starts(p) /\ w \in Workflows
  <2>1. task' = task /\ results' = results
    BY <1>1 DEF Starts, vars, memoryVars
  <2>2. /\ \A t \in DOMAIN run'[p].thread : run'[p].thread[t].loc \notin {"fn", "save"}
        /\ run'[p].cache = results[w] /\ DOMAIN run'[p].view = {}
    BY <1>1 DEF Starts
  <2>3. ReplayIn(run'[p], w, results[w])
    BY <2>2 DEF ReplayIn
  <2> QED
    BY <2>1, <2>3 DEF ReplayOK
<1>2. CASE Around(p)
  <2>1. CASE run'[p] = NoRun
    BY <2>1 DEF ReplayOK
  <2>2. CASE run' = run /\ task'[p] = task[p] /\ results' = results
    BY <2>2 DEF ReplayOK
  <2> QED
    BY <1>0, <1>2, <2>1, <2>2 DEF Around
<1>3. ASSUME pc[p] = "execute", NEW t \in DOMAIN run[p].thread,
             AtStep(p, t), Effect(p, t)
      PROVE  ReplayOK(p)'
  BY <1>0, <1>3, ReplayGoroutine DEF RunOK, ReplayOK
<1>4. CASE pc[p] = "execute" /\ (Splits(p) \/ Resumes(p))
  <2>1. task' = task /\ results' = results
    BY <1>4 DEF Splits, Resumes, vars, memoryVars
  <2>2. /\ \A t \in DOMAIN run'[p].thread : run'[p].thread[t].loc \notin {"fn", "save"}
        /\ run'[p].cache = run[p].cache /\ run'[p].view = run[p].view
    BY <1>4 DEF Splits, Resumes
  <2>3. ReplayIn(run[p], w, results[w])
    BY <1>0, <1>4 DEF RunOK, ReplayOK
  <2>4. ReplayIn(run'[p], w, results[w])
    BY <2>2, <2>3 DEF ReplayIn
  <2> QED
    BY <2>1, <2>4 DEF ReplayOK
<1>5. CASE GivesUp(p) \/ Completes(p)
  <2>1. run'[p] = NoRun
    BY <1>5, QuitsForgets DEF GivesUp, Completes
  <2> QED
    BY <2>1 DEF ReplayOK
<1> QED
  BY <1>1, <1>2, <1>3, <1>4, <1>5, WorkerEffects DEF WorkerEffect

LEMMA AwaitedNext ==
  ASSUME TypeOK, StepsInv, AwaitedOK, [StepsNext]_allVars
  PROVE  AwaitedOK'
<1> SUFFICES ASSUME NEW k \in Keys, subs'[k] # NoSub PROVE WaitsOK(subs'[k])
  BY DEF AwaitedOK, WaitsOK, Kind, StepAt, UpTo
<1>1. ASSUME subs'[k] = subs[k] \/ subs'[k] = NoSub
      PROVE  WaitsOK(subs'[k])
  BY <1>1 DEF AwaitedOK
<1>2. ASSUME NEW p \in Workers, StepsWorker(p)
      PROVE  WaitsOK(subs'[k])
  <2>1. ASSUME NEW t, AtStep(p, t), SubscribesTo(p, t), subs'[k] # subs[k]
        PROVE  WaitsOK(subs'[k])
    <3> DEFINE w == task[p].id
               n == NameHere(p, t)
               sub == [id |-> w, name |-> n, deadline |-> At(now + Step(p, t).span)]
    <3>1. subs = [h \in Keys |-> subs[h]]
      BY DEF StepsInv, TablesOK
    <3>2. Step(p, t).kind = "wait" /\ run[p].thread[t].loc = "fn"
          /\ subs' = [subs EXCEPT ![Step(p, t).key] = sub]
      BY <2>1 DEF SubscribesTo, InStep
    <3>3. n = NameOf[w][Site(p, t)] /\ Site(p, t) \in Sites(w)
          /\ Kind(w, Site(p, t)) = "wait"
      BY <2>1, <3>2, NameHereForm, SiteInForm
    <3> HIDE DEF w, n
    <3>4. subs'[k] = sub
      BY <2>1, <3>1, <3>2
    <3> QED
      BY <3>3, <3>4 DEF WaitsOK
  <2>2. ASSUME NEW t, AtStep(p, t), Effect(p, t)
        PROVE  WaitsOK(subs'[k])
    BY <1>1, <2>1, <2>2, EffectResults
  <2> QED
    BY <1>1, <1>2, <2>2, WorkerEffects DEF WorkerEffect, Starts, Around, Splits,
       Resumes, GivesUp, Completes
<1>3. CASE Besides
  <2>1. CASE Delivers
    BY <1>1, <2>1 DEF Delivers, Deliver
  <2> QED
    BY <1>1, <1>3, <2>1 DEF Besides
<1>4. CASE \E e \in Engines : Dies(e)
  BY <1>1, <1>4 DEF Dies
<1> QED
  BY <1>2, <1>3, <1>4, StepKinds

(* Workers of one engine hold different workflows.                         *)
LEMMA Exclusive ==
  ASSUME OneEngine, LeaseForm, NEW p \in Workers, NEW q \in Workers, p # q,
         pc[p] # "idle", pc[q] # "idle"
  PROVE  task[p].id # task[q].id
<1>1. EngineOf[p] \in Engines /\ EngineOf[q] = EngineOf[p]
  BY EnginesAssumption DEF OneEngine
<1> QED
  BY <1>1 DEF LeaseForm, BusyAt

LEMMA WorkerClock ==
  ASSUME TypeOK, StepsInv, NEW p \in Workers, StepsWorker(p)
  PROVE  now' = now
<1>1. WorkerStep(p) => now' = now
  BY DEF WorkerStep, DropUnregistered, DropHeld, Acquire,
     ObserveCancel, BeginExecute, Execute, Return, RecordCancelled,
     RecordPermanent, RecordSuspend, RecordExhausted, RecordRetry,
     RecordCompleted, Resolving, Conflict, StoreFails, Release
<1>2. UNCHANGED vars => now' = now
  BY DEF vars, memoryVars
<1> QED
  BY <1>1, <1>2, WorkerForms, WorkerImplements

(* While a worker holds a workflow only it and events record its results.  *)
LEMMA ResultsBeside ==
  ASSUME OneEngine, TypeOK, LeaseForm, StepsInv, [StepsNext]_allVars,
         NEW p \in Workers, pc[p] # "idle", ~StepsWorker(p)
  PROVE  \/ results'[task[p].id] = results[task[p].id] /\ now' = now
         \/ /\ Besides
            /\ Delivers \/ results' = results
<1>1. ASSUME NEW q \in Workers, StepsWorker(q)
      PROVE  results'[task[p].id] = results[task[p].id] /\ now' = now
  <2>1. task[p].id \in Workflows
    BY TypeTasks DEF TasksOK
  <2>2. ASSUME NEW t, pc[q] = "execute", AtStep(q, t), Effect(q, t)
        PROVE  results'[task[p].id] = results[task[p].id]
    <3>1. CASE Saves(q, t)
      <4>1. task[p].id # task[q].id
        BY <1>1, <2>2, Exclusive
      <4> QED
        BY <2>1, <2>2, <3>1, <4>1, SavedResults DEF StepsInv
    <3> QED
      BY <2>2, <3>1, EffectResults
  <2>3. results'[task[p].id] = results[task[p].id]
    BY <1>1, <2>2, WorkerEffects DEF WorkerEffect, Starts, Around, Splits,
       Resumes, GivesUp, Completes
  <2>4. now' = now
    BY <1>1, WorkerClock
  <2> QED
    BY <2>3, <2>4
<1>2. CASE Besides
  BY <1>2 DEF Besides
<1>3. CASE \E e \in Engines : Dies(e)
  BY <1>3 DEF Dies
<1> QED
  BY <1>1, <1>2, <1>3, StepKinds

-----------------------------------------------------------------------------
(* What an execution is told is what is recorded: the theorems             *)

LEMMA ReplayNext ==
  ASSUME OneEngine, NamesDistinct, TypeOK, LeaseForm, StepsInv, ReplayInv,
         [StepsNext]_allVars
  PROVE  ReplayInv'
<1>1. AwaitedOK'
  BY AwaitedNext DEF ReplayInv
<1>2. ASSUME NEW p \in Workers
      PROVE  ReplayOK(p)'
  <2>1. ReplayOK(p) /\ RunOK(p)
    BY DEF ReplayInv, StepsInv, RunsOK
  <2>2. CASE StepsWorker(p)
    BY <2>1, <2>2, ReplayOwn
  <2>3. CASE ~StepsWorker(p) /\ run'[p] = run[p] /\ task'[p] = task[p] /\ run[p] # NoRun
    <3> DEFINE w == task[p].id
    <3>1. pc[p] # "idle" /\ w \in Workflows
      BY <2>1, <2>3 DEF RunOK
    <3>2. results'[w] = results[w] \/ Delivers
      BY <2>3, <3>1, ResultsBeside
    <3>3. Undisturbed(w, results[w], results'[w])
      <4>1. CASE results'[w] = results[w]
        BY <4>1 DEF Undisturbed
      <4>2. CASE Delivers
        BY <3>1, <4>2, DeliversUndisturbed DEF ReplayInv
      <4> QED
        BY <3>2, <4>1, <4>2
    <3>4. ReplayIn(run[p], w, results[w])
      BY <2>1, <2>3 DEF ReplayOK
    <3>5. ReplayIn(run[p], w, results'[w])
      BY <2>1, <2>3, <3>3, <3>4, ReplayUndisturbed
    <3> QED
      BY <2>3, <3>5 DEF ReplayOK
  <2>4. CASE run'[p] = NoRun
    BY <2>4 DEF ReplayOK
  <2> QED
    BY <2>2, <2>3, <2>4, IdleWorkers DEF Idles
<1> QED
  BY <1>1, <1>2 DEF ReplayInv

LEMMA ReplayInit == StepsInit => ReplayInv
<1> SUFFICES ASSUME StepsInit PROVE ReplayInv
  OBVIOUS
<1>1. \A p \in Workers : run[p] = NoRun
  BY DEF StepsInit
<1>2. \A k \in Keys : subs[k] = NoSub
  BY DEF StepsInit
<1> QED
  BY <1>1, <1>2 DEF ReplayInv, ReplayOK, AwaitedOK

LEMMA LeasesHeld == StepsSpec => []LeaseForm
<1>1. StepsSpec => Spec
  BY DurableStepsImplementDispatch DEF StepsImplementDispatch
<1> QED
  BY <1>1, LeasesCorrect, LeaseFormEquivalent, PTL

LEMMA ReplayInvariant ==
  ASSUME OneEngine, NamesDistinct
  PROVE  StepsSpec => []ReplayInv
<1>1. TypeOK /\ CopiesCurrent /\ StepsInv /\ LeaseForm /\ ReplayInv
        /\ [StepsNext]_allVars => ReplayInv'
  BY ReplayNext
<1> QED
  BY <1>1, ReplayInit, StepsInvariant, LeasesHeld, PTL DEF StepsSpec

(* The function of a run, get or sleep step is not called again once its   *)
(* result is recorded: for one engine, and steps with names of their own,  *)
(* whichever stale copy of the row an execution started from and whatever  *)
(* was interrupted before.                                                 *)
THEOREM EachRecordedOnce ==
  ASSUME OneEngine, NamesDistinct
  PROVE  StepsSpec => []RecordedOnce
<1>1. ASSUME StepsInv, ReplayInv
      PROVE  RecordedOnce
  <2> SUFFICES ASSUME NEW p \in Busy, NEW t \in DOMAIN run[p].thread,
                      InStep(p, t, "fn") \/ InStep(p, t, "save"),
                      Step(p, t).kind # "wait"
               PROVE  NameHere(p, t) \notin DOMAIN results[task[p].id]
    BY DEF RecordedOnce
  <2>1. /\ p \in Workers /\ pc[p] = "execute"
        /\ run[p].thread[t].loc \in {"fn", "save"}
    BY DEF Busy, InStep
  <2>2. RunOK(p) /\ run[p] # NoRun /\ ReplayOK(p)
    BY <1>1, <2>1 DEF StepsInv, RunsOK, RunOK, ReplayInv
  <2>3. AtStep(p, t)
    BY <2>1, <2>2, PlacedAtStep DEF RunOK
  <2>4. /\ Site(p, t) = SiteIn(run[p], t)
        /\ Kind(task[p].id, Site(p, t)) # "wait"
        /\ NameHere(p, t) = NameOf[task[p].id][Site(p, t)]
    BY <2>1, <2>3, SiteInForm, NameHereForm
  <2> QED
    BY <2>1, <2>2, <2>4 DEF ReplayOK, ReplayIn, Has
<1> QED
  BY <1>1, ReplayInvariant, StepsInvariant, PTL

(* What Run, Get or SleepUntil told an execution is in the store under the *)
(* name of that call alone, and nothing replaces it: a later execution is  *)
(* told the same, however the branches are scheduled.                      *)
THEOREM ReplaysAgree ==
  ASSUME OneEngine, NamesDistinct
  PROVE  StepsSpec => []ReplayAgrees
<1>1. ASSUME StepsInv, ReplayInv
      PROVE  ReplayAgrees
  <2> SUFFICES ASSUME NEW p \in Busy, NEW s \in DOMAIN run[p].view,
                      StepAt(task[p].id, s).kind # "wait"
               PROVE  /\ NameOf[task[p].id][s] \in DOMAIN results[task[p].id]
                      /\ results[task[p].id][NameOf[task[p].id][s]] = run[p].view[s]
    BY DEF ReplayAgrees
  <2>1. p \in Workers /\ ReplayOK(p)
    BY <1>1 DEF Busy, ReplayInv
  <2>2. run[p] # NoRun
    BY DEF NoRun
  <2> QED
    BY <2>1, <2>2 DEF ReplayOK, ReplayIn, Kind, Has, Got
<1> QED
  BY <1>1, ReplayInvariant, StepsInvariant, PTL
=============================================================================
