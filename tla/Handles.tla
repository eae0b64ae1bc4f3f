------------------------------- MODULE Handles -------------------------------
(***************************************************************************)
(* What an application sees of the engines of Dispatch: the handles of     *)
(* registry.go, whose Status and Result read a row and then, in a second   *)
(* access, the leases of the engine the handle came from, and the gauge of *)
(* executing workflows that runner.go keeps with otel.go.                  *)
(*                                                                         *)
(* One application thread asks about any workflow on any engine, one call  *)
(* after the other.  Every step is a step of Dispatch or leaves it alone.  *)
(***************************************************************************)
EXTENDS Dispatch

VARIABLES
  told,     \* what the thread was told of each workflow last: a terminal
            \* status, or that the workflow is open
  active    \* the gauge workflow.active of each engine

handleVars == <<told, active>>
allVars    == <<vars, handleVars>>

HandlesInit ==
  /\ Init
  /\ told = [w \in Workflows |-> "open"]
  /\ active = [e \in Engines |-> 0]

-----------------------------------------------------------------------------
(* Status and Result                                                       *)

(* Pending, running and suspended are not told apart.                      *)
AnswerOf(status) == IF status \in Terminal THEN status ELSE "open"

(* Mutant of Ask: the lease decides whatever the durable status is.        *)
AskLeaseFirst(e, w) ==
  /\ phase[e] # "down" /\ wf[w].status # "absent"
  /\ told' = [told EXCEPT ![w] = IF w \in leases[e]
                                 THEN "open" ELSE AnswerOf(wf[w].status)]
  /\ UNCHANGED <<vars, active>>

(* Get, then deriveStatus: only a pending row sends it to the leases, for  *)
(* running or pending, so that the read of the row settles the answer.     *)
Ask(e, w) ==
  /\ phase[e] # "down" /\ wf[w].status # "absent"
  /\ told' = [told EXCEPT ![w] = AnswerOf(wf[w].status)]
  /\ UNCHANGED <<vars, active>>

-----------------------------------------------------------------------------
(* adjustActive on the paths of LocalRunner.Run                            *)

Adjust(p, delta) ==
  /\ active' = [active EXCEPT ![EngineOf[p]] = @ + delta]
  /\ UNCHANGED told

CountedAcquire(p) == Acquire(p) /\ Adjust(p, 1)

CountedReturn(p) == (ObserveCancel(p) \/ Execute(p)) /\ Adjust(p, -1)

(* Mutants of CountedFailure: the early returns of Run forget the gauge;   *)
(* it goes down again with the failing write.                              *)
UncountedFailure(p) == StoreFails(p) /\ UNCHANGED handleVars

TwiceCountedFailure(p) == StoreFails(p) /\ Adjust(p, -1)

(* The early returns, and the failing write after the gauge went down.     *)
CountedFailure(p) ==
  /\ StoreFails(p)
  /\ Adjust(p, IF pc[p] = "signal" THEN -1 ELSE 0)

(* The gauge of a process is gone with it.                                 *)
CountedCrash(e) ==
  /\ Crash(e)
  /\ active' = [active EXCEPT ![e] = 0]
  /\ UNCHANGED told

HandlesNext ==
  \/ \E e \in Engines, w \in Workflows : Ask(e, w)
  \/ \E p \in Workers :
       \/ CountedAcquire(p) \/ CountedReturn(p) \/ CountedFailure(p)
       \/ /\ \/ DropUnregistered(p) \/ DropHeld(p) \/ BeginExecute(p)
             \/ RecordCancelled(p) \/ RecordPermanent(p) \/ RecordSuspend(p)
             \/ RecordExhausted(p) \/ RecordRetry(p) \/ RecordCompleted(p)
             \/ Conflict(p) \/ Release(p)
          /\ UNCHANGED handleVars
  \/ \E e \in Engines :
       \/ CountedCrash(e)
       \/ /\ \/ Promote(e) \/ Poll(e)
             \/ Stop(e) \/ DrainTimeout(e) \/ StartReturns(e) \/ Restart(e)
          /\ UNCHANGED handleVars
  \/ (ClientStep \/ PassTime) /\ UNCHANGED handleVars

HandlesSpec == HandlesInit /\ [][HandlesNext]_allVars

-----------------------------------------------------------------------------
(* Properties                                                              *)

(* Every variable has its type.                                            *)
HandlesTypeOK ==
  /\ TypeOK
  /\ told \in [Workflows -> {"open"} \cup Terminal]
  /\ active \in [Engines -> Nat]

(* The gauge of executing workflows counts the workers between Acquire and *)
(* the return of the workflow, whichever way out of Run was taken, on      *)
(* every engine: it neither leaks nor goes below zero.                     *)
ActiveCounts ==
  \A e \in Engines :
    active[e] = Cardinality({p \in Running(e) : pc[p] \in {"signal", "execute"}})

(* A terminal status an application was told is never taken back, on       *)
(* whatever engine it asks next, although stale copies of the workflow may *)
(* still be executed under a lease then.                                   *)
TerminalAnswerStands ==
  [][\A w \in Workflows : told[w] \in Terminal => told'[w] = told[w]]_allVars
=============================================================================
