------------------------------ MODULE Lifecycle ------------------------------
(***************************************************************************)
(* What flicker promises about one workflow row, whoever executes it and   *)
(* however often (flicker.go, errors.go, store.go): an outcome is recorded *)
(* only for a pending workflow, a recorded terminal status is final, a     *)
(* workflow is retried at most MaxAttempts - 1 times, a suspended workflow *)
(* goes on from pending, and a request to cancel is never taken back.  The *)
(* engine in Dispatch implements this specification.                       *)
(***************************************************************************)
EXTENDS Naturals

CONSTANTS
  Workflows,     \* workflow ids
  MaxAttempts    \* RetryPolicy.MaxAttempts

VARIABLES
  status,        \* durable status of each workflow
  attempts,      \* transient failures recorded so far
  signal         \* what somebody asked the workflow to do

vars == <<status, attempts, signal>>

Final == {"completed", "failed", "cancelled"}

Init ==
  /\ status = [w \in Workflows |-> "absent"]
  /\ attempts = [w \in Workflows |-> 0]
  /\ signal = [w \in Workflows |-> "none"]

Submit(w) ==
  /\ status[w] = "absent"
  /\ status' = [status EXCEPT ![w] = "pending"]
  /\ UNCHANGED <<attempts, signal>>

RequestCancel(w) ==
  /\ status[w] # "absent"
  /\ signal' = [signal EXCEPT ![w] = "cancel_requested"]
  /\ UNCHANGED <<status, attempts>>

(* The workflow leaves pending.  A workflow may return ErrCancelled of its *)
(* own accord, so that Cancel needs no request.                            *)
Become(w, s) ==
  /\ status[w] = "pending"
  /\ status' = [status EXCEPT ![w] = s]
  /\ UNCHANGED <<attempts, signal>>

Complete(w) == Become(w, "completed")
Fail(w)     == Become(w, "failed")
Park(w)     == Become(w, "suspended")
Cancel(w)   == Become(w, "cancelled")

Retry(w) ==
  /\ status[w] = "pending"
  /\ attempts[w] + 1 < MaxAttempts
  /\ attempts' = [attempts EXCEPT ![w] = @ + 1]
  /\ UNCHANGED <<status, signal>>

(* One promotion cycle may resume many workflows at once.                  *)
Resume(S) ==
  /\ S # {}
  /\ \A w \in S : status[w] = "suspended"
  /\ status' = [w \in Workflows |-> IF w \in S THEN "pending" ELSE status[w]]
  /\ UNCHANGED <<attempts, signal>>

Next ==
  \/ \E w \in Workflows :
       \/ Submit(w) \/ RequestCancel(w)
       \/ Complete(w) \/ Fail(w) \/ Park(w) \/ Cancel(w) \/ Retry(w)
  \/ \E S \in SUBSET Workflows : Resume(S)

Spec == Init /\ [][Next]_vars
=============================================================================
