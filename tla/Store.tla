-------------------------------- MODULE Store --------------------------------
(***************************************************************************)
(* The workflows table of sqlite/sqlite.go: one row per workflow instance  *)
(* and the statements that change it.  Every operation is one statement or *)
(* one transaction of the database, hence one atomic action here.          *)
(*                                                                         *)
(* Left out: payload, result, error text and updated_at (no statement      *)
(* reads them to decide anything).  Times are natural numbers, Second of   *)
(* them to the second; the empty string that formatTime gives the zero     *)
(* time.Time is NoTime.                                                    *)
(***************************************************************************)
EXTENDS Naturals, Sequences, FiniteSets

CONSTANTS
  Workflows,   \* the workflow ids that may ever be submitted
  Horizon,     \* bound: the last instant of the model's clock
  Second       \* instants per second

ASSUME HorizonAssumption == Horizon \in Nat \ {0}
ASSUME SecondAssumption == Second \in Nat \ {0}

VARIABLES
  wf,          \* the workflows table; a missing row has status "absent"
  now          \* the wall clock read by nowFn

NoTime == 0

Terminal == {"completed", "failed", "cancelled"}
Status   == {"absent", "pending", "suspended"} \cup Terminal
Signal   == {"none", "cancel_requested"}

Row == [status     : Status,
        signal     : Signal,
        attempts   : Nat,
        occ        : Nat,
        retryAfter : 0..Horizon,
        createdAt  : 0..Horizon]

AbsentRow == [status |-> "absent", signal |-> "none", attempts |-> 0,
              occ |-> 0, retryAfter |-> NoTime, createdAt |-> NoTime]

StoreInit ==
  /\ wf = [w \in Workflows |-> AbsentRow]
  /\ now = 1

(* Times past the horizon are not told apart from the horizon itself; one  *)
(* before the clock began is due at once, as no time is.                   *)
At(t) == IF t \in 0..Horizon THEN t ELSE IF t < 0 THEN NoTime ELSE Horizon

(* SQL compares times as the texts that formatTime gives.  RFC3339Nano     *)
(* leaves a zero fraction out, and "." sorts before "Z": the instant that  *)
(* begins a second comes after all the others of that second.  Shorter     *)
(* fractions that begin longer ones (.1, .15) are not told apart: they too *)
(* change the order within a second only.                                  *)
TextRank(t) == IF t % Second = 0 THEN t + Second ELSE t

NotAfter(t, u) == TextRank(t) <= TextRank(u)

Tick ==
  /\ now < Horizon
  /\ now' = now + 1
  /\ UNCHANGED wf

-----------------------------------------------------------------------------
(* Statements keyed by id alone                                            *)

NewRow == [status |-> "pending", signal |-> "none", attempts |-> 0,
           occ |-> 1, retryAfter |-> NoTime, createdAt |-> now]

(* INSERT: the primary key refuses an id that is already there.            *)
Create(w) ==
  /\ wf[w].status = "absent"
  /\ wf' = [wf EXCEPT ![w] = NewRow]

(* Does not touch occ_version: a signal never conflicts with a runner.     *)
SetSignal(w, signal) ==
  /\ wf[w].status # "absent"
  /\ wf' = [wf EXCEPT ![w].signal = signal]

-----------------------------------------------------------------------------
(* Statements guarded by WHERE id = ? AND occ_version = ?                  *)

(* Mutant of UpdateStatus: the WHERE clause forgets occ_version.           *)
UpdateStatusById(w, status, occ) ==
  wf' = [wf EXCEPT ![w].status = status, ![w].occ = @ + 1]

UpdateStatus(w, status, occ) ==
  /\ wf[w].occ = occ
  /\ wf' = [wf EXCEPT ![w].status = status, ![w].occ = @ + 1]

SetError(w, status, occ) ==
  /\ wf[w].occ = occ
  /\ wf' = [wf EXCEPT ![w].status = status, ![w].occ = @ + 1]

(* Mutants of SetRetry: no occ_version in the WHERE clause; no increment.  *)
SetRetryById(w, retryAfter, occ) ==
  wf' = [wf EXCEPT ![w].status = "pending",
                   ![w].retryAfter = At(retryAfter),
                   ![w].attempts = @ + 1,
                   ![w].occ = @ + 1]

SetRetrySameOcc(w, retryAfter, occ) ==
  /\ wf[w].occ = occ
  /\ wf' = [wf EXCEPT ![w].status = "pending",
                      ![w].retryAfter = At(retryAfter),
                      ![w].attempts = @ + 1]

SetRetry(w, retryAfter, occ) ==
  /\ wf[w].occ = occ
  /\ wf' = [wf EXCEPT ![w].status = "pending",
                      ![w].retryAfter = At(retryAfter),
                      ![w].attempts = @ + 1,
                      ![w].occ = @ + 1]

Suspend(w, resumeAt, occ) ==
  /\ wf[w].occ = occ
  /\ wf' = [wf EXCEPT ![w].status = "suspended",
                      ![w].retryAfter = At(resumeAt),
                      ![w].occ = @ + 1]

(* No row updated: checkRowsAffected turns it into ErrOCCConflict.         *)
OCCConflict(w, occ) ==
  /\ wf[w].occ # occ
  /\ UNCHANGED wf

-----------------------------------------------------------------------------
(* Promotion of suspended rows                                             *)

PromotedRow(row) ==
  [row EXCEPT !.status = "pending", !.retryAfter = NoTime, !.occ = @ + 1]

Promotable(w) ==
  /\ wf[w].status = "suspended"
  /\ wf[w].retryAfter # NoTime
  /\ NotAfter(wf[w].retryAfter, now)

PromoteSuspended ==
  /\ \E w \in Workflows : Promotable(w)
  /\ wf' = [w \in Workflows |->
              IF Promotable(w) THEN PromotedRow(wf[w]) ELSE wf[w]]

(* The last statement of ResumeSubscription, and of TimeOutSubscriptions   *)
(* for each of the workflows S whose subscriptions expired.                *)
PromoteSubscribers(S) ==
  wf' = [w \in Workflows |->
           IF w \in S /\ wf[w].status = "suspended"
           THEN PromotedRow(wf[w]) ELSE wf[w]]

-----------------------------------------------------------------------------
(* The schedulable rows, oldest first, at most limit of them.  Rows        *)
(* created at the same instant come in any order.                          *)

Schedulable(w) ==
  /\ wf[w].status = "pending"
  /\ wf[w].retryAfter = NoTime \/ NotAfter(wf[w].retryAfter, now)

Older(v, w) == NotAfter(wf[v].createdAt, wf[w].createdAt)

ListSchedulable(limit) ==
  LET due == {w \in Workflows : Schedulable(w)} IN
  {s \in UNION {[1..n -> due] : n \in 0..limit} :
     /\ \A i, j \in DOMAIN s : i < j => s[i] # s[j] /\ Older(s[i], s[j])
     /\ \A w \in due : \/ \E i \in DOMAIN s : s[i] = w
                       \/ /\ Len(s) = limit
                          /\ \A i \in DOMAIN s : Older(s[i], w)}
=============================================================================
