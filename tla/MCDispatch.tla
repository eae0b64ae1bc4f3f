----------------------------- MODULE MCDispatch -----------------------------
(* Small deployments of Dispatch for TLC.                                  *)
EXTENDS Dispatch, TLC

CONSTANTS e1, e2, p1, p2, w1, w2

(* One engine with a pool of two workers, or of one; two processes with a  *)
(* worker each, which are interchangeable.                                 *)
OneEngine  == (p1 :> e1) @@ (p2 :> e1)
SoloWorker == p1 :> e1
TwoEngines == (p1 :> e1) @@ (p2 :> e2)

Swap == (e1 :> e2) @@ (e2 :> e1) @@ (p1 :> p2) @@ (p2 :> p1)
SameProcesses == {Swap}

(* Every workflow type is registered, or only that of w2.                  *)
RegisterAll  == [e \in Engines |-> Workflows]
RegisterSome == [e \in Engines |-> {w2}]
=============================================================================
