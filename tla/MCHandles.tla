------------------------------ MODULE MCHandles ------------------------------
(* Two small processes with an application that asks both of them.         *)
EXTENDS Handles, TLC

CONSTANTS e1, e2, p1, p2, w1

TwoEngines  == (p1 :> e1) @@ (p2 :> e2)
RegisterAll == [e \in Engines |-> Workflows]

(* The two processes are interchangeable.                                  *)
Swap == (e1 :> e2) @@ (e2 :> e1) @@ (p1 :> p2) @@ (p2 :> p1)
SameProcesses == {Swap}
=============================================================================
