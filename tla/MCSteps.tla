------------------------------- MODULE MCSteps -------------------------------
(* Small programs of durable steps for TLC.                                *)
EXTENDS Steps, TLC

CONSTANTS e1, p1, p2, w1, k1, k2

OneEngine   == (p1 :> e1) @@ (p2 :> e1)
SoloWorker  == p1 :> e1
RegisterAll == [e \in Engines |-> Workflows]
AnyTime     == 0..Horizon

DoRun(name)    == [kind |-> "run", name |-> name, span |-> 0]
DoGet          == [kind |-> "get", span |-> 0]
DoSleep(span)  == [kind |-> "sleep", span |-> span]
DoWait(name, key, span) ==
  [kind |-> "wait", name |-> name, span |-> span, key |-> key]
Do(branches)   == [kind |-> "parallel", branches |-> branches]
In(name, steps) == [name |-> name, steps |-> steps]

(* An event beside a longer sleep and an id.                               *)
Mixed     == w1 :> <<Do(<<In("x", <<DoWait("b", k1, 1)>>),
                          In("y", <<DoSleep(2), DoGet>>)>>)>>
(* Only an event; an event in each of two branches.                        *)
WaitOnly  == w1 :> <<DoWait("b", k1, 1)>>
WaitTwice == w1 :> <<Do(<<In("x", <<DoWait("b", k1, 2)>>),
                          In("y", <<DoWait("b", k2, 2)>>)>>)>>
(* Two branches of the same name.                                          *)
Duplicate == w1 :> <<DoWait("b", k1, 1), Do(<<In("x", <<DoRun("a")>>),
                                              In("x", <<DoRun("a")>>)>>)>>

(* The workers of one engine are interchangeable.                          *)
SameWorkers == Permutations(Workers)
=============================================================================
