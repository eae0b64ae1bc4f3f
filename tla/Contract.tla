------------------------------ MODULE Contract ------------------------------
(***************************************************************************)
(* BuildContracts of contract/scan.go with detect.go and walk.go: contracts *)
(* extracted from the syntax tree of a module, one for every Define.       *)
(*                                                                         *)
(* A body is the tree of the nodes of an Execute method in preorder:       *)
(* [kind, parent, dynamic], parent 0 for the method itself and dynamic the *)
(* set of steps whose name is no constant.  Kinds of nodes, besides calls  *)
(* of the framework: "branch" and "named" are calls of NewBranch with a    *)
(* function literal and with another function, "embedded" is a call of     *)
(* SleepUntil, Time.Now or ID.New through a workflow that embeds its       *)
(* context, "get" is Provider.Get, "helper" is a call of another function, *)
(* its children the body of that function, "code" is any other node.  The  *)
(* calls of a factory are the kinds of the nodes of its function literal.  *)
(***************************************************************************)
EXTENDS TypeShape, FiniteSetsExt

CONSTANT Sources    \* the modules that may be scanned

Nodes(body) == DOMAIN body.kind

(* The nodes that n is in, itself and the method included.                 *)
Within(body) ==
  LET up[n \in {0} \cup Nodes(body)] ==
        {n} \cup (IF n = 0 THEN {} ELSE up[body.parent[n]])
  IN  up

(* In preorder the parent of a node is the node before or one around that. *)
Tree(body) ==
  /\ body.kind \in Seq(STRING)
  /\ \A n \in Nodes(body) :
       body.parent[n] \in 0..(n - 1) /\ body.parent[n] \in Within(body)[n - 1]
  /\ \A n \in body.dynamic : n \in Nodes(body) /\ body.kind[n] \in {"run", "wait"}

ASSUME SourcesAssumption ==
  \A s \in Sources :
    /\ \A t \in DOMAIN s.types :
         /\ t # NoType
         /\ s.types[t].parts \in Seq([type : DOMAIN s.types, exported : BOOLEAN])
    /\ s.defs \in Seq(Range(s.defs))
    /\ \A d \in Range(s.defs) :
         /\ d.params \in Seq(DOMAIN s.types \cup {NoType}) /\ d.params # <<>>
         /\ d.calls \in Seq(STRING)
    /\ \A name \in DOMAIN s.bodies : Tree(s.bodies[name])

VARIABLES
  source,     \* the module: its types, Execute methods and Define calls
  stage,      \* where BuildContracts is
  contracts,  \* the contracts built
  contract,   \* the contract being built
  at,         \* the node of the factory or the body that is visited next
  walkers     \* the walker of the body, and of the branches it is in

walkVars == <<at, walkers>>
allVars  == <<types, shapeVars, source, stage, contracts, contract, walkVars>>

NoContract == [key |-> 0, shapes |-> <<>>, steps |-> <<>>,
               providers |-> <<>>, errors |-> <<>>]

ContractInit ==
  /\ source \in Sources
  /\ types = source.types
  /\ frames = <<>> /\ seen = {} /\ shape = {}
  /\ stage = "load"
  /\ contracts = <<>> /\ contract = NoContract
  /\ at = 0 /\ walkers = <<>>

Goes(to) == stage' = to /\ UNCHANGED <<types, source>>

-----------------------------------------------------------------------------
(* BuildContracts                                                          *)

(* An error in one package is an error of the whole scan.                  *)
Load ==
  /\ stage = "load"
  /\ Goes(IF source.broken THEN "failed" ELSE "define")
  /\ UNCHANGED <<shapeVars, contracts, contract, walkVars>>

Def == source.defs[Len(contracts) + 1]

(* detectDefines found another call: resolve its type parameters.          *)
Define ==
  /\ stage = "define"
  /\ Len(contracts) < Len(source.defs)
  /\ contract' = [NoContract EXCEPT !.key = Def.key]
  /\ Resolve(Def.params[1])
  /\ Goes("types")
  /\ UNCHANGED <<contracts, walkVars>>

ResolveStep ==
  /\ stage = "types"
  /\ Skip \/ Recur \/ Descend \/ Ascend
  /\ UNCHANGED <<types, source, stage, contracts, contract, walkVars>>

TypeResolved ==
  /\ stage = "types" /\ frames = <<>>
  /\ contract' = [contract EXCEPT !.shapes = Append(@, shape)]
  /\ LET n == Len(contract.shapes) + 1 IN
     IF n < Len(Def.params)
     THEN Resolve(Def.params[n + 1]) /\ Goes("types")
     ELSE Goes("factory") /\ UNCHANGED shapeVars
  /\ UNCHANGED <<contracts, walkVars>>

Built(c) ==
  /\ contracts' = Append(contracts, c)
  /\ contract' = NoContract
  /\ Goes("define")

(* resolveFactory: a function literal that returns &SomeStruct{}, and      *)
(* extractFactoryProviders.                                                *)
ResolveFactory ==
  /\ stage = "factory"
  /\ IF Def.factory = "struct"
     THEN Goes("execute") /\ UNCHANGED <<contracts, contract>>
     ELSE Built([contract EXCEPT !.errors = <<"factory">>])
  /\ UNCHANGED <<shapeVars, walkVars>>

Walker(branch) ==
  [branch |-> branch, steps |-> <<>>, providers |-> <<>>, errors |-> <<>>]

(* findExecuteMethod: by the name of the struct, in the package of Define. *)
FindExecute ==
  /\ stage = "execute"
  /\ IF Def.struct \in DOMAIN source.bodies
     THEN at' = 1 /\ Goes("providers") /\ UNCHANGED <<contracts, contract>>
     ELSE Built([contract EXCEPT !.errors = <<"execute">>]) /\ UNCHANGED at
  /\ UNCHANGED <<shapeVars, walkers>>

(* extractFactoryProviders visits every node of the factory, what is in a  *)
(* call of NewProvider included.                                           *)
VisitFactory ==
  /\ stage = "providers" /\ at \in DOMAIN Def.calls
  /\ contract' =
       IF Def.calls[at] = "provider"
       THEN [contract EXCEPT !.providers = Append(@, at)] ELSE contract
  /\ at' = at + 1
  /\ UNCHANGED <<types, source, stage, shapeVars, contracts, walkers>>

(* walkExecuteBody begins.                                                 *)
EnterExecute ==
  /\ stage = "providers" /\ at \notin DOMAIN Def.calls
  /\ at' = 1 /\ walkers' = <<Walker(0)>>
  /\ Goes("walk")
  /\ UNCHANGED <<shapeVars, contracts, contract>>

Sorted(s) == \A i, j \in DOMAIN s : i < j => s[i].key <= s[j].key

SortContracts ==
  /\ stage = "define"
  /\ Len(contracts) = Len(source.defs)
  /\ \E p \in Bijection(DOMAIN contracts, DOMAIN contracts) :
       /\ contracts' = [i \in DOMAIN contracts |-> contracts[p[i]]]
       /\ Sorted(contracts')
  /\ Goes("done")
  /\ UNCHANGED <<shapeVars, contract, walkVars>>

-----------------------------------------------------------------------------
(* executeWalker                                                           *)

Body == source.bodies[Def.struct]
(* The node that follows n and everything that is in n.                    *)
After(body, n) ==
  LET up == Within(body)
  IN  n + Cardinality({m \in {0} \cup Nodes(body) : n \in up[m]})

Argument(body, n) == body.parent[n] # 0 /\ body.kind[body.parent[n]] = "parallel"

W == walkers[Len(walkers)]

(* Mutant of Inside: the walker of a branch goes on after it.              *)
InsideMethod == at < After(Body, 0)

(* The walker is still inside the block that it walks.                     *)
Inside == at < After(Body, W.branch)

Visiting(kinds) ==
  /\ stage = "walk"
  /\ Inside /\ ~Argument(Body, at) /\ Body.kind[at] \in kinds

Walks(w, next) ==
  /\ walkers' = [walkers EXCEPT ![Len(walkers)] = w]
  /\ at' = next
  /\ UNCHANGED <<types, source, stage, shapeVars, contracts, contract>>

Record(w) == [w EXCEPT !.steps = Append(@, at)]

(* classifyStepName: a name that is neither a literal nor a constant is    *)
(* an error of the contract.                                               *)
Classify(w) ==
  [w EXCEPT !.errors = IF at \in Body.dynamic THEN Append(@, at) ELSE @]

(* Mutant of VisitStep: the function of the step is visited as well.       *)
VisitStepInside ==
  /\ Visiting({"run", "wait"})
  /\ Walks(Classify(Record(W)), at + 1)

(* The function of a step is not visited.                                  *)
VisitStep ==
  /\ Visiting({"run", "wait"})
  /\ Walks(Classify(Record(W)), After(Body, at))

VisitProvider ==
  /\ Visiting({"provider"})
  /\ Walks([W EXCEPT !.providers = Append(@, at)], After(Body, at))

(* Calls on the context itself; Parallel, whose arguments come next.       *)
VisitRecorded ==
  /\ Visiting({"sleep", "now", "id", "parallel"})
  /\ Walks(Record(W), at + 1)

VisitOther ==
  /\ Visiting({"code", "get", "embedded", "branch", "named"})
  /\ Walks(W, at + 1)

(* The body of another function is not part of this tree.                  *)
VisitHelper ==
  /\ Visiting({"helper"})
  /\ Walks(W, After(Body, at))

VisitingArgument ==
  /\ stage = "walk"
  /\ Inside /\ Argument(Body, at)

(* extractBranch: a walker of its own for a branch that is written out.    *)
OpenBranch ==
  /\ VisitingArgument /\ Body.kind[at] = "branch"
  /\ walkers' = Append(walkers, Walker(at))
  /\ at' = at + 1
  /\ UNCHANGED <<types, source, stage, shapeVars, contracts, contract>>

SkipArgument ==
  /\ VisitingArgument /\ Body.kind[at] # "branch"
  /\ Walks(W, After(Body, at))

StepsOf(w) == [branch |-> w.branch, steps |-> w.steps]

(* Mutant of Propagate: the errors of the branch are dropped.              *)
PropagateProviders(w) ==
  [walkers[Len(walkers) - 1] EXCEPT !.providers = @ \o w.providers]

(* Errors and providers of a branch go to the walker around it.            *)
Propagate(w) ==
  [walkers[Len(walkers) - 1] EXCEPT !.providers = @ \o w.providers,
                                    !.errors = @ \o w.errors]

CloseBranch ==
  /\ stage = "walk" /\ ~Inside /\ W.branch # 0
  /\ walkers' = Append(SubSeq(walkers, 1, Len(walkers) - 2), Propagate(W))
  /\ contract' = [contract EXCEPT !.steps = Append(@, StepsOf(W))]
  /\ UNCHANGED <<types, source, stage, shapeVars, contracts, at>>

(* walkExecuteBody returns.                                                *)
WalkDone ==
  /\ stage = "walk" /\ ~Inside /\ W.branch = 0
  /\ Built([contract EXCEPT !.steps = Append(@, StepsOf(W)),
                            !.providers = @ \o W.providers,
                            !.errors = W.errors])
  /\ at' = 0 /\ walkers' = <<>>
  /\ UNCHANGED shapeVars

-----------------------------------------------------------------------------
Walk ==
  \/ VisitStep \/ VisitProvider \/ VisitRecorded \/ VisitOther \/ VisitHelper
  \/ OpenBranch \/ SkipArgument \/ CloseBranch \/ WalkDone

ContractNext ==
  \/ Load \/ Define \/ ResolveStep \/ TypeResolved
  \/ ResolveFactory \/ FindExecute \/ VisitFactory \/ EnterExecute
  \/ Walk \/ SortContracts

ContractSpec == ContractInit /\ [][ContractNext]_allVars

(* BuildContracts is a sequential program that is not interrupted.         *)
ContractFairSpec == ContractSpec /\ WF_allVars(ContractNext)

-----------------------------------------------------------------------------
(* Properties                                                              *)

Recorded == {"run", "wait", "sleep", "now", "id", "parallel"}

Stages == {"load", "define", "types", "factory", "execute", "providers", "walk",
           "done", "failed"}

(* Every variable has its type; calls are in progress and walkers exist    *)
(* only where they are used, each of a branch that is nested in the branch *)
(* of the walker below it: a branch's walker is gone where its next        *)
(* sibling is walked.                                                      *)
ContractTypeOK ==
  /\ stage \in Stages
  /\ Len(contracts) <= Len(source.defs)
  /\ frames # <<>> => stage = "types"
  /\ seen \subseteq DOMAIN types
  /\ walkers # <<>> <=> stage = "walk"
  /\ \A i \in DOMAIN walkers :
       IF i = 1 THEN walkers[i].branch = 0
       ELSE walkers[i - 1].branch \in
              Within(Body)[walkers[i].branch] \ {walkers[i].branch}
  /\ stage = "providers" => at \in 1..(Len(Def.calls) + 1)
  /\ stage = "walk" => at \in 1..(Cardinality(Nodes(Body)) + 1)

(* The calls that a walker follows: neither what is inside a step function, *)
(* a provider or another function, nor an argument of Parallel that is not *)
(* a branch written out.                                                   *)
Followed(body, n) ==
  \A a \in Within(body)[n] \ {0} :
    /\ a # n => body.kind[a] \notin {"run", "wait", "provider", "helper"}
    /\ Argument(body, a) => body.kind[a] = "branch"

(* Branches written out as arguments of Parallel.                          *)
Branches(body) ==
  {n \in Nodes(body) : body.kind[n] = "branch" /\ Argument(body, n)}

ScopeOf(body, n) ==
  Max({0} \cup (Branches(body) \cap (Within(body)[n] \ {n})))

StepsIn(body, branch) ==
  {n \in Nodes(body) : /\ body.kind[n] \in Recorded
                       /\ Followed(body, n)
                       /\ ScopeOf(body, n) = branch}

Ascending(s) == \A i, j \in DOMAIN s : i < j => s[i] < s[j]

(* The contract that was built last, and the body it was extracted from.   *)
Latest == contracts[Len(contracts)]
LatestDef == source.defs[Len(contracts)]
LatestBody == source.bodies[LatestDef.struct]
Extracted ==
  /\ stage = "define" /\ contracts # <<>>
  /\ LatestDef.factory = "struct" /\ LatestDef.struct \in DOMAIN source.bodies

(* A contract has every recognised call of the workflow exactly once, in   *)
(* the order of the code and in the innermost branch around it that is     *)
(* written out as an argument of Parallel, however Parallel, branches,     *)
(* steps and providers are nested.                                         *)
StepsInScope ==
  Extracted =>
    /\ {s.branch : s \in Range(Latest.steps)} =
         {0} \cup {n \in Branches(LatestBody) : Followed(LatestBody, n)}
    /\ \A s \in Range(Latest.steps) :
         Ascending(s.steps) /\ Range(s.steps) = StepsIn(LatestBody, s.branch)
    /\ \A i, j \in DOMAIN Latest.steps :
         Latest.steps[i].branch = Latest.steps[j].branch => i = j

(* A contract that tells of no error has no step without a name, in any    *)
(* branch, and is the one of an Execute method that was found.             *)
ErrorsAreTold ==
  stage = "define" /\ contracts # <<>> =>
    (Latest.errors = <<>> <=>
       /\ Extracted
       /\ \A n \in LatestBody.dynamic : ~Followed(LatestBody, n))

(* The shapes in a contract unfold the types all the way: a type is marked *)
(* as recursive only inside itself, and not where it is merely used again. *)
ShapesUnfold ==
  stage = "factory" =>
    \A i \in DOMAIN contract.shapes :
      contract.shapes[i] =
        IF Def.params[i] = NoType THEN Unknown ELSE Unfolded(Def.params[i])

(* A scan ends, whatever the types refer to, with one contract for every   *)
(* Define, sorted - or with an error of a package.                         *)
ScanEnds ==
  <>\/ stage = "failed"
    \/ /\ stage = "done" /\ Sorted(contracts)
       /\ Len(contracts) = Len(source.defs)
=============================================================================
