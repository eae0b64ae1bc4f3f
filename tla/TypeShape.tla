------------------------------ MODULE TypeShape ------------------------------
(***************************************************************************)
(* resolveTypeShape of contract/resolve.go: the recursive walk over a Go   *)
(* type that writes its shape into a contract, as the stack of the calls   *)
(* in progress.  Names, packages and tags are left out.                    *)
(*                                                                         *)
(* A type is [kind, parts]: "named", or any other kind; parts are the      *)
(* fields of a struct, the element of a pointer or a slice, the key and    *)
(* the element of a map, each [type, exported].                            *)
(***************************************************************************)
EXTENDS Naturals, Sequences, FiniteSets, SequencesExt

CONSTANT MaxDepth   \* bound: calls nested in each other

ASSUME DepthAssumption == MaxDepth \in Nat \ {0}

VARIABLES
  types,    \* the types of the module, each by a number
  frames,   \* the calls in progress: the type, and the next part to resolve
  seen,     \* the map that stops the recursion
  shape     \* the part of the shape made so far: a kind for every path

shapeVars == <<frames, seen, shape>>

Named(t) == types[t].kind = "named"

Path == [i \in DOMAIN frames |-> frames[i].type]

Shape(path, kind) == [path |-> path, kind |-> kind]

(* Mutant of Call: a type is not marked as seen.                           *)
CallUnseen(t, path) ==
  /\ frames' = Append(path, [type |-> t, next |-> 1])
  /\ shape' = shape \cup {Shape(Append(Path, t), types[t].kind)}
  /\ UNCHANGED seen

(* A call of resolveTypeShapeImpl for a part.                              *)
Call(t, path) ==
  /\ frames' = Append(path, [type |-> t, next |-> 1])
  /\ seen' = IF Named(t) THEN seen \cup {t} ELSE seen
  /\ shape' = shape \cup {Shape(Append(Path, t), types[t].kind)}

(* resolveTypeShape: the shape of a type that is not known.                *)
NoType == 0
Unknown == {Shape(<<>>, "unknown")}

Resolve(t) ==
  /\ frames = <<>>
  /\ frames' = IF t = NoType THEN <<>> ELSE <<[type |-> t, next |-> 1]>>
  /\ seen' = IF t # NoType /\ Named(t) THEN {t} ELSE {}
  /\ shape' = IF t = NoType THEN Unknown ELSE {Shape(<<t>>, types[t].kind)}

Top == frames[Len(frames)]
Part == types[Top.type].parts[Top.next]

Resolving == frames # <<>> /\ Top.next \in DOMAIN types[Top.type].parts
NextPart == [frames EXCEPT ![Len(frames)].next = @ + 1]

(* Unexported fields are skipped.                                          *)
Skip ==
  /\ Resolving /\ ~Part.exported
  /\ frames' = NextPart
  /\ UNCHANGED <<seen, shape>>

(* A named type inside itself is not resolved again.                       *)
Recur ==
  /\ Resolving /\ Part.exported /\ Part.type \in seen
  /\ frames' = NextPart
  /\ shape' = shape \cup {Shape(Append(Path, Part.type), "recursive")}
  /\ UNCHANGED seen

Descend ==
  /\ Resolving /\ Part.exported /\ Part.type \notin seen
  /\ Len(frames) < MaxDepth
  /\ Call(Part.type, NextPart)

(* Mutant of Returned: the deferred delete is missing.                     *)
ReturnedSeen == seen

(* The deferred delete of a call that returns.                             *)
Returned == seen \ {Top.type}

Ascend ==
  /\ frames # <<>>
  /\ Top.next \notin DOMAIN types[Top.type].parts
  /\ frames' = Front(frames)
  /\ seen' = Returned
  /\ UNCHANGED shape

-----------------------------------------------------------------------------
(* The shape a type should have: every path into it, ended only where it   *)
(* comes back to a named type that it is inside of.                        *)

Comes(path) ==
  LET n == Len(path) IN Named(path[n]) /\ \E i \in 1..(n - 1) : path[i] = path[n]

Parts(t) ==
  {p.type : p \in {q \in Range(types[t].parts) : q.exported}}

(* The paths from a type, by their length.                                 *)
Paths(t) ==
  LET paths[n \in 1..(MaxDepth + 1)] ==
        IF n = 1 THEN {<<t>>}
        ELSE UNION {{Append(path, c) : c \in Parts(path[n - 1])} :
                    path \in {q \in paths[n - 1] : ~Comes(q)}}
  IN  paths

Unfolded(t) ==
  {Shape(path, IF Comes(path) THEN "recursive" ELSE types[Last(path)].kind) :
     path \in UNION {Paths(t)[n] : n \in 1..(MaxDepth + 1)}}
=============================================================================
