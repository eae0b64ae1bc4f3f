----------------------------- MODULE MCContract -----------------------------
(* Small modules for BuildContracts to scan.                               *)
EXTENDS Contract

Leaf  == [kind |-> "basic", parts |-> <<>>]
Plain == <<Leaf>>

(* All trees of n nodes in preorder, with nodes of the given kinds; the    *)
(* name of a wait is no constant.                                          *)
Trees(n) ==
  {up \in [1..n -> 0..(n - 1)] :
     \A i \in 1..n :
       LET above[j \in 0..n] == IF j = 0 THEN {0} ELSE {j} \cup above[up[j]]
       IN  up[i] < i /\ (i > 1 => up[i] \in above[i - 1])}

Bodies(n, kinds) ==
  {[kind |-> k, parent |-> up, dynamic |-> {i \in 1..n : k[i] = "wait"}] :
     k \in [1..n -> kinds], up \in Trees(n)}

Nesting == {"run", "parallel", "branch"}
Telling == {"code", "wait", "parallel", "branch"}
Calls   == {"run", "wait", "sleep", "provider", "embedded", "named", "helper",
            "parallel", "branch"}

Workflow(name, key) ==
  [key |-> key, params |-> <<1, NoType>>, factory |-> "struct", struct |-> name,
   calls |-> <<"provider", "code">>]

Module(bodies, defs) ==
  [broken |-> FALSE, types |-> Plain, bodies |-> bodies, defs |-> defs]

Walks1(n, kinds) ==
  {Module([x \in {"A"} |-> b], <<Workflow("A", 1)>>) : b \in Bodies(n, kinds)}

(* Two types that refer to each other, to themselves and to a basic type.  *)
(* Go has no cycle of types without a named one.                           *)
Refer(exported) == [type : 1..3, exported : {exported}]
Node(kind) ==
  {[kind |-> kind, parts |-> p] :
     p \in {<<>>} \cup {<<x>> : x \in Refer(TRUE)}
             \cup {<<x, y>> : x \in Refer(TRUE), y \in Refer(TRUE) \cup Refer(FALSE)}}
Refers(t) == {t.parts[i].type : i \in DOMAIN t.parts}
Graphs ==
  {<<s, t, Leaf>> : s \in Node("named"), t \in Node("named")}
    \cup {<<s, t, Leaf>> : s \in Node("named"),
                           t \in {u \in Node("struct") : 2 \notin Refers(u)}}

Typed == {[broken |-> FALSE, types |-> g,
           bodies |-> [x \in {"A"} |-> [kind |-> <<"run">>, parent |-> <<0>>,
                                        dynamic |-> {}]],
           defs |-> <<[Workflow("A", 1) EXCEPT !.params = <<2, 1>>]>>] : g \in Graphs}

(* Several calls of Define, factories that are not understood, a type with *)
(* no Execute, and a package with errors.                                  *)
Single == [kind |-> <<"run">>, parent |-> <<0>>, dynamic |-> {}]
Defines ==
  {Module([x \in {"A", "B"} |-> Single],
          <<Workflow("A", i), [Workflow(s, j) EXCEPT !.factory = f], Workflow("B", 1)>>) :
     i \in 1..3, j \in 1..3, s \in {"A", "C"}, f \in {"struct", "ident", "noReturn"}}
    \cup {[Module(<<>>, <<>>) EXCEPT !.broken = TRUE]}

Modules ==
  Walks1(5, Nesting) \cup Walks1(4, Telling) \cup Walks1(3, Calls)
    \cup Walks1(2, {"code", "now", "id", "get"}) \cup Typed \cup Defines
=============================================================================
