----------------------------- MODULE ShapeProofs -----------------------------
(***************************************************************************)
(* Proofs about the walk of TypeShape: the frames are at all times the     *)
(* path of an unfinished unfolding of the type, and the shape has exactly  *)
(* the paths that come before it in the order of the walk.                 *)
(***************************************************************************)
EXTENDS TypeShape, TLAPS, SequenceTheorems, WellFoundedInduction

(* The natural numbers of a set have a smallest: what stands for induction. *)
LEMMA Least ==
  ASSUME NEW S, S \subseteq Nat, S # {}
  PROVE  \E n \in S : \A m \in S : n <= m
<1> DEFINE R == OpToRel(<, Nat)
<1>1. IsWellFoundedOn(R, Nat)
  BY NatLessThanWellFounded
<1>2. PICK n \in S : \A m \in S : ~(<<m, n>> \in R)
  <2> HIDE DEF R
  <2> QED
    BY <1>1, WFMin
<1>3. \A m \in S : ~(m < n)
  BY <1>2 DEF OpToRel
<1> HIDE DEF R
<1> QED
  BY <1>3, SMT

LEMMA SeqFacts ==
  ASSUME NEW S, NEW s \in Seq(S)
  PROVE  /\ Len(s) \in Nat /\ DOMAIN s = 1..Len(s)
         /\ \A i \in 1..Len(s) : s[i] \in S
         /\ s # <<>> <=> Len(s) >= 1
         /\ s # <<>> <=> Len(s) # 0
<1>1. Len(s) \in Nat /\ s \in [1..Len(s) -> S] /\ DOMAIN s = 1..Len(s)
  BY LenProperties
<1>2. s # <<>> => Len(s) \in Nat \ {0}
  BY EmptySeq
<1>3. Len(<<>>) = 0
  BY EmptySeq
<1>4. s # <<>> <=> Len(s) # 0
  BY <1>1, <1>2, <1>3
<1> QED
  BY <1>1, <1>4

-----------------------------------------------------------------------------
(* Paths in a graph of types                                               *)

Graph(ty) ==
  \A t \in DOMAIN ty :
    t # NoType /\ ty[t].parts \in Seq([type : DOMAIN ty, exported : BOOLEAN])

(* Part k of type t leads to type c.                                       *)
Leads(ty, t, k, c) == ty[t].parts[k].exported /\ ty[t].parts[k].type = c

Refers(ty, t, c) == \E k \in DOMAIN ty[t].parts : Leads(ty, t, k, c)

(* At n a path comes back to a named type that it is inside of.            *)
ComesBack(ty, q, n) ==
  ty[q[n]].kind = "named" /\ \E i \in 1..(n - 1) : q[i] = q[n]

Unfolds(ty, root, q) ==
  /\ Len(q) >= 1 /\ q[1] = root
  /\ \A i \in 1..(Len(q) - 1) : Refers(ty, q[i], q[i + 1]) /\ ~ComesBack(ty, q, i)

KindOf(ty, q) ==
  IF ComesBack(ty, q, Len(q)) THEN "recursive" ELSE ty[q[Len(q)]].kind

Shapes(ty, Q) == {Shape(q, KindOf(ty, q)) : q \in Q}

AllPaths(ty, root) == {q \in Seq(DOMAIN ty) : Unfolds(ty, root, q)}

LEMMA ShapesUnion ==
  ASSUME NEW ty, NEW Q, NEW q
  PROVE  Shapes(ty, Q \cup {q}) = Shapes(ty, Q) \cup {Shape(q, KindOf(ty, q))}
BY DEF Shapes

-----------------------------------------------------------------------------
(* The frames of a walk                                                    *)

FramesOK(ty, root, fr) ==
  /\ fr \in Seq([type : DOMAIN ty, next : Nat]) /\ fr # <<>>
  /\ fr[1].type = root
  /\ \A j \in DOMAIN fr : fr[j].next \in 1..(Len(ty[fr[j].type].parts) + 1)
  /\ \A j \in 1..(Len(fr) - 1) :
       fr[j].next > 1 /\ Leads(ty, fr[j].type, fr[j].next - 1, fr[j + 1].type)
  /\ \A i, j \in DOMAIN fr :
       i < j /\ fr[i].type = fr[j].type => ty[fr[j].type].kind # "named"

SeenIn(ty, fr) ==
  {t \in DOMAIN ty : ty[t].kind = "named" /\ \E j \in DOMAIN fr : fr[j].type = t}

PathOf(fr) == [i \in DOMAIN fr |-> fr[i].type]

(* The parts of frame j before this one are finished.                      *)
Finished(fr, j) == IF j = Len(fr) THEN fr[j].next ELSE fr[j].next - 1

(* A path agrees with the frames up to j, and ends there or goes on into a *)
(* part that is finished.                                                  *)
Leaves(ty, fr, q, j) ==
  /\ j \in DOMAIN q
  /\ \A i \in 1..j : q[i] = fr[i].type
  /\ \/ Len(q) = j
     \/ \E k \in 1..(Finished(fr, j) - 1) :
          j + 1 \in DOMAIN q /\ Leads(ty, fr[j].type, k, q[j + 1])

Walked(ty, root, fr) ==
  {q \in AllPaths(ty, root) : \E j \in DOMAIN fr : Leaves(ty, fr, q, j)}

LEMMA FramesFacts ==
  ASSUME NEW ty, NEW root, NEW fr, FramesOK(ty, root, fr)
  PROVE  /\ fr \in Seq([type : DOMAIN ty, next : Nat]) /\ fr # <<>>
         /\ Len(fr) \in Nat /\ Len(fr) >= 1 /\ DOMAIN fr = 1..Len(fr)
         /\ fr[1].type = root
<1>1. /\ fr \in Seq([type : DOMAIN ty, next : Nat]) /\ fr # <<>>
      /\ fr[1].type = root
  BY DEF FramesOK
<1> QED
  BY <1>1, SeqFacts

LEMMA FrameFacts ==
  ASSUME NEW ty, NEW root, NEW fr, Graph(ty), FramesOK(ty, root, fr),
         NEW j \in 1..Len(fr)
  PROVE  /\ fr[j] \in [type : DOMAIN ty, next : Nat]
         /\ fr[j].type \in DOMAIN ty /\ fr[j].next \in Nat /\ fr[j].next >= 1
         /\ ty[fr[j].type].parts \in Seq([type : DOMAIN ty, exported : BOOLEAN])
         /\ DOMAIN ty[fr[j].type].parts = 1..Len(ty[fr[j].type].parts)
         /\ Len(ty[fr[j].type].parts) \in Nat
         /\ fr[j].next <= Len(ty[fr[j].type].parts) + 1
<1>1. fr \in Seq([type : DOMAIN ty, next : Nat])
  BY DEF FramesOK
<1>2. fr[j] \in [type : DOMAIN ty, next : Nat]
  BY <1>1, SeqFacts
<1>3. fr[j].type \in DOMAIN ty /\ fr[j].next \in Nat
  BY <1>2
<1>4. ty[fr[j].type].parts \in Seq([type : DOMAIN ty, exported : BOOLEAN])
  BY <1>3 DEF Graph
<1>5. /\ Len(ty[fr[j].type].parts) \in Nat
      /\ DOMAIN ty[fr[j].type].parts = 1..Len(ty[fr[j].type].parts)
  BY <1>4, SeqFacts
<1>6. j \in DOMAIN fr
  BY <1>1, SeqFacts
<1>7. fr[j].next \in 1..(Len(ty[fr[j].type].parts) + 1)
  BY <1>6 DEF FramesOK
<1> QED
  BY <1>2, <1>3, <1>4, <1>5, <1>7

LEMMA PathFacts ==
  ASSUME NEW ty, NEW root, NEW fr, Graph(ty), FramesOK(ty, root, fr)
  PROVE  /\ PathOf(fr) \in Seq(DOMAIN ty) /\ Len(PathOf(fr)) = Len(fr)
         /\ \A i \in 1..Len(fr) : PathOf(fr)[i] = fr[i].type
<1>1. Len(fr) \in Nat /\ DOMAIN fr = 1..Len(fr)
  BY FramesFacts
<1>2. \A i \in 1..Len(fr) : fr[i].type \in DOMAIN ty
  BY FrameFacts
<1> QED
  BY <1>1, <1>2 DEF PathOf

(* The frames are a path that does not come back to a named type.          *)
LEMMA FramesUnfold ==
  ASSUME NEW ty, NEW root, NEW fr, Graph(ty), FramesOK(ty, root, fr)
  PROVE  /\ PathOf(fr) \in AllPaths(ty, root)
         /\ \A n \in 1..Len(fr) : ~ComesBack(ty, PathOf(fr), n)
<1>1. Len(fr) \in Nat /\ Len(fr) >= 1 /\ DOMAIN fr = 1..Len(fr) /\ fr[1].type = root
  BY FramesFacts
<1>2. PICK P : P = PathOf(fr)
  OBVIOUS
<1>3. /\ P \in Seq(DOMAIN ty) /\ Len(P) = Len(fr)
      /\ \A i \in 1..Len(fr) : P[i] = fr[i].type
  BY <1>2, PathFacts
<1>4. ASSUME NEW n \in 1..Len(fr)
      PROVE  ~ComesBack(ty, P, n)
  <2>1. ASSUME NEW i \in 1..(n - 1), P[i] = P[n], ty[P[n]].kind = "named"
        PROVE  FALSE
    <3>1. i \in DOMAIN fr /\ n \in DOMAIN fr /\ i < n /\ i \in 1..Len(fr)
      BY <1>1
    <3>2. fr[i].type = fr[n].type /\ ty[fr[n].type].kind = "named"
      BY <1>3, <2>1, <3>1
    <3> QED
      BY <3>1, <3>2 DEF FramesOK
  <2> QED
    BY <2>1 DEF ComesBack
<1>5. ASSUME NEW i \in 1..(Len(P) - 1)
      PROVE  Refers(ty, P[i], P[i + 1])
  <2>1. i \in 1..(Len(fr) - 1) /\ i \in 1..Len(fr) /\ i + 1 \in 1..Len(fr)
    BY <1>1, <1>3
  <2>2. P[i] = fr[i].type /\ P[i + 1] = fr[i + 1].type
    BY <1>3, <2>1
  <2>3. fr[i].next > 1
    BY <2>1 DEF FramesOK
  <2>4. Leads(ty, fr[i].type, fr[i].next - 1, fr[i + 1].type)
    BY <2>1 DEF FramesOK
  <2>5. i \in 1..Len(fr)
    BY <2>1
  <2>6. fr[i].next \in Nat /\ fr[i].next <= Len(ty[fr[i].type].parts) + 1
    BY <2>5, FrameFacts
  <2>7. /\ DOMAIN ty[fr[i].type].parts = 1..Len(ty[fr[i].type].parts)
        /\ Len(ty[fr[i].type].parts) \in Nat
    BY <2>5, FrameFacts
  <2>8. fr[i].next - 1 \in DOMAIN ty[fr[i].type].parts
    BY <2>3, <2>6, <2>7
  <2> QED
    BY <2>2, <2>4, <2>8 DEF Refers
<1>6. Len(P) >= 1 /\ P[1] = root
  BY <1>1, <1>3
<1>7. Unfolds(ty, root, P)
  BY <1>1, <1>3, <1>4, <1>5, <1>6 DEF Unfolds
<1> QED
  BY <1>2, <1>3, <1>4, <1>7 DEF AllPaths

LEMMA LeavesSame ==
  ASSUME NEW ty, NEW fr, NEW g, NEW q, NEW j \in Nat, j >= 1,
         \A i \in 1..j : fr[i].type = g[i].type, Finished(fr, j) = Finished(g, j)
  PROVE  Leaves(ty, fr, q, j) <=> Leaves(ty, g, q, j)
<1>1. fr[j].type = g[j].type
  OBVIOUS
<1> QED
  BY <1>1 DEF Leaves

(* A walk begins with its root.                                            *)
LEMMA RootWalked ==
  ASSUME NEW ty, NEW root \in DOMAIN ty, Graph(ty),
         NEW fr, fr = <<[type |-> root, next |-> 1]>>
  PROVE  /\ FramesOK(ty, root, fr)
         /\ SeenIn(ty, fr) = IF ty[root].kind = "named" THEN {root} ELSE {}
         /\ Walked(ty, root, fr) = {<<root>>}
<1>1. /\ fr \in Seq([type : DOMAIN ty, next : Nat]) /\ fr # <<>>
      /\ Len(fr) = 1 /\ DOMAIN fr = {1} /\ fr[1] = [type |-> root, next |-> 1]
  OBVIOUS
<1>2. fr[1].type = root /\ fr[1].next = 1
  BY <1>1
<1>3. Len(ty[root].parts) \in Nat
  BY SeqFacts DEF Graph
<1>4. FramesOK(ty, root, fr)
  BY <1>1, <1>2, <1>3 DEF FramesOK
<1>5. SeenIn(ty, fr) = IF ty[root].kind = "named" THEN {root} ELSE {}
  BY <1>1, <1>2 DEF SeenIn
<1>6. ASSUME NEW q \in Walked(ty, root, fr)
      PROVE  q = <<root>>
  <2>1. q \in Seq(DOMAIN ty) /\ Leaves(ty, fr, q, 1) /\ q[1] = root
    BY <1>1 DEF Walked, AllPaths, Unfolds
  <2>2. Finished(fr, 1) = 1
    BY <1>1, <1>2 DEF Finished
  <2>3. Len(q) = 1
    BY <2>1, <2>2 DEF Leaves
  <2>4. <<root>> \in Seq(DOMAIN ty) /\ Len(<<root>>) = 1 /\ <<root>>[1] = root
    OBVIOUS
  <2>5. \A i \in 1..Len(q) : q[i] = <<root>>[i]
    BY <2>1, <2>3, <2>4
  <2> QED
    BY <2>1, <2>3, <2>4, <2>5, SeqEqual
<1>7. <<root>> \in Walked(ty, root, fr)
  <2> DEFINE q == <<root>>
  <2>1. q \in Seq(DOMAIN ty) /\ Len(q) = 1 /\ q[1] = root /\ DOMAIN q = {1}
    OBVIOUS
  <2> HIDE DEF q
  <2>2. Len(q) >= 1 /\ 1..(Len(q) - 1) = {}
    BY <2>1
  <2>5. Unfolds(ty, root, q)
    BY <2>1, <2>2 DEF Unfolds
  <2>6. q \in AllPaths(ty, root)
    BY <2>1, <2>5 DEF AllPaths
  <2>3. Leaves(ty, fr, q, 1)
    BY <1>2, <2>1 DEF Leaves
  <2>4. q \in Walked(ty, root, fr)
    BY <1>1, <2>6, <2>3 DEF Walked
  <2> QED
    BY <2>4 DEF q
<1> QED
  BY <1>4, <1>5, <1>6, <1>7

Advanced(fr) == [fr EXCEPT ![Len(fr)].next = @ + 1]

(* The last frame has another part, which leads to c.                      *)
HasNext(ty, fr) == fr[Len(fr)].next \in DOMAIN ty[fr[Len(fr)].type].parts

Ready(ty, fr, c) ==
  HasNext(ty, fr) /\ Leads(ty, fr[Len(fr)].type, fr[Len(fr)].next, c)

LEMMA AdvancedFacts ==
  ASSUME NEW ty, NEW root, NEW fr, Graph(ty), FramesOK(ty, root, fr),
         HasNext(ty, fr)
  PROVE  /\ Advanced(fr) \in Seq([type : DOMAIN ty, next : Nat])
         /\ Len(Advanced(fr)) = Len(fr)
         /\ \A j \in DOMAIN fr : j # Len(fr) => Advanced(fr)[j].next = fr[j].next
         /\ Advanced(fr)[Len(fr)].next = fr[Len(fr)].next + 1
         /\ FramesOK(ty, root, Advanced(fr))
         /\ SeenIn(ty, Advanced(fr)) = SeenIn(ty, fr)
         /\ PathOf(Advanced(fr)) = PathOf(fr)
<1>1. PICK n, g : n = Len(fr) /\ g = Advanced(fr)
  OBVIOUS
<1>2. /\ fr \in Seq([type : DOMAIN ty, next : Nat]) /\ fr # <<>>
      /\ n \in Nat /\ n >= 1 /\ n \in 1..n /\ DOMAIN fr = 1..n /\ fr[1].type = root
  <2>1. /\ fr \in Seq([type : DOMAIN ty, next : Nat]) /\ fr # <<>>
        /\ Len(fr) \in Nat /\ Len(fr) >= 1 /\ DOMAIN fr = 1..Len(fr)
        /\ fr[1].type = root
    BY FramesFacts
  <2> QED
    BY <1>1, <2>1
<1>3. /\ fr[n] \in [type : DOMAIN ty, next : Nat]
      /\ fr[n].type \in DOMAIN ty /\ fr[n].next \in Nat /\ fr[n].next >= 1
      /\ DOMAIN ty[fr[n].type].parts = 1..Len(ty[fr[n].type].parts)
      /\ Len(ty[fr[n].type].parts) \in Nat
  <2>1. n \in 1..Len(fr)
    BY <1>1, <1>2
  <2>2. fr[n] \in [type : DOMAIN ty, next : Nat]
    BY <2>1, FrameFacts
  <2>3. fr[n].type \in DOMAIN ty /\ fr[n].next \in Nat
    BY <2>2
  <2>4. fr[n].next >= 1
    BY <2>1, FrameFacts
  <2>5. DOMAIN ty[fr[n].type].parts = 1..Len(ty[fr[n].type].parts)
    BY <2>1, FrameFacts
  <2>6. Len(ty[fr[n].type].parts) \in Nat
    BY <2>1, FrameFacts
  <2> QED
    BY <2>2, <2>3, <2>4, <2>5, <2>6
<1>4. g = [fr EXCEPT ![n] = [fr[n] EXCEPT !.next = @ + 1]]
  BY <1>1 DEF Advanced
<1>5. [fr[n] EXCEPT !.next = @ + 1] \in [type : DOMAIN ty, next : Nat]
  BY <1>3
<1>6. /\ g \in Seq([type : DOMAIN ty, next : Nat]) /\ Len(g) = n
      /\ \A j \in 1..n : g[j] = IF j = n THEN [fr[n] EXCEPT !.next = @ + 1] ELSE fr[j]
  BY <1>1, <1>2, <1>4, <1>5, ExceptSeq
<1>7. g[n].type = fr[n].type /\ g[n].next = fr[n].next + 1
  <2>1. g[n] = [fr[n] EXCEPT !.next = @ + 1]
    BY <1>2, <1>6
  <2> QED
    BY <1>3, <2>1
<1>8. \A j \in 1..(n - 1) : g[j] = fr[j]
  BY <1>2, <1>6
<1>9. \A j \in 1..n : g[j].type = fr[j].type
  BY <1>2, <1>7, <1>8
<1>10. DOMAIN g = 1..n /\ g # <<>>
  BY <1>2, <1>6, SeqFacts
<1>11. FramesOK(ty, root, g)
  <2>1. g[1].type = root
    BY <1>2, <1>9
  <2>2. ASSUME NEW j \in 1..n
        PROVE  g[j].next \in 1..(Len(ty[g[j].type].parts) + 1)
    <3>1. CASE j = n
      <4>1. fr[n].next \in 1..Len(ty[fr[n].type].parts)
        BY <1>1, <1>3 DEF HasNext
      <4>2. fr[n].next + 1 \in 1..(Len(ty[fr[n].type].parts) + 1)
        BY <1>3, <4>1
      <4> QED
        BY <1>7, <3>1, <4>2
    <3>2. CASE j # n
      <4>1. g[j] = fr[j]
        BY <1>2, <1>8, <3>2
      <4>2. fr[j].next \in 1..(Len(ty[fr[j].type].parts) + 1)
        BY <1>2 DEF FramesOK
      <4> QED
        BY <4>1, <4>2
    <3> QED
      BY <3>1, <3>2
  <2>3. ASSUME NEW j \in 1..(n - 1)
        PROVE  g[j].next > 1 /\ Leads(ty, g[j].type, g[j].next - 1, g[j + 1].type)
    <3>1. g[j] = fr[j] /\ j + 1 \in 1..n
      BY <1>2, <1>8
    <3>2. g[j + 1].type = fr[j + 1].type
      BY <1>9, <3>1
    <3>3. fr[j].next > 1 /\ Leads(ty, fr[j].type, fr[j].next - 1, fr[j + 1].type)
      BY <1>1 DEF FramesOK
    <3> QED
      BY <3>1, <3>2, <3>3
  <2>4. ASSUME NEW i \in 1..n, NEW j \in 1..n, i < j, g[i].type = g[j].type
        PROVE  ty[g[j].type].kind # "named"
    <3>1. fr[i].type = fr[j].type /\ i \in DOMAIN fr /\ j \in DOMAIN fr
      BY <1>2, <1>9, <2>4
    <3>2. ty[fr[j].type].kind # "named"
      BY <2>4, <3>1 DEF FramesOK
    <3> QED
      BY <1>9, <3>2
  <2> QED
    BY <1>6, <1>10, <2>1, <2>2, <2>3, <2>4 DEF FramesOK
<1>12. SeenIn(ty, g) = SeenIn(ty, fr)
  BY <1>2, <1>9, <1>10 DEF SeenIn
<1>13. PathOf(g) = PathOf(fr)
  BY <1>2, <1>9, <1>10 DEF PathOf
<1> QED
  BY <1>1, <1>6, <1>7, <1>8, <1>9, <1>11, <1>12, <1>13

LEMMA AdvancedType ==
  ASSUME NEW ty, NEW root, NEW fr, Graph(ty), FramesOK(ty, root, fr),
         HasNext(ty, fr), NEW j \in DOMAIN fr
  PROVE  Advanced(fr)[j].type = fr[j].type
<1>1. PathOf(Advanced(fr)) = PathOf(fr) /\ FramesOK(ty, root, Advanced(fr))
  BY AdvancedFacts
<1>2. Len(Advanced(fr)) = Len(fr) /\ DOMAIN fr = 1..Len(fr)
  BY AdvancedFacts, FramesFacts
<1>3. PathOf(fr)[j] = fr[j].type
  BY <1>2, PathFacts
<1>4. PathOf(Advanced(fr))[j] = Advanced(fr)[j].type
  BY <1>1, <1>2, PathFacts
<1> QED
  BY <1>1, <1>3, <1>4

(* The path into the next part.                                            *)
PathInto(fr, c) == Append(PathOf(fr), c)

LEMMA NextPath ==
  ASSUME NEW ty, NEW root, NEW fr, NEW c, Graph(ty), FramesOK(ty, root, fr),
         Ready(ty, fr, c)
  PROVE  /\ c \in DOMAIN ty
         /\ PathInto(fr, c) \in AllPaths(ty, root)
         /\ Len(PathInto(fr, c)) = Len(fr) + 1
         /\ PathInto(fr, c)[Len(fr) + 1] = c
         /\ ComesBack(ty, PathInto(fr, c), Len(fr) + 1) <=> c \in SeenIn(ty, fr)
<1>1. PICK n, P, Q : n = Len(fr) /\ P = PathOf(fr) /\ Q = PathInto(fr, c)
  OBVIOUS
<1>2. n \in Nat /\ n >= 1 /\ DOMAIN fr = 1..n /\ n \in 1..n
  <2>1. Len(fr) \in Nat /\ Len(fr) >= 1 /\ DOMAIN fr = 1..Len(fr)
    BY FramesFacts
  <2> QED
    BY <1>1, <2>1
<1>3. /\ P \in Seq(DOMAIN ty) /\ Len(P) = n
      /\ \A i \in 1..n : P[i] = fr[i].type
  BY <1>1, PathFacts
<1>4. P \in AllPaths(ty, root) /\ \A i \in 1..n : ~ComesBack(ty, P, i)
  BY <1>1, FramesUnfold
<1>5. /\ Leads(ty, fr[n].type, fr[n].next, c)
      /\ fr[n].next \in DOMAIN ty[fr[n].type].parts
  BY <1>1 DEF Ready, HasNext
<1>6. c \in DOMAIN ty
  <2>1. /\ ty[fr[n].type].parts \in Seq([type : DOMAIN ty, exported : BOOLEAN])
        /\ DOMAIN ty[fr[n].type].parts = 1..Len(ty[fr[n].type].parts)
    <3>1. n \in 1..Len(fr)
      BY <1>1, <1>2
    <3>2. ty[fr[n].type].parts \in Seq([type : DOMAIN ty, exported : BOOLEAN])
      BY <3>1, FrameFacts
    <3>3. DOMAIN ty[fr[n].type].parts = 1..Len(ty[fr[n].type].parts)
      BY <3>1, FrameFacts
    <3> QED
      BY <3>2, <3>3
  <2>2. ty[fr[n].type].parts[fr[n].next] \in [type : DOMAIN ty, exported : BOOLEAN]
    BY <1>5, <2>1, SeqFacts
  <2> QED
    BY <1>5, <2>2 DEF Leads
<1>7. /\ Q \in Seq(DOMAIN ty) /\ Len(Q) = n + 1
      /\ \A i \in 1..n : Q[i] = P[i]
      /\ Q[n + 1] = c
  BY <1>1, <1>3, <1>6, AppendProperties DEF PathInto
<1>8. Refers(ty, P[n], c)
  BY <1>2, <1>3, <1>5 DEF Refers
<1>9. \A i \in 1..n : ~ComesBack(ty, Q, i)
  <2> SUFFICES ASSUME NEW i \in 1..n
               PROVE  ~ComesBack(ty, Q, i)
    OBVIOUS
  <2>1. i \in 1..n /\ \A j \in 1..(i - 1) : j \in 1..n
    BY <1>2
  <2>2. ~ComesBack(ty, P, i)
    BY <1>4
  <2>3. Q[i] = P[i] /\ \A j \in 1..(i - 1) : Q[j] = P[j]
    BY <1>7, <2>1
  <2> QED
    BY <2>2, <2>3 DEF ComesBack
<1>10. Unfolds(ty, root, Q)
  <2>1. Len(P) >= 1 /\ P[1] = root
    BY <1>4 DEF AllPaths, Unfolds
  <2>2. Q[1] = root
    BY <1>2, <1>7, <2>1
  <2>3. ASSUME NEW i \in 1..n
        PROVE  Refers(ty, Q[i], Q[i + 1])
    <3>1. CASE i = n
      BY <1>7, <1>8, <3>1
    <3>2. CASE i # n
      <4>1. i \in 1..(Len(P) - 1) /\ i + 1 \in 1..n
        BY <1>2, <1>3, <3>2
      <4>2. Refers(ty, P[i], P[i + 1])
        BY <1>4, <4>1 DEF AllPaths, Unfolds
      <4> QED
        BY <1>7, <4>1, <4>2
    <3> QED
      BY <3>1, <3>2
  <2>4. Len(Q) >= 1 /\ 1..(Len(Q) - 1) = 1..n
    BY <1>2, <1>7
  <2> QED
    BY <1>9, <2>2, <2>3, <2>4 DEF Unfolds
<1>11. ComesBack(ty, Q, n + 1) <=> c \in SeenIn(ty, fr)
  <2>1. (\E i \in 1..(n + 1 - 1) : Q[i] = Q[n + 1]) <=> \E j \in 1..n : fr[j].type = c
    <3>1. 1..(n + 1 - 1) = 1..n
      BY <1>2
    <3> QED
      BY <1>3, <1>7, <3>1
  <2> QED
    BY <1>2, <1>6, <1>7, <2>1 DEF ComesBack, SeenIn
<1>12. Q \in AllPaths(ty, root)
  BY <1>7, <1>10 DEF AllPaths
<1> QED
  BY <1>1, <1>6, <1>7, <1>11, <1>12

LEMMA NextPathStart ==
  ASSUME NEW ty, NEW root, NEW fr, NEW c, Graph(ty), FramesOK(ty, root, fr),
         Ready(ty, fr, c), NEW i \in 1..Len(fr)
  PROVE  PathInto(fr, c)[i] = fr[i].type
<1>1. c \in DOMAIN ty
  BY NextPath
<1>2. PathOf(fr) \in Seq(DOMAIN ty) /\ Len(PathOf(fr)) = Len(fr)
  BY PathFacts
<1>3. PathOf(fr)[i] = fr[i].type
  BY PathFacts
<1>4. PathInto(fr, c)[i] = PathOf(fr)[i]
  BY <1>1, <1>2, AppendProperties DEF PathInto
<1> QED
  BY <1>3, <1>4

(* A path that goes on into the next part.                                 *)
Into(ty, fr, q, c) ==
  /\ Len(fr) + 1 \in DOMAIN q
  /\ \A i \in 1..Len(fr) : q[i] = fr[i].type
  /\ q[Len(fr) + 1] = c

(* What an advanced walk has gone through more: the paths into that part.  *)
LEMMA AdvancedWalked ==
  ASSUME NEW ty, NEW root, NEW fr, Graph(ty), FramesOK(ty, root, fr),
         HasNext(ty, fr),
         NEW q \in AllPaths(ty, root)
  PROVE  q \in Walked(ty, root, Advanced(fr)) <=>
           \/ q \in Walked(ty, root, fr)
           \/ \E c : Ready(ty, fr, c) /\ Into(ty, fr, q, c)
<1>1. PICK n, g : n = Len(fr) /\ g = Advanced(fr)
  OBVIOUS
<1>2. n \in Nat /\ n >= 1 /\ n \in 1..n /\ DOMAIN fr = 1..n
  <2>1. Len(fr) \in Nat /\ Len(fr) >= 1 /\ DOMAIN fr = 1..Len(fr)
    BY FramesFacts
  <2> QED
    BY <1>1, <2>1
<1>3. /\ g \in Seq([type : DOMAIN ty, next : Nat]) /\ Len(g) = n
      /\ \A j \in 1..n : g[j].type = fr[j].type
      /\ \A j \in 1..(n - 1) : g[j].next = fr[j].next
      /\ g[n].next = fr[n].next + 1
  <2>1. /\ Advanced(fr) \in Seq([type : DOMAIN ty, next : Nat])
        /\ Len(Advanced(fr)) = Len(fr)
        /\ Advanced(fr)[Len(fr)].next = fr[Len(fr)].next + 1
    BY AdvancedFacts
  <2>2. \A j \in DOMAIN fr : Advanced(fr)[j].type = fr[j].type
    BY AdvancedType
  <2>3. \A j \in DOMAIN fr : j # Len(fr) => Advanced(fr)[j].next = fr[j].next
    BY AdvancedFacts
  <2>4. \A j \in 1..(n - 1) : j \in DOMAIN fr /\ j # n
    BY <1>2
  <2> QED
    BY <1>1, <1>2, <2>1, <2>2, <2>3, <2>4
<1>4. DOMAIN g = 1..n
  BY <1>3, SeqFacts
<1>5. fr[n].next \in Nat /\ fr[n].next >= 1
  BY <1>1, <1>2, FrameFacts
<1>6. ASSUME NEW j \in 1..(n - 1)
      PROVE  Leaves(ty, fr, q, j) <=> Leaves(ty, g, q, j)
  <2>1. j \in Nat /\ j >= 1 /\ j # n /\ \A i \in 1..j : i \in 1..n
    BY <1>2
  <2>2. \A i \in 1..j : fr[i].type = g[i].type
    BY <1>3, <2>1
  <2>3. Finished(fr, j) = Finished(g, j)
    BY <1>1, <1>3, <2>1 DEF Finished
  <2> QED
    BY <2>1, <2>2, <2>3, LeavesSame
<1>7. Leaves(ty, g, q, n) <=>
        Leaves(ty, fr, q, n) \/ \E c : Ready(ty, fr, c) /\ Into(ty, fr, q, c)
  <2>1. Finished(fr, n) = fr[n].next /\ Finished(g, n) = fr[n].next + 1
    BY <1>1, <1>3 DEF Finished
  <2>2. \A k : k \in 1..(Finished(g, n) - 1) <=>
                 k \in 1..(Finished(fr, n) - 1) \/ k = fr[n].next
    BY <1>5, <2>1
  <2>3. q \in Seq(DOMAIN ty)
    BY DEF AllPaths
  <2>4. Len(q) \in Nat /\ DOMAIN q = 1..Len(q)
    BY <2>3, SeqFacts
  <2>5. (\A i \in 1..n : q[i] = g[i].type) <=> (\A i \in 1..n : q[i] = fr[i].type)
    BY <1>3
  <2>6. g[n].type = fr[n].type
    BY <1>2, <1>3
  <2>7. (\E c : Ready(ty, fr, c) /\ Into(ty, fr, q, c)) <=>
          /\ n + 1 \in DOMAIN q /\ \A i \in 1..n : q[i] = fr[i].type
          /\ Leads(ty, fr[n].type, fr[n].next, q[n + 1])
    BY <1>1 DEF Ready, Into, HasNext
  <2>8. n + 1 \in DOMAIN q => n \in DOMAIN q
    BY <1>2, <2>4
  <2> QED
    BY <2>2, <2>5, <2>6, <2>7, <2>8 DEF Leaves
<1>8. \A j \in 1..n : j = n \/ j \in 1..(n - 1)
  BY <1>2
<1>9. q \in Walked(ty, root, g) <=> \E j \in 1..n : Leaves(ty, g, q, j)
  BY <1>4 DEF Walked
<1>10. q \in Walked(ty, root, fr) <=> \E j \in 1..n : Leaves(ty, fr, q, j)
  BY <1>2 DEF Walked
<1>11. \A j \in 1..(n - 1) : j \in 1..n
  BY <1>2
<1> QED
  BY <1>1, <1>2, <1>6, <1>7, <1>8, <1>9, <1>10, <1>11

(* An unexported part has no path.                                         *)
LEMMA SkippedWalked ==
  ASSUME NEW ty, NEW root, NEW fr, Graph(ty), FramesOK(ty, root, fr),
         HasNext(ty, fr), ~ty[fr[Len(fr)].type].parts[fr[Len(fr)].next].exported
  PROVE  Walked(ty, root, Advanced(fr)) = Walked(ty, root, fr)
<1>1. \A c : ~Ready(ty, fr, c)
  BY DEF Ready, Leads
<1>2. \A q \in AllPaths(ty, root) :
        q \in Walked(ty, root, Advanced(fr)) <=> q \in Walked(ty, root, fr)
  BY <1>1, AdvancedWalked
<1> QED
  BY <1>2 DEF Walked

(* A path into a part that comes back ends there.                          *)
LEMMA EndsThere ==
  ASSUME NEW ty, NEW root, NEW fr, NEW c, Graph(ty), FramesOK(ty, root, fr),
         Ready(ty, fr, c), NEW q \in AllPaths(ty, root), Into(ty, fr, q, c),
         c \in SeenIn(ty, fr)
  PROVE  q = PathInto(fr, c)
<1>1. PICK m, Q : m = Len(fr) + 1 /\ Q = PathInto(fr, c)
  OBVIOUS
<1>2. m \in Nat /\ m >= 1 /\ \A i : i \in 1..m <=> i \in 1..Len(fr) \/ i = m
  <2>1. Len(fr) \in Nat /\ Len(fr) >= 1
    BY FramesFacts
  <2> QED
    BY <1>1, <2>1
<1>3. Q \in AllPaths(ty, root) /\ Len(Q) = m /\ Q[m] = c /\ ComesBack(ty, Q, m)
  BY <1>1, NextPath
<1>4. \A i \in 1..Len(fr) : Q[i] = fr[i].type
  BY <1>1, NextPathStart
<1>5. q \in Seq(DOMAIN ty) /\ Q \in Seq(DOMAIN ty)
  BY <1>3 DEF AllPaths
<1>6. Len(q) \in Nat /\ DOMAIN q = 1..Len(q)
  BY <1>5, SeqFacts
<1>7. m \in DOMAIN q /\ q[m] = c /\ \A i \in 1..Len(fr) : q[i] = fr[i].type
  BY <1>1 DEF Into
<1>8. \A i \in 1..m : q[i] = Q[i]
  BY <1>2, <1>3, <1>4, <1>7
<1>9. m <= Len(q)
  BY <1>2, <1>6, <1>7
<1>10. ComesBack(ty, q, m)
  <2>1. \A i \in 1..(m - 1) : i \in 1..m
    BY <1>2
  <2>2. q[m] = Q[m] /\ \A i \in 1..(m - 1) : q[i] = Q[i]
    BY <1>2, <1>8, <2>1
  <2> QED
    BY <1>3, <2>2 DEF ComesBack
<1>11. Len(q) = m
  <2>1. SUFFICES ASSUME Len(q) # m
                 PROVE  FALSE
    OBVIOUS
  <2>2. PICK k : k = Len(q)
    OBVIOUS
  <2>3. m \in Nat /\ m >= 1 /\ k \in Nat /\ m <= k /\ k # m
    BY <1>2, <1>6, <1>9, <2>1, <2>2
  <2>4. m \in 1..(k - 1)
    BY <2>3
  <2> QED
    BY <1>10, <2>2, <2>4 DEF AllPaths, Unfolds
<1> QED
  BY <1>1, <1>3, <1>5, <1>8, <1>11, SeqEqual

(* A part that comes back adds the one path that ends there.               *)
LEMMA RecurredWalked ==
  ASSUME NEW ty, NEW root, NEW fr, NEW c, Graph(ty), FramesOK(ty, root, fr),
         Ready(ty, fr, c), c \in SeenIn(ty, fr)
  PROVE  Walked(ty, root, Advanced(fr)) =
           Walked(ty, root, fr) \cup {PathInto(fr, c)}
<1>1. PICK Q : Q = PathInto(fr, c)
  OBVIOUS
<1>2. /\ Q \in AllPaths(ty, root) /\ Len(Q) = Len(fr) + 1
      /\ Q[Len(fr) + 1] = c
  BY <1>1, NextPath
<1>3. \A i \in 1..Len(fr) : Q[i] = fr[i].type
  BY <1>1, NextPathStart
<1>4. Into(ty, fr, Q, c)
  <2>1. Q \in Seq(DOMAIN ty)
    BY <1>2 DEF AllPaths
  <2>2. Len(fr) \in Nat
    BY FramesFacts
  <2>3. Len(fr) + 1 \in DOMAIN Q
    BY <1>2, <2>1, <2>2, SeqFacts
  <2> QED
    BY <1>2, <1>3, <2>3 DEF Into
<1>5. HasNext(ty, fr)
  BY DEF Ready
<1>6. \A d : Ready(ty, fr, d) => d = c
  BY DEF Ready, Leads
<1>7. ASSUME NEW q \in AllPaths(ty, root)
      PROVE  q \in Walked(ty, root, Advanced(fr)) <=>
               q \in Walked(ty, root, fr) \/ q = Q
  <2>1. Into(ty, fr, q, c) <=> q = Q
    BY <1>1, <1>4, EndsThere
  <2> QED
    BY <1>5, <1>6, <2>1, AdvancedWalked
<1>8. Walked(ty, root, Advanced(fr)) \subseteq AllPaths(ty, root)
      /\ Walked(ty, root, fr) \subseteq AllPaths(ty, root)
  BY DEF Walked
<1> QED
  BY <1>1, <1>2, <1>7, <1>8

Pushed(fr, c) == Append(Advanced(fr), [type |-> c, next |-> 1])

(* The types that are marked once c is as well.                            *)
Marked(ty, c, S) == IF ty[c].kind = "named" THEN S \cup {c} ELSE S

LEMMA PushedFacts ==
  ASSUME NEW ty, NEW root, NEW fr, NEW c, Graph(ty), FramesOK(ty, root, fr),
         Ready(ty, fr, c), c \notin SeenIn(ty, fr)
  PROVE  /\ Len(Pushed(fr, c)) = Len(fr) + 1
         /\ FramesOK(ty, root, Pushed(fr, c))
         /\ SeenIn(ty, Pushed(fr, c)) = Marked(ty, c, SeenIn(ty, fr))
         /\ Walked(ty, root, Pushed(fr, c)) =
              Walked(ty, root, fr) \cup {PathInto(fr, c)}
<1>1. PICK n, g, h : n = Len(fr) /\ g = Advanced(fr) /\ h = Pushed(fr, c)
  OBVIOUS
<1>2. /\ n \in Nat /\ n >= 1 /\ n \in 1..n /\ n + 1 \in 1..(n + 1)
      /\ DOMAIN fr = 1..n /\ fr[1].type = root
  <2>1. /\ Len(fr) \in Nat /\ Len(fr) >= 1 /\ DOMAIN fr = 1..Len(fr)
        /\ fr[1].type = root
    BY FramesFacts
  <2> QED
    BY <1>1, <2>1
<1>3. HasNext(ty, fr)
  BY DEF Ready
<1>4. /\ g \in Seq([type : DOMAIN ty, next : Nat]) /\ Len(g) = n
      /\ FramesOK(ty, root, g) /\ SeenIn(ty, g) = SeenIn(ty, fr)
      /\ g[n].next = fr[n].next + 1
  <2>1. /\ Advanced(fr) \in Seq([type : DOMAIN ty, next : Nat])
        /\ Len(Advanced(fr)) = Len(fr)
        /\ FramesOK(ty, root, Advanced(fr)) /\ SeenIn(ty, Advanced(fr)) = SeenIn(ty, fr)
        /\ Advanced(fr)[Len(fr)].next = fr[Len(fr)].next + 1
    BY <1>3, AdvancedFacts
  <2> QED
    BY <1>1, <2>1
<1>5. \A j \in 1..n : g[j].type = fr[j].type
  <2>1. \A j \in DOMAIN fr : Advanced(fr)[j].type = fr[j].type
    BY <1>3, AdvancedType
  <2> QED
    BY <1>1, <1>2, <2>1
<1>6. \A j \in 1..n : j # n => g[j].next = fr[j].next
  <2>1. \A j \in DOMAIN fr : j # Len(fr) => Advanced(fr)[j].next = fr[j].next
    BY <1>3, AdvancedFacts
  <2> QED
    BY <1>1, <1>2, <2>1
<1>7. c \in DOMAIN ty
  BY NextPath
<1>8. [type |-> c, next |-> 1] \in [type : DOMAIN ty, next : Nat]
  BY <1>7
<1>9. /\ h \in Seq([type : DOMAIN ty, next : Nat]) /\ h # <<>>
      /\ Len(h) = n + 1
      /\ \A j \in 1..n : h[j] = g[j]
      /\ h[n + 1] = [type |-> c, next |-> 1]
  BY <1>1, <1>4, <1>8, AppendProperties DEF Pushed
<1>10. h[n + 1].type = c /\ h[n + 1].next = 1
  BY <1>9
<1>11. DOMAIN h = 1..(n + 1) /\ DOMAIN g = 1..n
  BY <1>4, <1>9, SeqFacts
<1>12. \A j \in 1..(n + 1) : j \in 1..n \/ j = n + 1
  BY <1>2
<1>13. Leads(ty, fr[n].type, fr[n].next, c)
  BY <1>1 DEF Ready
<1>14. fr[n].next \in Nat /\ fr[n].next >= 1
  BY <1>1, <1>2, FrameFacts
<1>15. FramesOK(ty, root, h)
  <2>1. h[1].type = root
    BY <1>2, <1>5, <1>9
  <2>2. ASSUME NEW j \in 1..(n + 1)
        PROVE  h[j].next \in 1..(Len(ty[h[j].type].parts) + 1)
    <3>1. CASE j = n + 1
      <4>1. Len(ty[c].parts) \in Nat
        BY <1>7, SeqFacts DEF Graph
      <4>2. 1 \in 1..(Len(ty[c].parts) + 1)
        BY <4>1
      <4> QED
        BY <1>10, <3>1, <4>2
    <3>2. CASE j \in 1..n
      <4>1. g[j].next \in 1..(Len(ty[g[j].type].parts) + 1)
        BY <1>4, <1>11, <3>2 DEF FramesOK
      <4> QED
        BY <1>9, <3>2, <4>1
    <3> QED
      BY <1>12, <3>1, <3>2
  <2>3. ASSUME NEW j \in 1..n
        PROVE  h[j].next > 1 /\ Leads(ty, h[j].type, h[j].next - 1, h[j + 1].type)
    <3>1. CASE j = n
      <4>1. h[j].type = fr[n].type /\ h[j].next = fr[n].next + 1 /\ h[j + 1].type = c
        BY <1>2, <1>4, <1>5, <1>9, <1>10, <3>1
      <4>2. h[j].next > 1 /\ h[j].next - 1 = fr[n].next
        BY <1>14, <4>1
      <4> QED
        BY <1>13, <4>1, <4>2
    <3>2. CASE j # n
      <4>1. j \in 1..(n - 1) /\ j + 1 \in 1..n
        BY <1>2, <3>2
      <4>2. g[j].next > 1 /\ Leads(ty, g[j].type, g[j].next - 1, g[j + 1].type)
        BY <1>4, <4>1 DEF FramesOK
      <4>3. h[j] = g[j] /\ h[j + 1] = g[j + 1]
        BY <1>9, <4>1
      <4> QED
        BY <4>2, <4>3
    <3> QED
      BY <3>1, <3>2
  <2>4. ASSUME NEW i \in 1..(n + 1), NEW j \in 1..(n + 1), i < j, h[i].type = h[j].type
        PROVE  ty[h[j].type].kind # "named"
    <3>1. i \in 1..n
      BY <1>2, <2>4
    <3>2. CASE j = n + 1
      <4>1. fr[i].type = c
        BY <1>5, <1>9, <1>10, <2>4, <3>1, <3>2
      <4>2. i \in DOMAIN fr
        BY <1>2, <3>1
      <4>3. ty[c].kind # "named"
        BY <1>7, <4>1, <4>2 DEF SeenIn
      <4> QED
        BY <1>10, <3>2, <4>3
    <3>3. CASE j \in 1..n
      <4>1. i \in DOMAIN g /\ j \in DOMAIN g /\ h[i] = g[i] /\ h[j] = g[j]
        BY <1>9, <1>11, <3>1, <3>3
      <4>2. g[i].type = g[j].type
        BY <2>4, <4>1
      <4>3. ty[g[j].type].kind # "named"
        BY <1>4, <2>4, <4>1, <4>2 DEF FramesOK
      <4> QED
        BY <4>1, <4>3
    <3> QED
      BY <1>12, <3>2, <3>3
  <2>5. 1..(Len(h) - 1) = 1..n
    BY <1>2, <1>9
  <2> QED
    BY <1>9, <1>11, <2>1, <2>2, <2>3, <2>4, <2>5 DEF FramesOK
<1>16. SeenIn(ty, h) = IF ty[c].kind = "named" THEN SeenIn(ty, g) \cup {c} ELSE SeenIn(ty, g)
  <2>1. \A t : (\E j \in DOMAIN h : h[j].type = t) <=> (\E j \in DOMAIN g : g[j].type = t) \/ t = c
    <3>1. \A j \in DOMAIN h : j \in DOMAIN g \/ j = n + 1
      BY <1>11, <1>12
    <3>2. \A j \in DOMAIN g : j \in DOMAIN h /\ h[j] = g[j]
      BY <1>2, <1>9, <1>11
    <3>3. n + 1 \in DOMAIN h
      BY <1>2, <1>11
    <3> QED
      BY <1>10, <3>1, <3>2, <3>3
  <2> QED
    BY <1>7, <2>1 DEF SeenIn
<1>17. PICK Q : Q = PathInto(fr, c)
  OBVIOUS
<1>18. /\ Q \in AllPaths(ty, root) /\ Len(Q) = Len(fr) + 1 /\ Q[Len(fr) + 1] = c
  BY <1>17, NextPath
<1>19. \A i \in 1..Len(fr) : Q[i] = fr[i].type
  BY <1>17, NextPathStart
<1>20. ASSUME NEW q \in AllPaths(ty, root), NEW j \in 1..n
       PROVE  Leaves(ty, fr, q, j) <=> Leaves(ty, h, q, j)
  <2>1. j \in Nat /\ j >= 1 /\ \A i \in 1..j : i \in 1..n
    BY <1>2
  <2>2. \A i \in 1..j : fr[i].type = h[i].type
    BY <1>5, <1>9, <2>1
  <2>3. Finished(fr, j) = Finished(h, j)
    <3>1. j # Len(h)
      BY <1>2, <1>9
    <3>2. CASE j = n
      <4>1. Finished(fr, j) = fr[n].next
        BY <1>1, <3>2 DEF Finished
      <4>2. Finished(h, j) = h[j].next - 1
        BY <3>1 DEF Finished
      <4>3. h[j].next = fr[n].next + 1
        BY <1>2, <1>4, <1>9, <3>2
      <4> QED
        BY <1>14, <4>1, <4>2, <4>3
    <3>3. CASE j # n
      BY <1>1, <1>6, <1>9, <3>1, <3>3 DEF Finished
    <3> QED
      BY <3>2, <3>3
  <2> QED
    BY <2>1, <2>2, <2>3, LeavesSame
<1>21. ASSUME NEW q \in AllPaths(ty, root)
       PROVE  Leaves(ty, h, q, n + 1) <=> q = Q
  <2>1. q \in Seq(DOMAIN ty) /\ Q \in Seq(DOMAIN ty)
    BY <1>18 DEF AllPaths
  <2>2. Len(q) \in Nat /\ DOMAIN q = 1..Len(q) /\ DOMAIN Q = 1..Len(Q)
    BY <2>1, SeqFacts
  <2>3. Finished(h, n + 1) = 1
    BY <1>9, <1>10 DEF Finished
  <2>4. 1..(Finished(h, n + 1) - 1) = {}
    BY <2>3
  <2>5. Leaves(ty, h, q, n + 1) <=>
          /\ n + 1 \in DOMAIN q /\ Len(q) = n + 1
          /\ \A i \in 1..(n + 1) : q[i] = h[i].type
    BY <2>4 DEF Leaves
  <2>6. \A i \in 1..(n + 1) : Q[i] = h[i].type
    <3> SUFFICES ASSUME NEW i \in 1..(n + 1)
                 PROVE  Q[i] = h[i].type
      OBVIOUS
    <3>1. CASE i = n + 1
      BY <1>1, <1>10, <1>18, <3>1
    <3>2. CASE i \in 1..n
      BY <1>1, <1>5, <1>9, <1>19, <3>2
    <3> QED
      BY <1>12, <3>1, <3>2
  <2>7. ASSUME Leaves(ty, h, q, n + 1)
        PROVE  q = Q
    <3>1. Len(q) = Len(Q)
      BY <1>1, <1>18, <2>5, <2>7
    <3>2. \A i \in 1..Len(q) : q[i] = Q[i]
      BY <2>5, <2>6, <2>7
    <3> QED
      BY <2>1, <3>1, <3>2, SeqEqual
  <2>8. ASSUME q = Q
        PROVE  Leaves(ty, h, q, n + 1)
    BY <1>1, <1>2, <1>18, <2>2, <2>5, <2>6, <2>8
  <2> QED
    BY <2>7, <2>8
<1>22. ASSUME NEW q \in AllPaths(ty, root)
       PROVE  q \in Walked(ty, root, h) <=> q \in Walked(ty, root, fr) \/ q = Q
  <2>1. q \in Walked(ty, root, h) <=> \E j \in 1..(n + 1) : Leaves(ty, h, q, j)
    BY <1>11 DEF Walked
  <2>2. q \in Walked(ty, root, fr) <=> \E j \in 1..n : Leaves(ty, fr, q, j)
    BY <1>2 DEF Walked
  <2>3. (\E j \in 1..(n + 1) : Leaves(ty, h, q, j)) <=>
          (\E j \in 1..n : Leaves(ty, h, q, j)) \/ Leaves(ty, h, q, n + 1)
    <3>1. \A j \in 1..n : j \in 1..(n + 1)
      BY <1>2
    <3> QED
      BY <1>2, <1>12, <3>1
  <2> QED
    BY <1>20, <1>21, <2>1, <2>2, <2>3
<1>23. /\ Walked(ty, root, h) \subseteq AllPaths(ty, root)
       /\ Walked(ty, root, fr) \subseteq AllPaths(ty, root)
  BY DEF Walked
<1>24. Walked(ty, root, h) = Walked(ty, root, fr) \cup {Q}
  BY <1>18, <1>22, <1>23
<1>25. SeenIn(ty, h) = Marked(ty, c, SeenIn(ty, fr))
  BY <1>4, <1>16 DEF Marked
<1> QED
  BY <1>1, <1>9, <1>15, <1>17, <1>24, <1>25

LEMMA LastFrame ==
  ASSUME NEW ty, NEW root, NEW fr, Graph(ty), FramesOK(ty, root, fr)
  PROVE  LET n == Len(fr) IN
         /\ fr[n].next \in Nat /\ fr[n].next >= 1
         /\ DOMAIN ty[fr[n].type].parts = 1..Len(ty[fr[n].type].parts)
         /\ Len(ty[fr[n].type].parts) \in Nat
         /\ fr[n].next <= Len(ty[fr[n].type].parts) + 1
<1>1. Len(fr) \in Nat /\ Len(fr) >= 1
  BY FramesFacts
<1>2. Len(fr) \in 1..Len(fr)
  BY <1>1
<1>3. PICK n \in 1..Len(fr) : n = Len(fr)
  BY <1>2
<1>4. /\ fr[n].next \in Nat /\ fr[n].next >= 1
      /\ DOMAIN ty[fr[n].type].parts = 1..Len(ty[fr[n].type].parts)
      /\ Len(ty[fr[n].type].parts) \in Nat
      /\ fr[n].next <= Len(ty[fr[n].type].parts) + 1
  <2>1. fr[n] \in [type : DOMAIN ty, next : Nat]
    BY FrameFacts
  <2>2. fr[n].next \in Nat
    BY <2>1
  <2>3. fr[n].next >= 1
    BY FrameFacts
  <2>4. DOMAIN ty[fr[n].type].parts = 1..Len(ty[fr[n].type].parts)
    BY FrameFacts
  <2>5. Len(ty[fr[n].type].parts) \in Nat
    BY FrameFacts
  <2>6. fr[n].next <= Len(ty[fr[n].type].parts) + 1
    BY FrameFacts
  <2> QED
    BY <2>2, <2>3, <2>4, <2>5, <2>6
<1> QED
  BY <1>3, <1>4

(* A frame without another part has been through every path into it.       *)
LEMMA LastComplete ==
  ASSUME NEW ty, NEW root, NEW fr, Graph(ty), FramesOK(ty, root, fr),
         ~HasNext(ty, fr), NEW q \in AllPaths(ty, root), Len(fr) \in DOMAIN q,
         \A i \in 1..Len(fr) : q[i] = fr[i].type
  PROVE  Leaves(ty, fr, q, Len(fr))
<1>1. PICK n, size : n = Len(fr) /\ size = Len(ty[fr[n].type].parts)
  OBVIOUS
<1>2. n \in Nat /\ n >= 1 /\ n \in 1..n /\ DOMAIN fr = 1..n
  <2>1. Len(fr) \in Nat /\ Len(fr) >= 1 /\ DOMAIN fr = 1..Len(fr)
    BY FramesFacts
  <2> QED
    BY <1>1, <2>1
<1>3. /\ fr[n].next \in Nat /\ fr[n].next >= 1
      /\ DOMAIN ty[fr[n].type].parts = 1..size /\ size \in Nat
      /\ fr[n].next <= size + 1
  BY <1>1, LastFrame
<1>4. fr[n].next \notin 1..size
  BY <1>1, <1>3 DEF HasNext
<1>5. fr[n].next = size + 1
  BY <1>3, <1>4
<1>6. Finished(fr, n) = fr[n].next
  BY <1>1 DEF Finished
<1>7. 1..(Finished(fr, n) - 1) = DOMAIN ty[fr[n].type].parts
  BY <1>3, <1>5, <1>6
<1>8. q \in Seq(DOMAIN ty)
  BY DEF AllPaths
<1>9. PICK m : m = Len(q)
  OBVIOUS
<1>10. m \in Nat /\ DOMAIN q = 1..m
  BY <1>8, <1>9, SeqFacts
<1>11. n \in 1..m /\ q[n] = fr[n].type
  BY <1>1, <1>2, <1>10
<1>12. CASE m = n
  BY <1>1, <1>9, <1>12 DEF Leaves
<1>13. CASE m # n
  <2>1. n \in 1..(m - 1) /\ n + 1 \in DOMAIN q
    BY <1>2, <1>10, <1>11, <1>13
  <2>2. Refers(ty, q[n], q[n + 1])
    BY <1>9, <2>1 DEF AllPaths, Unfolds
  <2>3. PICK k \in DOMAIN ty[fr[n].type].parts : Leads(ty, fr[n].type, k, q[n + 1])
    BY <1>11, <2>2 DEF Refers
  <2>4. k \in 1..(Finished(fr, n) - 1)
    BY <1>7
  <2> QED
    BY <1>1, <2>1, <2>3, <2>4 DEF Leaves
<1> QED
  BY <1>12, <1>13

(* When the call for the root returns, nothing is left.                    *)
LEMMA AllWalked ==
  ASSUME NEW ty, NEW root, NEW fr, Graph(ty), FramesOK(ty, root, fr),
         ~HasNext(ty, fr), Len(fr) = 1
  PROVE  Walked(ty, root, fr) = AllPaths(ty, root)
<1>1. ASSUME NEW q \in AllPaths(ty, root)
      PROVE  q \in Walked(ty, root, fr)
  <2>1. q \in Seq(DOMAIN ty) /\ Len(q) >= 1 /\ q[1] = root
    BY DEF AllPaths, Unfolds
  <2>2. 1 \in DOMAIN q
    <3>1. Len(q) \in Nat /\ DOMAIN q = 1..Len(q)
      BY <2>1, SeqFacts
    <3> QED
      BY <2>1, <3>1
  <2>3. fr[1].type = root /\ DOMAIN fr = 1..1
    BY FramesFacts
  <2>4. Len(fr) \in DOMAIN q /\ \A i \in 1..Len(fr) : q[i] = fr[i].type
    BY <2>1, <2>2, <2>3
  <2>5. Leaves(ty, fr, q, Len(fr))
    BY <2>4, LastComplete
  <2>6. Leaves(ty, fr, q, 1) /\ 1 \in DOMAIN fr
    BY <2>3, <2>5
  <2> QED
    BY <2>6 DEF Walked
<1> QED
  BY <1>1 DEF Walked

LEMMA FrontFacts ==
  ASSUME NEW S, NEW s \in Seq(S), Len(s) >= 1
  PROVE  /\ Front(s) \in Seq(S) /\ Len(Front(s)) = Len(s) - 1
         /\ \A i \in 1..(Len(s) - 1) : Front(s)[i] = s[i]
<1>1. PICK n : n = Len(s)
  OBVIOUS
<1>2. n \in Nat /\ n >= 1
  BY <1>1, SeqFacts
<1>3. n - 1 \in Nat /\ 1 \in 1..(n + 1) /\ n - 1 \in 0..n
  BY <1>2
<1>4. Front(s) = SubSeq(s, 1, n - 1)
  BY <1>1 DEF Front
<1>5. /\ SubSeq(s, 1, n - 1) \in Seq(S)
      /\ Len(SubSeq(s, 1, n - 1)) = n - 1
      /\ \A i \in 1..(n - 1) : SubSeq(s, 1, n - 1)[i] = s[i]
  BY <1>1, <1>2, <1>3
<1> QED
  BY <1>1, <1>4, <1>5

LEMMA PoppedFacts ==
  ASSUME NEW ty, NEW root, NEW fr, Graph(ty), FramesOK(ty, root, fr),
         ~HasNext(ty, fr), Len(fr) # 1
  PROVE  /\ FramesOK(ty, root, Front(fr))
         /\ Len(Front(fr)) = Len(fr) - 1
         /\ SeenIn(ty, Front(fr)) = SeenIn(ty, fr) \ {fr[Len(fr)].type}
         /\ Walked(ty, root, Front(fr)) = Walked(ty, root, fr)
<1>1. PICK n, m, f : n = Len(fr) /\ m = n - 1 /\ f = Front(fr)
  OBVIOUS
<1>2. /\ fr \in Seq([type : DOMAIN ty, next : Nat]) /\ fr[1].type = root
      /\ n \in Nat /\ m \in Nat /\ m >= 1 /\ n = m + 1
      /\ n \in 1..n /\ m \in 1..m /\ m \in 1..n
      /\ DOMAIN fr = 1..n
  <2>1. /\ fr \in Seq([type : DOMAIN ty, next : Nat]) /\ fr[1].type = root
        /\ Len(fr) \in Nat /\ Len(fr) >= 1 /\ DOMAIN fr = 1..Len(fr)
    BY FramesFacts
  <2>2. n \in Nat /\ n >= 1 /\ n # 1
    BY <1>1, <2>1
  <2>3. m \in Nat /\ m >= 1 /\ n = m + 1
    BY <1>1, <2>2
  <2> QED
    BY <1>1, <2>1, <2>2, <2>3
<1>3. /\ f \in Seq([type : DOMAIN ty, next : Nat]) /\ Len(f) = m
      /\ \A i \in 1..m : f[i] = fr[i]
  <2>1. Len(fr) >= 1
    BY FramesFacts
  <2> QED
    BY <1>1, <1>2, <2>1, FrontFacts
<1>4. DOMAIN f = 1..m /\ f # <<>>
  BY <1>2, <1>3, SeqFacts
<1>5. /\ \A i : i \in 1..n <=> i \in 1..m \/ i = n
      /\ \A i : i \in 1..m <=> i \in 1..(m - 1) \/ i = m
      /\ \A i : i \in 1..m => i # n /\ i <= m
      /\ \A i : i \in 1..(m - 1) => i # m
  BY <1>2
<1>6. fr[m].next > 1 /\ Leads(ty, fr[m].type, fr[m].next - 1, fr[n].type)
  <2>1. m \in 1..(Len(fr) - 1) /\ m + 1 = n
    BY <1>1, <1>2
  <2> QED
    BY <2>1 DEF FramesOK
<1>7. FramesOK(ty, root, f)
  <2>1. f[1].type = root
    <3>1. 1 \in 1..m
      BY <1>2
    <3> QED
      BY <1>2, <1>3, <3>1
  <2>2. ASSUME NEW j \in 1..m
        PROVE  f[j].next \in 1..(Len(ty[f[j].type].parts) + 1)
    <3>1. j \in DOMAIN fr /\ f[j] = fr[j]
      BY <1>2, <1>3, <1>5
    <3>2. fr[j].next \in 1..(Len(ty[fr[j].type].parts) + 1)
      BY <3>1 DEF FramesOK
    <3> QED
      BY <3>1, <3>2
  <2>3. ASSUME NEW j \in 1..(m - 1)
        PROVE  f[j].next > 1 /\ Leads(ty, f[j].type, f[j].next - 1, f[j + 1].type)
    <3>1. j \in 1..(n - 1) /\ j \in 1..m /\ j + 1 \in 1..m
      BY <1>2
    <3>2. fr[j].next > 1 /\ Leads(ty, fr[j].type, fr[j].next - 1, fr[j + 1].type)
      BY <1>1, <3>1 DEF FramesOK
    <3>3. f[j] = fr[j] /\ f[j + 1] = fr[j + 1]
      BY <1>3, <3>1
    <3> QED
      BY <3>2, <3>3
  <2>4. ASSUME NEW i \in 1..m, NEW j \in 1..m, i < j, f[i].type = f[j].type
        PROVE  ty[f[j].type].kind # "named"
    <3>1. i \in DOMAIN fr /\ j \in DOMAIN fr /\ f[i] = fr[i] /\ f[j] = fr[j]
      BY <1>2, <1>3, <1>5
    <3>2. fr[i].type = fr[j].type
      BY <2>4, <3>1
    <3>3. ty[fr[j].type].kind # "named"
      BY <2>4, <3>1, <3>2 DEF FramesOK
    <3> QED
      BY <3>1, <3>3
  <2>5. 1..(Len(f) - 1) = 1..(m - 1)
    BY <1>3
  <2> QED
    BY <1>3, <1>4, <2>1, <2>2, <2>3, <2>4, <2>5 DEF FramesOK
<1>8. SeenIn(ty, f) = SeenIn(ty, fr) \ {fr[n].type}
  <2>1. ASSUME NEW t \in DOMAIN ty, ty[t].kind = "named"
        PROVE  (\E j \in DOMAIN f : f[j].type = t) <=>
                 (\E j \in DOMAIN fr : fr[j].type = t) /\ t # fr[n].type
    <3>1. ASSUME NEW j \in DOMAIN f, f[j].type = t
          PROVE  j \in DOMAIN fr /\ fr[j].type = t /\ t # fr[n].type
      <4>1. j \in DOMAIN fr /\ n \in DOMAIN fr /\ f[j] = fr[j] /\ j \in 1..m
        BY <1>2, <1>3, <1>4, <1>5
      <4>2. j < n
        BY <1>2, <4>1
      <4>3. fr[j].type = t
        BY <3>1, <4>1
      <4> QED
        BY <2>1, <4>1, <4>2, <4>3 DEF FramesOK
    <3>2. ASSUME NEW j \in DOMAIN fr, fr[j].type = t, t # fr[n].type
          PROVE  j \in DOMAIN f /\ f[j].type = t
      <4>1. j \in 1..m
        BY <1>2, <1>5, <3>2
      <4> QED
        BY <1>3, <1>4, <3>2, <4>1
    <3> QED
      BY <3>1, <3>2
  <2> QED
    BY <2>1 DEF SeenIn
<1>9. \A i \in 1..m : f[i].type = fr[i].type
  BY <1>3
<1>10. Finished(fr, m) = fr[m].next - 1 /\ Finished(f, m) = fr[m].next
  <2>1. m # n /\ f[m] = fr[m]
    BY <1>2, <1>3
  <2> QED
    BY <1>1, <1>3, <2>1 DEF Finished
<1>11. ASSUME NEW q \in AllPaths(ty, root), NEW j \in 1..(m - 1)
       PROVE  Leaves(ty, f, q, j) <=> Leaves(ty, fr, q, j)
  <2>1. j \in Nat /\ j >= 1 /\ j \in 1..m /\ j # m /\ j # n /\ \A i \in 1..j : i \in 1..m
    BY <1>2
  <2>2. \A i \in 1..j : f[i].type = fr[i].type
    BY <1>9, <2>1
  <2>3. f[j] = fr[j]
    BY <1>3, <2>1
  <2>4. Finished(f, j) = Finished(fr, j)
    BY <1>1, <1>3, <2>1, <2>3 DEF Finished
  <2> QED
    BY <2>1, <2>2, <2>4, LeavesSame
<1>12. fr[m].next \in Nat
  BY <1>1, <1>2, FrameFacts
<1>13. ASSUME NEW q \in AllPaths(ty, root)
       PROVE  Leaves(ty, f, q, m) <=> Leaves(ty, fr, q, m) \/ Leaves(ty, fr, q, n)
  <2>1. q \in Seq(DOMAIN ty)
    BY DEF AllPaths
  <2>2. PICK size : size = Len(q)
    OBVIOUS
  <2>3. size \in Nat /\ DOMAIN q = 1..size
    BY <2>1, <2>2, SeqFacts
  <2>4. n \in DOMAIN q => m \in DOMAIN q
    BY <1>2, <2>3
  <2>5. f[m].type = fr[m].type
    BY <1>2, <1>9
  <2>6. (\A i \in 1..m : q[i] = f[i].type) <=> (\A i \in 1..m : q[i] = fr[i].type)
    BY <1>9
  <2>7. \A k : k \in 1..(Finished(f, m) - 1) <=>
                 k \in 1..(Finished(fr, m) - 1) \/ k = fr[m].next - 1
    BY <1>6, <1>10, <1>12
  <2>8. Leaves(ty, fr, q, m) => Leaves(ty, f, q, m)
    BY <2>5, <2>6, <2>7 DEF Leaves
  <2>9. ASSUME Leaves(ty, fr, q, n)
        PROVE  Leaves(ty, f, q, m)
    <3>1. n \in DOMAIN q /\ q[n] = fr[n].type /\ \A i \in 1..n : q[i] = fr[i].type
      BY <1>2, <2>9 DEF Leaves
    <3>2. m + 1 \in DOMAIN q /\ q[m + 1] = fr[n].type
      BY <1>2, <3>1
    <3>3. \A i \in 1..m : q[i] = f[i].type
      BY <1>5, <2>6, <3>1
    <3>4. fr[m].next - 1 \in 1..(Finished(f, m) - 1)
      BY <2>7
    <3>5. Leads(ty, f[m].type, fr[m].next - 1, q[m + 1])
      BY <1>6, <2>5, <3>2
    <3> QED
      BY <2>4, <3>1, <3>2, <3>3, <3>4, <3>5 DEF Leaves
  <2>10. ASSUME Leaves(ty, f, q, m), ~Leaves(ty, fr, q, m)
         PROVE  Leaves(ty, fr, q, n)
    <3>1. m \in DOMAIN q /\ \A i \in 1..m : q[i] = fr[i].type
      BY <2>6, <2>10 DEF Leaves
    <3>2. Len(q) # m
      BY <2>10, <3>1 DEF Leaves
    <3>3. PICK k \in 1..(Finished(f, m) - 1) :
            m + 1 \in DOMAIN q /\ Leads(ty, f[m].type, k, q[m + 1])
      BY <2>10, <3>2 DEF Leaves
    <3>4. k = fr[m].next - 1
      BY <2>5, <2>7, <2>10, <3>1, <3>3 DEF Leaves
    <3>5. q[m + 1] = fr[n].type
      BY <1>6, <2>5, <3>3, <3>4 DEF Leads
    <3>6. n \in DOMAIN q /\ \A i \in 1..n : q[i] = fr[i].type
      BY <1>2, <1>5, <3>1, <3>3, <3>5
    <3> QED
      BY <1>1, <3>6, LastComplete
  <2> QED
    BY <2>8, <2>9, <2>10
<1>14. ASSUME NEW q \in AllPaths(ty, root)
       PROVE  q \in Walked(ty, root, f) <=> q \in Walked(ty, root, fr)
  <2>1. q \in Walked(ty, root, f) <=> \E j \in 1..m : Leaves(ty, f, q, j)
    BY <1>4 DEF Walked
  <2>2. q \in Walked(ty, root, fr) <=> \E j \in 1..n : Leaves(ty, fr, q, j)
    BY <1>2 DEF Walked
  <2>3. (\E j \in 1..m : Leaves(ty, f, q, j)) <=>
          (\E j \in 1..(m - 1) : Leaves(ty, f, q, j)) \/ Leaves(ty, f, q, m)
    BY <1>5
  <2>4. (\E j \in 1..n : Leaves(ty, fr, q, j)) <=>
          (\E j \in 1..(m - 1) : Leaves(ty, fr, q, j)) \/ Leaves(ty, fr, q, m)
            \/ Leaves(ty, fr, q, n)
    BY <1>5
  <2> QED
    BY <1>11, <1>13, <2>1, <2>2, <2>3, <2>4
<1>15. /\ Walked(ty, root, f) \subseteq AllPaths(ty, root)
       /\ Walked(ty, root, fr) \subseteq AllPaths(ty, root)
  BY DEF Walked
<1>16. Walked(ty, root, f) = Walked(ty, root, fr)
  BY <1>14, <1>15
<1> QED
  BY <1>1, <1>3, <1>7, <1>8, <1>16

-----------------------------------------------------------------------------
(* The paths of Unfolded, which are made by their length                   *)

(* A path that does not come back goes on into what its last type refers to. *)
LEMMA AppendPath ==
  ASSUME NEW ty, NEW root, Graph(ty), NEW q \in AllPaths(ty, root), NEW c,
         ~ComesBack(ty, q, Len(q)), Refers(ty, q[Len(q)], c)
  PROVE  Append(q, c) \in AllPaths(ty, root) /\ Len(Append(q, c)) = Len(q) + 1
<1>1. PICK n, a : n = Len(q) /\ a = Append(q, c)
  OBVIOUS
<1>2. q \in Seq(DOMAIN ty) /\ Unfolds(ty, root, q)
  BY DEF AllPaths
<1>3. n \in Nat /\ n >= 1 /\ q[1] = root /\ n \in 1..n /\ 1 \in 1..n
  <2>1. Len(q) \in Nat
    BY <1>2, SeqFacts
  <2>2. Len(q) >= 1 /\ q[1] = root
    BY <1>2 DEF Unfolds
  <2> QED
    BY <1>1, <2>1, <2>2
<1>4. c \in DOMAIN ty
  <2>1. q[n] \in DOMAIN ty
    BY <1>1, <1>2, <1>3, SeqFacts
  <2>2. PICK k \in DOMAIN ty[q[n]].parts : ty[q[n]].parts[k].type = c
    BY <1>1 DEF Refers, Leads
  <2>3. /\ ty[q[n]].parts \in Seq([type : DOMAIN ty, exported : BOOLEAN])
        /\ DOMAIN ty[q[n]].parts = 1..Len(ty[q[n]].parts)
    BY <2>1, SeqFacts DEF Graph
  <2>4. ty[q[n]].parts[k] \in [type : DOMAIN ty, exported : BOOLEAN]
    BY <2>2, <2>3, SeqFacts
  <2> QED
    BY <2>2, <2>4
<1>5. /\ a \in Seq(DOMAIN ty) /\ Len(a) = n + 1 /\ a[n + 1] = c
      /\ \A i \in 1..n : a[i] = q[i]
  BY <1>1, <1>2, <1>4, AppendProperties
<1>6. ASSUME NEW i \in 1..n
      PROVE  Refers(ty, a[i], a[i + 1]) /\ ~ComesBack(ty, a, i)
  <2>1. \A j \in 1..(i - 1) : j \in 1..n
    BY <1>3
  <2>2. a[i] = q[i] /\ \A j \in 1..(i - 1) : a[j] = q[j]
    BY <1>5, <2>1
  <2>3. ComesBack(ty, a, i) <=> ComesBack(ty, q, i)
    BY <2>2 DEF ComesBack
  <2>4. CASE i = n
    BY <1>1, <1>5, <2>2, <2>3, <2>4
  <2>5. CASE i # n
    <3>1. i \in 1..(n - 1) /\ i + 1 \in 1..n
      BY <1>3, <2>5
    <3>2. Refers(ty, q[i], q[i + 1]) /\ ~ComesBack(ty, q, i)
      BY <1>1, <1>2, <3>1 DEF Unfolds
    <3>3. a[i + 1] = q[i + 1]
      BY <1>5, <3>1
    <3> QED
      BY <2>2, <2>3, <3>2, <3>3
  <2> QED
    BY <2>4, <2>5
<1>7. a[1] = root /\ Len(a) >= 1 /\ 1..(Len(a) - 1) = 1..n
  BY <1>3, <1>5
<1>8. a \in AllPaths(ty, root)
  BY <1>5, <1>6, <1>7 DEF AllPaths, Unfolds
<1> QED
  BY <1>1, <1>5, <1>8

LEMMA FrontLast ==
  ASSUME NEW S, NEW s \in Seq(S), Len(s) >= 1
  PROVE  s = Append(Front(s), s[Len(s)])
<1>1. PICK n, f : n = Len(s) /\ f = Front(s)
  OBVIOUS
<1>2. n \in Nat /\ n >= 1 /\ n \in 1..n
  <2>1. Len(s) \in Nat
    BY SeqFacts
  <2> QED
    BY <1>1, <2>1
<1>3. f \in Seq(S) /\ Len(f) = n - 1 /\ \A i \in 1..(n - 1) : f[i] = s[i]
  BY <1>1, FrontFacts
<1>4. s[n] \in S
  BY <1>1, <1>2, SeqFacts
<1>5. PICK a : a = Append(f, s[n])
  OBVIOUS
<1>6. /\ a \in Seq(S) /\ Len(a) = Len(f) + 1 /\ a[Len(f) + 1] = s[n]
      /\ \A i \in 1..Len(f) : a[i] = f[i]
  BY <1>3, <1>4, <1>5, AppendProperties
<1>7. Len(a) = n
  BY <1>2, <1>3, <1>6
<1>8. ASSUME NEW i \in 1..n
      PROVE  a[i] = s[i]
  <2>1. CASE i = n
    BY <1>2, <1>3, <1>6, <2>1
  <2>2. CASE i # n
    <3>1. i \in 1..(n - 1)
      BY <1>2, <2>2
    <3> QED
      BY <1>3, <1>6, <3>1
  <2> QED
    BY <2>1, <2>2
<1>9. a = s
  BY <1>1, <1>6, <1>7, <1>8, SeqEqual
<1> QED
  BY <1>1, <1>5, <1>9

(* A longer path goes on from one that does not come back.                 *)
LEMMA FrontPath ==
  ASSUME NEW ty, NEW root, Graph(ty), NEW q \in AllPaths(ty, root), Len(q) # 1
  PROVE  /\ Front(q) \in AllPaths(ty, root)
         /\ Len(Front(q)) = Len(q) - 1
         /\ ~ComesBack(ty, Front(q), Len(Front(q)))
         /\ Refers(ty, Front(q)[Len(Front(q))], q[Len(q)])
         /\ q = Append(Front(q), q[Len(q)])
<1>1. PICK n, f, m : n = Len(q) /\ f = Front(q) /\ m = n - 1
  OBVIOUS
<1>2. q \in Seq(DOMAIN ty) /\ Unfolds(ty, root, q)
  BY DEF AllPaths
<1>3. /\ n \in Nat /\ q[1] = root /\ m \in Nat /\ m >= 1 /\ n = m + 1
      /\ m \in 1..m /\ 1 \in 1..m
  <2>1. Len(q) \in Nat
    BY <1>2, SeqFacts
  <2>2. Len(q) >= 1 /\ q[1] = root
    BY <1>2 DEF Unfolds
  <2> QED
    BY <1>1, <2>1, <2>2
<1>4. Len(q) >= 1
  BY <1>2 DEF Unfolds
<1>5. f \in Seq(DOMAIN ty) /\ Len(f) = m /\ \A i \in 1..m : f[i] = q[i]
  BY <1>1, <1>2, <1>4, FrontFacts
<1>6. ASSUME NEW i \in 1..m
      PROVE  Refers(ty, f[i], q[i + 1]) /\ ~ComesBack(ty, f, i)
  <2>1. \A j \in 1..(i - 1) : j \in 1..m
    BY <1>3
  <2>2. f[i] = q[i] /\ \A j \in 1..(i - 1) : f[j] = q[j]
    BY <1>5, <2>1
  <2>3. ComesBack(ty, f, i) <=> ComesBack(ty, q, i)
    BY <2>2 DEF ComesBack
  <2>4. Refers(ty, q[i], q[i + 1]) /\ ~ComesBack(ty, q, i)
    BY <1>1, <1>2 DEF Unfolds
  <2> QED
    BY <2>2, <2>3, <2>4
<1>7. \A i \in 1..(m - 1) : i \in 1..m /\ i + 1 \in 1..m
  BY <1>3
<1>8. \A i \in 1..(m - 1) : Refers(ty, f[i], f[i + 1]) /\ ~ComesBack(ty, f, i)
  BY <1>5, <1>6, <1>7
<1>9. Len(f) >= 1 /\ f[1] = root
  BY <1>3, <1>5
<1>10. f \in AllPaths(ty, root)
  BY <1>5, <1>8, <1>9 DEF AllPaths, Unfolds
<1>11. ~ComesBack(ty, f, m) /\ Refers(ty, f[m], q[m + 1])
  BY <1>3, <1>6
<1>12. q = Append(f, q[n])
  BY <1>1, <1>2, <1>4, FrontLast
<1> QED
  BY <1>1, <1>3, <1>5, <1>10, <1>11, <1>12

LEMMA PartsRefer ==
  ASSUME Graph(types), NEW t \in DOMAIN types
  PROVE  Parts(t) = {c \in DOMAIN types : Refers(types, t, c)}
<1>1. types[t].parts \in Seq([type : DOMAIN types, exported : BOOLEAN])
  BY DEF Graph
<1>2. /\ DOMAIN types[t].parts = 1..Len(types[t].parts)
      /\ \A k \in 1..Len(types[t].parts) :
           types[t].parts[k] \in [type : DOMAIN types, exported : BOOLEAN]
  BY <1>1, SeqFacts
<1>3. \A k \in DOMAIN types[t].parts : types[t].parts[k].type \in DOMAIN types
  BY <1>2
<1> QED
  BY <1>3 DEF Parts, Range, Refers, Leads

LEMMA FirstPath ==
  ASSUME NEW ty, NEW root \in DOMAIN ty, Graph(ty)
  PROVE  {q \in AllPaths(ty, root) : Len(q) = 1} = {<<root>>}
<1> DEFINE r == <<root>>
<1>1. r \in Seq(DOMAIN ty) /\ Len(r) = 1 /\ r[1] = root
  OBVIOUS
<1> HIDE DEF r
<1>2. Len(r) >= 1 /\ 1..(Len(r) - 1) = {}
  BY <1>1
<1>3. r \in AllPaths(ty, root)
  BY <1>1, <1>2 DEF AllPaths, Unfolds
<1>4. ASSUME NEW q \in AllPaths(ty, root), Len(q) = 1
      PROVE  q = r
  <2>1. q \in Seq(DOMAIN ty) /\ q[1] = root
    BY DEF AllPaths, Unfolds
  <2>2. \A i \in 1..Len(q) : q[i] = r[i]
    BY <1>1, <1>4, <2>1
  <2> QED
    BY <1>1, <1>4, <2>1, <2>2, SeqEqual
<1>5. {q \in AllPaths(ty, root) : Len(q) = 1} = {r}
  BY <1>1, <1>3, <1>4
<1> QED
  BY <1>5 DEF r

Longer(Q) ==
  UNION {{Append(path, c) : c \in Parts(path[Len(path)])} : path \in {q \in Q : ~Comes(q)}}

LEMMA LongerPaths ==
  ASSUME Graph(types), NEW root \in DOMAIN types, NEW m \in Nat, m >= 1
  PROVE  {q \in AllPaths(types, root) : Len(q) = m + 1} =
           Longer({q \in AllPaths(types, root) : Len(q) = m})
<1>1. ASSUME NEW q \in AllPaths(types, root)
      PROVE  /\ Comes(q) <=> ComesBack(types, q, Len(q))
             /\ Parts(q[Len(q)]) = {c \in DOMAIN types : Refers(types, q[Len(q)], c)}
  <2>1. q \in Seq(DOMAIN types) /\ Len(q) >= 1
    BY DEF AllPaths, Unfolds
  <2>2. Len(q) \in 1..Len(q)
    <3>1. Len(q) \in Nat
      BY <2>1, SeqFacts
    <3> QED
      BY <2>1, <3>1
  <2>3. q[Len(q)] \in DOMAIN types
    BY <2>1, <2>2, SeqFacts
  <2>4. Parts(q[Len(q)]) = {c \in DOMAIN types : Refers(types, q[Len(q)], c)}
    BY <2>3, PartsRefer
  <2> QED
    BY <2>4 DEF Comes, ComesBack, Named
<1>2. ASSUME NEW q \in AllPaths(types, root), Len(q) = m + 1
      PROVE  q \in Longer({p \in AllPaths(types, root) : Len(p) = m})
  <2>1. PICK f, c : f = Front(q) /\ c = q[Len(q)]
    OBVIOUS
  <2>2. Len(q) # 1 /\ Len(q) - 1 = m
    BY <1>2
  <2>3. /\ f \in AllPaths(types, root) /\ Len(f) = m
        /\ ~ComesBack(types, f, Len(f)) /\ Refers(types, f[Len(f)], c)
        /\ q = Append(f, c)
    BY <2>1, <2>2, FrontPath
  <2>4. c \in DOMAIN types
    <3>1. q \in Seq(DOMAIN types) /\ Len(q) \in 1..Len(q)
      BY <1>2 DEF AllPaths
    <3> QED
      BY <2>1, <3>1, SeqFacts
  <2>5. c \in Parts(f[Len(f)]) /\ ~Comes(f)
    BY <1>1, <2>3, <2>4
  <2> QED
    BY <2>3, <2>5 DEF Longer
<1>3. ASSUME NEW q \in Longer({p \in AllPaths(types, root) : Len(p) = m})
      PROVE  q \in AllPaths(types, root) /\ Len(q) = m + 1
  <2>1. PICK f \in AllPaths(types, root) :
          Len(f) = m /\ ~Comes(f) /\ q \in {Append(f, c) : c \in Parts(f[Len(f)])}
    BY <1>3 DEF Longer
  <2>2. PICK c \in Parts(f[Len(f)]) : q = Append(f, c)
    BY <2>1
  <2>3. ~ComesBack(types, f, Len(f)) /\ Refers(types, f[Len(f)], c)
    BY <1>1, <2>1, <2>2
  <2> QED
    BY <2>1, <2>2, <2>3, AppendPath
<1> QED
  BY <1>2, <1>3

(* One step of the recursion of Paths.                                     *)
NextPaths(p, n, root) ==
  IF n = 1 THEN {<<root>>}
  ELSE UNION {{Append(path, c) : c \in Parts(path[n - 1])} :
              path \in {q \in p[n - 1] : ~Comes(q)}}

LEMMA NextPathsMade ==
  ASSUME Graph(types), NEW root \in DOMAIN types, NEW n \in Nat, n >= 1, NEW p,
         n # 1 => p[n - 1] = {q \in AllPaths(types, root) : Len(q) = n - 1}
  PROVE  NextPaths(p, n, root) = {q \in AllPaths(types, root) : Len(q) = n}
<1>1. CASE n = 1
  BY <1>1, FirstPath DEF NextPaths
<1>2. CASE n # 1
  <2>1. PICK m : m = n - 1
    OBVIOUS
  <2>2. m \in Nat /\ m >= 1 /\ n = m + 1
    BY <1>2, <2>1
  <2>3. p[m] = {q \in AllPaths(types, root) : Len(q) = m}
    BY <1>2, <2>1
  <2>4. \A path \in p[m] : Len(path) = m
    BY <2>3
  <2>5. NextPaths(p, n, root) =
          UNION {{Append(path, c) : c \in Parts(path[m])} : path \in {q \in p[m] : ~Comes(q)}}
    BY <1>2, <2>1 DEF NextPaths
  <2>6. Longer(p[m]) =
          UNION {{Append(path, c) : c \in Parts(path[m])} : path \in {q \in p[m] : ~Comes(q)}}
    BY <2>4 DEF Longer
  <2>7. {q \in AllPaths(types, root) : Len(q) = m + 1} = Longer(p[m])
    BY <2>2, <2>3, LongerPaths
  <2> QED
    BY <2>2, <2>5, <2>6, <2>7
<1> QED
  BY <1>1, <1>2

(* The recursive function has every path, by its length.                   *)
LEMMA PathsByLength ==
  ASSUME Graph(types), NEW root \in DOMAIN types
  PROVE  /\ \A n \in 1..(MaxDepth + 1) :
              Paths(root)[n] = {q \in AllPaths(types, root) : Len(q) = n}
<1> DEFINE D == 1..(MaxDepth + 1)
           P == [n \in D |-> {q \in AllPaths(types, root) : Len(q) = n}]
<1>1. /\ \A n \in D : n \in Nat /\ n >= 1
      /\ \A n \in D : n # 1 => n - 1 \in D
  BY DepthAssumption
<1>2. P = [n \in D |-> NextPaths(P, n, root)]
  <2> SUFFICES ASSUME NEW n \in D
               PROVE  P[n] = NextPaths(P, n, root)
    OBVIOUS
  <2>1. n # 1 => P[n - 1] = {q \in AllPaths(types, root) : Len(q) = n - 1}
    BY <1>1
  <2>2. n \in Nat /\ n >= 1
    BY <1>1
  <2> HIDE DEF P
  <2>3. NextPaths(P, n, root) = {q \in AllPaths(types, root) : Len(q) = n}
    BY <2>1, <2>2, NextPathsMade
  <2> QED
    BY <2>3 DEF P
<1>3. PICK p : p = Paths(root)
  OBVIOUS
<1>4. p = [n \in D |-> NextPaths(p, n, root)]
  <2> HIDE DEF P
  <2> QED
    BY <1>2, <1>3 DEF Paths, NextPaths
<1>5. \A n \in D : p[n] = {q \in AllPaths(types, root) : Len(q) = n}
  <2> DEFINE S == {n \in D : p[n] # {q \in AllPaths(types, root) : Len(q) = n}}
  <2>1. SUFFICES ASSUME S # {}
                 PROVE  FALSE
    OBVIOUS
  <2>2. S \subseteq Nat
    BY <1>1
  <2>3. PICK n \in S : \A m \in S : n <= m
    <3> HIDE DEF S
    <3> QED
      BY <2>1, <2>2, Least
  <2>4. n \in D /\ n \in Nat /\ n >= 1
    BY <1>1
  <2>5. ASSUME n # 1
        PROVE  p[n - 1] = {q \in AllPaths(types, root) : Len(q) = n - 1}
    <3>1. n - 1 \in D
      BY <1>1, <2>4, <2>5
    <3>2. ~(n <= n - 1)
      BY <2>4
    <3>3. n - 1 \notin S
      BY <2>3, <3>2
    <3> QED
      BY <3>1, <3>3
  <2>6. NextPaths(p, n, root) = {q \in AllPaths(types, root) : Len(q) = n}
    BY <2>4, <2>5, NextPathsMade
  <2>7. p[n] = NextPaths(p, n, root)
    BY <1>4, <2>4
  <2> QED
    BY <2>6, <2>7
<1> QED
  BY <1>3, <1>5

LEMMA UnfoldedPaths ==
  ASSUME Graph(types), NEW root \in DOMAIN types,
         \A q \in AllPaths(types, root) : Len(q) <= MaxDepth + 1
  PROVE  Unfolded(root) = Shapes(types, AllPaths(types, root))
<1> DEFINE U == UNION {Paths(root)[n] : n \in 1..(MaxDepth + 1)}
<1>1. ASSUME NEW q \in AllPaths(types, root)
      PROVE  q \in U
  <2>1. Len(q) \in Nat /\ Len(q) >= 1
    BY DEF AllPaths, Unfolds
  <2>2. Len(q) \in 1..(MaxDepth + 1)
    BY <2>1, DepthAssumption
  <2> QED
    BY <2>2, PathsByLength
<1>2. \A q \in U : q \in AllPaths(types, root)
  BY PathsByLength
<1>3. U = AllPaths(types, root)
  BY <1>1, <1>2
<1>4. Unfolded(root) =
        {Shape(path, IF Comes(path) THEN "recursive" ELSE types[Last(path)].kind) : path \in U}
  BY DEF Unfolded
<1> HIDE DEF U
<1>5. \A q \in U : KindOf(types, q) = IF Comes(q) THEN "recursive" ELSE types[Last(q)].kind
  BY DEF KindOf, Comes, ComesBack, Named, Last
<1> QED
  BY <1>3, <1>4, <1>5 DEF Shapes

-----------------------------------------------------------------------------
(* The walk                                                                *)

Resolved(root) == IF root = NoType THEN Unknown ELSE Unfolded(root)

(* While root is resolved.                                                 *)
Resolves(root) ==
  /\ root \in DOMAIN types
  /\ FramesOK(types, root, frames)
  /\ Len(frames) <= MaxDepth
  /\ seen = SeenIn(types, frames)
  /\ shape = Shapes(types, Walked(types, root, frames))
  /\ \A q \in Walked(types, root, frames) : Len(q) <= MaxDepth + 1

ShapeInv(root) ==
  /\ seen \subseteq DOMAIN types
  /\ IF frames = <<>> THEN shape = Resolved(root) ELSE Resolves(root)

LEMMA ResolveStarts ==
  ASSUME Graph(types), NEW root \in DOMAIN types \cup {NoType}, types' = types,
         Resolve(root)
  PROVE  ShapeInv(root)'
<1>1. CASE root = NoType
  BY <1>1 DEF Resolve, ShapeInv, Resolved, Unknown, Shape, NoType
<1>2. CASE root # NoType
  <2>1. root \in DOMAIN types
    BY <1>2
  <2>2. /\ frames' = <<[type |-> root, next |-> 1]>>
        /\ seen' = IF types[root].kind = "named" THEN {root} ELSE {}
        /\ shape' = {Shape(<<root>>, types[root].kind)}
    BY <1>2 DEF Resolve, Named
  <2>3. /\ FramesOK(types, root, frames')
        /\ SeenIn(types, frames') = seen'
        /\ Walked(types, root, frames') = {<<root>>}
    BY <2>1, <2>2, RootWalked
  <2>4. frames' # <<>> /\ Len(frames') = 1 /\ Len(<<root>>) = 1 /\ <<root>>[1] = root
    BY <2>2
  <2>5. KindOf(types, <<root>>) = types[root].kind
    <3>1. PICK r : r = <<root>>
      OBVIOUS
    <3>2. Len(r) = 1 /\ r[1] = root /\ 1..(1 - 1) = {}
      BY <2>4, <3>1
    <3>3. KindOf(types, r) = types[root].kind
      BY <3>2 DEF KindOf, ComesBack
    <3> QED
      BY <3>1, <3>3
  <2>6. shape' = Shapes(types, {<<root>>})
    BY <2>2, <2>5 DEF Shapes
  <2>7. Resolves(root)'
    BY <2>1, <2>3, <2>4, <2>6, DepthAssumption DEF Resolves
  <2> QED
    BY <2>1, <2>2, <2>4, <2>7 DEF ShapeInv
<1> QED
  BY <1>1, <1>2

LEMMA SkipKeeps ==
  ASSUME Graph(types), NEW root, types' = types, frames # <<>>, ShapeInv(root), Skip
  PROVE  ShapeInv(root)'
<1>1. /\ root \in DOMAIN types /\ FramesOK(types, root, frames)
      /\ Len(frames) <= MaxDepth /\ seen = SeenIn(types, frames)
      /\ shape = Shapes(types, Walked(types, root, frames))
      /\ \A q \in Walked(types, root, frames) : Len(q) <= MaxDepth + 1
      /\ seen \subseteq DOMAIN types
  BY DEF ShapeInv, Resolves
<1>2. /\ HasNext(types, frames)
      /\ ~types[frames[Len(frames)].type].parts[frames[Len(frames)].next].exported
      /\ frames' = Advanced(frames) /\ seen' = seen /\ shape' = shape
  BY DEF Skip, Resolving, Part, Top, NextPart, Advanced, HasNext
<1>3. /\ FramesOK(types, root, frames') /\ Len(frames') = Len(frames)
      /\ SeenIn(types, frames') = SeenIn(types, frames)
  BY <1>1, <1>2, AdvancedFacts
<1>4. Walked(types, root, frames') = Walked(types, root, frames)
  BY <1>1, <1>2, SkippedWalked
<1>5. frames' # <<>>
  BY <1>3 DEF FramesOK
<1> QED
  BY <1>1, <1>2, <1>3, <1>4, <1>5 DEF ShapeInv, Resolves

LEMMA RecurKeeps ==
  ASSUME Graph(types), NEW root, types' = types, frames # <<>>, ShapeInv(root), Recur
  PROVE  ShapeInv(root)'
<1>1. /\ root \in DOMAIN types /\ FramesOK(types, root, frames)
      /\ Len(frames) <= MaxDepth /\ seen = SeenIn(types, frames)
      /\ shape = Shapes(types, Walked(types, root, frames))
      /\ \A q \in Walked(types, root, frames) : Len(q) <= MaxDepth + 1
      /\ seen \subseteq DOMAIN types
  BY DEF ShapeInv, Resolves
<1>2. PICK c, Q : c = Part.type /\ Q = PathInto(frames, c)
  OBVIOUS
<1>3. /\ Ready(types, frames, c) /\ c \in SeenIn(types, frames)
      /\ frames' = Advanced(frames) /\ seen' = seen
      /\ shape' = shape \cup {Shape(Q, "recursive")}
  BY <1>1, <1>2
     DEF Recur, Resolving, Part, Top, NextPart, Advanced, Ready, HasNext, Leads,
         PathInto, PathOf, Path
<1>4. /\ FramesOK(types, root, frames') /\ Len(frames') = Len(frames)
      /\ SeenIn(types, frames') = SeenIn(types, frames)
  <2>1. HasNext(types, frames)
    BY <1>3 DEF Ready
  <2> QED
    BY <1>1, <1>3, <2>1, AdvancedFacts
<1>5. Walked(types, root, frames') = Walked(types, root, frames) \cup {Q}
  BY <1>1, <1>2, <1>3, RecurredWalked
<1>6. Len(Q) = Len(frames) + 1 /\ ComesBack(types, Q, Len(Q))
  <2>1. /\ Len(PathInto(frames, c)) = Len(frames) + 1
        /\ ComesBack(types, PathInto(frames, c), Len(frames) + 1)
    BY <1>1, <1>3, NextPath
  <2> QED
    BY <1>2, <2>1
<1>7. Shapes(types, Walked(types, root, frames')) = shape'
  BY <1>1, <1>3, <1>5, <1>6, ShapesUnion DEF KindOf
<1>8. Len(frames) \in Nat
  BY <1>1, FramesFacts
<1>9. \A q \in Walked(types, root, frames') : Len(q) <= MaxDepth + 1
  BY <1>1, <1>5, <1>6, <1>8, DepthAssumption
<1>10. frames' # <<>>
  BY <1>4 DEF FramesOK
<1> QED
  BY <1>1, <1>3, <1>4, <1>7, <1>9, <1>10 DEF ShapeInv, Resolves

LEMMA DescendKeeps ==
  ASSUME Graph(types), NEW root, types' = types, frames # <<>>, ShapeInv(root), Descend
  PROVE  ShapeInv(root)'
<1>1. /\ root \in DOMAIN types /\ FramesOK(types, root, frames)
      /\ Len(frames) <= MaxDepth /\ seen = SeenIn(types, frames)
      /\ shape = Shapes(types, Walked(types, root, frames))
      /\ \A q \in Walked(types, root, frames) : Len(q) <= MaxDepth + 1
      /\ seen \subseteq DOMAIN types
  BY DEF ShapeInv, Resolves
<1>2. PICK c, Q : c = Part.type /\ Q = PathInto(frames, c)
  OBVIOUS
<1>3. /\ Ready(types, frames, c) /\ c \notin SeenIn(types, frames)
      /\ Len(frames) < MaxDepth /\ frames' = Pushed(frames, c)
      /\ seen' = IF types[c].kind = "named" THEN seen \cup {c} ELSE seen
      /\ shape' = shape \cup {Shape(Q, types[c].kind)}
  BY <1>1, <1>2
     DEF Descend, Call, Named, Resolving, Part, Top, NextPart, Advanced, Pushed,
         Ready, HasNext, Leads, PathInto, PathOf, Path
<1>4. /\ Len(frames') = Len(frames) + 1 /\ FramesOK(types, root, frames')
      /\ SeenIn(types, frames') = seen'
      /\ Walked(types, root, frames') = Walked(types, root, frames) \cup {Q}
  <2>1. /\ Len(Pushed(frames, c)) = Len(frames) + 1
        /\ FramesOK(types, root, Pushed(frames, c))
        /\ Walked(types, root, Pushed(frames, c)) =
             Walked(types, root, frames) \cup {PathInto(frames, c)}
    BY <1>1, <1>3, PushedFacts
  <2>2. SeenIn(types, Pushed(frames, c)) =
          IF types[c].kind = "named" THEN SeenIn(types, frames) \cup {c}
          ELSE SeenIn(types, frames)
    <3>1. SeenIn(types, Pushed(frames, c)) = Marked(types, c, SeenIn(types, frames))
      BY <1>1, <1>3, PushedFacts
    <3> QED
      BY <3>1 DEF Marked
  <2> QED
    BY <1>1, <1>2, <1>3, <2>1, <2>2
<1>5. /\ c \in DOMAIN types /\ Len(Q) = Len(frames) + 1 /\ Q[Len(Q)] = c
      /\ ~ComesBack(types, Q, Len(Q))
  BY <1>1, <1>2, <1>3, NextPath
<1>6. Shapes(types, Walked(types, root, frames')) = shape'
  BY <1>1, <1>3, <1>4, <1>5, ShapesUnion DEF KindOf
<1>7. Len(frames) \in Nat
  BY <1>1, FramesFacts
<1>8. /\ Len(frames') <= MaxDepth
      /\ \A q \in Walked(types, root, frames') : Len(q) <= MaxDepth + 1
  BY <1>1, <1>3, <1>4, <1>5, <1>7, DepthAssumption
<1>9. frames' # <<>>
  BY <1>4 DEF FramesOK
<1>10. seen' \subseteq DOMAIN types
  BY <1>1, <1>3, <1>5
<1> QED
  BY <1>1, <1>4, <1>6, <1>8, <1>9, <1>10 DEF ShapeInv, Resolves

LEMMA AscendKeeps ==
  ASSUME Graph(types), NEW root, types' = types, ShapeInv(root), Ascend
  PROVE  ShapeInv(root)'
<1>1. /\ root \in DOMAIN types /\ FramesOK(types, root, frames)
      /\ Len(frames) <= MaxDepth /\ seen = SeenIn(types, frames)
      /\ shape = Shapes(types, Walked(types, root, frames))
      /\ \A q \in Walked(types, root, frames) : Len(q) <= MaxDepth + 1
      /\ seen \subseteq DOMAIN types
  BY DEF ShapeInv, Resolves, Ascend
<1>2. /\ ~HasNext(types, frames) /\ frames' = Front(frames)
      /\ seen' = seen \ {frames[Len(frames)].type} /\ shape' = shape
  BY DEF Ascend, Returned, Top, HasNext
<1>3. /\ Len(frames) \in Nat /\ Len(frames) >= 1
      /\ frames \in Seq([type : DOMAIN types, next : Nat])
  BY <1>1, FramesFacts
<1>4. /\ Len(frames') = Len(frames) - 1
      /\ frames' \in Seq([type : DOMAIN types, next : Nat])
  BY <1>2, <1>3, FrontFacts
<1>5. seen' \subseteq DOMAIN types
  BY <1>1, <1>2
<1>6. CASE Len(frames) = 1
  <2>1. frames' = <<>>
    BY <1>4, <1>6, SeqFacts
  <2>2. Walked(types, root, frames) = AllPaths(types, root)
    BY <1>1, <1>2, <1>6, AllWalked
  <2>3. Unfolded(root) = Shapes(types, AllPaths(types, root))
    BY <1>1, <2>2, UnfoldedPaths
  <2>4. root # NoType
    BY <1>1 DEF Graph
  <2>5. shape = Resolved(root)
    BY <1>1, <2>2, <2>3, <2>4 DEF Resolved
  <2>6. Resolved(root)' = Resolved(root)
    BY DEF Resolved, Unknown, Shape, NoType, Unfolded, Paths, Parts, Comes, Named
  <2> QED
    BY <1>2, <1>5, <2>1, <2>5, <2>6 DEF ShapeInv
<1>7. CASE Len(frames) # 1
  <2>1. /\ FramesOK(types, root, frames')
        /\ SeenIn(types, frames') = SeenIn(types, frames) \ {frames[Len(frames)].type}
        /\ Walked(types, root, frames') = Walked(types, root, frames)
    BY <1>1, <1>2, <1>7, PoppedFacts
  <2>2. Len(frames') <= MaxDepth
    BY <1>1, <1>3, <1>4, DepthAssumption
  <2>3. frames' # <<>>
    BY <2>1 DEF FramesOK
  <2> QED
    BY <1>1, <1>2, <1>5, <2>1, <2>2, <2>3 DEF ShapeInv, Resolves
<1> QED
  BY <1>6, <1>7
=============================================================================
