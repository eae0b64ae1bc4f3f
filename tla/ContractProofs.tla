--------------------------- MODULE ContractProofs ---------------------------
(***************************************************************************)
(* Proofs of the invariants of Contract.  A body is a tree in preorder, so *)
(* what is in a node is an interval; the walkers are a stack of branches   *)
(* whose intervals contain the node that is visited next.                  *)
(***************************************************************************)
EXTENDS Contract, ShapeProofs, FiniteSetTheorems

-----------------------------------------------------------------------------
(* Trees                                                                   *)

Size(body) == Len(body.kind)

TreeNodes(body) == 0..Size(body)

Parented(body) ==
  /\ body.kind \in Seq(STRING)
  /\ \A n \in Nodes(body) : body.parent[n] \in 0..(n - 1)

LEMMA TreeSize ==
  ASSUME NEW body, Parented(body)
  PROVE  /\ Size(body) \in Nat /\ Nodes(body) = 1..Size(body)
         /\ {0} \cup Nodes(body) = TreeNodes(body)
<1>1. Size(body) \in Nat /\ Nodes(body) = 1..Size(body)
  BY SeqFacts DEF Size, Nodes, Parented
<1> QED
  BY <1>1 DEF TreeNodes

(* The smallest set that has n and the parent of every node.               *)
Closed(body, S) == \A m \in S : m # 0 => body.parent[m] \in S

Around(body, n) ==
  {a \in TreeNodes(body) :
     \A S \in SUBSET TreeNodes(body) : n \in S /\ Closed(body, S) => a \in S}

LEMMA AroundStep ==
  ASSUME NEW body, Parented(body), NEW n \in TreeNodes(body)
  PROVE  Around(body, n) =
           {n} \cup (IF n = 0 THEN {} ELSE Around(body, body.parent[n]))
<1>1. /\ Size(body) \in Nat /\ n \in Nat
      /\ n # 0 => n \in Nodes(body)
      /\ 0 \in TreeNodes(body)
  BY TreeSize DEF TreeNodes
<1>2. CASE n = 0
  <2>1. {0} \in SUBSET TreeNodes(body) /\ Closed(body, {0})
    BY <1>1 DEF Closed
  <2>2. \A a \in Around(body, 0) : a \in {0}
    BY <2>1 DEF Around
  <2>3. 0 \in Around(body, 0)
    BY <1>1 DEF Around
  <2> QED
    BY <1>2, <2>2, <2>3
<1>3. CASE n # 0
  <2>1. PICK p : p = body.parent[n]
    OBVIOUS
  <2>2. p \in TreeNodes(body)
    <3>1. p \in 0..(n - 1) /\ n \in 0..Size(body)
      BY <1>1, <1>3, <2>1 DEF Parented, TreeNodes
    <3> QED
      BY <1>1, <3>1 DEF TreeNodes
  <2>3. n \in Around(body, n)
    BY DEF Around
  <2>4. ASSUME NEW a \in Around(body, p)
        PROVE  a \in Around(body, n)
    <3>1. \A S : n \in S /\ Closed(body, S) => p \in S
      BY <1>3, <2>1 DEF Closed
    <3> QED
      BY <3>1 DEF Around
  <2>5. ASSUME NEW a \in Around(body, n), a # n
        PROVE  a \in Around(body, p)
    <3>1. SUFFICES ASSUME NEW S \in SUBSET TreeNodes(body), p \in S, Closed(body, S)
                   PROVE  a \in S
      BY DEF Around
    <3>2. S \cup {n} \in SUBSET TreeNodes(body)
      OBVIOUS
    <3>3. Closed(body, S \cup {n})
      BY <2>1, <3>1 DEF Closed
    <3>4. a \in S \cup {n}
      BY <3>2, <3>3 DEF Around
    <3> QED
      BY <2>5, <3>4
  <2> QED
    BY <1>3, <2>1, <2>3, <2>4, <2>5
<1> QED
  BY <1>2, <1>3

LEMMA WithinStep ==
  ASSUME NEW body, Parented(body), NEW n \in TreeNodes(body)
  PROVE  Within(body)[n] =
           {n} \cup (IF n = 0 THEN {} ELSE Within(body)[body.parent[n]])
<1> DEFINE D == {0} \cup Nodes(body)
           W0 == [m \in D |-> Around(body, m)]
<1>1. D = TreeNodes(body)
  BY TreeSize
<1>2. \A m \in D : m # 0 => body.parent[m] \in D
  <2>1. SUFFICES ASSUME NEW m \in Nodes(body)
                 PROVE  body.parent[m] \in D
    OBVIOUS
  <2>2. body.parent[m] \in 0..(m - 1) /\ m \in 1..Size(body) /\ Size(body) \in Nat
    BY TreeSize DEF Parented
  <2>3. body.parent[m] \in TreeNodes(body)
    BY <2>2 DEF TreeNodes
  <2> QED
    BY <1>1, <2>3
<1>3. W0 = [m \in D |-> {m} \cup (IF m = 0 THEN {} ELSE W0[body.parent[m]])]
  <2> SUFFICES ASSUME NEW m \in D
               PROVE  W0[m] = {m} \cup (IF m = 0 THEN {} ELSE W0[body.parent[m]])
    OBVIOUS
  <2>1. Around(body, m) = {m} \cup (IF m = 0 THEN {} ELSE Around(body, body.parent[m]))
    BY <1>1, AroundStep
  <2> QED
    BY <1>2, <2>1
<1>4. PICK w : w = Within(body)
  OBVIOUS
<1>5. w = [m \in D |-> {m} \cup (IF m = 0 THEN {} ELSE w[body.parent[m]])]
  <2> HIDE DEF W0
  <2> QED
    BY <1>3, <1>4 DEF Within
<1>6. w[n] = {n} \cup (IF n = 0 THEN {} ELSE w[body.parent[n]])
  BY <1>1, <1>5
<1> QED
  BY <1>4, <1>6

LEMMA WithinRoot ==
  ASSUME NEW body, Parented(body)
  PROVE  Within(body)[0] = {0}
<1>1. 0 \in TreeNodes(body)
  BY TreeSize DEF TreeNodes
<1> QED
  BY <1>1, WithinStep

LEMMA WithinParent ==
  ASSUME NEW body, Parented(body), NEW n \in Nodes(body)
  PROVE  /\ n \in Nat /\ n >= 1 /\ n <= Size(body) /\ n \in TreeNodes(body)
         /\ body.parent[n] \in Nat /\ body.parent[n] < n
         /\ body.parent[n] \in TreeNodes(body)
         /\ Within(body)[n] = {n} \cup Within(body)[body.parent[n]]
<1>1. n \in 1..Size(body) /\ Size(body) \in Nat
  BY TreeSize
<1>2. body.parent[n] \in 0..(n - 1)
  BY DEF Parented
<1>3. n \in Nat /\ n >= 1 /\ n <= Size(body) /\ n \in TreeNodes(body) /\ n # 0
  BY <1>1 DEF TreeNodes
<1>4. /\ body.parent[n] \in Nat /\ body.parent[n] < n
      /\ body.parent[n] \in TreeNodes(body)
  BY <1>1, <1>2 DEF TreeNodes
<1>5. Within(body)[n] = {n} \cup Within(body)[body.parent[n]]
  BY <1>3, WithinStep
<1> QED
  BY <1>3, <1>4, <1>5

LEMMA NodeOrRoot ==
  ASSUME NEW body, Parented(body), NEW n \in TreeNodes(body)
  PROVE  n \in Nat /\ n <= Size(body) /\ (n # 0 => n \in Nodes(body))
<1>1. Size(body) \in Nat /\ Nodes(body) = 1..Size(body) /\ n \in 0..Size(body)
  BY TreeSize DEF TreeNodes
<1> QED
  BY <1>1

LEMMA WithinRange ==
  ASSUME NEW body, Parented(body), NEW n \in TreeNodes(body)
  PROVE  n \in Within(body)[n] /\ 0 \in Within(body)[n] /\ Within(body)[n] \subseteq 0..n
<1> DEFINE Good(k) == /\ k \in Within(body)[k] /\ 0 \in Within(body)[k]
                      /\ \A a \in Within(body)[k] : a \in Nat /\ a <= k
           Bad == {k \in TreeNodes(body) : ~Good(k)}
<1>1. SUFFICES ASSUME Bad # {}
               PROVE  FALSE
  <2>1. Good(n)
    BY <1>1
  <2>2. n \in Nat
    BY NodeOrRoot
  <2> QED
    BY <2>1, <2>2
<1>2. Bad \subseteq Nat
  BY NodeOrRoot
<1>3. PICK k \in Bad : \A m \in Bad : k <= m
  <2> HIDE DEF Bad
  <2> QED
    BY <1>1, <1>2, Least
<1>4. CASE k = 0
  BY <1>3, <1>4, WithinRoot
<1>5. CASE k # 0
  <2>1. k \in Nodes(body)
    BY <1>5, NodeOrRoot
  <2>2. PICK p : p = body.parent[k]
    OBVIOUS
  <2>3. /\ k \in Nat /\ p \in Nat /\ p < k /\ p \in TreeNodes(body)
        /\ Within(body)[k] = {k} \cup Within(body)[p]
    BY <2>1, <2>2, WithinParent
  <2>4. ~(k <= p)
    BY <2>3
  <2>5. Good(p)
    BY <1>3, <2>3, <2>4
  <2>6. \A a \in Nat : a <= p => a <= k
    BY <2>3
  <2>7. k <= k
    BY <2>3
  <2>8. Good(k)
    BY <2>3, <2>5, <2>6, <2>7
  <2> QED
    BY <1>3, <2>8
<1> QED
  BY <1>4, <1>5

LEMMA WithinTrans ==
  ASSUME NEW body, Parented(body), NEW n \in TreeNodes(body),
         NEW b \in Within(body)[n], NEW a \in Within(body)[b]
  PROVE  a \in Within(body)[n]
<1> DEFINE Good(k) == b \in Within(body)[k] => a \in Within(body)[k]
           Bad == {k \in TreeNodes(body) : ~Good(k)}
<1>1. SUFFICES ASSUME Bad # {}
               PROVE  FALSE
  BY <1>1
<1>2. Bad \subseteq Nat
  BY NodeOrRoot
<1>3. PICK k \in Bad : \A m \in Bad : k <= m
  <2> HIDE DEF Bad
  <2> QED
    BY <1>1, <1>2, Least
<1>4. CASE k = 0
  BY <1>3, <1>4, WithinRoot
<1>5. CASE k # 0
  <2>1. k \in Nodes(body)
    BY <1>5, NodeOrRoot
  <2>2. PICK p : p = body.parent[k]
    OBVIOUS
  <2>3. /\ k \in Nat /\ p \in Nat /\ p < k /\ p \in TreeNodes(body)
        /\ Within(body)[k] = {k} \cup Within(body)[p]
    BY <2>1, <2>2, WithinParent
  <2>4. ~(k <= p)
    BY <2>3
  <2>5. Good(p)
    BY <1>3, <2>3, <2>4
  <2> QED
    BY <1>3, <2>3, <2>5
<1> QED
  BY <1>4, <1>5

(* Of two nodes around a third one, the later one is in the earlier one.   *)
LEMMA WithinChain ==
  ASSUME NEW body, Parented(body), NEW n \in TreeNodes(body),
         NEW a \in Within(body)[n], NEW b \in Within(body)[n], a <= b
  PROVE  a \in Within(body)[b]
<1> DEFINE Good(k) == a \in Within(body)[k] /\ b \in Within(body)[k] => a \in Within(body)[b]
           Bad == {k \in TreeNodes(body) : ~Good(k)}
<1>1. SUFFICES ASSUME Bad # {}
               PROVE  FALSE
  BY <1>1
<1>2. Bad \subseteq Nat
  BY NodeOrRoot
<1>3. PICK k \in Bad : \A m \in Bad : k <= m
  <2> HIDE DEF Bad
  <2> QED
    BY <1>1, <1>2, Least
<1>4. CASE k = 0
  BY <1>3, <1>4, WithinRoot
<1>5. CASE k # 0
  <2>1. k \in Nodes(body)
    BY <1>5, NodeOrRoot
  <2>2. PICK p : p = body.parent[k]
    OBVIOUS
  <2>3. /\ k \in Nat /\ p \in Nat /\ p < k /\ p \in TreeNodes(body)
        /\ Within(body)[k] = {k} \cup Within(body)[p]
    BY <2>1, <2>2, WithinParent
  <2>4. ~(k <= p)
    BY <2>3
  <2>5. Good(p)
    BY <1>3, <2>3, <2>4
  <2>6. b # k /\ a \in Within(body)[k] /\ b \in Within(body)[k]
    BY <1>3
  <2>7. b \in Within(body)[p]
    BY <2>3, <2>6
  <2>8. b \in Nat /\ b <= p
    <3>1. Within(body)[p] \subseteq 0..p
      BY <2>3, WithinRange
    <3>2. b \in 0..p
      BY <2>7, <3>1
    <3> QED
      BY <2>3, <3>2
  <2>9. a \in Nat
    <3>1. Within(body)[n] \subseteq 0..n /\ n \in Nat
      BY WithinRange, NodeOrRoot
    <3>2. a \in 0..n
      BY <3>1
    <3> QED
      BY <3>1, <3>2
  <2>10. a # k
    BY <2>3, <2>8, <2>9
  <2>11. a \in Within(body)[p]
    BY <2>3, <2>6, <2>10
  <2> QED
    BY <1>3, <2>5, <2>7, <2>11
<1> QED
  BY <1>4, <1>5

LEMMA TreeParented ==
  ASSUME NEW body, Tree(body)
  PROVE  Parented(body)
BY DEF Tree, Parented

LEMMA WithinBefore ==
  ASSUME NEW body, Tree(body), NEW k \in Nodes(body),
         NEW n \in Within(body)[k], n # k
  PROVE  k - 1 \in TreeNodes(body) /\ n \in Within(body)[k - 1]
<1>1. Parented(body)
  BY TreeParented
<1>2. PICK p : p = body.parent[k]
  OBVIOUS
<1>3. /\ k \in Nat /\ k >= 1 /\ k <= Size(body)
      /\ Within(body)[k] = {k} \cup Within(body)[p]
  BY <1>1, <1>2, WithinParent
<1>4. n \in Within(body)[p]
  BY <1>3
<1>5. p \in Within(body)[k - 1]
  BY <1>2 DEF Tree
<1>6. k - 1 \in TreeNodes(body)
  <2>1. Size(body) \in Nat
    BY <1>1, TreeSize
  <2> QED
    BY <1>3, <2>1 DEF TreeNodes
<1>7. n \in Within(body)[k - 1]
  BY <1>1, <1>4, <1>5, <1>6, WithinTrans
<1> QED
  BY <1>6, <1>7

(* What is in a node is an interval of the preorder.                       *)
LEMMA Interval ==
  ASSUME NEW body, Tree(body), NEW n \in TreeNodes(body)
  PROVE  \E e \in Nat :
           /\ n < e /\ e <= Size(body) + 1
           /\ \A m \in TreeNodes(body) : n \in Within(body)[m] <=> n <= m /\ m < e
<1> DEFINE N == Size(body)
           Holds(m) == m \in TreeNodes(body) /\ n \in Within(body)[m]
           Out == {m \in n..(N + 1) : ~Holds(m)}
<1>1. Parented(body)
  BY TreeParented
<1>2. N \in Nat /\ n \in Nat /\ n <= N /\ Nodes(body) = 1..N /\ TreeNodes(body) = 0..N
  BY <1>1, TreeSize, NodeOrRoot DEF TreeNodes
<1> HIDE DEF N
<1>3. N + 1 \in Out
  BY <1>2
<1>4. PICK e \in Out : \A m \in Out : e <= m
  <2>1. Out \subseteq Nat
    BY <1>2
  <2> HIDE DEF Out
  <2> QED
    BY <1>3, <2>1, Least
<1>5. Holds(n)
  BY <1>1, WithinRange
<1>6. e \in Nat /\ n <= e /\ e <= N + 1 /\ ~Holds(e)
  BY <1>2, <1>4
<1>7. n < e
  <2>1. e # n
    BY <1>5, <1>6
  <2> QED
    BY <1>2, <1>6, <2>1
<1>8. \A m \in TreeNodes(body) : n <= m /\ m < e => Holds(m)
  <2>1. SUFFICES ASSUME NEW m \in TreeNodes(body), n <= m, m < e, ~Holds(m)
                 PROVE  FALSE
    OBVIOUS
  <2>2. m \in Out
    BY <1>2, <1>6, <2>1
  <2>3. e <= m
    BY <1>4, <2>2
  <2> QED
    BY <1>2, <1>6, <2>1, <2>3
<1>9. \A m \in TreeNodes(body) : Holds(m) => m < e
  <2> DEFINE Late == {m \in TreeNodes(body) : Holds(m) /\ e <= m}
  <2>1. Late = {}
    <3>1. SUFFICES ASSUME Late # {}
                   PROVE  FALSE
      OBVIOUS
    <3>2. PICK k \in Late : \A m \in Late : k <= m
      <4>1. Late \subseteq Nat
        BY <1>2
      <4> HIDE DEF Late
      <4> QED
        BY <3>1, <4>1, Least
    <3>3. k \in 0..N /\ n \in Within(body)[k] /\ e <= k /\ Holds(k)
      BY <1>2, <3>2
    <3>4. k # e
      BY <1>6, <3>3
    <3>5. k \in Nodes(body) /\ n # k /\ e <= k - 1 /\ ~(k <= k - 1)
      BY <1>2, <1>6, <1>7, <3>3, <3>4
    <3>6. k - 1 \in TreeNodes(body) /\ n \in Within(body)[k - 1]
      BY <3>3, <3>5, WithinBefore
    <3>7. k - 1 \in Late
      BY <3>5, <3>6
    <3> QED
      BY <3>2, <3>5, <3>7
  <2>2. \A m \in TreeNodes(body) : Holds(m) => ~(e <= m)
    BY <2>1
  <2> QED
    BY <1>2, <1>6, <2>2
<1>10. \A m \in TreeNodes(body) : Holds(m) => n <= m
  <2>1. SUFFICES ASSUME NEW m \in TreeNodes(body), n \in Within(body)[m]
                 PROVE  n <= m
    OBVIOUS
  <2>2. Within(body)[m] \subseteq 0..m /\ m \in 0..N
    BY <1>1, <1>2, WithinRange
  <2> QED
    BY <2>1, <2>2
<1>11. \A m \in TreeNodes(body) : n \in Within(body)[m] <=> n <= m /\ m < e
  BY <1>8, <1>9, <1>10
<1>12. n < e /\ e <= Size(body) + 1
  BY <1>6, <1>7 DEF N
<1> QED
  BY <1>6, <1>11, <1>12

LEMMA AfterFacts ==
  ASSUME NEW body, Tree(body), NEW n \in TreeNodes(body)
  PROVE  /\ After(body, n) \in Nat
         /\ n < After(body, n) /\ After(body, n) <= Size(body) + 1
         /\ \A m \in TreeNodes(body) :
              n \in Within(body)[m] <=> n <= m /\ m < After(body, n)
<1>1. PICK e \in Nat :
        /\ n < e /\ e <= Size(body) + 1
        /\ \A m \in TreeNodes(body) : n \in Within(body)[m] <=> n <= m /\ m < e
  BY Interval
<1>2. /\ Size(body) \in Nat /\ n \in Nat /\ {0} \cup Nodes(body) = TreeNodes(body)
      /\ TreeNodes(body) = 0..Size(body)
  BY TreeParented, TreeSize, NodeOrRoot DEF TreeNodes
<1>3. {m \in {0} \cup Nodes(body) : n \in Within(body)[m]} = n..(e - 1)
  <2>1. \A m : m \in {0} \cup Nodes(body) /\ n \in Within(body)[m] <=> m \in n..(e - 1)
    BY <1>1, <1>2
  <2> QED
    BY <2>1
<1>4. Cardinality(n..(e - 1)) = e - n
  <2>1. n \in Int /\ e - 1 \in Int /\ ~(n > e - 1) /\ e - 1 - n + 1 = e - n
    BY <1>1, <1>2
  <2> QED
    BY <2>1, FS_Interval
<1>5. After(body, n) = n + (e - n)
  BY <1>3, <1>4 DEF After
<1>6. After(body, n) = e
  BY <1>1, <1>2, <1>5
<1> QED
  BY <1>1, <1>6

LEMMA AfterNested ==
  ASSUME NEW body, Tree(body), NEW n \in TreeNodes(body), NEW m \in TreeNodes(body),
         n <= m, m < After(body, n)
  PROVE  After(body, m) <= After(body, n)
<1>1. PICK k : k = After(body, m) - 1
  OBVIOUS
<1>2. /\ After(body, m) \in Nat /\ m < After(body, m) /\ After(body, m) <= Size(body) + 1
      /\ After(body, n) \in Nat /\ m \in Nat
      /\ Size(body) \in Nat /\ TreeNodes(body) = 0..Size(body)
  BY AfterFacts, TreeParented, TreeSize, NodeOrRoot DEF TreeNodes
<1>3. k \in TreeNodes(body) /\ m <= k /\ k < After(body, m) /\ After(body, m) = k + 1
  BY <1>1, <1>2
<1>4. m \in Within(body)[k] /\ n \in Within(body)[m]
  BY <1>3, AfterFacts
<1>5. n \in Within(body)[k]
  BY <1>3, <1>4, TreeParented, WithinTrans
<1>6. k < After(body, n)
  BY <1>3, <1>5, AfterFacts
<1> QED
  BY <1>2, <1>3, <1>6

LEMMA AfterRoot ==
  ASSUME NEW body, Tree(body)
  PROVE  After(body, 0) = Size(body) + 1
<1>1. Parented(body)
  BY TreeParented
<1>2. 0 \in TreeNodes(body) /\ Size(body) \in TreeNodes(body) /\ Size(body) \in Nat
  BY <1>1, TreeSize DEF TreeNodes
<1>3. 0 \in Within(body)[Size(body)]
  BY <1>1, <1>2, WithinRange
<1>4. Size(body) < After(body, 0) /\ After(body, 0) <= Size(body) + 1 /\ After(body, 0) \in Nat
  BY <1>2, <1>3, AfterFacts
<1> QED
  BY <1>2, <1>4

LEMMA MaxFacts ==
  ASSUME NEW S, S \subseteq Nat, NEW n \in Nat, \A m \in S : m <= n, S # {}
  PROVE  Max(S) \in S /\ \A m \in S : m <= Max(S)
<1> DEFINE U == {u \in Nat : \A m \in S : m <= u}
<1>1. PICK u \in U : \A v \in U : u <= v
  <2>1. U \subseteq Nat /\ n \in U
    OBVIOUS
  <2> HIDE DEF U
  <2> QED
    BY <2>1, Least
<1>2. u \in S
  <2>1. SUFFICES ASSUME u \notin S
                 PROVE  FALSE
    OBVIOUS
  <2>2. PICK s : s \in S
    OBVIOUS
  <2>3. u \in Nat /\ s \in Nat /\ s <= u /\ s # u
    BY <2>1, <2>2
  <2>4. u - 1 \in Nat /\ ~(u <= u - 1)
    BY <2>3
  <2>5. \A m \in S : m \in Nat /\ m <= u /\ m # u
    BY <2>1
  <2>6. \A m \in S : m <= u - 1
    BY <2>3, <2>5
  <2>7. u - 1 \in U
    BY <2>4, <2>6
  <2> QED
    BY <1>1, <2>4, <2>7
<1>3. \E x \in S : \A y \in S : x >= y
  BY <1>2
<1>4. PICK x : x = Max(S)
  OBVIOUS
<1>5. x \in S /\ \A y \in S : x >= y
  BY <1>3, <1>4 DEF Max
<1>6. \A m \in S : m <= x
  BY <1>5
<1> QED
  BY <1>4, <1>5, <1>6

-----------------------------------------------------------------------------
(* What a walker follows                                                   *)

(* The walk goes on into a node, and it does not pass an argument.         *)
Entered(body, a) == body.kind[a] \notin {"run", "wait", "provider", "helper"}
Taken(body, a) == Argument(body, a) => body.kind[a] = "branch"

Reached(body, n) ==
  \A a \in Within(body)[n] : a # 0 /\ a # n => Entered(body, a) /\ Taken(body, a)

LEMMA FollowedReached ==
  ASSUME NEW body, Tree(body), NEW n \in Nodes(body)
  PROVE  Followed(body, n) <=> Reached(body, n) /\ Taken(body, n)
<1>1. n \in Within(body)[n] /\ n # 0
  BY TreeParented, WithinParent, WithinRange
<1> QED
  BY <1>1 DEF Followed, Reached, Entered, Taken

(* The node after one that is entered.                                     *)
LEMMA ReachedNext ==
  ASSUME NEW body, Tree(body), NEW n \in Nodes(body), NEW k \in Nodes(body),
         k = n + 1, Followed(body, n), Entered(body, n)
  PROVE  Reached(body, k)
<1>1. Parented(body)
  BY TreeParented
<1>2. PICK p : p = body.parent[k]
  OBVIOUS
<1>3. /\ n \in Nat /\ k - 1 = n /\ n \in TreeNodes(body)
      /\ Within(body)[k] = {k} \cup Within(body)[p]
  <2>1. n \in Nat /\ n \in TreeNodes(body)
    BY <1>1, WithinParent
  <2>2. Within(body)[k] = {k} \cup Within(body)[p]
    BY <1>1, <1>2, WithinParent
  <2> QED
    BY <2>1, <2>2
<1>4. p \in Within(body)[n]
  BY <1>2, <1>3 DEF Tree
<1>5. Reached(body, n) /\ Taken(body, n)
  BY FollowedReached
<1>6. ASSUME NEW a \in Within(body)[k], a # 0, a # k
      PROVE  Entered(body, a) /\ Taken(body, a)
  <2>1. a \in Within(body)[n]
    BY <1>1, <1>3, <1>4, <1>6, WithinTrans
  <2> QED
    BY <1>5, <1>6, <2>1 DEF Reached
<1> QED
  BY <1>6 DEF Reached

(* The node after everything that is in one.                               *)
LEMMA ReachedAfter ==
  ASSUME NEW body, Tree(body), NEW n \in Nodes(body), NEW k \in Nodes(body),
         k = After(body, n), Reached(body, n)
  PROVE  Reached(body, k)
<1>1. Parented(body)
  BY TreeParented
<1>2. n \in TreeNodes(body) /\ k \in TreeNodes(body) /\ n \in Nat /\ k \in Nat /\ k >= 1
  BY <1>1, WithinParent
<1>3. n < k /\ n \notin Within(body)[k]
  <2>1. n < After(body, n)
    BY <1>2, AfterFacts
  <2>2. n \in Within(body)[k] <=> n <= k /\ k < After(body, n)
    BY <1>2, AfterFacts
  <2> QED
    BY <1>2, <2>1, <2>2
<1>4. k - 1 \in TreeNodes(body) /\ k - 1 \in Nat /\ n <= k - 1 /\ k - 1 < k
  <2>1. k <= Size(body) /\ Size(body) \in Nat
    BY <1>1, TreeSize, WithinParent
  <2> QED
    BY <1>2, <1>3, <2>1 DEF TreeNodes
<1>5. n \in Within(body)[k - 1]
  BY <1>2, <1>4, AfterFacts
<1>6. ASSUME NEW a \in Within(body)[k], a # 0, a # k
      PROVE  Entered(body, a) /\ Taken(body, a)
  <2>1. a \in Within(body)[k - 1]
    BY <1>6, WithinBefore
  <2>2. a \in Nat /\ a \in TreeNodes(body)
    <3>1. Within(body)[k] \subseteq 0..k
      BY <1>1, <1>2, WithinRange
    <3>2. a \in 0..k /\ k <= Size(body) /\ Size(body) \in Nat
      BY <1>1, <3>1, TreeSize, WithinParent
    <3> QED
      BY <1>2, <3>2 DEF TreeNodes
  <2>3. a <= n
    <3>1. SUFFICES ASSUME n <= a
                   PROVE  n = a
      BY <1>2, <2>2
    <3>2. n \in Within(body)[a]
      BY <1>1, <1>4, <1>5, <2>1, <3>1, WithinChain
    <3>3. n \in Within(body)[k]
      BY <1>1, <1>2, <1>6, <3>2, WithinTrans
    <3> QED
      BY <1>3, <3>3
  <2>4. a \in Within(body)[n]
    BY <1>1, <1>4, <1>5, <2>1, <2>3, WithinChain
  <2>5. a # n
    BY <1>3, <1>6
  <2> QED
    BY <1>6, <2>4, <2>5 DEF Reached
<1> QED
  BY <1>6 DEF Reached

(* Nothing is followed in a node that the walk does not go on into.        *)
LEMMA NotFollowed ==
  ASSUME NEW body, Tree(body), NEW n \in Nodes(body), NEW m \in Nodes(body),
         ~(Entered(body, n) /\ Taken(body, n)), n < m, m < After(body, n)
  PROVE  ~Followed(body, m)
<1>1. n \in TreeNodes(body) /\ m \in TreeNodes(body) /\ n \in Nat /\ m \in Nat /\ n >= 1
  BY TreeParented, WithinParent
<1>2. n <= m /\ n # m /\ n # 0
  BY <1>1
<1>3. n \in Within(body)[m]
  BY <1>1, <1>2, AfterFacts
<1>4. ~Reached(body, m)
  BY <1>2, <1>3 DEF Reached
<1> QED
  BY <1>4, FollowedReached

LEMMA BranchAround ==
  ASSUME NEW body, Tree(body), NEW n \in Nodes(body), Reached(body, n),
         NEW b \in Branches(body), b \in Within(body)[n], b # n
  PROVE  Followed(body, b)
<1>1. Parented(body) /\ b \in Nodes(body) /\ body.kind[b] = "branch"
  BY TreeParented DEF Branches
<1>2. n \in TreeNodes(body) /\ b # 0
  BY <1>1, WithinParent
<1>3. ASSUME NEW a \in Within(body)[b], a # 0, a # b
      PROVE  Entered(body, a) /\ Taken(body, a)
  <2>1. a \in Within(body)[n]
    BY <1>1, <1>2, WithinTrans
  <2>2. a # n
    <3>1. SUFFICES ASSUME a = n
                   PROVE  FALSE
      OBVIOUS
    <3>2. /\ Within(body)[n] \subseteq 0..n /\ Within(body)[b] \subseteq 0..b
          /\ n \in Nat /\ b \in Nat
      <4>1. b \in TreeNodes(body)
        BY <1>1, WithinParent
      <4> QED
        BY <1>1, <1>2, <4>1, WithinRange, NodeOrRoot
    <3>3. b \in 0..n /\ n \in 0..b
      BY <1>3, <3>1, <3>2
    <3> QED
      BY <3>2, <3>3
  <2> QED
    BY <1>3, <2>1, <2>2 DEF Reached
<1>4. Reached(body, b)
  BY <1>3 DEF Reached
<1>5. Taken(body, b)
  BY <1>1 DEF Taken
<1> QED
  BY <1>1, <1>4, <1>5, FollowedReached

(* The scope of a node is the last branch around it, or the method.        *)
LEMMA ScopeFacts ==
  ASSUME NEW body, Tree(body), NEW n \in Nodes(body)
  PROVE  /\ ScopeOf(body, n) \in Nat
         /\ ScopeOf(body, n) # 0 => /\ ScopeOf(body, n) \in Branches(body)
                                    /\ ScopeOf(body, n) < n
                                    /\ n < After(body, ScopeOf(body, n))
         /\ \A b \in Branches(body) :
              b < n /\ n < After(body, b) => b <= ScopeOf(body, n)
<1>1. Parented(body)
  BY TreeParented
<1>2. n \in Nat /\ n \in TreeNodes(body) /\ 0 \in TreeNodes(body) /\ n # 0
  BY <1>1, TreeSize, WithinParent DEF TreeNodes
<1> DEFINE S == {0} \cup (Branches(body) \cap (Within(body)[n] \ {n}))
<1>3. Within(body)[n] \subseteq 0..n
  BY <1>1, <1>2, WithinRange
<1>4. S \subseteq Nat /\ \A m \in S : m <= n
  BY <1>2, <1>3
<1>5. PICK s : s = ScopeOf(body, n)
  OBVIOUS
<1>6. s = Max(S)
  BY <1>5 DEF ScopeOf
<1>7. 0 \in S
  OBVIOUS
<1>8. s \in S /\ \A m \in S : m <= s
  <2> HIDE DEF S
  <2> QED
    BY <1>2, <1>4, <1>6, <1>7, MaxFacts
<1>9. ASSUME s # 0
      PROVE  s \in Branches(body) /\ s < n /\ n < After(body, s)
  <2>1. s \in Branches(body) /\ s \in Within(body)[n] /\ s # n
    BY <1>8, <1>9
  <2>2. s \in TreeNodes(body)
    BY <1>1, <2>1, WithinParent DEF Branches
  <2>3. s <= n /\ n < After(body, s)
    BY <1>2, <2>1, <2>2, AfterFacts
  <2>4. s \in Nat
    BY <1>4, <1>8
  <2> QED
    BY <1>2, <2>1, <2>3, <2>4
<1>10. ASSUME NEW b \in Branches(body), b < n, n < After(body, b)
       PROVE  b <= s
  <2>1. b \in TreeNodes(body) /\ b \in Nat
    BY <1>1, WithinParent DEF Branches
  <2>2. b <= n /\ b # n
    BY <1>2, <1>10, <2>1
  <2>3. b \in Within(body)[n]
    BY <1>2, <1>10, <2>1, <2>2, AfterFacts
  <2> QED
    BY <1>8, <2>2, <2>3
<1>11. s \in Nat
  BY <1>4, <1>8
<1> QED
  BY <1>5, <1>9, <1>10, <1>11

-----------------------------------------------------------------------------
(* The stack of walkers                                                    *)

Walkers == [branch : Nat, steps : Seq(Nat), providers : Seq(Nat), errors : Seq(Nat)]

(* The branches that are walked.                                           *)
Opened(body) == {b \in Branches(body) : Followed(body, b)}

(* The walkers are of the method and of the branches around the next node, *)
(* and perhaps of some that end just before it.                            *)
Stack(body, k, ws) ==
  /\ ws \in Seq(Walkers) /\ ws # <<>>
  /\ ws[1].branch = 0
  /\ \A i \in DOMAIN ws : i # 1 => ws[i].branch \in Opened(body)
  /\ \A i, j \in DOMAIN ws : i < j => ws[i].branch < ws[j].branch
  /\ \A i \in DOMAIN ws : ws[i].branch < k /\ k <= After(body, ws[i].branch)
  /\ \A b \in Opened(body) :
       b < k /\ k < After(body, b) => \E i \in DOMAIN ws : ws[i].branch = b

TopBranch(ws) == ws[Len(ws)].branch

LEMMA StackFacts ==
  ASSUME NEW body, NEW k, NEW ws, Stack(body, k, ws)
  PROVE  /\ ws \in Seq(Walkers) /\ ws # <<>>
         /\ Len(ws) \in Nat /\ Len(ws) >= 1 /\ Len(ws) \in 1..Len(ws)
         /\ DOMAIN ws = 1..Len(ws) /\ ws[1].branch = 0
<1>1. ws \in Seq(Walkers) /\ ws # <<>> /\ ws[1].branch = 0
  BY DEF Stack
<1>2. Len(ws) \in Nat /\ Len(ws) >= 1 /\ DOMAIN ws = 1..Len(ws)
  BY <1>1, SeqFacts
<1>3. Len(ws) \in 1..Len(ws)
  BY <1>2
<1> QED
  BY <1>1, <1>2, <1>3

LEMMA OpenedFacts ==
  ASSUME NEW body, Tree(body), NEW b \in Opened(body)
  PROVE  /\ b \in Branches(body) /\ Followed(body, b) /\ b \in Nodes(body)
         /\ body.kind[b] = "branch" /\ b \in Nat /\ b >= 1 /\ b # 0
         /\ b \in TreeNodes(body)
<1>1. /\ b \in Branches(body) /\ Followed(body, b) /\ b \in Nodes(body)
      /\ body.kind[b] = "branch"
  BY DEF Opened, Branches
<1>2. b \in Nat /\ b >= 1 /\ b \in TreeNodes(body)
  BY <1>1, TreeParented, WithinParent
<1>3. b # 0
  BY <1>2
<1> QED
  BY <1>1, <1>2, <1>3

LEMMA WalkerFacts ==
  ASSUME NEW body, Tree(body), NEW k, NEW ws, Stack(body, k, ws),
         NEW i \in 1..Len(ws)
  PROVE  /\ ws[i] \in Walkers
         /\ ws[i].branch \in Nat /\ ws[i].branch \in TreeNodes(body)
         /\ ws[i].branch < k /\ k <= After(body, ws[i].branch)
         /\ After(body, ws[i].branch) \in Nat
<1>1. i \in DOMAIN ws /\ ws \in Seq(Walkers) /\ ws[1].branch = 0
  BY StackFacts
<1>2. ws[i] \in Walkers
  BY <1>1, SeqFacts
<1>3. ws[i].branch \in Nat
  BY <1>2 DEF Walkers
<1>4. ws[i].branch \in TreeNodes(body)
  <2>1. CASE i = 1
    <3>1. 0 \in TreeNodes(body)
      BY TreeParented, TreeSize DEF TreeNodes
    <3> QED
      BY <1>1, <2>1, <3>1
  <2>2. CASE i # 1
    <3>1. ws[i].branch \in Opened(body)
      BY <1>1, <2>2 DEF Stack
    <3> QED
      BY <3>1, OpenedFacts
  <2> QED
    BY <2>1, <2>2
<1>5. ws[i].branch < k /\ k <= After(body, ws[i].branch)
  BY <1>1 DEF Stack
<1>6. After(body, ws[i].branch) \in Nat
  BY <1>4, AfterFacts
<1> QED
  BY <1>2, <1>3, <1>4, <1>5, <1>6

(* A node in the block of the last walker is in the blocks of all.         *)
LEMMA InsideAll ==
  ASSUME NEW body, Tree(body), NEW k \in Nat, NEW ws, Stack(body, k, ws),
         k < After(body, TopBranch(ws)), NEW i \in 1..Len(ws)
  PROVE  k < After(body, ws[i].branch)
<1>1. PICK n : n = Len(ws)
  OBVIOUS
<1>2. n \in Nat /\ n \in 1..n /\ DOMAIN ws = 1..n
  <2>1. Len(ws) \in Nat /\ Len(ws) \in 1..Len(ws) /\ DOMAIN ws = 1..Len(ws)
    BY StackFacts
  <2> QED
    BY <1>1, <2>1
<1>3. CASE i = n
  BY <1>1, <1>3 DEF TopBranch
<1>4. CASE i # n
  <2>1. i < n /\ i \in DOMAIN ws /\ n \in DOMAIN ws
    BY <1>1, <1>2, <1>4
  <2>2. ws[i].branch < ws[n].branch
    BY <2>1 DEF Stack
  <2>3. /\ ws[i].branch \in Nat /\ ws[i].branch \in TreeNodes(body)
        /\ k <= After(body, ws[i].branch) /\ After(body, ws[i].branch) \in Nat
    BY WalkerFacts
  <2>4. PICK j \in 1..Len(ws) : j = n
    BY <1>1, <1>2
  <2>5. /\ ws[j].branch \in Nat /\ ws[j].branch \in TreeNodes(body)
        /\ ws[j].branch < k /\ After(body, ws[j].branch) \in Nat
    BY WalkerFacts
  <2>6. PICK a, b : a = ws[i].branch /\ b = ws[j].branch
    OBVIOUS
  <2>7. /\ a \in Nat /\ a \in TreeNodes(body) /\ b \in Nat /\ b \in TreeNodes(body)
        /\ a < b /\ b < k /\ k <= After(body, a) /\ After(body, a) \in Nat
        /\ k < After(body, b) /\ After(body, b) \in Nat
    BY <1>1, <2>2, <2>3, <2>4, <2>5, <2>6 DEF TopBranch
  <2>8. a <= b /\ b < After(body, a)
    BY <2>7
  <2>9. After(body, b) <= After(body, a)
    BY <2>7, <2>8, AfterNested
  <2>10. k < After(body, a)
    BY <2>7, <2>9
  <2> QED
    BY <2>6, <2>10
<1> QED
  BY <1>3, <1>4

(* What is visited belongs to the last walker.                             *)
LEMMA ScopeTop ==
  ASSUME NEW body, Tree(body), NEW k \in Nodes(body), NEW ws, Stack(body, k, ws),
         k < After(body, TopBranch(ws)), Reached(body, k)
  PROVE  ScopeOf(body, k) = TopBranch(ws)
<1>1. PICK n, s, b : n = Len(ws) /\ s = ScopeOf(body, k) /\ b = TopBranch(ws)
  OBVIOUS
<1>2. /\ n \in Nat /\ n \in 1..n /\ n >= 1 /\ DOMAIN ws = 1..n /\ b = ws[n].branch
      /\ ws[1].branch = 0
  <2>1. /\ Len(ws) \in Nat /\ Len(ws) \in 1..Len(ws) /\ Len(ws) >= 1
        /\ DOMAIN ws = 1..Len(ws) /\ ws[1].branch = 0
    BY StackFacts
  <2> QED
    BY <1>1, <2>1 DEF TopBranch
<1>3. b \in Nat /\ b < k
  <2>1. PICK j \in 1..Len(ws) : j = n
    BY <1>1, <1>2
  <2>2. ws[j].branch \in Nat /\ ws[j].branch < k
    BY WalkerFacts
  <2> QED
    BY <1>2, <2>1, <2>2
<1>4. k \in Nat /\ k \in TreeNodes(body)
  BY TreeParented, WithinParent
<1>5. /\ s \in Nat
      /\ s # 0 => s \in Branches(body) /\ s < k /\ k < After(body, s)
      /\ \A c \in Branches(body) : c < k /\ k < After(body, c) => c <= s
  BY <1>1, ScopeFacts
<1>6. b <= s
  <2>1. CASE n = 1
    BY <1>2, <1>5, <2>1
  <2>2. CASE n # 1
    <3>1. b \in Opened(body)
      BY <1>2, <2>2 DEF Stack
    <3>2. b \in Branches(body)
      BY <3>1 DEF Opened
    <3> QED
      BY <1>1, <1>3, <1>5, <3>2
  <2> QED
    BY <2>1, <2>2
<1>7. s <= b
  <2>1. CASE s = 0
    BY <1>3, <2>1
  <2>2. CASE s # 0
    <3>1. s \in Branches(body) /\ s < k /\ k < After(body, s)
      BY <1>5, <2>2
    <3>2. s \in TreeNodes(body)
      BY <3>1, TreeParented, WithinParent DEF Branches
    <3>3. s <= k /\ s # k
      BY <1>4, <1>5, <3>1
    <3>4. s \in Within(body)[k]
      BY <1>4, <3>1, <3>2, <3>3, AfterFacts
    <3>5. Followed(body, s)
      BY <3>1, <3>3, <3>4, BranchAround
    <3>6. PICK i \in DOMAIN ws : ws[i].branch = s
      BY <3>1, <3>5 DEF Stack, Opened
    <3>7. i = n \/ i < n
      BY <1>2, <3>6
    <3>8. i < n => ws[i].branch < ws[n].branch
      BY <1>2 DEF Stack
    <3> QED
      BY <1>2, <1>3, <1>5, <3>6, <3>7, <3>8
  <2> QED
    BY <2>1, <2>2
<1>8. s = b
  BY <1>3, <1>5, <1>6, <1>7
<1> QED
  BY <1>1, <1>8

-----------------------------------------------------------------------------
(* What the walkers have collected                                         *)

LEMMA RangeAppend ==
  ASSUME NEW S, NEW s \in Seq(S), NEW e \in S
  PROVE  Range(Append(s, e)) = Range(s) \cup {e}
<1>1. PICK a, n : a = Append(s, e) /\ n = Len(s)
  OBVIOUS
<1>2. n \in Nat /\ DOMAIN s = 1..n
  BY <1>1, SeqFacts
<1>3. /\ a \in Seq(S) /\ Len(a) = n + 1 /\ a[n + 1] = e
      /\ \A i \in 1..n : a[i] = s[i]
  BY <1>1, AppendProperties
<1>4. DOMAIN a = 1..(n + 1)
  BY <1>3, SeqFacts
<1>5. \A i : i \in 1..(n + 1) <=> i \in 1..n \/ i = n + 1
  BY <1>2
<1>6. Range(a) = Range(s) \cup {e}
  BY <1>2, <1>3, <1>4, <1>5 DEF Range
<1> QED
  BY <1>1, <1>6

LEMMA AscendingAppend ==
  ASSUME NEW s \in Seq(Nat), NEW e \in Nat, Ascending(s), \A n \in Range(s) : n < e
  PROVE  Ascending(Append(s, e))
<1>1. PICK a, n : a = Append(s, e) /\ n = Len(s)
  OBVIOUS
<1>2. n \in Nat /\ DOMAIN s = 1..n
  BY <1>1, SeqFacts
<1>3. /\ a \in Seq(Nat) /\ Len(a) = n + 1 /\ a[n + 1] = e
      /\ \A i \in 1..n : a[i] = s[i]
  BY <1>1, AppendProperties
<1>4. DOMAIN a = 1..(n + 1)
  BY <1>3, SeqFacts
<1>5. ASSUME NEW i \in 1..(n + 1), NEW j \in 1..(n + 1), i < j
      PROVE  a[i] < a[j]
  <2>1. i \in 1..n
    BY <1>2, <1>5
  <2>2. CASE j = n + 1
    <3>1. s[i] \in Range(s)
      BY <1>2, <2>1 DEF Range
    <3> QED
      BY <1>3, <2>1, <2>2, <3>1
  <2>3. CASE j \in 1..n
    BY <1>2, <1>3, <1>5, <2>1, <2>3 DEF Ascending
  <2> QED
    BY <1>2, <2>2, <2>3
<1>6. Ascending(a)
  BY <1>4, <1>5 DEF Ascending
<1> QED
  BY <1>1, <1>6

Before(body, branch, k) == {n \in StepsIn(body, branch) : n < k}

(* Every walker has the steps of its scope, and together they have the     *)
(* errors, as far as the walk has come.                                    *)
Told(body, k, ws) ==
  /\ \A i \in DOMAIN ws :
       /\ Ascending(ws[i].steps)
       /\ Range(ws[i].steps) = Before(body, ws[i].branch, k)
  /\ \A n : (\E i \in DOMAIN ws : n \in Range(ws[i].errors)) <=>
              n \in body.dynamic /\ Followed(body, n) /\ n < k

BranchSteps == [branch : Nat, steps : Seq(Nat)]

(* Every branch is walked or has been walked, and then it is complete.     *)
Complete(body, k, ws, cs) ==
  /\ cs \in Seq(BranchSteps)
  /\ \A i \in DOMAIN cs :
       /\ cs[i].branch \in Opened(body) /\ After(body, cs[i].branch) <= k
       /\ Ascending(cs[i].steps) /\ Range(cs[i].steps) = StepsIn(body, cs[i].branch)
  /\ \A i, j \in DOMAIN cs : cs[i].branch = cs[j].branch => i = j
  /\ \A i \in DOMAIN cs, j \in DOMAIN ws : cs[i].branch # ws[j].branch
  /\ \A b \in Opened(body) :
       b < k => \/ \E i \in DOMAIN ws : ws[i].branch = b
                \/ \E i \in DOMAIN cs : cs[i].branch = b

WalkOK(body, k, ws, cs) ==
  /\ k \in 1..(Size(body) + 1)
  /\ k \in Nodes(body) => Reached(body, k)
  /\ Stack(body, k, ws) /\ Told(body, k, ws) /\ Complete(body, k, ws, cs)

(* The walk goes on to next, and follows nothing between.                  *)
Passes(body, k, next) ==
  /\ next \in Nat /\ k < next /\ next <= After(body, k)
  /\ \A m \in Nodes(body) : k < m /\ m < next => ~Followed(body, m)

(* Only the last walker has changed, and it is of the same branch.         *)
Changed(ws, vs, w) ==
  /\ vs \in Seq(Walkers) /\ Len(vs) = Len(ws)
  /\ \A i \in 1..Len(ws) : vs[i] = IF i = Len(ws) THEN w ELSE ws[i]
  /\ w.branch = TopBranch(ws)

LEMMA SameBranches ==
  ASSUME NEW body, NEW k, NEW ws, NEW vs, NEW w, Stack(body, k, ws), Changed(ws, vs, w)
  PROVE  /\ DOMAIN vs = DOMAIN ws
         /\ \A i \in DOMAIN ws : vs[i].branch = ws[i].branch
<1>1. Len(ws) \in Nat /\ DOMAIN ws = 1..Len(ws)
  BY StackFacts
<1>2. vs \in Seq(Walkers) /\ Len(vs) = Len(ws)
  BY DEF Changed
<1>3. DOMAIN vs = 1..Len(ws)
  BY <1>2, SeqFacts
<1>4. ASSUME NEW i \in DOMAIN ws
      PROVE  vs[i].branch = ws[i].branch
  BY <1>1 DEF Changed, TopBranch
<1> QED
  BY <1>1, <1>3, <1>4

LEMMA MoveStack ==
  ASSUME NEW body, Tree(body), NEW k \in Nodes(body), NEW next, NEW ws, NEW vs, NEW w,
         Stack(body, k, ws), k < After(body, TopBranch(ws)), Passes(body, k, next),
         k \notin Opened(body), Changed(ws, vs, w)
  PROVE  Stack(body, next, vs)
<1>1. k \in Nat /\ k \in TreeNodes(body)
  BY TreeParented, WithinParent
<1>2. After(body, k) \in Nat
  BY <1>1, AfterFacts
<1>3. next \in Nat /\ k < next /\ next <= After(body, k)
  BY DEF Passes
<1>4. /\ DOMAIN vs = DOMAIN ws
      /\ \A i \in DOMAIN ws : vs[i].branch = ws[i].branch
  BY SameBranches
<1>5. /\ DOMAIN ws = 1..Len(ws) /\ ws[1].branch = 0 /\ Len(ws) >= 1 /\ Len(ws) \in Nat
      /\ 1 \in DOMAIN ws
  <2>1. DOMAIN ws = 1..Len(ws) /\ ws[1].branch = 0 /\ Len(ws) >= 1 /\ Len(ws) \in Nat
    BY StackFacts
  <2> QED
    BY <2>1
<1>6. vs \in Seq(Walkers) /\ vs # <<>>
  <2>1. vs \in Seq(Walkers) /\ Len(vs) = Len(ws)
    BY DEF Changed
  <2> QED
    BY <1>5, <2>1, SeqFacts
<1>7. vs[1].branch = 0
  BY <1>4, <1>5
<1>8. \A i \in DOMAIN vs : i # 1 => vs[i].branch \in Opened(body)
  BY <1>4 DEF Stack
<1>9. \A i, j \in DOMAIN vs : i < j => vs[i].branch < vs[j].branch
  BY <1>4 DEF Stack
<1>10. ASSUME NEW i \in DOMAIN vs
       PROVE  vs[i].branch < next /\ next <= After(body, vs[i].branch)
  <2>1. PICK b : b = ws[i].branch
    OBVIOUS
  <2>2. i \in 1..Len(ws)
    BY <1>4, <1>5
  <2>3. b \in Nat /\ b \in TreeNodes(body) /\ b < k /\ After(body, b) \in Nat
    BY <2>1, <2>2, WalkerFacts
  <2>4. k < After(body, b)
    BY <1>1, <2>1, <2>2, InsideAll
  <2>5. b <= k
    BY <1>1, <2>3
  <2>6. After(body, k) <= After(body, b)
    BY <1>1, <2>3, <2>4, <2>5, AfterNested
  <2>7. b < next /\ next <= After(body, b)
    BY <1>1, <1>2, <1>3, <2>3, <2>6
  <2> QED
    BY <1>4, <2>1, <2>7
<1>11. ASSUME NEW b \in Opened(body), b < next, next < After(body, b)
       PROVE  \E i \in DOMAIN vs : vs[i].branch = b
  <2>1. b \in Nat /\ b \in Nodes(body) /\ Followed(body, b) /\ b \in TreeNodes(body)
    BY OpenedFacts
  <2>2. ~(k < b /\ b < next)
    BY <2>1 DEF Passes
  <2>3. b # k
    OBVIOUS
  <2>4. b < k
    BY <1>1, <1>3, <1>11, <2>1, <2>2, <2>3
  <2>5. After(body, b) \in Nat
    BY <2>1, AfterFacts
  <2>6. k < After(body, b)
    BY <1>1, <1>3, <1>11, <2>5
  <2>7. \E i \in DOMAIN ws : ws[i].branch = b
    BY <2>4, <2>6 DEF Stack
  <2> QED
    BY <1>4, <2>7
<1> QED
  BY <1>6, <1>7, <1>8, <1>9, <1>10, <1>11 DEF Stack

LEMMA BeforeNext ==
  ASSUME NEW body, Tree(body), NEW k \in Nodes(body), NEW next, Passes(body, k, next),
         NEW b
  PROVE  Before(body, b, next) =
           Before(body, b, k) \cup {n \in {k} : n \in StepsIn(body, b)}
<1>1. k \in Nat
  BY TreeParented, WithinParent
<1>2. next \in Nat /\ k < next
  BY DEF Passes
<1>3. ASSUME NEW n \in StepsIn(body, b)
      PROVE  n < next <=> n < k \/ n = k
  <2>1. n \in Nodes(body) /\ Followed(body, n)
    BY DEF StepsIn
  <2>2. n \in Nat
    BY <2>1, TreeParented, WithinParent
  <2>3. ~(k < n /\ n < next)
    BY <2>1 DEF Passes
  <2> QED
    BY <1>1, <1>2, <2>2, <2>3
<1> QED
  BY <1>3 DEF Before

(* The last walker has recorded the node and its error, if it follows it.  *)
Noted(body, k, last, w) ==
  /\ w.steps = IF body.kind[k] \in Recorded /\ Followed(body, k)
               THEN Append(last.steps, k) ELSE last.steps
  /\ w.errors = IF k \in body.dynamic /\ Followed(body, k)
                THEN Append(last.errors, k) ELSE last.errors

LEMMA MoveSteps ==
  ASSUME NEW body, Tree(body), NEW k \in Nodes(body), NEW next, NEW ws, NEW vs, NEW w,
         Stack(body, k, ws), k < After(body, TopBranch(ws)), Passes(body, k, next),
         Reached(body, k), Told(body, k, ws), Changed(ws, vs, w),
         Noted(body, k, ws[Len(ws)], w), NEW i \in DOMAIN vs
  PROVE  /\ Ascending(vs[i].steps)
         /\ Range(vs[i].steps) = Before(body, vs[i].branch, next)
<1>1. PICK n, b : n = Len(ws) /\ b = TopBranch(ws)
  OBVIOUS
<1>2. /\ DOMAIN vs = DOMAIN ws /\ DOMAIN ws = 1..n /\ n \in Nat /\ n \in DOMAIN ws
      /\ vs[i].branch = ws[i].branch
  <2>1. DOMAIN ws = 1..Len(ws) /\ Len(ws) \in Nat /\ Len(ws) \in 1..Len(ws)
    BY StackFacts
  <2>2. DOMAIN vs = DOMAIN ws /\ vs[i].branch = ws[i].branch
    BY SameBranches
  <2> QED
    BY <1>1, <2>1, <2>2
<1>3. k \in Nat
  BY TreeParented, WithinParent
<1>4. ScopeOf(body, k) = b
  BY <1>1, ScopeTop
<1>5. k \in StepsIn(body, ws[i].branch) <=>
        body.kind[k] \in Recorded /\ Followed(body, k) /\ ws[i].branch = b
  BY <1>4 DEF StepsIn
<1>6. /\ Ascending(ws[i].steps)
      /\ Range(ws[i].steps) = Before(body, ws[i].branch, k)
  BY <1>2 DEF Told
<1>7. Before(body, ws[i].branch, next) =
        Before(body, ws[i].branch, k) \cup {m \in {k} : m \in StepsIn(body, ws[i].branch)}
  BY BeforeNext
<1>8. CASE i = n
  <2>1. vs[i] = w /\ ws[i].branch = b
    BY <1>1, <1>2, <1>8 DEF Changed, TopBranch
  <2>2. ws[i].steps \in Seq(Nat)
    BY <1>1, <1>2, WalkerFacts DEF Walkers
  <2>3. CASE body.kind[k] \in Recorded /\ Followed(body, k)
    <3>1. w.steps = Append(ws[i].steps, k)
      BY <1>1, <1>8, <2>3 DEF Noted
    <3>2. \A m \in Range(ws[i].steps) : m < k
      BY <1>6 DEF Before
    <3>3. Ascending(w.steps) /\ Range(w.steps) = Range(ws[i].steps) \cup {k}
      BY <1>3, <1>6, <2>2, <3>1, <3>2, AscendingAppend, RangeAppend
    <3>4. k \in StepsIn(body, ws[i].branch)
      BY <1>5, <2>1, <2>3
    <3> QED
      BY <1>2, <1>6, <1>7, <2>1, <3>3, <3>4
  <2>4. CASE ~(body.kind[k] \in Recorded /\ Followed(body, k))
    <3>1. w.steps = ws[i].steps
      BY <1>1, <1>8, <2>4 DEF Noted
    <3>2. k \notin StepsIn(body, ws[i].branch)
      BY <1>5, <2>4
    <3> QED
      BY <1>2, <1>6, <1>7, <2>1, <3>1, <3>2
  <2> QED
    BY <2>3, <2>4
<1>9. CASE i # n
  <2>1. vs[i] = ws[i]
    BY <1>1, <1>2, <1>9 DEF Changed
  <2>2. ws[i].branch # b
    <3>1. i < n
      BY <1>2, <1>9
    <3>2. ws[i].branch < ws[n].branch
      BY <1>2, <3>1 DEF Stack
    <3>3. ws[i].branch \in Nat /\ ws[n].branch \in Nat
      <4>1. \A j \in 1..Len(ws) : ws[j].branch \in Nat
        BY WalkerFacts
      <4> QED
        BY <1>1, <1>2, <4>1
    <3> QED
      BY <1>1, <3>2, <3>3 DEF TopBranch
  <2>3. k \notin StepsIn(body, ws[i].branch)
    BY <1>5, <2>2
  <2> QED
    BY <1>6, <1>7, <2>1, <2>3
<1> QED
  BY <1>8, <1>9

LEMMA MoveErrors ==
  ASSUME NEW body, Tree(body), NEW k \in Nodes(body), NEW next, NEW ws, NEW vs, NEW w,
         Stack(body, k, ws), Passes(body, k, next), Told(body, k, ws),
         Changed(ws, vs, w), Noted(body, k, ws[Len(ws)], w), NEW e
  PROVE  (\E i \in DOMAIN vs : e \in Range(vs[i].errors)) <=>
           e \in body.dynamic /\ Followed(body, e) /\ e < next
<1>1. PICK n : n = Len(ws)
  OBVIOUS
<1>2. /\ DOMAIN vs = DOMAIN ws /\ DOMAIN ws = 1..n /\ n \in Nat /\ n \in DOMAIN ws
  <2>1. DOMAIN ws = 1..Len(ws) /\ Len(ws) \in Nat /\ Len(ws) \in 1..Len(ws)
    BY StackFacts
  <2>2. DOMAIN vs = DOMAIN ws
    BY SameBranches
  <2> QED
    BY <1>1, <2>1, <2>2
<1>3. k \in Nat
  BY TreeParented, WithinParent
<1>4. vs[n] = w /\ \A i \in DOMAIN ws : i # n => vs[i] = ws[i]
  BY <1>1, <1>2 DEF Changed
<1>5. ws[n].errors \in Seq(Nat)
  BY <1>1, <1>2, WalkerFacts DEF Walkers
<1>6. Range(w.errors) =
        Range(ws[n].errors) \cup {m \in {k} : m \in body.dynamic /\ Followed(body, m)}
  <2>1. CASE k \in body.dynamic /\ Followed(body, k)
    <3>1. w.errors = Append(ws[n].errors, k)
      BY <1>1, <2>1 DEF Noted
    <3>2. Range(w.errors) = Range(ws[n].errors) \cup {k}
      BY <1>3, <1>5, <3>1, RangeAppend
    <3> QED
      BY <2>1, <3>2
  <2>2. CASE ~(k \in body.dynamic /\ Followed(body, k))
    BY <1>1, <2>2 DEF Noted
  <2> QED
    BY <2>1, <2>2
<1>7. (\E i \in DOMAIN vs : e \in Range(vs[i].errors)) <=>
        \/ \E i \in DOMAIN ws : e \in Range(ws[i].errors)
        \/ e = k /\ e \in body.dynamic /\ Followed(body, e)
  BY <1>2, <1>4, <1>6
<1>8. (\E i \in DOMAIN ws : e \in Range(ws[i].errors)) <=>
        e \in body.dynamic /\ Followed(body, e) /\ e < k
  BY DEF Told
<1>9. ASSUME e \in body.dynamic, Followed(body, e)
      PROVE  e < next <=> e < k \/ e = k
  <2>1. e \in Nodes(body)
    BY <1>9 DEF Tree
  <2>2. e \in Nat
    BY <2>1, TreeParented, WithinParent
  <2>3. ~(k < e /\ e < next) /\ next \in Nat /\ k < next
    BY <1>9, <2>1 DEF Passes
  <2> QED
    BY <1>3, <2>2, <2>3
<1> QED
  BY <1>7, <1>8, <1>9

LEMMA MoveComplete ==
  ASSUME NEW body, Tree(body), NEW k \in Nodes(body), NEW next, NEW ws, NEW vs, NEW w,
         NEW cs, Stack(body, k, ws), Passes(body, k, next), Complete(body, k, ws, cs),
         Changed(ws, vs, w), k \notin Opened(body)
  PROVE  Complete(body, next, vs, cs)
<1>1. /\ DOMAIN vs = DOMAIN ws
      /\ \A i \in DOMAIN ws : vs[i].branch = ws[i].branch
  BY SameBranches
<1>2. k \in Nat /\ next \in Nat /\ k < next
  BY TreeParented, WithinParent DEF Passes
<1>3. /\ cs \in Seq(BranchSteps)
      /\ \A i, j \in DOMAIN cs : cs[i].branch = cs[j].branch => i = j
  BY DEF Complete
<1>4. ASSUME NEW i \in DOMAIN cs
      PROVE  /\ cs[i].branch \in Opened(body) /\ After(body, cs[i].branch) <= next
             /\ Ascending(cs[i].steps)
             /\ Range(cs[i].steps) = StepsIn(body, cs[i].branch)
  <2>1. /\ cs[i].branch \in Opened(body) /\ After(body, cs[i].branch) <= k
        /\ Ascending(cs[i].steps)
        /\ Range(cs[i].steps) = StepsIn(body, cs[i].branch)
    BY DEF Complete
  <2>2. After(body, cs[i].branch) \in Nat
    BY <2>1, OpenedFacts, AfterFacts
  <2>3. After(body, cs[i].branch) <= next
    BY <1>2, <2>1, <2>2
  <2> QED
    BY <2>1, <2>3
<1>5. \A i \in DOMAIN cs, j \in DOMAIN vs : cs[i].branch # vs[j].branch
  BY <1>1 DEF Complete
<1>6. ASSUME NEW b \in Opened(body), b < next
      PROVE  \/ \E i \in DOMAIN vs : vs[i].branch = b
             \/ \E i \in DOMAIN cs : cs[i].branch = b
  <2>1. b \in Nat /\ b \in Nodes(body) /\ Followed(body, b)
    BY OpenedFacts
  <2>2. ~(k < b /\ b < next) /\ b # k
    BY <2>1 DEF Passes
  <2>3. b < k
    BY <1>2, <1>6, <2>1, <2>2
  <2> QED
    BY <1>1, <2>3 DEF Complete
<1> QED
  BY <1>3, <1>4, <1>5, <1>6 DEF Complete

(* A visit that opens no branch.                                           *)
LEMMA MoveKeeps ==
  ASSUME NEW body, Tree(body), NEW k, NEW next, NEW ws, NEW vs, NEW w, NEW cs,
         WalkOK(body, k, ws, cs), k \in Nodes(body), k < After(body, TopBranch(ws)),
         Passes(body, k, next), next \in Nodes(body) => Reached(body, next),
         k \notin Opened(body), Changed(ws, vs, w), Noted(body, k, ws[Len(ws)], w)
  PROVE  WalkOK(body, next, vs, cs)
<1>1. /\ Reached(body, k) /\ Stack(body, k, ws) /\ Told(body, k, ws)
      /\ Complete(body, k, ws, cs)
  BY DEF WalkOK
<1>2. next \in 1..(Size(body) + 1)
  <2>1. k \in Nat /\ k >= 1 /\ k \in TreeNodes(body) /\ Size(body) \in Nat
    BY TreeParented, TreeSize, WithinParent
  <2>2. After(body, k) \in Nat /\ After(body, k) <= Size(body) + 1
    BY <2>1, AfterFacts
  <2>3. next \in Nat /\ k < next /\ next <= After(body, k)
    BY DEF Passes
  <2> QED
    BY <2>1, <2>2, <2>3
<1>3. Stack(body, next, vs)
  BY <1>1, MoveStack
<1>4. Told(body, next, vs)
  <2>1. \A i \in DOMAIN vs :
          /\ Ascending(vs[i].steps)
          /\ Range(vs[i].steps) = Before(body, vs[i].branch, next)
    BY <1>1, MoveSteps
  <2>2. \A e : (\E i \in DOMAIN vs : e \in Range(vs[i].errors)) <=>
                 e \in body.dynamic /\ Followed(body, e) /\ e < next
    BY <1>1, MoveErrors
  <2> QED
    BY <2>1, <2>2 DEF Told
<1>5. Complete(body, next, vs, cs)
  BY <1>1, MoveComplete
<1> QED
  BY <1>2, <1>3, <1>4, <1>5 DEF WalkOK

-----------------------------------------------------------------------------
(* A branch is opened                                                      *)

LEMMA WalkerType ==
  ASSUME NEW b \in Nat
  PROVE  /\ Walker(b) \in Walkers /\ Walker(b).branch = b
         /\ Walker(b).steps = <<>> /\ Walker(b).errors = <<>>
BY DEF Walker, Walkers

LEMMA PushedWalkers ==
  ASSUME NEW body, NEW k \in Nat, NEW ws, Stack(body, k, ws), NEW vs,
         vs = Append(ws, Walker(k)), NEW n, n = Len(ws)
  PROVE  /\ n \in Nat /\ n >= 1 /\ DOMAIN ws = 1..n
         /\ vs \in Seq(Walkers) /\ vs # <<>> /\ DOMAIN vs = 1..(n + 1)
         /\ \A i \in 1..n : vs[i] = ws[i]
         /\ vs[n + 1] = Walker(k)
         /\ \A i : i \in 1..(n + 1) <=> i \in 1..n \/ i = n + 1
<1>1. n \in Nat /\ n >= 1 /\ DOMAIN ws = 1..n /\ ws \in Seq(Walkers)
  BY StackFacts
<1>2. Walker(k) \in Walkers
  BY WalkerType
<1>3. /\ vs \in Seq(Walkers) /\ vs # <<>> /\ Len(vs) = n + 1
      /\ \A i \in 1..n : vs[i] = ws[i]
      /\ vs[n + 1] = Walker(k)
  BY <1>1, <1>2, AppendProperties
<1>4. DOMAIN vs = 1..(n + 1)
  BY <1>3, SeqFacts
<1>5. \A i : i \in 1..(n + 1) <=> i \in 1..n \/ i = n + 1
  BY <1>1
<1> QED
  BY <1>1, <1>3, <1>4, <1>5

LEMMA OpenPasses ==
  ASSUME NEW body, Tree(body), NEW k \in Nodes(body)
  PROVE  Passes(body, k, k + 1)
<1>1. k \in Nat /\ k \in TreeNodes(body)
  BY TreeParented, WithinParent
<1>2. After(body, k) \in Nat /\ k < After(body, k)
  BY <1>1, AfterFacts
<1>3. \A m \in Nodes(body) : ~(k < m /\ m < k + 1)
  <2>1. \A m \in Nodes(body) : m \in Nat
    BY TreeParented, WithinParent
  <2> QED
    BY <1>1, <2>1
<1> QED
  BY <1>1, <1>2, <1>3 DEF Passes

LEMMA OpenStack ==
  ASSUME NEW body, Tree(body), NEW k \in Opened(body), NEW ws, NEW vs,
         Stack(body, k, ws), k < After(body, TopBranch(ws)), vs = Append(ws, Walker(k))
  PROVE  Stack(body, k + 1, vs)
<1>1. PICK n : n = Len(ws)
  OBVIOUS
<1>2. k \in Nodes(body) /\ k \in Nat /\ k \in TreeNodes(body)
  BY OpenedFacts
<1>3. /\ n \in Nat /\ n >= 1 /\ DOMAIN ws = 1..n
      /\ vs \in Seq(Walkers) /\ vs # <<>> /\ DOMAIN vs = 1..(n + 1)
      /\ \A i \in 1..n : vs[i] = ws[i]
      /\ vs[n + 1] = Walker(k)
      /\ \A i : i \in 1..(n + 1) <=> i \in 1..n \/ i = n + 1
  <2>1. n \in Nat /\ n >= 1 /\ DOMAIN ws = 1..n
    BY <1>1, <1>2, PushedWalkers
  <2>2. vs \in Seq(Walkers) /\ vs # <<>> /\ DOMAIN vs = 1..(n + 1)
    <3>1. DOMAIN vs = 1..(n + 1)
      BY <1>1, <1>2, PushedWalkers
    <3>2. vs \in Seq(Walkers)
      BY <1>1, <1>2, PushedWalkers
    <3>3. 1 \in DOMAIN vs
      BY <2>1, <3>1
    <3> QED
      BY <3>1, <3>2, <3>3, SeqFacts
  <2>3. (\A i \in 1..n : vs[i] = ws[i]) /\ vs[n + 1] = Walker(k)
    BY <1>1, <1>2, PushedWalkers
  <2>4. \A i : i \in 1..(n + 1) <=> i \in 1..n \/ i = n + 1
    BY <2>1
  <2> QED
    BY <2>1, <2>2, <2>3, <2>4
<1>4. vs[n + 1].branch = k
  BY <1>2, <1>3, WalkerType
<1>5. ASSUME NEW i \in 1..n
      PROVE  /\ ws[i].branch \in Nat /\ ws[i].branch < k
             /\ k < After(body, ws[i].branch) /\ After(body, ws[i].branch) \in Nat
  BY <1>1, <1>2, WalkerFacts, InsideAll
<1>6. After(body, k) \in Nat /\ k < After(body, k)
  BY <1>2, AfterFacts
<1>7. vs[1].branch = 0
  <2>1. 1 \in 1..n
    BY <1>3
  <2> QED
    BY <1>3, <2>1, StackFacts
<1>8. ASSUME NEW i \in DOMAIN vs
      PROVE  /\ i # 1 => vs[i].branch \in Opened(body)
             /\ vs[i].branch < k + 1 /\ k + 1 <= After(body, vs[i].branch)
  <2>1. CASE i = n + 1
    BY <1>2, <1>4, <1>6, <2>1
  <2>2. CASE i \in 1..n
    <3>1. i # 1 => ws[i].branch \in Opened(body)
      BY <1>3, <2>2 DEF Stack
    <3>2. PICK b, a : b = ws[i].branch /\ a = After(body, ws[i].branch)
      OBVIOUS
    <3>3. b \in Nat /\ b < k /\ k < a /\ a \in Nat
      BY <1>5, <2>2, <3>2
    <3>4. b < k + 1 /\ k + 1 <= a
      BY <1>2, <3>3
    <3> QED
      BY <1>3, <2>2, <3>1, <3>2, <3>4
  <2> QED
    BY <1>3, <2>1, <2>2
<1>9. ASSUME NEW i \in DOMAIN vs, NEW j \in DOMAIN vs, i < j
      PROVE  vs[i].branch < vs[j].branch
  <2>1. i \in 1..n
    BY <1>3, <1>9
  <2>2. CASE j = n + 1
    BY <1>3, <1>4, <1>5, <2>1, <2>2
  <2>3. CASE j \in 1..n
    <3>1. ws[i].branch < ws[j].branch
      BY <1>3, <1>9, <2>1, <2>3 DEF Stack
    <3> QED
      BY <1>3, <2>1, <2>3, <3>1
  <2> QED
    BY <1>3, <2>2, <2>3
<1>10. ASSUME NEW b \in Opened(body), b < k + 1, k + 1 < After(body, b)
       PROVE  \E i \in DOMAIN vs : vs[i].branch = b
  <2>1. b \in Nat /\ b \in TreeNodes(body)
    BY OpenedFacts
  <2>2. CASE b = k
    BY <1>3, <1>4, <2>2
  <2>3. CASE b # k
    <3>1. b < k
      BY <1>2, <1>10, <2>1, <2>3
    <3>2. After(body, b) \in Nat
      BY <2>1, AfterFacts
    <3>3. k < After(body, b)
      BY <1>2, <1>10, <3>2
    <3>4. PICK i \in DOMAIN ws : ws[i].branch = b
      BY <3>1, <3>3 DEF Stack
    <3> QED
      BY <1>3, <3>4
  <2> QED
    BY <2>2, <2>3
<1> QED
  BY <1>3, <1>7, <1>8, <1>9, <1>10 DEF Stack

LEMMA OpenTold ==
  ASSUME NEW body, Tree(body), NEW k \in Opened(body), NEW ws, NEW vs,
         Stack(body, k, ws), Told(body, k, ws), vs = Append(ws, Walker(k))
  PROVE  Told(body, k + 1, vs)
<1>1. PICK n : n = Len(ws)
  OBVIOUS
<1>2. k \in Nodes(body) /\ k \in Nat /\ k # 0 /\ body.kind[k] = "branch"
  BY OpenedFacts
<1>3. /\ DOMAIN ws = 1..n /\ DOMAIN vs = 1..(n + 1)
      /\ \A i \in 1..n : vs[i] = ws[i]
      /\ vs[n + 1] = Walker(k)
      /\ \A i : i \in 1..(n + 1) <=> i \in 1..n \/ i = n + 1
  BY <1>1, <1>2, PushedWalkers
<1>4. /\ vs[n + 1].branch = k /\ vs[n + 1].steps = <<>> /\ vs[n + 1].errors = <<>>
  BY <1>2, <1>3, WalkerType
<1>5. Range(<<>>) = {} /\ Ascending(<<>>)
  BY DEF Range, Ascending
<1>6. \A b : k \notin StepsIn(body, b)
  BY <1>2 DEF StepsIn, Recorded
<1>7. \A b : Before(body, b, k + 1) = Before(body, b, k)
  <2> SUFFICES ASSUME NEW b
               PROVE  Before(body, b, k + 1) = Before(body, b, k)
    OBVIOUS
  <2>1. Passes(body, k, k + 1)
    BY <1>2, OpenPasses
  <2>2. Before(body, b, k + 1) =
          Before(body, b, k) \cup {m \in {k} : m \in StepsIn(body, b)}
    BY <1>2, <2>1, BeforeNext
  <2> QED
    BY <1>6, <2>2
<1>8. Before(body, k, k) = {}
  <2>1. SUFFICES ASSUME NEW m \in StepsIn(body, k), m < k
                 PROVE  FALSE
    BY DEF Before
  <2>2. m \in Nodes(body) /\ ScopeOf(body, m) = k
    BY DEF StepsIn
  <2>3. k < m /\ m \in Nat
    BY <1>2, <2>2, ScopeFacts, TreeParented, WithinParent
  <2> QED
    BY <1>2, <2>1, <2>3
<1>9. ASSUME NEW i \in DOMAIN vs
      PROVE  /\ Ascending(vs[i].steps)
             /\ Range(vs[i].steps) = Before(body, vs[i].branch, k + 1)
  <2>1. CASE i = n + 1
    BY <1>4, <1>5, <1>7, <1>8, <2>1
  <2>2. CASE i \in 1..n
    BY <1>3, <1>7, <2>2 DEF Told
  <2> QED
    BY <1>3, <2>1, <2>2
<1>10. ASSUME NEW e
       PROVE  (\E i \in DOMAIN vs : e \in Range(vs[i].errors)) <=>
                e \in body.dynamic /\ Followed(body, e) /\ e < k + 1
  <2>1. (\E i \in DOMAIN vs : e \in Range(vs[i].errors)) <=>
          (\E i \in DOMAIN ws : e \in Range(ws[i].errors))
    BY <1>3, <1>4, <1>5
  <2>2. (\E i \in DOMAIN ws : e \in Range(ws[i].errors)) <=>
          e \in body.dynamic /\ Followed(body, e) /\ e < k
    BY DEF Told
  <2>3. e \in body.dynamic => e # k /\ e \in Nat
    BY <1>2, TreeParented, WithinParent DEF Tree
  <2>4. e \in body.dynamic => (e < k + 1 <=> e < k)
    BY <1>2, <2>3
  <2> QED
    BY <2>1, <2>2, <2>4
<1> QED
  BY <1>9, <1>10 DEF Told

LEMMA OpenComplete ==
  ASSUME NEW body, Tree(body), NEW k \in Opened(body), NEW ws, NEW vs, NEW cs,
         Stack(body, k, ws), Complete(body, k, ws, cs), vs = Append(ws, Walker(k))
  PROVE  Complete(body, k + 1, vs, cs)
<1>1. PICK n : n = Len(ws)
  OBVIOUS
<1>2. k \in Nodes(body) /\ k \in Nat
  BY OpenedFacts
<1>3. /\ DOMAIN ws = 1..n /\ DOMAIN vs = 1..(n + 1)
      /\ \A i \in 1..n : vs[i] = ws[i]
      /\ vs[n + 1] = Walker(k)
      /\ \A i : i \in 1..(n + 1) <=> i \in 1..n \/ i = n + 1
  BY <1>1, <1>2, PushedWalkers
<1>4. vs[n + 1].branch = k
  BY <1>2, <1>3, WalkerType
<1>5. /\ cs \in Seq(BranchSteps)
      /\ \A i, j \in DOMAIN cs : cs[i].branch = cs[j].branch => i = j
  BY DEF Complete
<1>6. ASSUME NEW i \in DOMAIN cs
      PROVE  /\ cs[i].branch \in Opened(body) /\ After(body, cs[i].branch) <= k + 1
             /\ Ascending(cs[i].steps)
             /\ Range(cs[i].steps) = StepsIn(body, cs[i].branch)
             /\ cs[i].branch # k
  <2>1. /\ cs[i].branch \in Opened(body) /\ After(body, cs[i].branch) <= k
        /\ Ascending(cs[i].steps)
        /\ Range(cs[i].steps) = StepsIn(body, cs[i].branch)
    BY DEF Complete
  <2>2. PICK b, a : b = cs[i].branch /\ a = After(body, b)
    OBVIOUS
  <2>3. b \in Nat /\ b \in TreeNodes(body)
    BY <2>1, <2>2, OpenedFacts
  <2>4. a \in Nat /\ b < a /\ a <= k
    BY <2>1, <2>2, <2>3, AfterFacts
  <2>5. a <= k + 1 /\ b # k
    BY <1>2, <2>3, <2>4
  <2> QED
    BY <2>1, <2>2, <2>5
<1>7. \A i \in DOMAIN cs, j \in DOMAIN vs : cs[i].branch # vs[j].branch
  <2>1. \A i \in DOMAIN cs, j \in DOMAIN ws : cs[i].branch # ws[j].branch
    BY DEF Complete
  <2> QED
    BY <1>3, <1>4, <1>6, <2>1
<1>8. ASSUME NEW b \in Opened(body), b < k + 1
      PROVE  \/ \E i \in DOMAIN vs : vs[i].branch = b
             \/ \E i \in DOMAIN cs : cs[i].branch = b
  <2>1. b \in Nat
    BY OpenedFacts
  <2>2. CASE b = k
    BY <1>3, <1>4, <2>2
  <2>3. CASE b # k
    <3>1. b < k
      BY <1>2, <1>8, <2>1, <2>3
    <3>2. \/ \E i \in DOMAIN ws : ws[i].branch = b
          \/ \E i \in DOMAIN cs : cs[i].branch = b
      BY <3>1 DEF Complete
    <3>3. \A i \in DOMAIN ws : i \in DOMAIN vs /\ vs[i] = ws[i]
      BY <1>3
    <3> QED
      BY <3>2, <3>3
  <2> QED
    BY <2>2, <2>3
<1> QED
  BY <1>5, <1>6, <1>7, <1>8 DEF Complete

LEMMA OpenKeeps ==
  ASSUME NEW body, Tree(body), NEW k, NEW ws, NEW vs, NEW cs, WalkOK(body, k, ws, cs),
         k \in Opened(body), k < After(body, TopBranch(ws)), vs = Append(ws, Walker(k))
  PROVE  WalkOK(body, k + 1, vs, cs)
<1>1. /\ Stack(body, k, ws) /\ Told(body, k, ws) /\ Complete(body, k, ws, cs)
  BY DEF WalkOK
<1>2. k \in Nodes(body) /\ k \in Nat /\ Followed(body, k) /\ body.kind[k] = "branch"
  BY OpenedFacts
<1>3. k + 1 \in 1..(Size(body) + 1)
  <2>1. k >= 1 /\ k <= Size(body) /\ Size(body) \in Nat
    BY <1>2, TreeParented, TreeSize, WithinParent
  <2> QED
    BY <1>2, <2>1
<1>4. k + 1 \in Nodes(body) => Reached(body, k + 1)
  <2>1. Entered(body, k)
    BY <1>2 DEF Entered
  <2> QED
    BY <1>2, <2>1, ReachedNext
<1>5. Stack(body, k + 1, vs)
  BY <1>1, OpenStack
<1>6. Told(body, k + 1, vs)
  BY <1>1, OpenTold
<1>7. Complete(body, k + 1, vs, cs)
  BY <1>1, OpenComplete
<1> QED
  BY <1>3, <1>4, <1>5, <1>6, <1>7 DEF WalkOK

-----------------------------------------------------------------------------
(* A branch is closed                                                      *)

(* The walker that remains has what it had, and the errors of the other.   *)
Receives(ws, w) ==
  /\ w \in Walkers
  /\ w.branch = ws[Len(ws) - 1].branch /\ w.steps = ws[Len(ws) - 1].steps
  /\ Range(w.errors) = Range(ws[Len(ws) - 1].errors) \cup Range(ws[Len(ws)].errors)

Popped(ws, w) == Append(SubSeq(ws, 1, Len(ws) - 2), w)

LEMMA PoppedType ==
  ASSUME NEW ws \in Seq(Walkers), NEW w \in Walkers, Len(ws) >= 2
  PROVE  /\ Popped(ws, w) \in Seq(Walkers) /\ Popped(ws, w) # <<>>
         /\ Len(Popped(ws, w)) = Len(ws) - 1
         /\ \A i \in 1..(Len(ws) - 2) : Popped(ws, w)[i] = ws[i]
         /\ Popped(ws, w)[Len(ws) - 1] = w
<1>1. PICK s, l : s = SubSeq(ws, 1, l) /\ l = Len(ws) - 2
  OBVIOUS
<1>2. Len(ws) \in Nat
  BY SeqFacts
<1>3. /\ l \in Nat /\ l + 1 = Len(ws) - 1 /\ 1 \in Int /\ l \in Int
      /\ l - 1 + 1 = l /\ (1 <= l \/ l = 0)
      /\ \A i \in 1..l : i \in 1..Len(ws) /\ 1 + i - 1 = i
  BY <1>1, <1>2
<1>4. \A i \in 1..l : ws[i] \in Walkers
  BY <1>3, SeqFacts
<1>5. /\ s \in Seq(Walkers) /\ Len(s) = l
      /\ \A i \in 1..l : s[i] = ws[i]
  <2>1. /\ SubSeq(ws, 1, l) \in Seq(Walkers)
        /\ Len(SubSeq(ws, 1, l)) = IF 1 <= l THEN l - 1 + 1 ELSE 0
        /\ \A i \in 1..(l - 1 + 1) : SubSeq(ws, 1, l)[i] = ws[1 + i - 1]
    BY <1>3, <1>4, SubSeqProperties
  <2> QED
    BY <1>1, <1>3, <2>1
<1>6. PICK v : v = Append(s, w)
  OBVIOUS
<1>7. /\ v \in Seq(Walkers) /\ v # <<>> /\ Len(v) = l + 1
      /\ \A i \in 1..l : v[i] = s[i]
      /\ v[l + 1] = w
  BY <1>5, <1>6, AppendProperties
<1>8. v = Popped(ws, w)
  BY <1>1, <1>6 DEF Popped
<1>9. \A i \in 1..l : v[i] = ws[i]
  BY <1>5, <1>7
<1> QED
  BY <1>1, <1>3, <1>7, <1>8, <1>9

LEMMA PoppedWalkers ==
  ASSUME NEW ws \in Seq(Walkers), NEW w, NEW vs, NEW m \in Nat, m >= 1,
         Len(ws) = m + 1, Receives(ws, w), vs = Popped(ws, w)
  PROVE  /\ vs \in Seq(Walkers) /\ vs # <<>>
         /\ DOMAIN vs = 1..m
         /\ \A i \in 1..m : vs[i].branch = ws[i].branch /\ vs[i].steps = ws[i].steps
         /\ \A e : (\E i \in 1..m : e \in Range(vs[i].errors)) <=>
                     \E i \in 1..(m + 1) : e \in Range(ws[i].errors)
<1>1. Len(ws) - 1 = m /\ Len(ws) - 2 = m - 1 /\ Len(ws) >= 2
  OBVIOUS
<1>2. /\ w \in Walkers /\ w.branch = ws[m].branch /\ w.steps = ws[m].steps
      /\ Range(w.errors) = Range(ws[m].errors) \cup Range(ws[m + 1].errors)
  BY <1>1 DEF Receives
<1>3. /\ vs \in Seq(Walkers) /\ vs # <<>> /\ Len(vs) = m
      /\ \A i \in 1..(m - 1) : vs[i] = ws[i]
      /\ vs[m] = w
  <2>1. /\ Popped(ws, w) \in Seq(Walkers) /\ Popped(ws, w) # <<>>
        /\ Len(Popped(ws, w)) = Len(ws) - 1
        /\ \A i \in 1..(Len(ws) - 2) : Popped(ws, w)[i] = ws[i]
        /\ Popped(ws, w)[Len(ws) - 1] = w
    BY <1>1, <1>2, PoppedType
  <2> QED
    BY <1>1, <2>1
<1>4. /\ \A i : i \in 1..m <=> i \in 1..(m - 1) \/ i = m
      /\ \A i : i \in 1..(m + 1) <=> i \in 1..(m - 1) \/ i = m \/ i = m + 1
  OBVIOUS
<1>5. \A i \in 1..m : vs[i].branch = ws[i].branch /\ vs[i].steps = ws[i].steps
  BY <1>2, <1>3, <1>4
<1>6. \A e : (\E i \in 1..m : e \in Range(vs[i].errors)) <=>
               \E i \in 1..(m + 1) : e \in Range(ws[i].errors)
  BY <1>2, <1>3, <1>4
<1>7. DOMAIN vs = 1..m
  BY <1>3, SeqFacts
<1> QED
  BY <1>3, <1>5, <1>6, <1>7

(* The walkers but the last.                                               *)
LEMMA LowerWalkers ==
  ASSUME NEW body, Tree(body), NEW k, NEW ws, Stack(body, k, ws), TopBranch(ws) # 0
  PROVE  \E m \in Nat : /\ m >= 1 /\ Len(ws) = m + 1 /\ Len(ws) - 1 = m
                        /\ DOMAIN ws = 1..(m + 1)
                        /\ ws[m + 1].branch = TopBranch(ws)
                        /\ TopBranch(ws) \in Opened(body)
                        /\ \A i : i \in 1..(m + 1) <=> i \in 1..m \/ i = m + 1
                        /\ \A i \in 1..m : i # m + 1
<1>1. PICK n : n = Len(ws)
  OBVIOUS
<1>2. n \in Nat /\ n >= 1 /\ DOMAIN ws = 1..n /\ n \in 1..n /\ ws[1].branch = 0
  <2>1. /\ Len(ws) \in Nat /\ Len(ws) >= 1 /\ DOMAIN ws = 1..Len(ws)
        /\ Len(ws) \in 1..Len(ws) /\ ws[1].branch = 0
    BY StackFacts
  <2> QED
    BY <1>1, <2>1
<1>3. ws[n].branch = TopBranch(ws)
  BY <1>1 DEF TopBranch
<1>4. n # 1
  BY <1>2, <1>3
<1>5. ws[n].branch \in Opened(body)
  BY <1>2, <1>4 DEF Stack
<1>6. PICK m : m = n - 1
  OBVIOUS
<1>7. m \in Nat /\ m >= 1 /\ n = m + 1
  BY <1>2, <1>4, <1>6
<1>8. /\ \A i : i \in 1..(m + 1) <=> i \in 1..m \/ i = m + 1
      /\ \A i \in 1..m : i # m + 1
      /\ m + 1 - 1 = m
  BY <1>7
<1> QED
  BY <1>1, <1>2, <1>3, <1>5, <1>7, <1>8

LEMMA CloseStack ==
  ASSUME NEW body, Tree(body), NEW k \in Nat, NEW ws, NEW vs, NEW w,
         Stack(body, k, ws), ~(k < After(body, TopBranch(ws))), TopBranch(ws) # 0,
         Receives(ws, w), vs = Popped(ws, w)
  PROVE  Stack(body, k, vs)
<1>1. PICK m \in Nat : /\ m >= 1 /\ Len(ws) = m + 1
                       /\ DOMAIN ws = 1..(m + 1) /\ ws[m + 1].branch = TopBranch(ws)
                       /\ \A i : i \in 1..(m + 1) <=> i \in 1..m \/ i = m + 1
                       /\ \A i \in 1..m : i # m + 1
  BY LowerWalkers
<1>2. ws \in Seq(Walkers) /\ ws[1].branch = 0
  BY StackFacts
<1>3. /\ vs \in Seq(Walkers) /\ vs # <<>> /\ DOMAIN vs = 1..m
      /\ \A i \in 1..m : vs[i].branch = ws[i].branch
  <2>1. m >= 1 /\ Len(ws) = m + 1
    BY <1>1
  <2>2. /\ vs \in Seq(Walkers) /\ vs # <<>> /\ DOMAIN vs = 1..m
        /\ \A i \in 1..m : vs[i].branch = ws[i].branch /\ vs[i].steps = ws[i].steps
    BY <1>2, <2>1, PoppedWalkers
  <2> QED
    BY <2>2
<1>4. \A i \in DOMAIN vs : i \in DOMAIN ws /\ vs[i].branch = ws[i].branch
  BY <1>1, <1>3
<1>5. vs[1].branch = 0
  <2>1. 1 \in 1..m
    BY <1>1
  <2> QED
    BY <1>2, <1>3, <2>1
<1>6. ASSUME NEW b \in Opened(body), b < k, k < After(body, b)
      PROVE  \E i \in DOMAIN vs : vs[i].branch = b
  <2>1. PICK i \in DOMAIN ws : ws[i].branch = b
    BY <1>6 DEF Stack
  <2>2. i # m + 1
    BY <1>1, <1>6, <2>1
  <2>3. i \in 1..m
    BY <1>1, <2>2
  <2> QED
    BY <1>3, <2>1, <2>3
<1>7. \A i \in DOMAIN vs : i # 1 => vs[i].branch \in Opened(body)
  BY <1>4 DEF Stack
<1>8. \A i, j \in DOMAIN vs : i < j => vs[i].branch < vs[j].branch
  BY <1>4 DEF Stack
<1>9. \A i \in DOMAIN vs : vs[i].branch < k /\ k <= After(body, vs[i].branch)
  BY <1>4 DEF Stack
<1> QED
  BY <1>3, <1>5, <1>6, <1>7, <1>8, <1>9 DEF Stack

LEMMA CloseTold ==
  ASSUME NEW body, Tree(body), NEW k \in Nat, NEW ws, NEW vs, NEW w,
         Stack(body, k, ws), Told(body, k, ws), TopBranch(ws) # 0,
         Receives(ws, w), vs = Popped(ws, w)
  PROVE  Told(body, k, vs)
<1>1. PICK m \in Nat : /\ m >= 1 /\ Len(ws) = m + 1 /\ DOMAIN ws = 1..(m + 1)
                       /\ \A i : i \in 1..(m + 1) <=> i \in 1..m \/ i = m + 1
  BY LowerWalkers
<1>2. ws \in Seq(Walkers)
  BY StackFacts
<1>3. /\ DOMAIN vs = 1..m
      /\ \A i \in 1..m : vs[i].branch = ws[i].branch /\ vs[i].steps = ws[i].steps
  <2>1. /\ DOMAIN Popped(ws, w) = 1..m
        /\ \A i \in 1..m : /\ Popped(ws, w)[i].branch = ws[i].branch
                           /\ Popped(ws, w)[i].steps = ws[i].steps
    BY <1>1, <1>2, PoppedWalkers
  <2> QED
    BY <2>1
<1>4. \A e : (\E i \in 1..m : e \in Range(vs[i].errors)) <=>
               \E i \in 1..(m + 1) : e \in Range(ws[i].errors)
  <2>1. \A e : (\E i \in 1..m : e \in Range(Popped(ws, w)[i].errors)) <=>
                 \E i \in 1..(m + 1) : e \in Range(ws[i].errors)
    BY <1>1, <1>2, PoppedWalkers
  <2> QED
    BY <2>1
<1>5. \A i \in DOMAIN vs : /\ Ascending(vs[i].steps)
                           /\ Range(vs[i].steps) = Before(body, vs[i].branch, k)
  BY <1>1, <1>3 DEF Told
<1>6. \A e : (\E i \in DOMAIN vs : e \in Range(vs[i].errors)) <=>
               e \in body.dynamic /\ Followed(body, e) /\ e < k
  BY <1>1, <1>3, <1>4 DEF Told
<1> QED
  BY <1>5, <1>6 DEF Told

LEMMA CloseComplete ==
  ASSUME NEW body, Tree(body), NEW k \in Nat, NEW ws, NEW vs, NEW w, NEW cs, NEW ds,
         Stack(body, k, ws), Told(body, k, ws), Complete(body, k, ws, cs),
         ~(k < After(body, TopBranch(ws))), TopBranch(ws) # 0,
         Receives(ws, w), vs = Popped(ws, w), ds = Append(cs, StepsOf(ws[Len(ws)]))
  PROVE  Complete(body, k, vs, ds)
<1>1. PICK m \in Nat : /\ m >= 1 /\ Len(ws) = m + 1 /\ DOMAIN ws = 1..(m + 1)
                       /\ ws[m + 1].branch = TopBranch(ws)
                       /\ TopBranch(ws) \in Opened(body)
                       /\ \A i : i \in 1..(m + 1) <=> i \in 1..m \/ i = m + 1
                       /\ \A i \in 1..m : i # m + 1
  BY LowerWalkers
<1>2. ws \in Seq(Walkers)
  BY StackFacts
<1>3. /\ DOMAIN vs = 1..m
      /\ \A i \in 1..m : vs[i].branch = ws[i].branch
  <2>1. /\ DOMAIN Popped(ws, w) = 1..m
        /\ \A i \in 1..m : Popped(ws, w)[i].branch = ws[i].branch
    BY <1>1, <1>2, PoppedWalkers
  <2> QED
    BY <2>1
<1>4. PICK b, l, s : b = TopBranch(ws) /\ l = Len(cs) /\ s = StepsOf(ws[m + 1])
  OBVIOUS
<1>5. /\ b \in Opened(body) /\ b \in Nat /\ b \in TreeNodes(body)
      /\ After(body, b) \in Nat /\ After(body, b) <= k /\ b < k
  <2>1. b \in Opened(body) /\ b \in Nat /\ b \in TreeNodes(body)
    BY <1>1, <1>4, OpenedFacts
  <2>2. After(body, b) \in Nat /\ b < After(body, b)
    BY <2>1, AfterFacts
  <2> QED
    BY <1>4, <2>1, <2>2
<1>6. ws[m + 1] \in Walkers
  BY <1>1, <1>2, SeqFacts
<1>7. s \in BranchSteps /\ s.branch = b /\ s.steps = ws[m + 1].steps
  <2>1. ws[m + 1].branch \in Nat /\ ws[m + 1].steps \in Seq(Nat)
    BY <1>6 DEF Walkers
  <2> QED
    BY <1>1, <1>4, <2>1 DEF StepsOf, BranchSteps
<1>8. cs \in Seq(BranchSteps)
  BY DEF Complete
<1>9. l \in Nat /\ DOMAIN cs = 1..l
  BY <1>4, <1>8, SeqFacts
<1>10. /\ ds \in Seq(BranchSteps) /\ Len(ds) = l + 1
       /\ \A i \in 1..l : ds[i] = cs[i]
       /\ ds[l + 1] = s
  BY <1>1, <1>4, <1>7, <1>8, AppendProperties
<1>11. DOMAIN ds = 1..(l + 1)
  BY <1>10, SeqFacts
<1>12. \A i : i \in 1..(l + 1) <=> i \in 1..l \/ i = l + 1
  BY <1>9
<1>13. /\ Ascending(s.steps) /\ Range(s.steps) = StepsIn(body, b)
  <2>1. /\ Ascending(ws[m + 1].steps)
        /\ Range(ws[m + 1].steps) = Before(body, b, k)
    BY <1>1, <1>4 DEF Told
  <2>2. ASSUME NEW n \in StepsIn(body, b)
        PROVE  n < k
    <3>1. n \in Nodes(body) /\ ScopeOf(body, n) = b
      BY DEF StepsIn
    <3>2. b # 0
      BY <1>4
    <3>3. n < After(body, b)
      BY <3>1, <3>2, ScopeFacts
    <3>4. n \in Nat
      BY <3>1, TreeParented, WithinParent
    <3> QED
      BY <1>5, <3>3, <3>4
  <2>3. Before(body, b, k) = StepsIn(body, b)
    BY <2>2 DEF Before
  <2> QED
    BY <1>7, <2>1, <2>3
<1>14. ASSUME NEW i \in DOMAIN ds
       PROVE  /\ ds[i].branch \in Opened(body) /\ After(body, ds[i].branch) <= k
              /\ Ascending(ds[i].steps)
              /\ Range(ds[i].steps) = StepsIn(body, ds[i].branch)
  <2>1. CASE i = l + 1
    BY <1>5, <1>7, <1>10, <1>13, <2>1
  <2>2. CASE i \in 1..l
    BY <1>9, <1>10, <2>2 DEF Complete
  <2> QED
    BY <1>11, <1>12, <2>1, <2>2
<1>15. \A i \in 1..l : cs[i].branch # b
  BY <1>1, <1>4, <1>9 DEF Complete
<1>16. \A i, j \in DOMAIN ds : ds[i].branch = ds[j].branch => i = j
  <2>1. \A i, j \in 1..l : cs[i].branch = cs[j].branch => i = j
    BY <1>9 DEF Complete
  <2> QED
    BY <1>7, <1>10, <1>11, <1>12, <1>15, <2>1
<1>17. \A i \in DOMAIN ds, j \in DOMAIN vs : ds[i].branch # vs[j].branch
  <2>1. SUFFICES ASSUME NEW i \in DOMAIN ds, NEW j \in 1..m
                 PROVE  ds[i].branch # ws[j].branch
    BY <1>3
  <2>2. CASE i = l + 1
    <3>1. j \in DOMAIN ws /\ m + 1 \in DOMAIN ws /\ j < m + 1
      BY <1>1
    <3>2. ws[j].branch < ws[m + 1].branch
      BY <3>1 DEF Stack
    <3>3. ws[j].branch \in Nat
      BY <1>1, <3>1, WalkerFacts
    <3>4. ws[j].branch # b
      BY <1>1, <1>4, <1>5, <3>2, <3>3
    <3> QED
      BY <1>7, <1>10, <2>2, <3>4
  <2>3. CASE i \in 1..l
    BY <1>1, <1>9, <1>10, <2>3 DEF Complete
  <2> QED
    BY <1>11, <1>12, <2>2, <2>3
<1>18. ASSUME NEW c \in Opened(body), c < k
       PROVE  \/ \E i \in DOMAIN vs : vs[i].branch = c
              \/ \E i \in DOMAIN ds : ds[i].branch = c
  <2>1. CASE c = b
    BY <1>7, <1>10, <1>11, <1>12, <2>1
  <2>2. CASE c # b
    <3>1. \/ \E i \in DOMAIN ws : ws[i].branch = c
          \/ \E i \in DOMAIN cs : cs[i].branch = c
      BY <1>18 DEF Complete
    <3>2. ASSUME NEW i \in DOMAIN ws, ws[i].branch = c
          PROVE  i \in DOMAIN vs /\ vs[i].branch = c
      BY <1>1, <1>3, <1>4, <2>2, <3>2
    <3>3. ASSUME NEW i \in DOMAIN cs, cs[i].branch = c
          PROVE  i \in DOMAIN ds /\ ds[i].branch = c
      BY <1>9, <1>10, <1>11, <1>12, <3>3
    <3> QED
      BY <3>1, <3>2, <3>3
  <2> QED
    BY <2>1, <2>2
<1> QED
  BY <1>10, <1>14, <1>16, <1>17, <1>18 DEF Complete

LEMMA CloseKeeps ==
  ASSUME NEW body, Tree(body), NEW k, NEW ws, NEW vs, NEW w, NEW cs, NEW ds,
         WalkOK(body, k, ws, cs), ~(k < After(body, TopBranch(ws))), TopBranch(ws) # 0,
         Receives(ws, w), vs = Popped(ws, w), ds = Append(cs, StepsOf(ws[Len(ws)]))
  PROVE  WalkOK(body, k, vs, ds)
<1>1. /\ Stack(body, k, ws) /\ Told(body, k, ws) /\ Complete(body, k, ws, cs)
      /\ k \in 1..(Size(body) + 1) /\ (k \in Nodes(body) => Reached(body, k))
  BY DEF WalkOK
<1>2. k \in Nat
  <2>1. Size(body) \in Nat
    BY TreeParented, TreeSize
  <2> QED
    BY <1>1, <2>1
<1>3. Stack(body, k, vs)
  BY <1>1, <1>2, CloseStack
<1>4. Told(body, k, vs)
  BY <1>1, <1>2, CloseTold
<1>5. Complete(body, k, vs, ds)
  BY <1>1, <1>2, CloseComplete
<1> QED
  BY <1>1, <1>3, <1>4, <1>5 DEF WalkOK

-----------------------------------------------------------------------------
(* The inductive invariant of Contract                                     *)

(* The contracts that can be made.                                         *)
Made ==
  [key : {d.key : d \in Range(source.defs)} \cup {0},
   shapes : Seq({Resolved(t) : t \in DOMAIN types \cup {NoType}}),
   steps : Seq(BranchSteps),
   providers : Seq(Nat),
   errors : Seq(Nat \cup {"factory", "execute"})]

(* Where BuildContracts is, and which Define it has come to.               *)
BuildOK ==
  /\ source \in Sources /\ types = source.types /\ stage \in Stages
  /\ contracts \in Seq(Made) /\ contract \in Made
  /\ Len(contracts) <= Len(source.defs)
  /\ stage = "load" => contracts = <<>>
  /\ stage \in {"types", "factory", "execute", "providers", "walk"} =>
       Len(contracts) < Len(source.defs)
  /\ stage \in {"types", "factory", "execute", "providers"} => contract.steps = <<>>
  /\ stage \in {"execute", "providers", "walk"} => Def.factory = "struct"
  /\ stage \in {"providers", "walk"} => Def.struct \in DOMAIN source.bodies
  /\ stage = "providers" => at \in 1..(Len(Def.calls) + 1)

(* The parameters before this one are resolved.                            *)
ShapesOK ==
  /\ seen \subseteq DOMAIN types
  /\ stage # "types" => frames = <<>>
  /\ stage = "types" => /\ Len(contract.shapes) < Len(Def.params)
                        /\ \E root : /\ root = Def.params[Len(contract.shapes) + 1]
                                     /\ ShapeInv(root)
  /\ stage \in {"types", "factory"} =>
       \A i \in DOMAIN contract.shapes : contract.shapes[i] = Resolved(Def.params[i])

WalkersOK ==
  /\ stage # "walk" => walkers = <<>>
  /\ stage = "walk" => WalkOK(Body, at, walkers, contract.steps)

ContractInv == BuildOK /\ ShapesOK /\ WalkersOK /\ StepsInScope /\ ErrorsAreTold

LEMMA DefFacts ==
  ASSUME BuildOK, Len(contracts) < Len(source.defs)
  PROVE  /\ Graph(types) /\ Def \in Range(source.defs)
         /\ Def.params \in Seq(DOMAIN types \cup {NoType}) /\ Def.params # <<>>
         /\ Len(Def.params) \in Nat /\ Len(Def.params) >= 1
         /\ DOMAIN Def.params = 1..Len(Def.params)
         /\ \A i \in 1..Len(Def.params) : Def.params[i] \in DOMAIN types \cup {NoType}
         /\ Def.calls \in Seq(STRING) /\ Len(Def.calls) \in Nat
         /\ DOMAIN Def.calls = 1..Len(Def.calls)
         /\ Len(contracts) \in Nat
<1>1. /\ source \in Sources /\ types = source.types /\ contracts \in Seq(Made)
  BY DEF BuildOK
<1>2. /\ \A t \in DOMAIN types :
           t # NoType /\ types[t].parts \in Seq([type : DOMAIN types, exported : BOOLEAN])
      /\ source.defs \in Seq(Range(source.defs))
      /\ \A d \in Range(source.defs) :
           /\ d.params \in Seq(DOMAIN types \cup {NoType}) /\ d.params # <<>>
           /\ d.calls \in Seq(STRING)
  BY <1>1, SourcesAssumption
<1>3. Len(contracts) \in Nat /\ Len(source.defs) \in Nat
  BY <1>1, <1>2, LenProperties
<1>4. Len(contracts) + 1 \in 1..Len(source.defs)
  BY <1>3
<1>5. Def \in Range(source.defs)
  BY <1>2, <1>4, SeqFacts DEF Def
<1>6. Graph(types)
  BY <1>2 DEF Graph
<1>7. /\ Def.params \in Seq(DOMAIN types \cup {NoType}) /\ Def.params # <<>>
      /\ Def.calls \in Seq(STRING)
  BY <1>2, <1>5
<1>8. /\ Len(Def.params) \in Nat /\ Len(Def.params) >= 1
      /\ DOMAIN Def.params = 1..Len(Def.params)
      /\ \A i \in 1..Len(Def.params) : Def.params[i] \in DOMAIN types \cup {NoType}
  BY <1>7, SeqFacts
<1>9. Len(Def.calls) \in Nat /\ DOMAIN Def.calls = 1..Len(Def.calls)
  BY <1>7, SeqFacts
<1> QED
  BY <1>3, <1>5, <1>6, <1>7, <1>8, <1>9

LEMMA BodyTree ==
  ASSUME BuildOK, Def.struct \in DOMAIN source.bodies
  PROVE  Tree(Body)
BY SourcesAssumption DEF BuildOK, Body

LEMMA NoContractMade ==
  /\ NoContract \in Made /\ NoContract.steps = <<>> /\ NoContract.shapes = <<>>
<1>1. /\ NoContract.key = 0 /\ NoContract.shapes = <<>> /\ NoContract.steps = <<>>
      /\ NoContract.providers = <<>> /\ NoContract.errors = <<>>
  BY DEF NoContract
<1>2. \A S : <<>> \in Seq(S)
  BY EmptySeq
<1> QED
  BY <1>1, <1>2 DEF NoContract, Made

LEMMA InitInv ==
  ASSUME ContractInit
  PROVE  ContractInv
<1>1. source \in Sources /\ types = source.types /\ stage = "load"
  BY DEF ContractInit
<1>2. contracts = <<>> /\ contract = NoContract /\ frames = <<>> /\ seen = {} /\ walkers = <<>>
  BY DEF ContractInit
<1>3. source.defs \in Seq(Range(source.defs))
  BY <1>1, SourcesAssumption
<1>4. contracts \in Seq(Made) /\ Len(contracts) = 0
  BY <1>2, EmptySeq
<1>5. Len(source.defs) \in Nat
  BY <1>3, LenProperties
<1>6. BuildOK
  BY <1>1, <1>2, <1>4, <1>5, NoContractMade DEF BuildOK, Stages
<1>7. ShapesOK
  BY <1>1, <1>2 DEF ShapesOK
<1>8. WalkersOK
  BY <1>1, <1>2 DEF WalkersOK
<1>9. StepsInScope /\ ErrorsAreTold
  BY <1>1 DEF StepsInScope, ErrorsAreTold, Extracted
<1> QED
  BY <1>6, <1>7, <1>8, <1>9 DEF ContractInv

(* The module stays, and what could be made of it.                         *)
LEMMA MadeSame ==
  ASSUME source' = source, types' = types
  PROVE  Made' = Made /\ \A t : Resolved(t)' = Resolved(t)
<1>1. \A t : Resolved(t)' = Resolved(t)
  BY DEF Resolved, Unknown, Shape, NoType, Unfolded, Paths, Parts, Comes, Named
<1> QED
  BY <1>1 DEF Made, NoType

LEMMA LoadKeeps ==
  ASSUME ContractInv, Load
  PROVE  ContractInv'
<1>1. /\ stage = "load" /\ stage' \in {"failed", "define"}
      /\ source' = source /\ types' = types
      /\ frames' = frames /\ seen' = seen /\ shape' = shape
      /\ contracts' = contracts /\ contract' = contract
      /\ at' = at /\ walkers' = walkers
  BY DEF Load, Goes, shapeVars, walkVars
<1>2. BuildOK /\ ShapesOK /\ WalkersOK
  BY DEF ContractInv
<1>3. contracts = <<>>
  BY <1>1, <1>2 DEF BuildOK
<1>4. BuildOK'
  BY <1>1, <1>2, <1>3, MadeSame DEF BuildOK, Stages
<1>5. ShapesOK'
  BY <1>1, <1>2 DEF ShapesOK
<1>6. WalkersOK'
  BY <1>1, <1>2 DEF WalkersOK
<1>7. StepsInScope' /\ ErrorsAreTold'
  BY <1>1, <1>3 DEF StepsInScope, ErrorsAreTold, Extracted
<1> QED
  BY <1>4, <1>5, <1>6, <1>7 DEF ContractInv

LEMMA NotLatest ==
  ASSUME stage' # "define"
  PROVE  StepsInScope' /\ ErrorsAreTold'
BY DEF StepsInScope, ErrorsAreTold, Extracted

LEMMA DefineKeeps ==
  ASSUME ContractInv, Define
  PROVE  ContractInv'
<1>1. /\ stage = "define" /\ stage' = "types" /\ source' = source /\ types' = types
      /\ Len(contracts) < Len(source.defs)
      /\ contracts' = contracts /\ contract' = [NoContract EXCEPT !.key = Def.key]
      /\ at' = at /\ walkers' = walkers
  BY DEF Define, Goes, walkVars
<1>2. BuildOK /\ ShapesOK /\ WalkersOK
  BY DEF ContractInv
<1>3. /\ Graph(types) /\ Def \in Range(source.defs)
      /\ Len(Def.params) \in Nat /\ Len(Def.params) >= 1
      /\ \A i \in 1..Len(Def.params) : Def.params[i] \in DOMAIN types \cup {NoType}
  BY <1>1, <1>2, DefFacts
<1>4. Def' = Def
  BY <1>1 DEF Def
<1>5. contract' \in Made /\ contract'.shapes = <<>> /\ contract'.steps = <<>>
  <2>1. contract' = [key |-> Def.key, shapes |-> <<>>, steps |-> <<>>,
                     providers |-> <<>>, errors |-> <<>>]
    BY <1>1 DEF NoContract
  <2>2. Def.key \in {d.key : d \in Range(source.defs)}
    BY <1>3
  <2>3. \A S : <<>> \in Seq(S)
    BY EmptySeq
  <2> QED
    BY <2>1, <2>2, <2>3 DEF Made
<1>6. BuildOK'
  BY <1>1, <1>2, <1>5, MadeSame DEF BuildOK, Stages
<1>7. ShapesOK'
  <2>1. PICK root : root = Def.params[1]
    OBVIOUS
  <2>2. root \in DOMAIN types \cup {NoType}
    <3>1. 1 \in 1..Len(Def.params)
      BY <1>3
    <3> QED
      BY <1>3, <2>1, <3>1
  <2>3. Resolve(root)
    BY <2>1 DEF Define
  <2>4. ShapeInv(root)'
    BY <1>1, <1>3, <2>2, <2>3, ResolveStarts
  <2>5. Len(contract'.shapes) = 0 /\ DOMAIN contract'.shapes = {}
    BY <1>5
  <2>6. Def'.params[Len(contract'.shapes) + 1] = root
    BY <1>4, <2>1, <2>5
  <2>7. \E r : r = Def'.params[Len(contract'.shapes) + 1] /\ ShapeInv(r)'
    BY <2>4, <2>6
  <2>8. seen' \subseteq DOMAIN types'
    BY <2>4 DEF ShapeInv
  <2> QED
    BY <1>1, <1>3, <1>4, <2>5, <2>7, <2>8 DEF ShapesOK
<1>8. WalkersOK'
  BY <1>1, <1>2 DEF WalkersOK
<1>9. StepsInScope' /\ ErrorsAreTold'
  BY <1>1, NotLatest
<1> QED
  BY <1>6, <1>7, <1>8, <1>9 DEF ContractInv

LEMMA ResolveStepKeeps ==
  ASSUME ContractInv, ResolveStep
  PROVE  ContractInv'
<1>1. /\ stage = "types" /\ stage' = stage /\ source' = source /\ types' = types
      /\ contracts' = contracts /\ contract' = contract
      /\ at' = at /\ walkers' = walkers
  BY DEF ResolveStep, walkVars
<1>2. BuildOK /\ ShapesOK /\ WalkersOK
  BY DEF ContractInv
<1>3. Graph(types)
  <2>1. Len(contracts) < Len(source.defs)
    BY <1>1, <1>2 DEF BuildOK
  <2> QED
    BY <1>2, <2>1, DefFacts
<1>4. Def' = Def
  BY <1>1 DEF Def
<1>5. BuildOK'
  BY <1>1, <1>2, MadeSame DEF BuildOK
<1>6. ShapesOK'
  <2>1. PICK root : root = Def.params[Len(contract.shapes) + 1] /\ ShapeInv(root)
    BY <1>1, <1>2 DEF ShapesOK
  <2>2. ShapeInv(root)
    BY <2>1
  <2>3. ShapeInv(root)'
    <3>1. CASE Skip
      BY <1>1, <1>3, <2>2, <3>1, SkipKeeps DEF Skip, Resolving
    <3>2. CASE Recur
      BY <1>1, <1>3, <2>2, <3>2, RecurKeeps DEF Recur, Resolving
    <3>3. CASE Descend
      BY <1>1, <1>3, <2>2, <3>3, DescendKeeps DEF Descend, Resolving
    <3>4. CASE Ascend
      BY <1>1, <1>3, <2>2, <3>4, AscendKeeps
    <3> QED
      BY <3>1, <3>2, <3>3, <3>4 DEF ResolveStep
  <2>4. Def'.params[Len(contract'.shapes) + 1] = root
    BY <1>1, <1>4, <2>1
  <2>5. \E r : r = Def'.params[Len(contract'.shapes) + 1] /\ ShapeInv(r)'
    BY <2>3, <2>4
  <2>6. seen' \subseteq DOMAIN types'
    BY <2>3 DEF ShapeInv
  <2>7. \A i \in DOMAIN contract'.shapes :
          contract'.shapes[i] = Resolved(Def.params[i])'
    <3>1. \A i \in DOMAIN contract.shapes : contract.shapes[i] = Resolved(Def.params[i])
      BY <1>1, <1>2 DEF ShapesOK
    <3>2. \A t : Resolved(t)' = Resolved(t)
      BY <1>1, MadeSame
    <3>3. \A i : Resolved(Def.params[i])' = Resolved(Def.params[i])
      BY <1>1, <1>4 DEF Resolved, Unknown, Shape, NoType, Unfolded, Paths, Parts, Comes, Named
    <3> QED
      BY <1>1, <3>1, <3>3
  <2>8. Len(contract'.shapes) < Len(Def'.params)
    BY <1>1, <1>2, <1>4 DEF ShapesOK
  <2> QED
    BY <1>1, <2>5, <2>6, <2>7, <2>8 DEF ShapesOK
<1>7. WalkersOK'
  BY <1>1, <1>2 DEF WalkersOK
<1>8. StepsInScope' /\ ErrorsAreTold'
  BY <1>1, NotLatest
<1> QED
  BY <1>5, <1>6, <1>7, <1>8 DEF ContractInv

LEMMA TypeResolvedKeeps ==
  ASSUME ContractInv, TypeResolved
  PROVE  ContractInv'
<1>1. PICK n : n = Len(contract.shapes) + 1
  OBVIOUS
<1>2. /\ stage = "types" /\ frames = <<>> /\ source' = source /\ types' = types
      /\ contract' = [contract EXCEPT !.shapes = Append(contract.shapes, shape)]
      /\ contracts' = contracts /\ at' = at /\ walkers' = walkers
      /\ stage' \in {"types", "factory"}
      /\ \/ n < Len(Def.params) /\ Resolve(Def.params[n + 1]) /\ stage' = "types"
         \/ frames' = frames /\ seen' = seen /\ shape' = shape /\ stage' = "factory"
  BY <1>1 DEF TypeResolved, Goes, walkVars, shapeVars
<1>3. BuildOK /\ ShapesOK /\ WalkersOK
  BY DEF ContractInv
<1>4. /\ Graph(types) /\ Len(Def.params) \in Nat
      /\ \A i \in 1..Len(Def.params) : Def.params[i] \in DOMAIN types \cup {NoType}
  <2>1. Len(contracts) < Len(source.defs)
    BY <1>2, <1>3 DEF BuildOK
  <2> QED
    BY <1>3, <2>1, DefFacts
<1>5. Def' = Def
  BY <1>2 DEF Def
<1>6. PICK R : R = {Resolved(t) : t \in DOMAIN types \cup {NoType}}
  OBVIOUS
<1>7. contract \in Made /\ contract.shapes \in Seq(R)
  BY <1>3, <1>6 DEF BuildOK, Made
<1>8. /\ Len(contract.shapes) \in Nat /\ DOMAIN contract.shapes = 1..Len(contract.shapes)
      /\ Len(contract.shapes) < Len(Def.params)
      /\ \A i \in 1..Len(contract.shapes) : contract.shapes[i] = Resolved(Def.params[i])
  <2>1. Len(contract.shapes) \in Nat /\ DOMAIN contract.shapes = 1..Len(contract.shapes)
    BY <1>7, SeqFacts
  <2> QED
    BY <1>2, <1>3, <2>1 DEF ShapesOK
<1>9. n \in Nat /\ n \in 1..Len(Def.params)
  BY <1>1, <1>4, <1>8
<1>10. shape = Resolved(Def.params[n]) /\ shape \in R
  <2>1. shape = Resolved(Def.params[n])
    BY <1>1, <1>2, <1>3 DEF ShapesOK, ShapeInv
  <2> QED
    BY <1>4, <1>6, <1>9, <2>1
<1>11. PICK ss : ss = Append(contract.shapes, shape)
  OBVIOUS
<1>12. /\ ss \in Seq(R) /\ Len(ss) = n /\ ss[n] = shape
       /\ \A i \in 1..Len(contract.shapes) : ss[i] = contract.shapes[i]
  BY <1>1, <1>7, <1>10, <1>11, AppendProperties
<1>13. DOMAIN ss = 1..n
  BY <1>12, SeqFacts
<1>14. /\ contract' \in Made /\ contract'.shapes = ss /\ contract'.steps = contract.steps
  <2>1. contract' = [contract EXCEPT !.shapes = ss]
    BY <1>2, <1>11
  <2> QED
    BY <1>6, <1>7, <1>12, <2>1 DEF Made
<1>15. BuildOK'
  BY <1>2, <1>3, <1>14, MadeSame DEF BuildOK, Stages
<1>16. \A i \in 1..n : ss[i] = Resolved(Def.params[i])
  <2>1. \A i \in 1..n : i \in 1..Len(contract.shapes) \/ i = n
    BY <1>1, <1>8
  <2> QED
    BY <1>8, <1>10, <1>12, <2>1
<1>17. \A i \in DOMAIN contract'.shapes :
         contract'.shapes[i] = Resolved(Def.params[i])'
  <2>1. \A i : Resolved(Def.params[i])' = Resolved(Def.params[i])
    BY <1>2, <1>5
       DEF Resolved, Unknown, Shape, NoType, Unfolded, Paths, Parts, Comes, Named
  <2> QED
    BY <1>13, <1>14, <1>16, <2>1
<1>18. ShapesOK'
  <2>1. CASE n < Len(Def.params) /\ Resolve(Def.params[n + 1]) /\ stage' = "types"
    <3>1. PICK root : root = Def.params[n + 1]
      OBVIOUS
    <3>2. root \in DOMAIN types \cup {NoType}
      <4>1. n + 1 \in 1..Len(Def.params)
        BY <1>4, <1>9, <2>1
      <4> QED
        BY <1>4, <3>1, <4>1
    <3>3. Resolve(root)
      BY <2>1, <3>1
    <3>4. ShapeInv(root)'
      BY <1>2, <1>4, <3>2, <3>3, ResolveStarts
    <3>5. \E r : r = Def'.params[Len(contract'.shapes) + 1] /\ ShapeInv(r)'
      BY <1>5, <1>12, <1>14, <3>1, <3>4
    <3>6. seen' \subseteq DOMAIN types'
      BY <3>4 DEF ShapeInv
    <3>7. Len(contract'.shapes) < Len(Def'.params)
      BY <1>5, <1>12, <1>14, <2>1
    <3> QED
      BY <1>17, <2>1, <3>5, <3>6, <3>7 DEF ShapesOK
  <2>2. CASE frames' = frames /\ seen' = seen /\ shape' = shape /\ stage' = "factory"
    <3>1. seen' \subseteq DOMAIN types'
      BY <1>2, <1>3, <2>2 DEF ShapesOK
    <3> QED
      BY <1>2, <1>17, <2>2, <3>1 DEF ShapesOK
  <2> QED
    BY <1>2, <2>1, <2>2
<1>19. WalkersOK'
  BY <1>2, <1>3 DEF WalkersOK
<1>20. StepsInScope' /\ ErrorsAreTold'
  BY <1>2, NotLatest
<1> QED
  BY <1>15, <1>18, <1>19, <1>20 DEF ContractInv

(* A contract has been built.                                              *)
LEMMA BuiltFacts ==
  ASSUME ContractInv, Len(contracts) < Len(source.defs), NEW c \in Made, Built(c),
         frames = <<>>, seen' = seen, frames' = frames, walkers' = <<>>
  PROVE  /\ BuildOK' /\ ShapesOK' /\ WalkersOK'
         /\ stage' = "define" /\ contracts' # <<>> /\ source' = source
         /\ Latest' = c /\ LatestDef' = Def
<1>1. /\ contracts' = Append(contracts, c) /\ contract' = NoContract
      /\ stage' = "define" /\ types' = types /\ source' = source
  BY DEF Built, Goes
<1>2. BuildOK /\ ShapesOK
  BY DEF ContractInv
<1>3. PICK m : m = Len(contracts)
  OBVIOUS
<1>4. contracts \in Seq(Made) /\ m \in Nat /\ m + 1 <= Len(source.defs)
  <2>1. contracts \in Seq(Made) /\ m \in Nat
    BY <1>2, <1>3, SeqFacts DEF BuildOK
  <2>2. Len(source.defs) \in Nat
    <3>1. source.defs \in Seq(Range(source.defs))
      BY <1>2, SourcesAssumption DEF BuildOK
    <3> QED
      BY <3>1, LenProperties
  <2> QED
    BY <1>3, <2>1, <2>2
<1>5. /\ contracts' \in Seq(Made) /\ contracts' # <<>> /\ Len(contracts') = m + 1
      /\ contracts'[m + 1] = c
  BY <1>1, <1>3, <1>4, AppendProperties
<1>6. Latest' = c /\ LatestDef' = Def
  BY <1>1, <1>3, <1>5 DEF Latest, LatestDef, Def
<1>7. BuildOK'
  BY <1>1, <1>2, <1>4, <1>5, MadeSame, NoContractMade DEF BuildOK, Stages
<1>8. ShapesOK'
  BY <1>1, <1>2 DEF ShapesOK
<1>9. WalkersOK'
  BY <1>1 DEF WalkersOK
<1> QED
  BY <1>1, <1>5, <1>6, <1>7, <1>8, <1>9

(* A contract that tells that nothing could be extracted.                  *)
LEMMA BuiltNothing ==
  ASSUME ContractInv, Len(contracts) < Len(source.defs), NEW e \in {"factory", "execute"},
         Built([contract EXCEPT !.errors = <<e>>]), frames = <<>>, seen' = seen,
         frames' = frames, walkers' = <<>>,
         ~(Def.factory = "struct" /\ Def.struct \in DOMAIN source.bodies)
  PROVE  ContractInv'
<1>1. PICK c : c = [contract EXCEPT !.errors = <<e>>]
  OBVIOUS
<1>2. c \in Made /\ c.errors # <<>>
  <2>1. contract \in Made
    BY DEF ContractInv, BuildOK
  <2>2. <<e>> \in Seq(Nat \cup {"factory", "execute"}) /\ <<e>> # <<>>
    OBVIOUS
  <2>3. c.errors = <<e>>
    BY <1>1, <2>1 DEF Made
  <2>4. c \in Made
    BY <1>1, <2>1, <2>2 DEF Made
  <2> QED
    BY <2>2, <2>3, <2>4
<1>3. /\ BuildOK' /\ ShapesOK' /\ WalkersOK'
      /\ stage' = "define" /\ contracts' # <<>> /\ source' = source
      /\ Latest' = c /\ LatestDef' = Def
  BY <1>1, <1>2, BuiltFacts
<1>4. ~Extracted'
  BY <1>3 DEF Extracted
<1>5. StepsInScope'
  BY <1>4 DEF StepsInScope
<1>6. ErrorsAreTold'
  BY <1>2, <1>3, <1>4 DEF ErrorsAreTold
<1> QED
  BY <1>3, <1>5, <1>6 DEF ContractInv

LEMMA ResolveFactoryKeeps ==
  ASSUME ContractInv, ResolveFactory
  PROVE  ContractInv'
<1>1. /\ stage = "factory" /\ frames' = frames /\ seen' = seen
      /\ at' = at /\ walkers' = walkers
  BY DEF ResolveFactory, shapeVars, walkVars
<1>2. BuildOK /\ ShapesOK /\ WalkersOK
  BY DEF ContractInv
<1>3. frames = <<>> /\ walkers = <<>> /\ Len(contracts) < Len(source.defs)
  BY <1>1, <1>2 DEF BuildOK, ShapesOK, WalkersOK
<1>4. CASE Def.factory = "struct"
  <2>1. /\ stage' = "execute" /\ source' = source /\ types' = types
        /\ contracts' = contracts /\ contract' = contract
    BY <1>4 DEF ResolveFactory, Goes
  <2>2. Def' = Def
    BY <2>1 DEF Def
  <2>3. BuildOK'
    BY <1>1, <1>2, <1>3, <1>4, <2>1, <2>2, MadeSame DEF BuildOK, Stages
  <2>4. ShapesOK'
    BY <1>1, <1>2, <1>3, <2>1 DEF ShapesOK
  <2>5. WalkersOK'
    BY <1>1, <1>3, <2>1 DEF WalkersOK
  <2>6. StepsInScope' /\ ErrorsAreTold'
    BY <2>1, NotLatest
  <2> QED
    BY <2>3, <2>4, <2>5, <2>6 DEF ContractInv
<1>5. CASE Def.factory # "struct"
  <2>1. Built([contract EXCEPT !.errors = <<"factory">>])
    BY <1>5 DEF ResolveFactory
  <2> QED
    BY <1>1, <1>3, <1>5, <2>1, BuiltNothing
<1> QED
  BY <1>4, <1>5

(* The walk of a body begins.                                              *)
LEMMA WalkStarts ==
  ASSUME NEW body, Tree(body)
  PROVE  WalkOK(body, 1, <<Walker(0)>>, <<>>)
<1>1. PICK ws : ws = <<Walker(0)>>
  OBVIOUS
<1>2. /\ Parented(body) /\ Size(body) \in Nat /\ 0 \in TreeNodes(body)
      /\ \A n \in Nodes(body) : n \in Nat /\ n >= 1 /\ n <= Size(body)
  <2>1. Parented(body)
    BY TreeParented
  <2>2. Size(body) \in Nat
    BY <2>1, TreeSize
  <2>3. \A n \in Nodes(body) : n \in Nat /\ n >= 1 /\ n <= Size(body)
    BY <2>1, TreeSize
  <2> QED
    BY <2>1, <2>2, <2>3 DEF TreeNodes
<1>3. /\ Walker(0) \in Walkers /\ Walker(0).branch = 0
      /\ Walker(0).steps = <<>> /\ Walker(0).errors = <<>>
  BY WalkerType
<1>4. /\ ws \in Seq(Walkers) /\ ws # <<>> /\ Len(ws) = 1 /\ ws[1] = Walker(0)
      /\ DOMAIN ws = {1}
  BY <1>1, <1>3
<1>5. \A n \in Nodes(body) : ~(n < 1)
  BY <1>2
<1>6. 1 \in Nodes(body) => Reached(body, 1)
  <2>1. SUFFICES ASSUME 1 \in Nodes(body)
                 PROVE  Reached(body, 1)
    OBVIOUS
  <2>2. Within(body)[1] \subseteq 0..1
    BY <1>2, <2>1, WithinParent, WithinRange
  <2>3. \A a \in 0..1 : a = 0 \/ a = 1
    OBVIOUS
  <2> QED
    BY <2>2, <2>3 DEF Reached
<1>7. Stack(body, 1, ws)
  <2>1. After(body, 0) = Size(body) + 1
    BY AfterRoot
  <2>2. 0 < 1 /\ 1 <= After(body, 0)
    BY <1>2, <2>1
  <2>3. \A b \in Opened(body) : ~(b < 1)
    BY <1>5, OpenedFacts
  <2> QED
    BY <1>3, <1>4, <2>2, <2>3 DEF Stack
<1>8. Told(body, 1, ws)
  <2>1. \A b : Before(body, b, 1) = {}
    BY <1>5 DEF Before, StepsIn
  <2>2. Ascending(<<>>) /\ Range(<<>>) = {}
    BY DEF Ascending, Range
  <2>3. \A n \in body.dynamic : ~(n < 1)
    BY <1>5 DEF Tree
  <2> QED
    BY <1>3, <1>4, <2>1, <2>2, <2>3 DEF Told
<1>9. Complete(body, 1, ws, <<>>)
  <2>1. <<>> \in Seq(BranchSteps) /\ DOMAIN <<>> = {}
    OBVIOUS
  <2>2. \A b \in Opened(body) : ~(b < 1)
    BY <1>5, OpenedFacts
  <2> QED
    BY <2>1, <2>2 DEF Complete
<1>10. 1 \in 1..(Size(body) + 1)
  BY <1>2
<1> QED
  BY <1>1, <1>6, <1>7, <1>8, <1>9, <1>10 DEF WalkOK

LEMMA FindExecuteKeeps ==
  ASSUME ContractInv, FindExecute
  PROVE  ContractInv'
<1>1. /\ stage = "execute" /\ frames' = frames /\ seen' = seen /\ shape' = shape
      /\ walkers' = walkers
  BY DEF FindExecute, shapeVars
<1>2. BuildOK /\ ShapesOK /\ WalkersOK
  BY DEF ContractInv
<1>3. /\ frames = <<>> /\ walkers = <<>> /\ Len(contracts) < Len(source.defs)
      /\ Def.factory = "struct" /\ contract.steps = <<>>
  BY <1>1, <1>2 DEF BuildOK, ShapesOK, WalkersOK
<1>4. CASE Def.struct \in DOMAIN source.bodies
  <2>1. /\ at' = 1 /\ stage' = "providers"
        /\ source' = source /\ types' = types
        /\ contracts' = contracts /\ contract' = contract
    BY <1>4 DEF FindExecute, Goes
  <2>2. Def' = Def
    BY <2>1 DEF Def
  <2>3. at' \in 1..(Len(Def.calls) + 1)
    <3>1. Len(Def.calls) \in Nat
      BY <1>2, <1>3, DefFacts
    <3> QED
      BY <2>1, <3>1
  <2>4. BuildOK'
    BY <1>1, <1>2, <1>3, <1>4, <2>1, <2>2, <2>3, MadeSame DEF BuildOK, Stages
  <2>5. ShapesOK'
    BY <1>1, <1>2, <1>3, <2>1 DEF ShapesOK
  <2>6. WalkersOK'
    BY <1>1, <1>3, <2>1 DEF WalkersOK
  <2>7. StepsInScope' /\ ErrorsAreTold'
    BY <2>1, NotLatest
  <2> QED
    BY <2>4, <2>5, <2>6, <2>7 DEF ContractInv
<1>5. CASE Def.struct \notin DOMAIN source.bodies
  <2>1. Built([contract EXCEPT !.errors = <<"execute">>])
    BY <1>5 DEF FindExecute
  <2> QED
    BY <1>1, <1>3, <1>5, <2>1, BuiltNothing
<1> QED
  BY <1>4, <1>5

LEMMA FactoryFacts ==
  ASSUME ContractInv, stage = "providers"
  PROVE  /\ BuildOK /\ ShapesOK /\ frames = <<>> /\ walkers = <<>>
         /\ Len(contracts) < Len(source.defs) /\ Def.factory = "struct"
         /\ Def.struct \in DOMAIN source.bodies
         /\ contract \in Made /\ contract.steps = <<>>
BY DEF ContractInv, BuildOK, ShapesOK, WalkersOK

LEMMA VisitFactoryKeeps ==
  ASSUME ContractInv, VisitFactory
  PROVE  ContractInv'
<1>1. /\ stage = "providers" /\ stage' = stage /\ types' = types /\ source' = source
      /\ frames' = frames /\ seen' = seen /\ contracts' = contracts
      /\ walkers' = walkers /\ at' = at + 1 /\ at \in DOMAIN Def.calls
  BY DEF VisitFactory, shapeVars
<1>2. /\ BuildOK /\ ShapesOK /\ frames = <<>> /\ walkers = <<>>
      /\ Len(contracts) < Len(source.defs) /\ Def.factory = "struct"
      /\ Def.struct \in DOMAIN source.bodies
      /\ contract \in Made /\ contract.steps = <<>>
  BY <1>1, FactoryFacts
<1>3. Len(Def.calls) \in Nat /\ at \in 1..Len(Def.calls)
  BY <1>1, <1>2, DefFacts
<1>4. at' \in 1..(Len(Def.calls) + 1) /\ at \in Nat
  BY <1>1, <1>3
<1>5. contract' \in Made /\ contract'.steps = <<>>
  <2>1. CASE contract' = contract
    BY <1>2, <2>1
  <2>2. CASE contract' = [contract EXCEPT !.providers = Append(contract.providers, at)]
    <3>1. contract.providers \in Seq(Nat)
      BY <1>2 DEF Made
    <3>2. Append(contract.providers, at) \in Seq(Nat)
      BY <1>4, <3>1, AppendProperties
    <3> QED
      BY <1>2, <2>2, <3>2 DEF Made
  <2> QED
    BY <2>1, <2>2 DEF VisitFactory
<1>6. Def' = Def
  BY <1>1 DEF Def
<1>7. BuildOK'
  BY <1>1, <1>2, <1>4, <1>5, <1>6, MadeSame DEF BuildOK, Stages
<1>8. ShapesOK'
  BY <1>1, <1>2 DEF ShapesOK
<1>9. WalkersOK'
  BY <1>1, <1>2 DEF WalkersOK
<1>10. StepsInScope' /\ ErrorsAreTold'
  BY <1>1, NotLatest
<1> QED
  BY <1>7, <1>8, <1>9, <1>10 DEF ContractInv

LEMMA EnterExecuteKeeps ==
  ASSUME ContractInv, EnterExecute
  PROVE  ContractInv'
<1>1. /\ stage = "providers" /\ stage' = "walk" /\ types' = types /\ source' = source
      /\ frames' = frames /\ seen' = seen /\ contracts' = contracts
      /\ contract' = contract /\ at' = 1 /\ walkers' = <<Walker(0)>>
  BY DEF EnterExecute, Goes, shapeVars
<1>2. /\ BuildOK /\ ShapesOK /\ frames = <<>> /\ walkers = <<>>
      /\ Len(contracts) < Len(source.defs) /\ Def.factory = "struct"
      /\ Def.struct \in DOMAIN source.bodies
      /\ contract \in Made /\ contract.steps = <<>>
  BY <1>1, FactoryFacts
<1>3. Def' = Def
  BY <1>1 DEF Def
<1>4. BuildOK'
  BY <1>1, <1>2, <1>3, MadeSame DEF BuildOK, Stages
<1>5. ShapesOK'
  BY <1>1, <1>2 DEF ShapesOK
<1>6. WalkersOK'
  <2>1. PICK body : body = Body
    OBVIOUS
  <2>2. Body' = body
    BY <1>1, <1>3, <2>1 DEF Body
  <2>3. Tree(body)
    BY <1>2, <2>1, BodyTree
  <2>4. WalkOK(body, at', walkers', contract'.steps)
    BY <1>1, <1>2, <2>3, WalkStarts
  <2>5. WalkOK(Body, at, walkers, contract.steps)'
    BY <2>2, <2>4 DEF WalkOK, Reached, Entered, Taken, Stack, Told, Complete
  <2> QED
    BY <1>1, <2>5 DEF WalkersOK
<1>7. StepsInScope' /\ ErrorsAreTold'
  BY <1>1, NotLatest
<1> QED
  BY <1>4, <1>5, <1>6, <1>7 DEF ContractInv

-----------------------------------------------------------------------------
(* The walk                                                                *)

LEMMA WalkFacts ==
  ASSUME ContractInv, stage = "walk"
  PROVE  /\ BuildOK /\ ShapesOK /\ frames = <<>> /\ Len(contracts) < Len(source.defs)
         /\ Def.factory = "struct" /\ Def.struct \in DOMAIN source.bodies
         /\ Tree(Body) /\ WalkOK(Body, at, walkers, contract.steps)
         /\ Stack(Body, at, walkers)
         /\ Len(walkers) \in Nat /\ Len(walkers) >= 1 /\ Len(walkers) \in 1..Len(walkers)
         /\ W \in Walkers /\ W = walkers[Len(walkers)] /\ W.branch = TopBranch(walkers)
<1>1. BuildOK /\ ShapesOK /\ WalkersOK
  BY DEF ContractInv
<1>2. /\ frames = <<>> /\ Len(contracts) < Len(source.defs)
      /\ Def.factory = "struct" /\ Def.struct \in DOMAIN source.bodies
  BY <1>1 DEF BuildOK, ShapesOK
<1>3. Tree(Body)
  BY <1>1, <1>2, BodyTree
<1>4. WalkOK(Body, at, walkers, contract.steps)
  BY <1>1 DEF WalkersOK
<1>5. Stack(Body, at, walkers)
  BY <1>4 DEF WalkOK
<1>6. Len(walkers) \in Nat /\ Len(walkers) >= 1 /\ Len(walkers) \in 1..Len(walkers)
  BY <1>5, StackFacts
<1>7. walkers \in Seq(Walkers)
  BY <1>5, StackFacts
<1>8. W \in Walkers /\ W = walkers[Len(walkers)] /\ W.branch = TopBranch(walkers)
  BY <1>6, <1>7, SeqFacts DEF W, TopBranch
<1> QED
  BY <1>1, <1>2, <1>3, <1>4, <1>5, <1>6, <1>8

(* A walker that is inside its block is at a node.                         *)
LEMMA InsideNode ==
  ASSUME ContractInv, stage = "walk", Inside
  PROVE  at \in Nodes(Body) /\ at < After(Body, TopBranch(walkers)) /\ Reached(Body, at)
<1>1. /\ Tree(Body) /\ WalkOK(Body, at, walkers, contract.steps)
      /\ Stack(Body, at, walkers) /\ Len(walkers) \in 1..Len(walkers)
      /\ W.branch = TopBranch(walkers)
  BY WalkFacts
<1>2. at < After(Body, TopBranch(walkers))
  BY <1>1 DEF Inside
<1>3. TopBranch(walkers) \in TreeNodes(Body)
  BY <1>1, WalkerFacts DEF TopBranch
<1>4. /\ After(Body, TopBranch(walkers)) \in Nat
      /\ After(Body, TopBranch(walkers)) <= Size(Body) + 1
  BY <1>1, <1>3, AfterFacts
<1>5. at \in 1..(Size(Body) + 1) /\ Size(Body) \in Nat
  BY <1>1, TreeParented, TreeSize DEF WalkOK
<1>6. at \in 1..Size(Body)
  BY <1>2, <1>4, <1>5
<1>7. Nodes(Body) = 1..Size(Body)
  <2>1. Body.kind \in Seq(STRING)
    BY <1>1 DEF Tree
  <2> QED
    BY <2>1, SeqFacts DEF Nodes, Size
<1>8. Reached(Body, at)
  BY <1>1, <1>6, <1>7 DEF WalkOK
<1> QED
  BY <1>2, <1>6, <1>7, <1>8

(* A step that only the walk takes.                                        *)
LEMMA WalkStep ==
  ASSUME ContractInv, stage = "walk", stage' = stage, types' = types, source' = source,
         frames' = frames, seen' = seen, contracts' = contracts,
         contract' \in Made, WalkOK(Body, at', walkers', contract'.steps)
  PROVE  ContractInv'
<1>1. BuildOK /\ ShapesOK /\ frames = <<>>
  BY WalkFacts
<1>2. Def' = Def
  BY DEF Def
<1>3. PICK body : body = Body
  OBVIOUS
<1>4. Body' = body
  BY <1>2, <1>3 DEF Body
<1>5. BuildOK'
  BY <1>1, <1>2, MadeSame DEF BuildOK
<1>6. ShapesOK'
  BY <1>1 DEF ShapesOK
<1>7. WalkOK(body, at', walkers', contract'.steps)
  BY <1>3
<1>8. WalkOK(Body, at, walkers, contract.steps)'
  BY <1>4, <1>7 DEF WalkOK, Reached, Entered, Taken, Stack, Told, Complete
<1>9. WalkersOK'
  BY <1>8 DEF WalkersOK
<1>10. StepsInScope' /\ ErrorsAreTold'
  BY NotLatest
<1> QED
  BY <1>5, <1>6, <1>9, <1>10 DEF ContractInv

(* The last walker visits a node, or passes it.                            *)
LEMMA WalksKeep ==
  ASSUME ContractInv, stage = "walk", Inside, NEW w \in Walkers, NEW next,
         Walks(w, next), w.branch = W.branch, Noted(Body, at, W, w),
         Passes(Body, at, next), next \in Nodes(Body) => Reached(Body, next),
         at \notin Opened(Body)
  PROVE  ContractInv'
<1>1. /\ walkers' = [walkers EXCEPT ![Len(walkers)] = w] /\ at' = next
      /\ types' = types /\ source' = source /\ stage' = stage
      /\ frames' = frames /\ seen' = seen /\ contracts' = contracts
      /\ contract' = contract
  BY DEF Walks, shapeVars
<1>2. /\ Tree(Body) /\ WalkOK(Body, at, walkers, contract.steps)
      /\ Stack(Body, at, walkers) /\ Len(walkers) \in 1..Len(walkers)
      /\ W = walkers[Len(walkers)] /\ W.branch = TopBranch(walkers)
  BY WalkFacts
<1>3. at \in Nodes(Body) /\ at < After(Body, TopBranch(walkers))
  BY InsideNode
<1>4. Changed(walkers, walkers', w)
  <2>1. walkers \in Seq(Walkers)
    BY <1>2, StackFacts
  <2>2. PICK n : n = Len(walkers)
    OBVIOUS
  <2>3. n \in 1..Len(walkers) /\ walkers' = [walkers EXCEPT ![n] = w]
    BY <1>1, <1>2, <2>2
  <2>4. /\ walkers' \in Seq(Walkers) /\ Len(walkers') = Len(walkers)
        /\ \A i \in 1..Len(walkers) : walkers'[i] = IF i = n THEN w ELSE walkers[i]
    BY <2>1, <2>3, ExceptSeq
  <2> QED
    BY <1>2, <2>2, <2>4 DEF Changed
<1>5. WalkOK(Body, next, walkers', contract.steps)
  BY <1>2, <1>3, <1>4, MoveKeeps
<1>6. contract' \in Made
  BY <1>1 DEF ContractInv, BuildOK
<1> QED
  BY <1>1, <1>5, <1>6, WalkStep

(* A node that the walk does not go on into is passed with what is in it.  *)
LEMMA PassesOver ==
  ASSUME NEW body, Tree(body), NEW k \in Nodes(body), Reached(body, k),
         ~(Entered(body, k) /\ Taken(body, k))
  PROVE  /\ Passes(body, k, After(body, k))
         /\ After(body, k) \in Nodes(body) => Reached(body, After(body, k))
<1>1. k \in TreeNodes(body)
  BY TreeParented, WithinParent
<1>2. After(body, k) \in Nat /\ k < After(body, k)
  BY <1>1, AfterFacts
<1>3. \A m \in Nodes(body) : k < m /\ m < After(body, k) => ~Followed(body, m)
  BY NotFollowed
<1>4. Passes(body, k, After(body, k))
  BY <1>2, <1>3 DEF Passes
<1>5. After(body, k) \in Nodes(body) => Reached(body, After(body, k))
  BY ReachedAfter
<1> QED
  BY <1>4, <1>5

(* A node that the walk goes on into.                                      *)
LEMMA PassesInto ==
  ASSUME NEW body, Tree(body), NEW k \in Nodes(body), Followed(body, k),
         Entered(body, k)
  PROVE  /\ Passes(body, k, k + 1)
         /\ k + 1 \in Nodes(body) => Reached(body, k + 1)
BY OpenPasses, ReachedNext

(* A call that is no argument of Parallel is followed, and is no branch.   *)
LEMMA VisitFacts ==
  ASSUME ContractInv, NEW kinds, Visiting(kinds)
  PROVE  /\ stage = "walk" /\ Inside /\ Tree(Body) /\ W \in Walkers
         /\ at \in Nodes(Body) /\ at \in Nat /\ Reached(Body, at) /\ Followed(Body, at)
         /\ Body.kind[at] \in kinds /\ at \notin Opened(Body)
<1>1. /\ stage = "walk" /\ Inside /\ ~Argument(Body, at) /\ Body.kind[at] \in kinds
  BY DEF Visiting
<1>2. Tree(Body) /\ W \in Walkers
  BY <1>1, WalkFacts
<1>3. at \in Nodes(Body) /\ Reached(Body, at)
  BY <1>1, InsideNode
<1>4. Taken(Body, at)
  BY <1>1 DEF Taken
<1>5. Followed(Body, at)
  BY <1>2, <1>3, <1>4, FollowedReached
<1>6. at \notin Opened(Body)
  BY <1>1 DEF Opened, Branches
<1>7. at \in Nat
  BY <1>2, <1>3, TreeParented, WithinParent
<1> QED
  BY <1>1, <1>2, <1>3, <1>5, <1>6, <1>7

(* A walker in which one list is another.                                  *)
LEMMA WalkerExcept ==
  ASSUME NEW w \in Walkers, NEW s \in Seq(Nat)
  PROVE  /\ [w EXCEPT !.steps = s] \in Walkers
         /\ [w EXCEPT !.providers = s] \in Walkers
         /\ [w EXCEPT !.errors = s] \in Walkers
         /\ [w EXCEPT !.steps = s].steps = s
         /\ [w EXCEPT !.errors = s].errors = s
BY DEF Walkers

LEMMA RecordFacts ==
  ASSUME NEW w \in Walkers, at \in Nat
  PROVE  /\ Record(w) \in Walkers /\ Record(w).branch = w.branch
         /\ Record(w).steps = Append(w.steps, at) /\ Record(w).errors = w.errors
<1>1. PICK s : s = Append(w.steps, at)
  OBVIOUS
<1>2. s \in Seq(Nat)
  <2>1. w.steps \in Seq(Nat)
    BY DEF Walkers
  <2> QED
    BY <1>1, <2>1, AppendProperties
<1>3. PICK v : v = [w EXCEPT !.steps = s]
  OBVIOUS
<1>4. Record(w) = v
  BY <1>1, <1>3 DEF Record
<1>5. v \in Walkers
  BY <1>2, <1>3, WalkerExcept
<1>6. v.steps = s /\ v.branch = w.branch /\ v.errors = w.errors
  BY <1>3 DEF Walkers
<1> QED
  BY <1>1, <1>4, <1>5, <1>6

LEMMA ClassifyFacts ==
  ASSUME NEW w \in Walkers, at \in Nat
  PROVE  /\ Classify(w) \in Walkers /\ Classify(w).branch = w.branch
         /\ Classify(w).steps = w.steps
         /\ Classify(w).errors =
              IF at \in Body.dynamic THEN Append(w.errors, at) ELSE w.errors
<1>1. PICK s : s = IF at \in Body.dynamic THEN Append(w.errors, at) ELSE w.errors
  OBVIOUS
<1>2. s \in Seq(Nat)
  <2>1. w.errors \in Seq(Nat)
    BY DEF Walkers
  <2>2. Append(w.errors, at) \in Seq(Nat)
    BY <2>1, AppendProperties
  <2> QED
    BY <1>1, <2>1, <2>2
<1>3. PICK v : v = [w EXCEPT !.errors = s]
  OBVIOUS
<1>4. Classify(w) = v
  BY <1>1, <1>3 DEF Classify
<1>5. v \in Walkers
  BY <1>2, <1>3, WalkerExcept
<1>6. v.errors = s /\ v.branch = w.branch /\ v.steps = w.steps
  BY <1>3 DEF Walkers
<1> QED
  BY <1>1, <1>4, <1>5, <1>6

(* A step has a name, and nothing else has one.                            *)
LEMMA NoName ==
  ASSUME NEW body, Tree(body), NEW k, body.kind[k] \notin {"run", "wait"}
  PROVE  k \notin body.dynamic
BY DEF Tree

LEMMA VisitStepKeeps ==
  ASSUME ContractInv, VisitStep
  PROVE  ContractInv'
<1>1. Visiting({"run", "wait"}) /\ Walks(Classify(Record(W)), After(Body, at))
  BY DEF VisitStep
<1>2. /\ stage = "walk" /\ Inside /\ Tree(Body) /\ W \in Walkers
      /\ at \in Nodes(Body) /\ at \in Nat /\ Reached(Body, at) /\ Followed(Body, at)
      /\ Body.kind[at] \in {"run", "wait"} /\ at \notin Opened(Body)
  BY <1>1, VisitFacts
<1>3. PICK r, w : r = Record(W) /\ w = Classify(r)
  OBVIOUS
<1>4. /\ r \in Walkers /\ r.branch = W.branch
      /\ r.steps = Append(W.steps, at) /\ r.errors = W.errors
  BY <1>2, <1>3, RecordFacts
<1>5. /\ w \in Walkers /\ w.branch = W.branch /\ w.steps = Append(W.steps, at)
      /\ w.errors = IF at \in Body.dynamic THEN Append(W.errors, at) ELSE W.errors
  BY <1>2, <1>3, <1>4, ClassifyFacts
<1>6. Noted(Body, at, W, w)
  BY <1>2, <1>5 DEF Noted, Recorded
<1>7. ~Entered(Body, at)
  BY <1>2 DEF Entered
<1>8. /\ Passes(Body, at, After(Body, at))
      /\ After(Body, at) \in Nodes(Body) => Reached(Body, After(Body, at))
  BY <1>2, <1>7, PassesOver
<1>9. Walks(w, After(Body, at))
  BY <1>1, <1>3
<1> QED
  BY <1>2, <1>5, <1>6, <1>8, <1>9, WalksKeep

LEMMA VisitProviderKeeps ==
  ASSUME ContractInv, VisitProvider
  PROVE  ContractInv'
<1>1. /\ Visiting({"provider"})
      /\ Walks([W EXCEPT !.providers = Append(@, at)], After(Body, at))
  BY DEF VisitProvider
<1>2. /\ stage = "walk" /\ Inside /\ Tree(Body) /\ W \in Walkers
      /\ at \in Nodes(Body) /\ at \in Nat /\ Reached(Body, at) /\ Followed(Body, at)
      /\ Body.kind[at] \in {"provider"} /\ at \notin Opened(Body)
  BY <1>1, VisitFacts
<1>3. PICK w, v : w = [v EXCEPT !.providers = Append(v.providers, at)] /\ v = W
  OBVIOUS
<1>4. w \in Walkers /\ w.branch = W.branch /\ w.steps = W.steps /\ w.errors = W.errors
  <2>1. v.providers \in Seq(Nat) /\ v \in Walkers
    BY <1>2, <1>3 DEF Walkers
  <2>2. Append(v.providers, at) \in Seq(Nat)
    BY <1>2, <2>1, AppendProperties
  <2>3. w \in Walkers
    BY <1>3, <2>1, <2>2, WalkerExcept
  <2>4. w.branch = v.branch /\ w.steps = v.steps /\ w.errors = v.errors
    BY <1>3, <2>1 DEF Walkers
  <2> QED
    BY <1>3, <2>3, <2>4
<1>5. at \notin Body.dynamic
  BY <1>2, NoName
<1>6. Noted(Body, at, W, w)
  BY <1>2, <1>4, <1>5 DEF Noted, Recorded
<1>7. ~Entered(Body, at)
  BY <1>2 DEF Entered
<1>8. /\ Passes(Body, at, After(Body, at))
      /\ After(Body, at) \in Nodes(Body) => Reached(Body, After(Body, at))
  BY <1>2, <1>7, PassesOver
<1>9. Walks(w, After(Body, at))
  BY <1>1, <1>3
<1> QED
  BY <1>2, <1>4, <1>6, <1>8, <1>9, WalksKeep

LEMMA VisitRecordedKeeps ==
  ASSUME ContractInv, VisitRecorded
  PROVE  ContractInv'
<1>1. Visiting({"sleep", "now", "id", "parallel"}) /\ Walks(Record(W), at + 1)
  BY DEF VisitRecorded
<1>2. /\ stage = "walk" /\ Inside /\ Tree(Body) /\ W \in Walkers
      /\ at \in Nodes(Body) /\ at \in Nat /\ Reached(Body, at) /\ Followed(Body, at)
      /\ Body.kind[at] \in {"sleep", "now", "id", "parallel"} /\ at \notin Opened(Body)
  BY <1>1, VisitFacts
<1>3. PICK w : w = Record(W)
  OBVIOUS
<1>4. /\ w \in Walkers /\ w.branch = W.branch
      /\ w.steps = Append(W.steps, at) /\ w.errors = W.errors
  BY <1>2, <1>3, RecordFacts
<1>5. at \notin Body.dynamic
  BY <1>2, NoName
<1>6. Noted(Body, at, W, w)
  BY <1>2, <1>4, <1>5 DEF Noted, Recorded
<1>7. Entered(Body, at)
  BY <1>2 DEF Entered
<1>8. /\ Passes(Body, at, at + 1)
      /\ at + 1 \in Nodes(Body) => Reached(Body, at + 1)
  BY <1>2, <1>7, PassesInto
<1>9. Walks(w, at + 1)
  BY <1>1, <1>3
<1> QED
  BY <1>2, <1>4, <1>6, <1>8, <1>9, WalksKeep

(* A node that leaves nothing in the walker.                               *)
LEMMA NotedNothing ==
  ASSUME ContractInv, stage = "walk", Tree(Body),
         Body.kind[at] \notin Recorded \/ ~Followed(Body, at)
  PROVE  Noted(Body, at, W, W)
<1>1. at \notin Body.dynamic \/ ~Followed(Body, at)
  BY NoName DEF Recorded
<1> QED
  BY <1>1 DEF Noted

LEMMA VisitOtherKeeps ==
  ASSUME ContractInv, VisitOther
  PROVE  ContractInv'
<1>1. /\ Visiting({"code", "get", "embedded", "branch", "named"})
      /\ Walks(W, at + 1)
  BY DEF VisitOther
<1>2. /\ stage = "walk" /\ Inside /\ Tree(Body) /\ W \in Walkers
      /\ at \in Nodes(Body) /\ Followed(Body, at)
      /\ Body.kind[at] \in {"code", "get", "embedded", "branch", "named"}
      /\ at \notin Opened(Body)
  BY <1>1, VisitFacts
<1>3. Noted(Body, at, W, W)
  BY <1>2, NotedNothing DEF Recorded
<1>4. Entered(Body, at)
  BY <1>2 DEF Entered
<1>5. /\ Passes(Body, at, at + 1)
      /\ at + 1 \in Nodes(Body) => Reached(Body, at + 1)
  BY <1>2, <1>4, PassesInto
<1> QED
  BY <1>1, <1>2, <1>3, <1>5, WalksKeep

LEMMA VisitHelperKeeps ==
  ASSUME ContractInv, VisitHelper
  PROVE  ContractInv'
<1>1. Visiting({"helper"}) /\ Walks(W, After(Body, at))
  BY DEF VisitHelper
<1>2. /\ stage = "walk" /\ Inside /\ Tree(Body) /\ W \in Walkers
      /\ at \in Nodes(Body) /\ Reached(Body, at) /\ Body.kind[at] \in {"helper"}
      /\ at \notin Opened(Body)
  BY <1>1, VisitFacts
<1>3. Noted(Body, at, W, W)
  BY <1>2, NotedNothing DEF Recorded
<1>4. ~Entered(Body, at)
  BY <1>2 DEF Entered
<1>5. /\ Passes(Body, at, After(Body, at))
      /\ After(Body, at) \in Nodes(Body) => Reached(Body, After(Body, at))
  BY <1>2, <1>4, PassesOver
<1> QED
  BY <1>1, <1>2, <1>3, <1>5, WalksKeep

LEMMA SkipArgumentKeeps ==
  ASSUME ContractInv, SkipArgument
  PROVE  ContractInv'
<1>1. /\ stage = "walk" /\ Inside /\ Argument(Body, at) /\ Body.kind[at] # "branch"
      /\ Walks(W, After(Body, at))
  BY DEF SkipArgument, VisitingArgument
<1>2. Tree(Body) /\ W \in Walkers
  BY <1>1, WalkFacts
<1>3. at \in Nodes(Body) /\ Reached(Body, at)
  BY <1>1, InsideNode
<1>4. ~Taken(Body, at)
  BY <1>1 DEF Taken
<1>5. ~Followed(Body, at)
  BY <1>2, <1>3, <1>4, FollowedReached
<1>6. Noted(Body, at, W, W)
  BY <1>1, <1>2, <1>5, NotedNothing
<1>7. at \notin Opened(Body)
  BY <1>5 DEF Opened
<1>8. /\ Passes(Body, at, After(Body, at))
      /\ After(Body, at) \in Nodes(Body) => Reached(Body, After(Body, at))
  BY <1>2, <1>3, <1>4, PassesOver
<1> QED
  BY <1>1, <1>2, <1>3, <1>6, <1>7, <1>8, WalksKeep

LEMMA OpenBranchKeeps ==
  ASSUME ContractInv, OpenBranch
  PROVE  ContractInv'
<1>1. /\ stage = "walk" /\ Inside /\ Argument(Body, at) /\ Body.kind[at] = "branch"
      /\ walkers' = Append(walkers, Walker(at)) /\ at' = at + 1
      /\ types' = types /\ source' = source /\ stage' = stage
      /\ frames' = frames /\ seen' = seen /\ contracts' = contracts
      /\ contract' = contract
  BY DEF OpenBranch, VisitingArgument, shapeVars
<1>2. Tree(Body) /\ WalkOK(Body, at, walkers, contract.steps)
  BY <1>1, WalkFacts
<1>3. /\ at \in Nodes(Body) /\ Reached(Body, at)
      /\ at < After(Body, TopBranch(walkers))
  BY <1>1, InsideNode
<1>4. at \in Opened(Body)
  <2>1. Taken(Body, at)
    BY <1>1 DEF Taken
  <2>2. Followed(Body, at)
    BY <1>2, <1>3, <2>1, FollowedReached
  <2> QED
    BY <1>1, <1>3, <2>2 DEF Opened, Branches
<1>5. WalkOK(Body, at', walkers', contract'.steps)
  BY <1>1, <1>2, <1>3, <1>4, OpenKeeps
<1>6. contract' \in Made
  BY <1>1 DEF ContractInv, BuildOK
<1> QED
  BY <1>1, <1>5, <1>6, WalkStep

LEMMA PropagateFacts ==
  ASSUME Len(walkers) - 1 \in 1..Len(walkers), walkers \in Seq(Walkers), W \in Walkers,
         W = walkers[Len(walkers)]
  PROVE  Receives(walkers, Propagate(W))
<1>1. PICK v, u, ps, es :
        /\ v = walkers[Len(walkers) - 1] /\ u = W
        /\ ps = v.providers \o u.providers /\ es = v.errors \o u.errors
  OBVIOUS
<1>2. v \in Walkers /\ u \in Walkers
  BY <1>1, SeqFacts
<1>3. /\ v.providers \in Seq(Nat) /\ u.providers \in Seq(Nat)
      /\ v.errors \in Seq(Nat) /\ u.errors \in Seq(Nat)
  BY <1>2 DEF Walkers
<1>4. ps \in Seq(Nat) /\ es \in Seq(Nat)
  BY <1>1, <1>3, ConcatProperties
<1>5. Range(es) = Range(v.errors) \cup Range(u.errors)
  BY <1>1, <1>3, RangeConcatenation
<1>6. PICK w : w = [v EXCEPT !.providers = ps, !.errors = es]
  OBVIOUS
<1>7. Propagate(W) = w
  BY <1>1, <1>6 DEF Propagate
<1>8. w \in Walkers /\ w.branch = v.branch /\ w.steps = v.steps /\ w.errors = es
  BY <1>2, <1>4, <1>6 DEF Walkers
<1> QED
  BY <1>1, <1>5, <1>7, <1>8 DEF Receives

(* The steps of a walker go to the contract.                               *)
LEMMA StepsTold ==
  ASSUME contract \in Made, W \in Walkers
  PROVE  /\ StepsOf(W) \in BranchSteps
         /\ contract.steps \in Seq(BranchSteps)
         /\ Append(contract.steps, StepsOf(W)) \in Seq(BranchSteps)
<1>1. StepsOf(W) \in BranchSteps
  BY DEF StepsOf, BranchSteps, Walkers
<1>2. contract.steps \in Seq(BranchSteps)
  BY DEF Made
<1> QED
  BY <1>1, <1>2, AppendProperties

LEMMA CloseBranchKeeps ==
  ASSUME ContractInv, CloseBranch
  PROVE  ContractInv'
<1>1. /\ stage = "walk" /\ ~Inside /\ W.branch # 0
      /\ walkers' = Append(SubSeq(walkers, 1, Len(walkers) - 2), Propagate(W))
      /\ contract' = [contract EXCEPT !.steps = Append(contract.steps, StepsOf(W))]
      /\ types' = types /\ source' = source /\ stage' = stage
      /\ frames' = frames /\ seen' = seen /\ contracts' = contracts /\ at' = at
  BY DEF CloseBranch, shapeVars
<1>2. /\ Tree(Body) /\ WalkOK(Body, at, walkers, contract.steps)
      /\ Stack(Body, at, walkers)
      /\ Len(walkers) \in Nat /\ Len(walkers) >= 1
      /\ W \in Walkers /\ W = walkers[Len(walkers)] /\ W.branch = TopBranch(walkers)
  BY <1>1, WalkFacts
<1>3. walkers \in Seq(Walkers) /\ walkers[1].branch = 0
  BY <1>2, StackFacts
<1>4. Len(walkers) # 1
  BY <1>1, <1>2, <1>3
<1>5. Len(walkers) - 1 \in 1..Len(walkers)
  <2>1. PICK n : n = Len(walkers)
    OBVIOUS
  <2>2. n \in Nat /\ n >= 1 /\ n # 1
    BY <1>2, <1>4, <2>1
  <2>3. n - 1 \in 1..n
    BY <2>2
  <2> QED
    BY <2>1, <2>3
<1>6. Receives(walkers, Propagate(W))
  BY <1>2, <1>3, <1>5, PropagateFacts
<1>7. walkers' = Popped(walkers, Propagate(W))
  BY <1>1 DEF Popped
<1>8. contract \in Made
  BY DEF ContractInv, BuildOK
<1>9. PICK ds : ds = Append(contract.steps, StepsOf(W))
  OBVIOUS
<1>10. ds \in Seq(BranchSteps)
  BY <1>2, <1>8, <1>9, StepsTold
<1>11. contract' \in Made /\ contract'.steps = ds
  <2>1. contract' = [contract EXCEPT !.steps = ds]
    BY <1>1, <1>9
  <2> QED
    BY <1>8, <1>10, <2>1 DEF Made
<1>12. ~(at < After(Body, TopBranch(walkers)))
  BY <1>1, <1>2 DEF Inside
<1>13. ds = Append(contract.steps, StepsOf(walkers[Len(walkers)]))
  BY <1>2, <1>9
<1>14. WalkOK(Body, at, walkers', ds)
  BY <1>1, <1>2, <1>6, <1>7, <1>12, <1>13, CloseKeeps
<1>15. WalkOK(Body, at', walkers', contract'.steps)
  BY <1>1, <1>11, <1>14
<1> QED
  BY <1>1, <1>11, <1>15, WalkStep

(* The steps that a contract has when it is built.                         *)
StepsAllThere(body, ds) ==
  /\ {s.branch : s \in Range(ds)} =
       {0} \cup {n \in Branches(body) : Followed(body, n)}
  /\ \A s \in Range(ds) :
       Ascending(s.steps) /\ Range(s.steps) = StepsIn(body, s.branch)
  /\ \A i, j \in DOMAIN ds : ds[i].branch = ds[j].branch => i = j

(* A body in which the walk has come to the end.                           *)
LEMMA WalkEnds ==
  ASSUME NEW body, Tree(body), NEW k, NEW ws, NEW cs, WalkOK(body, k, ws, cs),
         ~(k < After(body, TopBranch(ws))), TopBranch(ws) = 0,
         NEW ds, ds = Append(cs, StepsOf(ws[Len(ws)]))
  PROVE  /\ StepsAllThere(body, ds)
         /\ \A n : n \in Range(ws[Len(ws)].errors) <=>
                     n \in body.dynamic /\ Followed(body, n)
<1>1. /\ Stack(body, k, ws) /\ Told(body, k, ws) /\ Complete(body, k, ws, cs)
      /\ k \in 1..(Size(body) + 1)
  BY DEF WalkOK
<1>2. /\ Size(body) \in Nat
      /\ \A n \in Nodes(body) : n \in Nat /\ n <= Size(body)
  <2>1. Parented(body)
    BY TreeParented
  <2>2. Size(body) \in Nat
    BY <2>1, TreeSize
  <2>3. \A n \in Nodes(body) : n \in Nat /\ n <= Size(body)
    BY <2>1, TreeSize
  <2> QED
    BY <2>2, <2>3
<1>3. k = Size(body) + 1
  BY <1>1, <1>2, AfterRoot
<1>4. \A n \in Nodes(body) : n < k
  BY <1>2, <1>3
<1>5. /\ ws \in Seq(Walkers) /\ Len(ws) \in Nat /\ Len(ws) >= 1
      /\ DOMAIN ws = 1..Len(ws) /\ Len(ws) \in DOMAIN ws
  <2>1. ws \in Seq(Walkers) /\ Len(ws) \in Nat /\ Len(ws) >= 1 /\ DOMAIN ws = 1..Len(ws)
    BY <1>1, StackFacts
  <2> QED
    BY <2>1
<1>6. Len(ws) = 1
  <2>1. SUFFICES ASSUME Len(ws) # 1
                 PROVE  FALSE
    OBVIOUS
  <2>2. ws[Len(ws)].branch \in Opened(body)
    BY <1>1, <1>5, <2>1 DEF Stack
  <2>3. ws[Len(ws)].branch # 0
    BY <2>2, OpenedFacts
  <2> QED
    BY <2>3 DEF TopBranch
<1>7. DOMAIN ws = {1} /\ ws[1].branch = 0 /\ ws[Len(ws)] = ws[1]
  BY <1>5, <1>6 DEF TopBranch
<1>8. PICK w, o : w = ws[1] /\ o = StepsOf(w)
  OBVIOUS
<1>9. w \in Walkers /\ o.branch = 0 /\ o.steps = w.steps /\ o \in BranchSteps
  <2>1. w \in Walkers
    BY <1>5, <1>6, <1>8, SeqFacts
  <2> QED
    BY <1>7, <1>8, <2>1 DEF StepsOf, BranchSteps, Walkers
<1>10. PICK m : m = Len(cs)
  OBVIOUS
<1>11. cs \in Seq(BranchSteps) /\ m \in Nat /\ DOMAIN cs = 1..m
  <2>1. cs \in Seq(BranchSteps)
    BY <1>1 DEF Complete
  <2> QED
    BY <1>10, <2>1, SeqFacts
<1>12. /\ ds \in Seq(BranchSteps) /\ Len(ds) = m + 1 /\ ds[m + 1] = o
       /\ \A i \in 1..m : ds[i] = cs[i]
  BY <1>7, <1>8, <1>9, <1>10, <1>11, AppendProperties
<1>13. /\ DOMAIN ds = 1..(m + 1)
       /\ \A i : i \in 1..(m + 1) <=> i \in 1..m \/ i = m + 1
  <2>1. DOMAIN ds = 1..(m + 1)
    BY <1>12, SeqFacts
  <2> QED
    BY <1>11, <2>1
<1>14. Range(ds) = Range(cs) \cup {o}
  BY <1>11, <1>12, <1>13 DEF Range
<1>15. \A i \in 1..m : cs[i].branch \in Opened(body) /\ cs[i].branch # 0
  <2>1. \A i \in 1..m : cs[i].branch \in Opened(body)
    BY <1>1, <1>11 DEF Complete
  <2> QED
    BY <2>1, OpenedFacts
<1>16. ASSUME NEW b \in Opened(body)
       PROVE  \E s \in Range(ds) : s.branch = b
  <2>1. b < k /\ b # 0
    BY <1>4, OpenedFacts
  <2>2. \/ \E i \in DOMAIN ws : ws[i].branch = b
        \/ \E i \in DOMAIN cs : cs[i].branch = b
    BY <1>1, <2>1 DEF Complete
  <2>3. \E i \in DOMAIN cs : cs[i].branch = b
    BY <1>7, <2>1, <2>2
  <2> QED
    BY <1>14, <2>3 DEF Range
<1>17. \A s \in Range(ds) : s.branch = 0 \/ s.branch \in Opened(body)
  BY <1>9, <1>11, <1>14, <1>15 DEF Range
<1>18. o \in Range(ds)
  BY <1>14
<1>19. {s.branch : s \in Range(ds)} =
         {0} \cup {n \in Branches(body) : Followed(body, n)}
  BY <1>9, <1>16, <1>17, <1>18 DEF Opened
<1>20. ASSUME NEW s \in Range(ds)
       PROVE  Ascending(s.steps) /\ Range(s.steps) = StepsIn(body, s.branch)
  <2>1. CASE s = o
    <3>1. Ascending(w.steps) /\ Range(w.steps) = Before(body, 0, k)
      BY <1>1, <1>7, <1>8 DEF Told
    <3>2. Before(body, 0, k) = StepsIn(body, 0)
      BY <1>4 DEF Before, StepsIn
    <3> QED
      BY <1>9, <2>1, <3>1, <3>2
  <2>2. CASE s \in Range(cs)
    <3>1. PICK i \in DOMAIN cs : s = cs[i]
      BY <2>2 DEF Range
    <3>2. \A j \in DOMAIN cs :
            /\ Ascending(cs[j].steps)
            /\ Range(cs[j].steps) = StepsIn(body, cs[j].branch)
      BY <1>1 DEF Complete
    <3> QED
      BY <3>1, <3>2
  <2> QED
    BY <1>14, <2>1, <2>2
<1>21. ASSUME NEW i \in DOMAIN ds, NEW j \in DOMAIN ds, ds[i].branch = ds[j].branch
       PROVE  i = j
  <2>1. CASE i \in 1..m /\ j \in 1..m
    BY <1>1, <1>11, <1>12, <1>21, <2>1 DEF Complete
  <2>2. CASE i = m + 1 \/ j = m + 1
    BY <1>9, <1>12, <1>13, <1>15, <1>21, <2>2
  <2> QED
    BY <1>13, <2>1, <2>2
<1>22. ASSUME NEW n
       PROVE  n \in Range(ws[Len(ws)].errors) <=> n \in body.dynamic /\ Followed(body, n)
  <2>1. (\E i \in DOMAIN ws : n \in Range(ws[i].errors)) <=>
          n \in body.dynamic /\ Followed(body, n) /\ n < k
    BY <1>1 DEF Told
  <2>2. n \in body.dynamic => n < k
    BY <1>4 DEF Tree
  <2> QED
    BY <1>7, <2>1, <2>2
<1>23. StepsAllThere(body, ds)
  BY <1>19, <1>20, <1>21 DEF StepsAllThere
<1> QED
  BY <1>22, <1>23

LEMMA WalkDoneKeeps ==
  ASSUME ContractInv, WalkDone
  PROVE  ContractInv'
<1>1. /\ stage = "walk" /\ ~Inside /\ W.branch = 0 /\ walkers' = <<>>
      /\ frames' = frames /\ seen' = seen
      /\ Built([contract EXCEPT !.steps = Append(contract.steps, StepsOf(W)),
                                !.providers = contract.providers \o W.providers,
                                !.errors = W.errors])
  BY DEF WalkDone, shapeVars
<1>2. /\ BuildOK /\ frames = <<>> /\ Len(contracts) < Len(source.defs)
      /\ Def.factory = "struct" /\ Def.struct \in DOMAIN source.bodies
      /\ Tree(Body) /\ WalkOK(Body, at, walkers, contract.steps)
      /\ W \in Walkers /\ W = walkers[Len(walkers)] /\ W.branch = TopBranch(walkers)
  BY <1>1, WalkFacts
<1>3. PICK ds, ps, es :
        /\ ds = Append(contract.steps, StepsOf(W))
        /\ ps = contract.providers \o W.providers /\ es = W.errors
  OBVIOUS
<1>4. contract \in Made /\ ds \in Seq(BranchSteps)
  <2>1. contract \in Made
    BY <1>2 DEF BuildOK
  <2> QED
    BY <1>2, <1>3, <2>1, StepsTold
<1>5. ps \in Seq(Nat)
  <2>1. contract.providers \in Seq(Nat) /\ W.providers \in Seq(Nat)
    BY <1>2, <1>4 DEF Walkers, Made
  <2> QED
    BY <1>3, <2>1, ConcatProperties
<1>6. es \in Seq(Nat) /\ es \in Seq(Nat \cup {"factory", "execute"})
  <2>1. es \in Seq(Nat)
    BY <1>2, <1>3 DEF Walkers
  <2>2. Nat \subseteq Nat \cup {"factory", "execute"}
    OBVIOUS
  <2> QED
    BY <2>1, <2>2, SeqMonotonic
<1>7. PICK c : c = [contract EXCEPT !.steps = ds, !.providers = ps, !.errors = es]
  OBVIOUS
<1>8. c \in Made /\ c.steps = ds /\ c.errors = es
  BY <1>4, <1>5, <1>6, <1>7 DEF Made
<1>9. Built(c)
  BY <1>1, <1>3, <1>7
<1>10. /\ BuildOK' /\ ShapesOK' /\ WalkersOK'
       /\ stage' = "define" /\ contracts' # <<>> /\ source' = source
       /\ Latest' = c /\ LatestDef' = Def
  BY <1>1, <1>2, <1>8, <1>9, BuiltFacts
<1>11. PICK body : body = Body
  OBVIOUS
<1>12. Extracted' /\ LatestBody' = body
  BY <1>2, <1>10, <1>11 DEF Extracted, LatestBody, Body
<1>13. Tree(body) /\ WalkOK(body, at, walkers, contract.steps)
  BY <1>2, <1>11
<1>14. ~(at < After(body, TopBranch(walkers))) /\ TopBranch(walkers) = 0
  BY <1>1, <1>2, <1>11 DEF Inside
<1>15. ds = Append(contract.steps, StepsOf(walkers[Len(walkers)]))
  BY <1>2, <1>3
<1>16. /\ StepsAllThere(body, ds)
       /\ \A n : n \in Range(walkers[Len(walkers)].errors) <=>
                   n \in body.dynamic /\ Followed(body, n)
  <2>1. PICK k, ws, cs : k = at /\ ws = walkers /\ cs = contract.steps
    OBVIOUS
  <2>2. /\ Tree(body) /\ WalkOK(body, k, ws, cs)
        /\ ~(k < After(body, TopBranch(ws))) /\ TopBranch(ws) = 0
        /\ ds = Append(cs, StepsOf(ws[Len(ws)]))
    BY <1>13, <1>14, <1>15, <2>1
  <2>3. StepsAllThere(body, ds)
    BY <2>2, WalkEnds
  <2>4. \A n : n \in Range(ws[Len(ws)].errors) <=>
                 n \in body.dynamic /\ Followed(body, n)
    BY <2>2, WalkEnds
  <2> QED
    BY <2>1, <2>3, <2>4
<1>17. StepsInScope'
  BY <1>8, <1>10, <1>12, <1>16 DEF StepsInScope, StepsAllThere
<1>18. ErrorsAreTold'
  <2>1. \A n : n \in Range(es) <=> n \in body.dynamic /\ Followed(body, n)
    BY <1>2, <1>3, <1>16
  <2>2. es = <<>> <=> Range(es) = {}
    <3>1. DOMAIN es = 1..Len(es) /\ Len(es) \in Nat /\ (es # <<>> <=> Len(es) >= 1)
      BY <1>6, SeqFacts
    <3>2. es # <<>> => 1 \in DOMAIN es
      BY <3>1
    <3>3. es = <<>> => DOMAIN es = {}
      OBVIOUS
    <3> QED
      BY <3>2, <3>3 DEF Range
  <2>3. es = <<>> <=> \A n \in body.dynamic : ~Followed(body, n)
    BY <2>1, <2>2
  <2>4. Latest'.errors = es
    BY <1>8, <1>10
  <2> QED
    BY <1>12, <2>3, <2>4 DEF ErrorsAreTold
<1> QED
  BY <1>10, <1>17, <1>18 DEF ContractInv

LEMMA SortContractsKeeps ==
  ASSUME ContractInv, SortContracts
  PROVE  ContractInv'
<1>1. PICK p \in Bijection(DOMAIN contracts, DOMAIN contracts) :
        contracts' = [i \in DOMAIN contracts |-> contracts[p[i]]]
  BY DEF SortContracts
<1>2. /\ stage = "define" /\ stage' = "done" /\ source' = source /\ types' = types
      /\ frames' = frames /\ seen' = seen /\ contract' = contract
      /\ at' = at /\ walkers' = walkers /\ Len(contracts) = Len(source.defs)
  BY DEF SortContracts, Goes, shapeVars, walkVars
<1>3. BuildOK /\ ShapesOK /\ WalkersOK
  BY DEF ContractInv
<1>4. PICK n : n = Len(contracts)
  OBVIOUS
<1>5. /\ contracts \in Seq(Made) /\ n \in Nat /\ DOMAIN contracts = 1..n
      /\ \A i \in 1..n : contracts[i] \in Made
  <2>1. contracts \in Seq(Made)
    BY <1>3 DEF BuildOK
  <2> QED
    BY <1>4, <2>1, SeqFacts
<1>6. p \in [1..n -> 1..n]
  BY <1>1, <1>5 DEF Bijection, Injection
<1>7. contracts' \in [1..n -> Made]
  BY <1>1, <1>5, <1>6
<1>8. contracts' \in Seq(Made) /\ Len(contracts') = n
  BY <1>5, <1>7
<1>9. BuildOK'
  BY <1>2, <1>3, <1>4, <1>8, MadeSame DEF BuildOK, Stages
<1>10. ShapesOK'
  BY <1>2, <1>3 DEF ShapesOK
<1>11. WalkersOK'
  BY <1>2, <1>3 DEF WalkersOK
<1>12. StepsInScope' /\ ErrorsAreTold'
  BY <1>2, NotLatest
<1> QED
  BY <1>9, <1>10, <1>11, <1>12 DEF ContractInv

-----------------------------------------------------------------------------
(* Every step                                                              *)

LEMMA WalkKeeps ==
  ASSUME ContractInv, Walk
  PROVE  ContractInv'
<1>1. CASE VisitStep
  BY <1>1, VisitStepKeeps
<1>2. CASE VisitProvider
  BY <1>2, VisitProviderKeeps
<1>3. CASE VisitRecorded
  BY <1>3, VisitRecordedKeeps
<1>4. CASE VisitOther
  BY <1>4, VisitOtherKeeps
<1>5. CASE VisitHelper
  BY <1>5, VisitHelperKeeps
<1>6. CASE OpenBranch
  BY <1>6, OpenBranchKeeps
<1>7. CASE SkipArgument
  BY <1>7, SkipArgumentKeeps
<1>8. CASE CloseBranch
  BY <1>8, CloseBranchKeeps
<1>9. CASE WalkDone
  BY <1>9, WalkDoneKeeps
<1> QED
  BY <1>1, <1>2, <1>3, <1>4, <1>5, <1>6, <1>7, <1>8, <1>9 DEF Walk

LEMMA StutterKeeps ==
  ASSUME ContractInv, UNCHANGED allVars
  PROVE  ContractInv'
<1>1. /\ types' = types /\ source' = source /\ stage' = stage
      /\ frames' = frames /\ seen' = seen /\ shape' = shape
      /\ contracts' = contracts /\ contract' = contract
      /\ at' = at /\ walkers' = walkers
  BY DEF allVars, shapeVars, walkVars
<1>2. Def' = Def
  BY <1>1 DEF Def
<1>3. BuildOK'
  BY <1>1, <1>2, MadeSame DEF ContractInv, BuildOK
<1>4. Body' = Body
  BY <1>1, <1>2 DEF Body
<1>5. ShapesOK'
  <2>1. \A root : Resolved(root)' = Resolved(root)
    BY <1>1, MadeSame
  <2>2. ASSUME NEW root, ShapeInv(root)
        PROVE  ShapeInv(root)'
    <3>1. Resolved(root)' = Resolved(root)
      BY <2>1
    <3>2. Resolves(root) => Resolves(root)'
      BY <1>1 DEF Resolves
    <3> QED
      BY <1>1, <2>2, <3>1, <3>2 DEF ShapeInv
  <2>3. \A i : Resolved(Def.params[i])' = Resolved(Def.params[i])
    BY <1>1, <1>2
       DEF Resolved, Unknown, Shape, NoType, Unfolded, Paths, Parts, Comes, Named
  <2> QED
    BY <1>1, <1>2, <2>2, <2>3 DEF ContractInv, ShapesOK
<1>6. WalkersOK'
  <2>1. CASE stage = "walk"
    <3>1. WalkOK(Body, at', walkers', contract'.steps)
      BY <1>1, <2>1 DEF ContractInv, WalkersOK
    <3>2. contract' \in Made
      BY <1>1 DEF ContractInv, BuildOK
    <3>3. ContractInv'
      BY <1>1, <2>1, <3>1, <3>2, WalkStep
    <3> QED
      BY <3>3 DEF ContractInv
  <2>2. CASE stage # "walk"
    BY <1>1, <2>2 DEF ContractInv, WalkersOK
  <2> QED
    BY <2>1, <2>2
<1>7. /\ Latest' = Latest /\ LatestDef' = LatestDef /\ LatestBody' = LatestBody
      /\ Extracted' = Extracted
  <2>1. Latest' = Latest /\ LatestDef' = LatestDef
    BY <1>1 DEF Latest, LatestDef
  <2>2. LatestBody' = LatestBody
    BY <1>1, <2>1 DEF LatestBody
  <2>3. Extracted' = Extracted
    BY <1>1, <2>1 DEF Extracted
  <2> QED
    BY <2>1, <2>2, <2>3
<1>8. StepsInScope'
  BY <1>7 DEF ContractInv, StepsInScope
<1>9. ErrorsAreTold'
  BY <1>1, <1>7 DEF ContractInv, ErrorsAreTold
<1> QED
  BY <1>3, <1>5, <1>6, <1>8, <1>9 DEF ContractInv

LEMMA StepKeeps ==
  ASSUME ContractInv, [ContractNext]_allVars
  PROVE  ContractInv'
<1>1. CASE Load
  BY <1>1, LoadKeeps
<1>2. CASE Define
  BY <1>2, DefineKeeps
<1>3. CASE ResolveStep
  BY <1>3, ResolveStepKeeps
<1>4. CASE TypeResolved
  BY <1>4, TypeResolvedKeeps
<1>5. CASE ResolveFactory
  BY <1>5, ResolveFactoryKeeps
<1>6. CASE FindExecute
  BY <1>6, FindExecuteKeeps
<1>7. CASE Walk
  BY <1>7, WalkKeeps
<1>8. CASE SortContracts
  BY <1>8, SortContractsKeeps
<1>9. CASE UNCHANGED allVars
  BY <1>9, StutterKeeps
<1>10. CASE VisitFactory
  BY <1>10, VisitFactoryKeeps
<1>11. CASE EnterExecute
  BY <1>11, EnterExecuteKeeps
<1> QED
  BY <1>1, <1>2, <1>3, <1>4, <1>5, <1>6, <1>7, <1>8, <1>9, <1>10, <1>11
     DEF ContractNext

LEMMA ContractInvariant == ContractSpec => []ContractInv
<1>1. ContractInit => ContractInv
  BY InitInv
<1>2. ContractInv /\ [ContractNext]_allVars => ContractInv'
  BY StepKeeps
<1> QED
  BY <1>1, <1>2, PTL DEF ContractSpec

-----------------------------------------------------------------------------
(* The theorems                                                            *)

LEMMA TypedWalk ==
  ASSUME ContractInv, stage = "walk"
  PROVE  /\ walkers # <<>>
         /\ \A i \in DOMAIN walkers :
              IF i = 1 THEN walkers[i].branch = 0
              ELSE walkers[i - 1].branch \in
                     Within(Body)[walkers[i].branch] \ {walkers[i].branch}
         /\ at \in 1..(Cardinality(Nodes(Body)) + 1)
<1>1. /\ Tree(Body) /\ WalkOK(Body, at, walkers, contract.steps)
      /\ Stack(Body, at, walkers)
  BY WalkFacts
<1>2. PICK n : n = Len(walkers)
  OBVIOUS
<1>3. /\ walkers # <<>> /\ n \in Nat /\ DOMAIN walkers = 1..n
      /\ walkers[1].branch = 0
  <2>1. /\ walkers # <<>> /\ Len(walkers) \in Nat
        /\ DOMAIN walkers = 1..Len(walkers) /\ walkers[1].branch = 0
    BY <1>1, StackFacts
  <2> QED
    BY <1>2, <2>1
<1>4. ASSUME NEW i \in DOMAIN walkers, i # 1
      PROVE  walkers[i - 1].branch \in
               Within(Body)[walkers[i].branch] \ {walkers[i].branch}
  <2>1. i - 1 \in 1..n /\ i - 1 < i /\ i \in 1..n
    BY <1>3, <1>4
  <2>2. PICK a, b : a = walkers[i - 1].branch /\ b = walkers[i].branch
    OBVIOUS
  <2>3. a < b
    BY <1>1, <1>3, <2>1, <2>2 DEF Stack
  <2>4. /\ a \in Nat /\ a \in TreeNodes(Body) /\ at <= After(Body, a)
        /\ After(Body, a) \in Nat
    BY <1>1, <1>2, <2>1, <2>2, WalkerFacts
  <2>5. b \in Nat /\ b \in TreeNodes(Body) /\ b < at
    BY <1>1, <1>2, <2>1, <2>2, WalkerFacts
  <2>6. at \in Nat
    BY <1>1, TreeParented, TreeSize DEF WalkOK
  <2>7. a <= b /\ b < After(Body, a) /\ a # b
    BY <2>3, <2>4, <2>5, <2>6
  <2>8. a \in Within(Body)[b]
    BY <1>1, <2>4, <2>5, <2>7, AfterFacts
  <2> QED
    BY <2>2, <2>7, <2>8
<1>5. PICK s : s = Size(Body)
  OBVIOUS
<1>6. s \in Nat /\ Nodes(Body) = 1..s
  <2>1. Body.kind \in Seq(STRING)
    BY <1>1 DEF Tree
  <2> QED
    BY <1>5, <2>1, SeqFacts DEF Nodes, Size
<1>7. Cardinality(1..s) = s
  <2>1. 1 \in Int /\ s \in Int /\ s - 1 + 1 = s /\ (1 > s => s = 0)
    BY <1>6
  <2> QED
    BY <2>1, FS_Interval
<1>8. at \in 1..(s + 1)
  BY <1>1, <1>5 DEF WalkOK
<1> QED
  BY <1>3, <1>4, <1>6, <1>7, <1>8

(* Every variable of the scan has its type, and the walkers are a stack:   *)
(* each is of a branch nested in the branch of the one below it, and they  *)
(* exist only while executeWalker is in the method (walk.go:12-40).        *)
THEOREM ContractTypeCorrect == ContractSpec => []ContractTypeOK
<1>1. ASSUME ContractInv
      PROVE  ContractTypeOK
  <2>1. BuildOK /\ ShapesOK /\ WalkersOK
    BY <1>1 DEF ContractInv
  <2>2. /\ stage \in Stages /\ Len(contracts) <= Len(source.defs)
        /\ (frames # <<>> => stage = "types") /\ seen \subseteq DOMAIN types
        /\ (stage = "providers" => at \in 1..(Len(Def.calls) + 1))
    BY <2>1 DEF BuildOK, ShapesOK
  <2>3. CASE stage = "walk"
    BY <1>1, <2>2, <2>3, TypedWalk DEF ContractTypeOK
  <2>4. CASE stage # "walk"
    <3>1. walkers = <<>> /\ DOMAIN walkers = {}
      BY <2>1, <2>4 DEF WalkersOK
    <3> QED
      BY <2>2, <2>4, <3>1 DEF ContractTypeOK
  <2> QED
    BY <2>3, <2>4
<1> QED
  BY <1>1, ContractInvariant, PTL

(* Whatever the body of an Execute method is, its contract has every call  *)
(* that executeWalker recognises once, in the order of the code and in the *)
(* innermost branch around it that is written out as an argument of        *)
(* Parallel (walk.go:46-210).                                              *)
THEOREM ContractsInScope == ContractSpec => []StepsInScope
<1>1. ContractInv => StepsInScope
  BY DEF ContractInv
<1> QED
  BY <1>1, ContractInvariant, PTL

(* A contract is without errors exactly when its factory and its method    *)
(* were found and every step that is followed has a name that the scan     *)
(* could read, in the branches as in the method (scan.go:74-113).          *)
THEOREM ContractErrorsTold == ContractSpec => []ErrorsAreTold
<1>1. ContractInv => ErrorsAreTold
  BY DEF ContractInv
<1> QED
  BY <1>1, ContractInvariant, PTL

(* resolveTypeShape writes every path into a type, whatever the types      *)
(* refer to, and ends a path as recursive only where it comes back to a    *)
(* named type that it is inside of (resolve.go:9-161).                     *)
THEOREM TypesUnfold == ContractSpec => []ShapesUnfold
<1>1. ASSUME ContractInv
      PROVE  ShapesUnfold
  BY <1>1 DEF ContractInv, ShapesOK, ShapesUnfold, Resolved
<1> QED
  BY <1>1, ContractInvariant, PTL
=============================================================================
