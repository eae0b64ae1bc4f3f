----------------------------- MODULE StepsProofs -----------------------------
(***************************************************************************)
(* Proofs about Steps, for every program, every number of workers and      *)
(* engines and every value of the bounds.                                  *)
(***************************************************************************)
EXTENDS Steps, DispatchProofs, FiniteSetTheorems, SequenceTheorems,
        WellFoundedInduction

-----------------------------------------------------------------------------
(* Programs                                                                *)

(* The steps of thread t of an execution of w whose main thread is at i.   *)
CodeOf(w, i, t) ==
  IF t = 1 THEN Program[w] ELSE Program[w][i].branches[t - 1].steps

LEMMA MainCode ==
  ASSUME NEW w \in Workflows
  PROVE  /\ Program[w] \in Seq(Range(Program[w]))
         /\ Len(Program[w]) \in Nat /\ DOMAIN Program[w] = 1..Len(Program[w])
         /\ \A i \in DOMAIN Program[w] :
              \/ Program[w][i].kind \in {"run", "wait", "sleep", "get"}
              \/ Branching(Program[w][i])
<1>1. /\ Program[w] \in Seq(Range(Program[w]))
      /\ \A i \in DOMAIN Program[w] :
           Plain(<<Program[w][i]>>) \/ Branching(Program[w][i])
  BY ProgramAssumption
<1>2. \A i \in DOMAIN Program[w] : Plain(<<Program[w][i]>>) =>
        Program[w][i].kind \in {"run", "wait", "sleep", "get"}
  BY DEF Plain, Numbered
<1> QED
  BY <1>1, <1>2, LenProperties

LEMMA BranchCode ==
  ASSUME NEW w \in Workflows, NEW i \in DOMAIN Program[w],
         Program[w][i].kind = "parallel"
  PROVE  /\ Program[w][i].branches \in Seq(Range(Program[w][i].branches))
         /\ Len(Program[w][i].branches) \in Nat
         /\ DOMAIN Program[w][i].branches = 1..Len(Program[w][i].branches)
         /\ \A b \in DOMAIN Program[w][i].branches :
              LET code == Program[w][i].branches[b].steps IN
              /\ code \in Seq(Range(code))
              /\ Len(code) \in Nat /\ DOMAIN code = 1..Len(code)
              /\ \A j \in DOMAIN code :
                   code[j].kind \in {"run", "wait", "sleep", "get"}
<1>1. Branching(Program[w][i])
  BY MainCode
<1>2. /\ Program[w][i].branches \in Seq(Range(Program[w][i].branches))
      /\ \A b \in DOMAIN Program[w][i].branches :
           Plain(Program[w][i].branches[b].steps)
  BY <1>1 DEF Branching
<1>3. ASSUME NEW b \in DOMAIN Program[w][i].branches
      PROVE  LET code == Program[w][i].branches[b].steps IN
              /\ code \in Seq(Range(code))
              /\ Len(code) \in Nat /\ DOMAIN code = 1..Len(code)
              /\ \A j \in DOMAIN code :
                   code[j].kind \in {"run", "wait", "sleep", "get"}
  <2> DEFINE code == Program[w][i].branches[b].steps
  <2>1. Plain(code)
    BY <1>2, <1>3
  <2> HIDE DEF code
  <2>2. code \in Seq(Range(code))
    BY <2>1 DEF Plain
  <2>3. Len(code) \in Nat /\ DOMAIN code = 1..Len(code)
    BY <2>2, LenProperties
  <2>4. \A j \in DOMAIN code : code[j].kind \in {"run", "wait", "sleep", "get"}
    BY <2>1 DEF Plain, Numbered
  <2> QED
    BY <2>2, <2>3, <2>4 DEF code
<1> QED
  BY <1>2, <1>3, LenProperties

-----------------------------------------------------------------------------
(* Names                                                                   *)

(* How many of the first n steps are of kind k.                            *)
CountAt(code, n, k) == Cardinality({i \in 1..n : code[i].kind = k})

LEMMA CountType ==
  ASSUME NEW code, NEW n \in Nat, NEW k
  PROVE  CountAt(code, n, k) \in Nat
<1>1. {i \in 1..n : code[i].kind = k} \in SUBSET (1..n)
  OBVIOUS
<1>2. IsFiniteSet(1..n)
  BY FS_Interval
<1> QED
  BY <1>1, <1>2, FS_Subset, FS_CardinalityType DEF CountAt

LEMMA CountNone == ASSUME NEW code, NEW k PROVE CountAt(code, 0, k) = 0
<1>1. {i \in 1..0 : code[i].kind = k} = {}
  OBVIOUS
<1> QED
  BY <1>1, FS_EmptySet DEF CountAt

LEMMA CountNext ==
  ASSUME NEW code, NEW n \in Nat \ {0}, NEW k
  PROVE  CountAt(code, n, k) = IF code[n].kind = k THEN CountAt(code, n - 1, k) + 1
                                                   ELSE CountAt(code, n - 1, k)
<1> DEFINE Old == {i \in 1..(n - 1) : code[i].kind = k}
           New == {i \in 1..n : code[i].kind = k}
<1>1. IsFiniteSet(Old) /\ n \notin Old
  <2>1. Old \in SUBSET (1..(n - 1)) /\ n \notin Old
    OBVIOUS
  <2>2. IsFiniteSet(1..(n - 1))
    BY FS_Interval
  <2> QED
    BY <2>1, <2>2, FS_Subset
<1>2. CASE code[n].kind = k
  <2>1. New = Old \cup {n}
    BY <1>2
  <2> QED
    BY <1>1, <1>2, <2>1, FS_AddElement DEF CountAt
<1>3. CASE code[n].kind # k
  <2>1. New = Old
    BY <1>3
  <2> QED
    BY <1>3, <2>1 DEF CountAt
<1> QED
  BY <1>2, <1>3

(* The call site of step j of thread t, beside a main thread at i.         *)
SiteOf(i, t, j) == <<i, t - 1, IF t = 1 THEN 0 ELSE j>>

ScopeAt(w, i, t) == IF t = 1 THEN Root ELSE Program[w][i].branches[t - 1].name

(* Thread t of an execution of w is at step j, which is no Parallel.       *)
Reached(w, i, t, j) ==
  /\ t \in Nat \ {0}
  /\ i \in DOMAIN Program[w]
  /\ IF t = 1 THEN j = i /\ Program[w][i].kind # "parallel"
     ELSE /\ Program[w][i].kind = "parallel"
          /\ t - 1 \in DOMAIN Program[w][i].branches
          /\ j \in DOMAIN Program[w][i].branches[t - 1].steps

LEMMA SitesReached ==
  ASSUME NEW w \in Workflows, NEW i, NEW t, NEW j, Reached(w, i, t, j)
  PROVE  /\ SiteOf(i, t, j) \in Sites(w)
         /\ CodeOf(w, i, t) \in Seq(Range(CodeOf(w, i, t)))
         /\ j \in 1..Len(CodeOf(w, i, t)) /\ Len(CodeOf(w, i, t)) \in Nat
         /\ CodeOf(w, i, t)[j].kind \in {"run", "wait", "sleep", "get"}
<1>1. CASE t = 1
  <2>1. i \in {h \in DOMAIN Program[w] : Program[w][h].kind # "parallel"} /\ j = i
    BY <1>1 DEF Reached
  <2>2. <<i, 0, 0>> \in {<<h, 0, 0>> :
           h \in {h \in DOMAIN Program[w] : Program[w][h].kind # "parallel"}}
    BY <2>1
  <2>3. SiteOf(i, t, j) = <<i, 0, 0>>
    BY <1>1 DEF SiteOf
  <2>4. SiteOf(i, t, j) \in Sites(w)
    BY <2>2, <2>3 DEF Sites
  <2> QED
    BY <1>1, <2>1, <2>4, MainCode DEF CodeOf, Branching
<1>2. CASE t # 1
  <2> DEFINE b == t - 1
  <2>1. /\ i \in {h \in DOMAIN Program[w] : Program[w][h].kind = "parallel"}
        /\ b \in DOMAIN Program[w][i].branches
        /\ j \in DOMAIN Program[w][i].branches[b].steps
    BY <1>2 DEF Reached
  <2>2. SiteOf(i, t, j) = <<i, b, j>>
    BY <1>2 DEF SiteOf
  <2> HIDE DEF b
  <2>3. <<i, b, j>> \in UNION {{<<i, a, h>> : h \in DOMAIN Program[w][i].branches[a].steps}
                               : a \in DOMAIN Program[w][i].branches}
    BY <2>1
  <2>4. SiteOf(i, t, j) \in Sites(w)
    BY <2>1, <2>2, <2>3 DEF Sites
  <2>5. CodeOf(w, i, t) = Program[w][i].branches[b].steps
    BY <1>2 DEF CodeOf, b
  <2> QED
    BY <2>1, <2>4, <2>5, BranchCode
<1> QED
  BY <1>1, <1>2

(* The name of a call site, counted in the code of its thread.             *)
NamedIn(w, i, t, j) ==
  LET s == SiteOf(i, t, j)
      code == CodeOf(w, i, t)
  IN  /\ StepAt(w, s) = code[j]
      /\ NameOf[w][s] = StepName(ScopeAt(w, i, t), code[j],
                                 [k \in Numbered |-> CountAt(code, j, k)])
      /\ NameOf[w][s] \in Names[w]
      /\ DOMAIN NameOf[w] = Sites(w)

LEMMA NameReached ==
  ASSUME NEW w \in Workflows, NEW i, NEW t, NEW j, Reached(w, i, t, j)
  PROVE  NamedIn(w, i, t, j)
<1> DEFINE s == SiteOf(i, t, j)
           code == CodeOf(w, i, t)
<1>1. /\ s \in Sites(w) /\ code \in Seq(Range(code))
      /\ j \in 1..Len(code) /\ Len(code) \in Nat
  BY SitesReached
<1>2. UpTo(w, s) = SubSeq(code, 1, j)
  <2>1. CASE t = 1
    <3>1. s[1] = i /\ s[2] = 0 /\ j = i
      BY <2>1 DEF SiteOf, Reached
    <3> QED
      BY <2>1, <3>1 DEF UpTo, CodeOf
  <2>2. CASE t # 1
    <3>1. s[1] = i /\ s[2] = t - 1 /\ s[3] = j /\ t - 1 # 0
      BY <2>2 DEF SiteOf, Reached
    <3> QED
      BY <2>2, <3>1 DEF UpTo, CodeOf
  <2> QED
    BY <2>1, <2>2
<1> DEFINE prefix == SubSeq(code, 1, j)
<1>3. /\ Len(prefix) = j /\ DOMAIN prefix = 1..j
      /\ \A h \in 1..j : prefix[h] = code[h]
  <2>1. \A h \in 1..j : code[h] \in Range(code)
    BY <1>1, ElementOfSeq
  <2>2. /\ prefix \in Seq(Range(code))
        /\ Len(prefix) = IF 1 <= j THEN j - 1 + 1 ELSE 0
        /\ \A h \in 1..(j - 1 + 1) : prefix[h] = code[1 + h - 1]
    BY <1>1, <2>1, SubSeqProperties
  <2> HIDE DEF prefix
  <2>3. Len(prefix) = j
    BY <1>1, <2>2
  <2>4. DOMAIN prefix = 1..j
    BY <2>2, <2>3, LenProperties
  <2> QED
    BY <1>1, <2>2, <2>3, <2>4
<1> HIDE DEF prefix
<1>4. StepAt(w, s) = code[j]
  BY <1>1, <1>2, <1>3 DEF StepAt, prefix
<1>5. \A k : Cardinality({h \in DOMAIN UpTo(w, s) : UpTo(w, s)[h].kind = k})
               = CountAt(code, j, k)
  <2>1. \A k : {h \in DOMAIN prefix : prefix[h].kind = k}
               = {h \in 1..j : code[h].kind = k}
    BY <1>3
  <2>2. UpTo(w, s) = prefix
    BY <1>2 DEF prefix
  <2> HIDE DEF code, s
  <2>3. \A k : {h \in DOMAIN UpTo(w, s) : UpTo(w, s)[h].kind = k}
               = {h \in 1..j : code[h].kind = k}
    BY <2>1, <2>2
  <2> QED
    BY <2>3 DEF CountAt
<1>6. (IF s[2] = 0 THEN Root ELSE Program[w][s[1]].branches[s[2]].name) = ScopeAt(w, i, t)
  BY DEF SiteOf, ScopeAt, Reached
<1>7. SiteName(w, s) = StepName(ScopeAt(w, i, t), code[j],
                                [k \in Numbered |-> CountAt(code, j, k)])
  BY <1>4, <1>5, <1>6 DEF SiteName
<1>8. NameOf[w][s] = SiteName(w, s) /\ DOMAIN NameOf[w] = Sites(w)
  BY <1>1 DEF NameOf
<1>9. NameOf[w][s] \in Names[w]
  BY <1>1, <1>8 DEF Names, Range
<1> QED
  BY <1>4, <1>7, <1>8, <1>9 DEF NamedIn

-----------------------------------------------------------------------------
(* Tables of results                                                       *)

LEMMA KnownForm ==
  ASSUME NEW f, NEW K
  PROVE  Known(f, K) <=> \A x \in DOMAIN f : x \in K /\ f[x] \in StepResult
BY DEF Known, Range

LEMMA MergeForm ==
  ASSUME NEW f, NEW g
  PROVE  /\ DOMAIN Merge(f, g) = DOMAIN f \cup DOMAIN g
         /\ \A x \in DOMAIN g : Merge(f, g)[x] = g[x]
         /\ \A x \in DOMAIN f \ DOMAIN g : Merge(f, g)[x] = f[x]
BY DEF Merge

LEMMA PutForm ==
  ASSUME NEW f, NEW x, NEW y
  PROVE  /\ DOMAIN Put(f, x, y) = DOMAIN f \cup {x}
         /\ Put(f, x, y)[x] = y
         /\ \A z \in DOMAIN f : z # x => Put(f, x, y)[z] = f[z]
BY DEF Put, Merge

LEMMA KnownPut ==
  ASSUME NEW f, NEW K, Known(f, K), NEW x \in K, NEW y \in StepResult
  PROVE  Known(Put(f, x, y), K)
<1>1. \A z \in DOMAIN f : z \in K /\ f[z] \in StepResult
  BY KnownForm
<1>2. ASSUME NEW z \in DOMAIN Put(f, x, y)
      PROVE  z \in K /\ Put(f, x, y)[z] \in StepResult
  <2>1. CASE z = x
    BY <2>1 DEF Put, Merge
  <2>2. CASE z # x
    <3>1. z \in DOMAIN f /\ Put(f, x, y)[z] = f[z]
      BY <2>2 DEF Put, Merge
    <3> QED
      BY <1>1, <3>1
  <2> QED
    BY <2>1, <2>2
<1> QED
  BY <1>2, KnownForm

(* Every result is at an instant of the model, or is a small label.        *)
LEMMA ResultTimes ==
  /\ \A r \in StepResult : r.n \in 0..Horizon
  /\ NoResult \notin StepResult
  /\ \A n \in Values : Result("value", n) \in StepResult
  /\ \A n \in 0..Horizon : Result("time", n) \in StepResult
  /\ Result("event", 1) \in StepResult /\ Result("timeout", 0) \in StepResult
<1>1. 0 \in 0..Horizon /\ 1 \in 0..Horizon /\ Values \subseteq 0..Horizon
  BY HorizonAssumption, ExecutionAssumption
<1>2. \A r \in StepResult : r.n \in 0..Horizon /\ r.tag # "none"
  BY <1>1 DEF StepResult, Result
<1>3. NoResult \notin StepResult
  BY <1>2 DEF NoResult, Result
<1>4. \A n \in Values : Result("value", n) \in StepResult
  BY DEF StepResult
<1>5. \A n \in 0..Horizon : Result("time", n) \in StepResult
  BY DEF StepResult
<1> QED
  BY <1>2, <1>3, <1>4, <1>5 DEF StepResult

-----------------------------------------------------------------------------
(* The contexts of executions                                              *)

IsThread(th) ==
  th \in [scope : {th.scope}, at : Nat \ {0}, loc : Locations,
          val : StepResult \cup {NoResult}, count : [Numbered -> Nat],
          err : Outcome]

IsRun(r) ==
  /\ r \in [thread : {r.thread}, seen : {r.seen}, cache : {r.cache}, view : {r.view}]
  /\ \E n \in Nat \ {0} : r.thread = [i \in 1..n |-> r.thread[i]]
  /\ \A t \in DOMAIN r.thread : IsThread(r.thread[t])

(* The thread has counted the numbered steps of its code as far as it has  *)
(* come, the one it is in included.                                        *)
ThreadAt(th, code) ==
  /\ th.at \in 1..(Len(code) + 1)
  /\ th.loc \in {"enter", "join"} =>
       \A k \in Numbered : th.count[k] = CountAt(code, th.at - 1, k)
  /\ th.loc \in {"lookup", "fn", "save"} =>
       /\ th.at \in DOMAIN code /\ code[th.at].kind # "parallel"
       /\ \A k \in Numbered : th.count[k] = CountAt(code, th.at, k)
  /\ th.loc = "save" => th.val \in StepResult
  /\ th.loc = "done" => th.err.kind # "none"

(* Branches exist beside a main thread that joins them, and only then.     *)
Forks(r, w) ==
  IF r.thread[1].loc = "join"
  THEN /\ r.thread[1].at \in DOMAIN Program[w]
       /\ Program[w][r.thread[1].at].kind = "parallel"
       /\ DOMAIN r.thread = 1..(Len(Program[w][r.thread[1].at].branches) + 1)
  ELSE DOMAIN r.thread = 1..1

PlacedAt(r, w) ==
  /\ IsRun(r)
  /\ Forks(r, w)
  /\ r.thread[1].loc # "done" /\ r.thread[1].err = NoOutcome
  /\ \A t \in DOMAIN r.thread :
       /\ ThreadAt(r.thread[t], CodeOf(w, r.thread[1].at, t))
       /\ r.thread[t].scope = ScopeAt(w, r.thread[1].at, t)
       /\ t # 1 => r.thread[t].loc # "join"

(* Thread t of r becomes th.                                               *)
Becomes(r, q, t, th) ==
  /\ q \in [thread : {q.thread}, seen : {q.seen}, cache : {r.cache}, view : {q.view}]
  /\ q.thread = [r.thread EXCEPT ![t] = th]

LEMMA RunDomain ==
  ASSUME NEW r, IsRun(r)
  PROVE  /\ 1 \in DOMAIN r.thread
         /\ \A t \in DOMAIN r.thread : t \in Nat \ {0} /\ IsThread(r.thread[t])
<1>1. PICK n \in Nat \ {0} : r.thread = [i \in 1..n |-> r.thread[i]]
  BY DEF IsRun
<1>2. DOMAIN r.thread = 1..n
  BY <1>1
<1> QED
  BY <1>2 DEF IsRun

Swapped(r, q, t, th) ==
  /\ DOMAIN q.thread = DOMAIN r.thread
  /\ q.thread[t] = th
  /\ \A u \in DOMAIN r.thread : u # t => q.thread[u] = r.thread[u]

LEMMA BecomesRun ==
  ASSUME NEW r, NEW q, NEW t \in DOMAIN r.thread, NEW th,
         IsRun(r), IsThread(th), Becomes(r, q, t, th)
  PROVE  IsRun(q) /\ Swapped(r, q, t, th)
<1>1. PICK n \in Nat \ {0} : r.thread = [i \in 1..n |-> r.thread[i]]
  BY DEF IsRun
<1>2. /\ DOMAIN q.thread = DOMAIN r.thread
      /\ q.thread[t] = th
      /\ \A u \in DOMAIN r.thread : u # t => q.thread[u] = r.thread[u]
  BY <1>1 DEF Becomes
<1>3. q.thread = [i \in 1..n |-> q.thread[i]]
  BY <1>1 DEF Becomes
<1>4. q \in [thread : {q.thread}, seen : {q.seen}, cache : {q.cache}, view : {q.view}]
  BY DEF Becomes
<1>5. \A u \in DOMAIN q.thread : IsThread(q.thread[u])
  BY <1>2 DEF IsRun
<1> QED
  BY <1>2, <1>3, <1>4, <1>5 DEF IsRun, Swapped

(* A move of one thread that is where its code says keeps all in place.    *)
LEMMA BecomesPlaced ==
  ASSUME NEW w \in Workflows, NEW r, NEW q, NEW t \in DOMAIN r.thread, NEW th,
         PlacedAt(r, w), IsThread(th), Becomes(r, q, t, th),
         r.thread[t].loc # "join", th.loc # "join",
         t = 1 => th.loc # "done" /\ th.err = NoOutcome,
         th.scope = r.thread[t].scope,
         ThreadAt(th, CodeOf(w, r.thread[1].at, t))
  PROVE  PlacedAt(q, w)
<1>0. IsRun(r)
  BY DEF PlacedAt
<1>9. IsRun(q) /\ Swapped(r, q, t, th)
  BY <1>0, BecomesRun
<1>1. /\ IsRun(q) /\ DOMAIN q.thread = DOMAIN r.thread
      /\ q.thread[t] = th
      /\ \A u \in DOMAIN r.thread : u # t => q.thread[u] = r.thread[u]
  BY <1>9 DEF Swapped
<1>2. CASE t = 1
  <2>1. DOMAIN r.thread = 1..1
    BY <1>2 DEF PlacedAt, Forks
  <2>2. Forks(q, w)
    BY <1>1, <1>2, <2>1 DEF Forks
  <2>3. \A i : CodeOf(w, i, 1) = Program[w] /\ ScopeAt(w, i, 1) = Root
    BY DEF CodeOf, ScopeAt
  <2>4. ThreadAt(th, Program[w]) /\ th.scope = Root
    BY <1>2, <2>1, <2>3 DEF PlacedAt
  <2>5. \A u \in DOMAIN q.thread :
          /\ ThreadAt(q.thread[u], CodeOf(w, q.thread[1].at, u))
          /\ q.thread[u].scope = ScopeAt(w, q.thread[1].at, u)
          /\ u # 1 => q.thread[u].loc # "join"
    BY <1>1, <1>2, <2>1, <2>3, <2>4
  <2> QED
    BY <1>1, <1>2, <2>2, <2>5 DEF PlacedAt
<1>3. CASE t # 1
  <2>1. q.thread[1] = r.thread[1]
    BY <1>1, <1>3, RunDomain DEF PlacedAt
  <2>2. Forks(q, w)
    BY <1>1, <2>1 DEF PlacedAt, Forks
  <2>3. \A u \in DOMAIN q.thread :
          /\ ThreadAt(q.thread[u], CodeOf(w, q.thread[1].at, u))
          /\ q.thread[u].scope = ScopeAt(w, q.thread[1].at, u)
          /\ u # 1 => q.thread[u].loc # "join"
    BY <1>1, <1>3, <2>1 DEF PlacedAt
  <2> QED
    BY <1>1, <2>1, <2>2, <2>3 DEF PlacedAt
<1> QED
  BY <1>2, <1>3

(* Moves made one after the other by the same thread.                      *)
LEMMA BecomesAgain ==
  ASSUME NEW r, NEW q, NEW q2, NEW t \in DOMAIN r.thread, NEW th, NEW th2,
         IsRun(r), Becomes(r, q, t, th), Becomes(q, q2, t, th2)
  PROVE  Becomes(r, q2, t, th2)
<1>1. r.thread = [u \in DOMAIN r.thread |-> r.thread[u]]
  BY DEF IsRun
<1>2. [[r.thread EXCEPT ![t] = th] EXCEPT ![t] = th2] = [r.thread EXCEPT ![t] = th2]
  BY <1>1
<1>3. q2.thread = [r.thread EXCEPT ![t] = th2]
  BY <1>2 DEF Becomes
<1>4. /\ q2 \in [thread : {q2.thread}, seen : {q2.seen}, cache : {q.cache},
                 view : {q2.view}]
      /\ q.cache = r.cache
  BY DEF Becomes
<1> QED
  BY <1>3, <1>4 DEF Becomes

(* The forms that the moves of Steps have.                                 *)
WithThread(r, t, th)  == [r EXCEPT !.thread[t] = th]
WithSeen(r, t, th, s) == [r EXCEPT !.thread[t] = th, !.seen = s]
WithView(r, t, th, v) == [r EXCEPT !.thread[t] = th, !.view = v]

Returned(th, o)  == [th EXCEPT !.loc = "done", !.err = o, !.val = NoResult]
Placed(th, l, v) == [th EXCEPT !.loc = l, !.val = v]
Advanced(th)     == [th EXCEPT !.at = @ + 1, !.loc = "enter", !.val = NoResult]
Counted(th, c, l) == [th EXCEPT !.count = c, !.loc = l]

LEMMA MoveForm ==
  ASSUME NEW r, IsRun(r), NEW t, NEW th, NEW q, q = WithThread(r, t, th)
  PROVE  Becomes(r, q, t, th) /\ q.seen = r.seen /\ q.view = r.view
<1>1. r \in [thread : {r.thread}, seen : {r.seen}, cache : {r.cache}, view : {r.view}]
  BY DEF IsRun
<1> QED
  BY <1>1 DEF Becomes, WithThread

LEMMA SeenForm ==
  ASSUME NEW r, IsRun(r), NEW t, NEW th, NEW s, NEW q,
         q = WithSeen(r, t, th, s)
  PROVE  Becomes(r, q, t, th) /\ q.seen = s /\ q.view = r.view
<1>1. r \in [thread : {r.thread}, seen : {r.seen}, cache : {r.cache}, view : {r.view}]
  BY DEF IsRun
<1> QED
  BY <1>1 DEF Becomes, WithSeen

LEMMA ViewForm ==
  ASSUME NEW r, IsRun(r), NEW t, NEW th, NEW v, NEW q,
         q = WithView(r, t, th, v)
  PROVE  Becomes(r, q, t, th) /\ q.seen = r.seen /\ q.view = v
<1>1. r \in [thread : {r.thread}, seen : {r.seen}, cache : {r.cache}, view : {r.view}]
  BY DEF IsRun
<1> QED
  BY <1>1 DEF Becomes, WithView

-----------------------------------------------------------------------------
(* The moves of a thread                                                   *)

LEMMA DoneMove ==
  ASSUME NEW th, IsThread(th), NEW code, th.at \in 1..(Len(code) + 1),
         NEW o \in Outcome, o.kind # "none",
         NEW th2, th2 = Returned(th, o)
  PROVE  /\ IsThread(th2) /\ ThreadAt(th2, code)
         /\ th2.scope = th.scope /\ th2.loc = "done" /\ th2.err = o
<1>. USE DEF Returned
<1>0. th \in [scope : {th.scope}, at : Nat \ {0}, loc : Locations,
              val : StepResult \cup {NoResult}, count : [Numbered -> Nat],
              err : Outcome]
  BY DEF IsThread
<1>1. /\ th2.scope = th.scope /\ th2.loc = "done" /\ th2.err = o
      /\ th2.at = th.at /\ th2.count = th.count /\ th2.val = NoResult
  BY <1>0
<1>2. IsThread(th2)
  BY <1>0 DEF IsThread, Locations
<1>3. ThreadAt(th2, code)
  BY <1>1 DEF ThreadAt
<1> QED
  BY <1>1, <1>2, <1>3

LEMMA LocMove ==
  ASSUME NEW th, IsThread(th), NEW code, ThreadAt(th, code),
         th.loc \in {"lookup", "fn", "save"},
         NEW loc \in {"fn", "save"}, NEW v \in StepResult \cup {NoResult},
         loc = "save" => v \in StepResult,
         NEW th2, th2 = Placed(th, loc, v)
  PROVE  /\ IsThread(th2) /\ ThreadAt(th2, code)
         /\ th2.scope = th.scope /\ th2.loc = loc /\ th2.err = th.err
         /\ th2.at = th.at /\ th2.count = th.count
<1>. USE DEF Placed
<1>0. th \in [scope : {th.scope}, at : Nat \ {0}, loc : Locations,
              val : StepResult \cup {NoResult}, count : [Numbered -> Nat],
              err : Outcome]
  BY DEF IsThread
<1>1. /\ th2.scope = th.scope /\ th2.loc = loc /\ th2.err = th.err
      /\ th2.at = th.at /\ th2.count = th.count /\ th2.val = v
  BY <1>0
<1>2. IsThread(th2)
  BY <1>0 DEF IsThread, Locations
<1>3. ThreadAt(th2, code)
  BY <1>1 DEF ThreadAt
<1> QED
  BY <1>1, <1>2, <1>3

LEMMA ObserveMove ==
  ASSUME NEW th, IsThread(th), NEW code, ThreadAt(th, code),
         Len(code) \in Nat, DOMAIN code = 1..Len(code),
         th.loc \in {"lookup", "fn", "save"},
         NEW th2, th2 = Advanced(th)
  PROVE  /\ IsThread(th2) /\ ThreadAt(th2, code)
         /\ th2.scope = th.scope /\ th2.loc = "enter" /\ th2.err = th.err
         /\ th2.at = th.at + 1
<1>. USE DEF Advanced
<1>0. th \in [scope : {th.scope}, at : Nat \ {0}, loc : Locations,
              val : StepResult \cup {NoResult}, count : [Numbered -> Nat],
              err : Outcome]
  BY DEF IsThread
<1>1. /\ th2.scope = th.scope /\ th2.loc = "enter" /\ th2.err = th.err
      /\ th2.at = th.at + 1 /\ th2.count = th.count /\ th2.val = NoResult
  BY <1>0
<1>2. th.at \in Nat /\ th.at \in 1..Len(code)
  BY <1>0 DEF ThreadAt
<1>3. IsThread(th2)
  <2> DEFINE n == th.at + 1
  <2>1. n \in Nat \ {0}
    BY <1>2
  <2>2. th2 = [th EXCEPT !.at = n, !.loc = "enter", !.val = NoResult]
    BY <1>0
  <2> HIDE DEF n
  <2> QED
    BY <1>0, <2>1, <2>2 DEF IsThread, Locations
<1>4. th2.at - 1 = th.at /\ th2.at \in 1..(Len(code) + 1)
  BY <1>1, <1>2
<1>5. \A k \in Numbered : th2.count[k] = CountAt(code, th2.at - 1, k)
  BY <1>1, <1>4 DEF ThreadAt
<1>6. ThreadAt(th2, code)
  BY <1>1, <1>4, <1>5 DEF ThreadAt
<1> QED
  BY <1>1, <1>3, <1>6

(* A step is counted when it is entered.                                   *)
Counting(count, step) ==
  IF step.kind \in Numbered THEN [count EXCEPT ![step.kind] = @ + 1] ELSE count

LEMMA CountingNext ==
  ASSUME NEW count \in [Numbered -> Nat], NEW code, NEW n \in Nat \ {0},
         \A k \in Numbered : count[k] = CountAt(code, n - 1, k)
  PROVE  /\ Counting(count, code[n]) \in [Numbered -> Nat]
         /\ \A k \in Numbered : Counting(count, code[n])[k] = CountAt(code, n, k)
<1>1. Counting(count, code[n]) \in [Numbered -> Nat]
  BY DEF Counting
<1>2. ASSUME NEW k \in Numbered
      PROVE  Counting(count, code[n])[k] = CountAt(code, n, k)
  <2>1. CountAt(code, n, k) = IF code[n].kind = k THEN CountAt(code, n - 1, k) + 1
                                                  ELSE CountAt(code, n - 1, k)
    BY CountNext
  <2>2. Counting(count, code[n])[k] = IF code[n].kind = k THEN count[k] + 1
                                                          ELSE count[k]
    BY DEF Counting
  <2> QED
    BY <2>1, <2>2
<1> QED
  BY <1>1, <1>2

LEMMA CountMove ==
  ASSUME NEW th, IsThread(th), NEW c \in [Numbered -> Nat], NEW loc \in {"enter", "lookup"},
         NEW th2, th2 = Counted(th, c, loc)
  PROVE  /\ IsThread(th2)
         /\ th2.scope = th.scope /\ th2.loc = loc /\ th2.err = th.err
         /\ th2.at = th.at /\ th2.count = c
<1>. USE DEF Counted
<1>0. th \in [scope : {th.scope}, at : Nat \ {0}, loc : Locations,
              val : StepResult \cup {NoResult}, count : [Numbered -> Nat],
              err : Outcome]
  BY DEF IsThread
<1>1. /\ th2.scope = th.scope /\ th2.loc = loc /\ th2.err = th.err
      /\ th2.at = th.at /\ th2.count = c /\ th2.val = th.val
  BY <1>0
<1>2. IsThread(th2)
  BY <1>0 DEF IsThread, Locations
<1> QED
  BY <1>1, <1>2

-----------------------------------------------------------------------------
(* What an execution knows                                                 *)

(* Somebody asked for it, or a function may return it of its own accord.   *)
Asked(signal) == "cancelled" \in StepFaults \/ signal = "cancel_requested"

(* An error a step may return: cancelled only if that was asked for.       *)
ErrOK(o, signal) ==
  /\ o \in Outcome /\ o.kind # "completed"
  /\ o.kind # "suspend" => o = OutcomeOf(o.kind)
  /\ o.kind = "cancelled" => Asked(signal)

DataAt(r, w) ==
  /\ r.seen \subseteq Names[w]
  /\ Known(r.cache, Names[w])
  /\ Known(r.view, DOMAIN NameOf[w])

ErrsAt(r, signal) == \A t \in DOMAIN r.thread : ErrOK(r.thread[t].err, signal)

ContextAt(r, w, signal) == PlacedAt(r, w) /\ DataAt(r, w) /\ ErrsAt(r, signal)

LEMMA ContextMove ==
  ASSUME NEW w \in Workflows, NEW signal, NEW r, NEW q,
         NEW t \in DOMAIN r.thread, NEW th,
         ContextAt(r, w, signal), IsThread(th), Becomes(r, q, t, th),
         r.thread[t].loc # "join", th.loc # "join",
         t = 1 => th.loc # "done" /\ th.err = NoOutcome,
         th.scope = r.thread[t].scope,
         ThreadAt(th, CodeOf(w, r.thread[1].at, t)),
         ErrOK(th.err, signal), DataAt(q, w)
  PROVE  ContextAt(q, w, signal)
<1>1. IsRun(r) /\ PlacedAt(r, w) /\ ErrsAt(r, signal)
  BY DEF ContextAt, PlacedAt
<1>2. PlacedAt(q, w)
  BY <1>1, BecomesPlaced
<1>3. Swapped(r, q, t, th)
  BY <1>1, BecomesRun
<1>4. ErrsAt(q, signal)
  BY <1>1, <1>3 DEF ErrsAt, Swapped
<1> QED
  BY <1>2, <1>4 DEF ContextAt

LEMMA ErrForms ==
  /\ \A signal : /\ ErrOK(NoOutcome, signal)
                 /\ ErrOK(OutcomeOf("transient"), signal)
                 /\ ErrOK(OutcomeOf("permanent"), signal)
                 /\ \A n \in 0..Horizon :
                      ErrOK([kind |-> "suspend", resumeAt |-> n], signal)
  /\ ErrOK(OutcomeOf("cancelled"), "cancel_requested")
<1>1. NoTime \in 0..Horizon
  BY HorizonAssumption DEF NoTime
<1> QED
  BY <1>1 DEF ErrOK, Asked, Outcome, OutcomeOf, NoOutcome

(* What a goroutine of worker p does to its engine: the workflow returns   *)
(* an error, or its context moves on.                                      *)
SignalOf(p) == wf[task[p].id].signal

Ends(p) ==
  \E o : /\ ErrOK(o, SignalOf(p)) /\ o.kind # "none"
         /\ Return(p, o) /\ run' = [run EXCEPT ![p] = NoRun]

MovesOn(p) ==
  \E q : /\ ContextAt(q, task[p].id, SignalOf(p))
         /\ run' = [run EXCEPT ![p] = q] /\ UNCHANGED vars

LEMMA RaiseMoves ==
  ASSUME NEW p \in Workers, task[p].id \in Workflows,
         ContextAt(run[p], task[p].id, SignalOf(p)),
         NEW t \in DOMAIN run[p].thread, run[p].thread[t].loc # "join",
         NEW r, NEW th, Becomes(run[p], r, t, th), IsThread(th),
         th.at \in 1..(Len(CodeOf(task[p].id, run[p].thread[1].at, t)) + 1),
         th.scope = run[p].thread[t].scope, DataAt(r, task[p].id),
         NEW o, ErrOK(o, SignalOf(p)), o.kind # "none", Raise(p, t, r, o)
  PROVE  Ends(p) \/ MovesOn(p)
<1>1. CASE t = 1
  BY <1>1 DEF Raise, Forget, Ends
<1>2. CASE t # 1
  <2> DEFINE w == task[p].id
             code == CodeOf(w, run[p].thread[1].at, t)
             th2 == [th EXCEPT !.loc = "done", !.err = o, !.val = NoResult]
             q == [r EXCEPT !.thread[t] = [@ EXCEPT !.loc = "done", !.err = o,
                                                     !.val = NoResult]]
  <2>1. IsRun(run[p]) /\ ThreadAt(run[p].thread[t], code)
    BY DEF ContextAt, PlacedAt
  <2>2. IsRun(r) /\ Swapped(run[p], r, t, th)
    BY <2>1, BecomesRun
  <2>3. r.thread[t] = th
    BY <2>2 DEF Swapped
  <2>4. th.at \in 1..(Len(code) + 1)
    BY <2>1 DEF ThreadAt
  <2>5. o \in Outcome
    BY DEF ErrOK
  <2>0. th2 = Returned(th, o)
    BY DEF Returned
  <2> HIDE DEF th2, code
  <2>6. /\ IsThread(th2) /\ ThreadAt(th2, code)
        /\ th2.scope = th.scope /\ th2.loc = "done" /\ th2.err = o
    BY <2>0, <2>4, <2>5, DoneMove
  <2>7. q = WithThread(r, t, th2)
    BY <2>3 DEF th2, WithThread
  <2>8. run' = [run EXCEPT ![p] = q] /\ UNCHANGED vars
    BY <1>2 DEF Raise, Continues
  <2> HIDE DEF q
  <2>9. Becomes(r, q, t, th2) /\ q.seen = r.seen /\ q.view = r.view
    BY <2>2, <2>7, MoveForm
  <2>10. Becomes(run[p], q, t, th2)
    BY <2>1, <2>9, BecomesAgain
  <2>11. q.cache = r.cache
    BY <2>9 DEF Becomes
  <2>12. DataAt(q, w)
    BY <2>9, <2>11 DEF DataAt
  <2>13. ContextAt(q, w, SignalOf(p))
    BY <1>2, <2>6, <2>10, <2>12, ContextMove DEF code
  <2> QED
    BY <2>8, <2>13 DEF MovesOn
<1> QED
  BY <1>1, <1>2

(* A thread that returns an error without having moved.                    *)
LEMMA RaiseHere ==
  ASSUME NEW p \in Workers, task[p].id \in Workflows,
         ContextAt(run[p], task[p].id, SignalOf(p)),
         NEW t \in DOMAIN run[p].thread, run[p].thread[t].loc # "join",
         NEW o, ErrOK(o, SignalOf(p)), o.kind # "none", Raise(p, t, run[p], o)
  PROVE  Ends(p) \/ MovesOn(p)
<1>1. IsRun(run[p]) /\ DataAt(run[p], task[p].id)
  BY DEF ContextAt, PlacedAt
<1>2. IsThread(run[p].thread[t])
  BY <1>1 DEF IsRun
<1>3. Becomes(run[p], run[p], t, run[p].thread[t])
  BY <1>1 DEF IsRun, Becomes
<1>4. run[p].thread[t].at
        \in 1..(Len(CodeOf(task[p].id, run[p].thread[1].at, t)) + 1)
  BY DEF ContextAt, PlacedAt, ThreadAt
<1> QED
  BY <1>1, <1>2, <1>3, <1>4, RaiseMoves

-----------------------------------------------------------------------------
(* Where a goroutine is                                                    *)

(* The thread t of p is at a step of its code that is no Parallel.         *)
AtStep(p, t) ==
  /\ task[p].id \in Workflows
  /\ ContextAt(run[p], task[p].id, SignalOf(p))
  /\ t \in DOMAIN run[p].thread
  /\ run[p].thread[t].at \in DOMAIN Code(p, t)
  /\ Step(p, t).kind # "parallel"
  /\ run[p].thread[t].loc \in {"enter", "lookup", "fn", "save"}

(* A goroutine beside the main one runs a branch.                          *)
LEMMA BranchIndex ==
  ASSUME NEW n \in Nat, NEW t \in 1..(n + 1), t # 1
  PROVE  t - 1 \in 1..n
OBVIOUS

LEMMA BranchPlace ==
  ASSUME NEW w \in Workflows, NEW r, Forks(r, w), NEW t \in DOMAIN r.thread, t # 1
  PROVE  /\ r.thread[1].at \in DOMAIN Program[w]
         /\ Program[w][r.thread[1].at].kind = "parallel"
         /\ t - 1 \in DOMAIN Program[w][r.thread[1].at].branches
<1> DEFINE i == r.thread[1].at
<1>1. DOMAIN r.thread # 1..1
  OBVIOUS
<1>2. /\ i \in DOMAIN Program[w] /\ Program[w][i].kind = "parallel"
      /\ DOMAIN r.thread = 1..(Len(Program[w][i].branches) + 1)
  BY <1>1 DEF Forks
<1>3. /\ Len(Program[w][i].branches) \in Nat
      /\ DOMAIN Program[w][i].branches = 1..Len(Program[w][i].branches)
  BY <1>2, BranchCode
<1> HIDE DEF i
<1>4. t - 1 \in DOMAIN Program[w][i].branches
  BY <1>2, <1>3, BranchIndex
<1> QED
  BY <1>2, <1>4 DEF i

LEMMA AtStepForm ==
  ASSUME NEW p, NEW t, AtStep(p, t)
  PROVE  /\ Code(p, t) = CodeOf(task[p].id, run[p].thread[1].at, t)
         /\ Step(p, t) = Code(p, t)[run[p].thread[t].at]
         /\ Site(p, t) = SiteOf(run[p].thread[1].at, t, run[p].thread[t].at)
         /\ Reached(task[p].id, run[p].thread[1].at, t, run[p].thread[t].at)
         /\ run[p].thread[t].scope = ScopeAt(task[p].id, run[p].thread[1].at, t)
         /\ IsRun(run[p]) /\ IsThread(run[p].thread[t])
         /\ ThreadAt(run[p].thread[t], Code(p, t))
         /\ run[p].thread[t].loc # "join" /\ DataAt(run[p], task[p].id)
<1> DEFINE w == task[p].id
           i == run[p].thread[1].at
           j == run[p].thread[t].at
<1>1. Code(p, t) = CodeOf(w, i, t) /\ Step(p, t) = Code(p, t)[j]
  BY DEF Code, CodeOf, Main, Here, Step
<1>2. Site(p, t) = SiteOf(i, t, j)
  BY DEF Site, SiteOf, Here
<1>3. PlacedAt(run[p], w) /\ IsRun(run[p])
  BY DEF AtStep, ContextAt, PlacedAt
<1>4. /\ run[p].thread[t].scope = ScopeAt(w, i, t)
      /\ ThreadAt(run[p].thread[t], Code(p, t))
  BY <1>1, <1>3 DEF AtStep, PlacedAt
<1>5. t \in Nat \ {0} /\ IsThread(run[p].thread[t])
  BY <1>3, RunDomain DEF AtStep
<1>6. Reached(w, i, t, j)
  <2>1. CASE t = 1
    <3>1. Code(p, t) = Program[w] /\ i = j
      BY <1>1, <2>1 DEF CodeOf
    <3>2. i \in DOMAIN Program[w] /\ Program[w][i].kind # "parallel"
      BY <1>1, <3>1 DEF AtStep
    <3> HIDE DEF w, i, j
    <3> QED
      BY <2>1, <3>1, <3>2 DEF Reached
  <2>2. CASE t # 1
    <3>1. Forks(run[p], w)
      BY <1>3 DEF PlacedAt
    <3>2. w \in Workflows /\ t \in DOMAIN run[p].thread
      BY DEF AtStep
    <3>3. /\ i \in DOMAIN Program[w] /\ Program[w][i].kind = "parallel"
          /\ t - 1 \in DOMAIN Program[w][i].branches
      BY <2>2, <3>1, <3>2, BranchPlace
    <3>4. j \in DOMAIN Code(p, t)
      BY DEF AtStep
    <3>5. Code(p, t) = Program[w][i].branches[t - 1].steps
      BY <1>1, <2>2 DEF CodeOf
    <3> HIDE DEF w, i, j
    <3> QED
      BY <1>5, <2>2, <3>3, <3>4, <3>5 DEF Reached
  <2> QED
    BY <2>1, <2>2
<1>7. run[p].thread[t].loc # "join" /\ DataAt(run[p], w)
  BY DEF AtStep, ContextAt
<1> QED
  BY <1>1, <1>2, <1>3, <1>4, <1>5, <1>6, <1>7

LEMMA AtStepCode ==
  ASSUME NEW p, NEW t, AtStep(p, t)
  PROVE  /\ Len(Code(p, t)) \in Nat /\ DOMAIN Code(p, t) = 1..Len(Code(p, t))
         /\ run[p].thread[t].at \in Nat \ {0}
         /\ Step(p, t).kind \in {"run", "wait", "sleep", "get"}
         /\ Site(p, t) \in DOMAIN NameOf[task[p].id]
         /\ StepAt(task[p].id, Site(p, t)) = Step(p, t)
         /\ NameOf[task[p].id][Site(p, t)] \in Names[task[p].id]
<1> DEFINE w == task[p].id
           i == run[p].thread[1].at
           j == run[p].thread[t].at
<1>1. w \in Workflows /\ Reached(w, i, t, j)
  BY AtStepForm DEF AtStep
<1>2. Code(p, t) = CodeOf(w, i, t) /\ Site(p, t) = SiteOf(i, t, j)
  BY AtStepForm
<1>3. Step(p, t) = CodeOf(w, i, t)[j]
  BY AtStepForm
<1> HIDE DEF w, i, j
<1>4. /\ SiteOf(i, t, j) \in Sites(w)
      /\ CodeOf(w, i, t) \in Seq(Range(CodeOf(w, i, t)))
      /\ j \in 1..Len(CodeOf(w, i, t)) /\ Len(CodeOf(w, i, t)) \in Nat
      /\ CodeOf(w, i, t)[j].kind \in {"run", "wait", "sleep", "get"}
  BY <1>1, SitesReached
<1>5. DOMAIN CodeOf(w, i, t) = 1..Len(CodeOf(w, i, t))
  BY <1>4, LenProperties
<1>0. NamedIn(w, i, t, j)
  BY <1>1, NameReached
<1>6. /\ StepAt(w, SiteOf(i, t, j)) = CodeOf(w, i, t)[j]
      /\ NameOf[w][SiteOf(i, t, j)] \in Names[w]
      /\ DOMAIN NameOf[w] = Sites(w)
  BY <1>0 DEF NamedIn
<1>7. j \in Nat \ {0}
  BY <1>4
<1> QED
  BY <1>2, <1>3, <1>4, <1>5, <1>6, <1>7 DEF w, i, j

(* A name is that of the call site once the step is counted.               *)
LEMMA CountedName ==
  ASSUME NEW p, NEW t, AtStep(p, t), NEW c \in [Numbered -> Nat],
         \A k \in Numbered : c[k] = CountAt(Code(p, t), run[p].thread[t].at, k)
  PROVE  StepName(run[p].thread[t].scope, Step(p, t), c)
           = NameOf[task[p].id][Site(p, t)]
<1> DEFINE counts == [k \in Numbered |->
                        CountAt(Code(p, t), run[p].thread[t].at, k)]
<1>1. c = counts
  OBVIOUS
<1>2. task[p].id \in Workflows
  BY DEF AtStep
<1>3. NamedIn(task[p].id, run[p].thread[1].at, t, run[p].thread[t].at)
  BY <1>2, AtStepForm, NameReached
<1>4. NameOf[task[p].id][Site(p, t)]
        = StepName(run[p].thread[t].scope, Step(p, t), counts)
  <2>1. /\ Code(p, t) = CodeOf(task[p].id, run[p].thread[1].at, t)
        /\ Step(p, t) = Code(p, t)[run[p].thread[t].at]
        /\ Site(p, t) = SiteOf(run[p].thread[1].at, t, run[p].thread[t].at)
        /\ run[p].thread[t].scope = ScopeAt(task[p].id, run[p].thread[1].at, t)
    BY AtStepForm
  <2> QED
    BY <1>3, <2>1 DEF NamedIn
<1> QED
  BY <1>1, <1>4

LEMMA NameHereForm ==
  ASSUME NEW p, NEW t, AtStep(p, t), run[p].thread[t].loc # "enter"
  PROVE  NameHere(p, t) = NameOf[task[p].id][Site(p, t)]
<1>1. /\ run[p].thread[t].count \in [Numbered -> Nat]
      /\ \A k \in Numbered : run[p].thread[t].count[k]
                               = CountAt(Code(p, t), run[p].thread[t].at, k)
  BY AtStepForm DEF AtStep, IsThread, ThreadAt
<1> QED
  BY <1>1, CountedName DEF NameHere

LEMMA NextNameForm ==
  ASSUME NEW p, NEW t, AtStep(p, t), run[p].thread[t].loc = "enter"
  PROVE  /\ Count(p, t) \in [Numbered -> Nat]
         /\ \A k \in Numbered : Count(p, t)[k]
                                  = CountAt(Code(p, t), run[p].thread[t].at, k)
         /\ NextName(p, t) = NameOf[task[p].id][Site(p, t)]
<1> DEFINE th == run[p].thread[t]
<1>1. /\ IsThread(th) /\ ThreadAt(th, Code(p, t))
      /\ Step(p, t) = Code(p, t)[th.at]
  BY AtStepForm
<1>2. th.count \in [Numbered -> Nat] /\ th.at \in Nat \ {0}
  BY <1>1 DEF IsThread
<1>3. \A k \in Numbered : th.count[k] = CountAt(Code(p, t), th.at - 1, k)
  BY <1>1 DEF ThreadAt
<1>4. Count(p, t) = Counting(th.count, Code(p, t)[th.at])
  BY <1>1 DEF Count, Counting
<1>5. NextName(p, t) = StepName(th.scope, Step(p, t), Count(p, t))
  BY DEF NextName
<1> HIDE DEF th
<1>6. /\ Count(p, t) \in [Numbered -> Nat]
      /\ \A k \in Numbered : Count(p, t)[k] = CountAt(Code(p, t), th.at, k)
  BY <1>2, <1>3, <1>4, CountingNext
<1>7. StepName(th.scope, Step(p, t), Count(p, t)) = NameOf[task[p].id][Site(p, t)]
  BY <1>6, CountedName DEF th
<1> QED
  BY <1>5, <1>6, <1>7 DEF th

-----------------------------------------------------------------------------
(* The steps of a goroutine                                                *)

LEMMA RunDataPut ==
  ASSUME NEW p, NEW t, AtStep(p, t), NEW r \in StepResult
  PROVE  Known(Put(run[p].view, Site(p, t), r), DOMAIN NameOf[task[p].id])
<1>1. /\ Site(p, t) \in DOMAIN NameOf[task[p].id]
      /\ Known(run[p].view, DOMAIN NameOf[task[p].id])
  BY AtStepForm, AtStepCode DEF DataAt
<1> QED
  BY <1>1, KnownPut

(* A step is entered: its name is taken.                                   *)
LEMMA TrackedMove ==
  ASSUME NEW p \in Workers, NEW t, AtStep(p, t),
         run[p].thread[t].loc = "enter", NEW loc \in {"enter", "lookup"},
         NEW th, th = Counted(run[p].thread[t], Count(p, t), loc)
  PROVE  /\ Becomes(run[p], Tracked(p, t, loc), t, th)
         /\ IsThread(th) /\ th.at = run[p].thread[t].at
         /\ th.scope = run[p].thread[t].scope
         /\ th.loc = loc /\ th.err = run[p].thread[t].err
         /\ th.count = Count(p, t) /\ DataAt(Tracked(p, t, loc), task[p].id)
<1>1. /\ Count(p, t) \in [Numbered -> Nat] /\ NextName(p, t) \in Names[task[p].id]
      /\ IsRun(run[p]) /\ IsThread(run[p].thread[t])
      /\ DataAt(run[p], task[p].id)
  BY AtStepForm, NextNameForm, AtStepCode
<1>2. Tracked(p, t, loc) = WithSeen(run[p], t, th, run[p].seen \cup {NextName(p, t)})
  BY DEF Tracked, WithSeen, Counted
<1>3. /\ IsThread(th) /\ th.scope = run[p].thread[t].scope /\ th.loc = loc
      /\ th.err = run[p].thread[t].err /\ th.at = run[p].thread[t].at
      /\ th.count = Count(p, t)
  BY <1>1, CountMove
<1>4. /\ Becomes(run[p], Tracked(p, t, loc), t, th)
      /\ Tracked(p, t, loc).seen = run[p].seen \cup {NextName(p, t)}
      /\ Tracked(p, t, loc).view = run[p].view
  BY <1>1, <1>2, SeenForm
<1>5. Tracked(p, t, loc).cache = run[p].cache
  BY <1>4 DEF Becomes
<1>6. DataAt(Tracked(p, t, loc), task[p].id)
  BY <1>1, <1>4, <1>5 DEF DataAt
<1> QED
  BY <1>3, <1>4, <1>6

(* What each step of a goroutine may rely on.                              *)
LEMMA AtStepContext ==
  ASSUME NEW p, NEW t, AtStep(p, t)
  PROVE  /\ task[p].id \in Workflows /\ t \in DOMAIN run[p].thread
         /\ ContextAt(run[p], task[p].id, SignalOf(p))
         /\ run[p].thread[t].loc # "join"
         /\ run[p].thread[t].at
              \in 1..(Len(CodeOf(task[p].id, run[p].thread[1].at, t)) + 1)
         /\ ErrOK(run[p].thread[t].err, SignalOf(p))
         /\ t = 1 => run[p].thread[t].err = NoOutcome
<1>1. /\ task[p].id \in Workflows /\ t \in DOMAIN run[p].thread
      /\ ContextAt(run[p], task[p].id, SignalOf(p))
      /\ run[p].thread[t].loc # "join"
  BY DEF AtStep
<1>2. PlacedAt(run[p], task[p].id) /\ ErrsAt(run[p], SignalOf(p))
  BY <1>1 DEF ContextAt
<1> QED
  BY <1>1, <1>2 DEF PlacedAt, ErrsAt, ThreadAt

(* A step that is entered and fails.                                       *)
LEMMA EnterRaises ==
  ASSUME NEW p \in Workers, NEW t, AtStep(p, t), run[p].thread[t].loc = "enter",
         NEW o, ErrOK(o, SignalOf(p)), o.kind # "none",
         Raise(p, t, Tracked(p, t, "enter"), o)
  PROVE  Ends(p) \/ MovesOn(p)
<1> DEFINE th == Counted(run[p].thread[t], Count(p, t), "enter")
<1>1. /\ Becomes(run[p], Tracked(p, t, "enter"), t, th)
      /\ IsThread(th) /\ th.at = run[p].thread[t].at
      /\ th.scope = run[p].thread[t].scope
      /\ DataAt(Tracked(p, t, "enter"), task[p].id)
  BY TrackedMove
<1> HIDE DEF th
<1> QED
  BY <1>1, AtStepContext, RaiseMoves

LEMMA EnterMoves ==
  ASSUME NEW p \in Workers, NEW t, AtStep(p, t), EnterStep(p, t)
  PROVE  Ends(p) \/ MovesOn(p)
<1>1. run[p].thread[t].loc = "enter"
  BY DEF EnterStep, InStep
<1>2. CASE NextName(p, t) \in run[p].seen
  <2>1. Raise(p, t, run[p], OutcomeOf("transient"))
    BY <1>2 DEF EnterStep
  <2>2. OutcomeOf("transient").kind # "none"
    BY DEF OutcomeOf
  <2> QED
    BY <2>1, <2>2, AtStepContext, RaiseHere, ErrForms
<1>3. CASE NextName(p, t) \notin run[p].seen /\ SignalOf(p) = "cancel_requested"
  <2>1. Raise(p, t, Tracked(p, t, "enter"), OutcomeOf("cancelled"))
    BY <1>3 DEF EnterStep, SignalOf
  <2>2. OutcomeOf("cancelled").kind # "none" /\ ErrOK(OutcomeOf("cancelled"), SignalOf(p))
    BY <1>3, ErrForms DEF OutcomeOf
  <2> QED
    BY <1>1, <2>1, <2>2, EnterRaises
<1>4. CASE NextName(p, t) \notin run[p].seen /\ SignalOf(p) # "cancel_requested"
  <2> DEFINE th == Counted(run[p].thread[t], Count(p, t), "lookup")
             q == Tracked(p, t, "lookup")
  <2>1. run' = [run EXCEPT ![p] = q] /\ UNCHANGED vars
    BY <1>4 DEF EnterStep, SignalOf, Continues
  <2>2. /\ Becomes(run[p], q, t, th)
        /\ IsThread(th) /\ th.at = run[p].thread[t].at
        /\ th.scope = run[p].thread[t].scope
        /\ th.loc = "lookup" /\ th.err = run[p].thread[t].err
        /\ th.count = Count(p, t) /\ DataAt(q, task[p].id)
    BY <1>1, TrackedMove
  <2> HIDE DEF th, q
  <2>3. /\ Code(p, t) = CodeOf(task[p].id, run[p].thread[1].at, t)
        /\ ThreadAt(run[p].thread[t], Code(p, t))
        /\ run[p].thread[t].at \in DOMAIN Code(p, t)
        /\ Code(p, t)[run[p].thread[t].at].kind # "parallel"
    BY AtStepForm DEF AtStep
  <2>4. \A k \in Numbered : Count(p, t)[k]
                              = CountAt(Code(p, t), run[p].thread[t].at, k)
    BY <1>1, NextNameForm
  <2>5. ThreadAt(th, CodeOf(task[p].id, run[p].thread[1].at, t))
    BY <2>2, <2>3, <2>4 DEF ThreadAt
  <2>6. ContextAt(q, task[p].id, SignalOf(p))
    BY <2>2, <2>5, AtStepContext, ContextMove
  <2> QED
    BY <2>1, <2>6 DEF MovesOn
<1> QED
  BY <1>2, <1>3, <1>4

(* The step of a goroutine has a result.                                   *)
LEMMA ObserveMoves ==
  ASSUME NEW p \in Workers, NEW t, AtStep(p, t),
         run[p].thread[t].loc \in {"lookup", "save"},
         NEW r \in StepResult, Observe(p, t, r)
  PROVE  Ends(p) \/ MovesOn(p)
<1> DEFINE view == Put(run[p].view, Site(p, t), r)
           th == Advanced(run[p].thread[t])
           told == [run[p] EXCEPT
                      !.thread[t] = [@ EXCEPT !.at = run[p].thread[t].at + 1,
                                              !.loc = "enter", !.val = NoResult],
                      !.view = Put(@, Site(p, t), r)]
<1>0. run[p] \in [thread : {run[p].thread}, seen : {run[p].seen},
                 cache : {run[p].cache}, view : {run[p].view}]
  BY AtStepForm DEF IsRun
<1>1. told = WithView(run[p], t, th, view)
  BY <1>0 DEF WithView, Advanced
<1>2. IF Step(p, t).kind = "sleep" /\ now < r.n
      THEN Raise(p, t, told, [kind |-> "suspend", resumeAt |-> r.n])
      ELSE Continues(p, told)
  BY DEF Observe
<1>3. /\ Code(p, t) = CodeOf(task[p].id, run[p].thread[1].at, t)
      /\ ThreadAt(run[p].thread[t], Code(p, t))
      /\ IsRun(run[p]) /\ IsThread(run[p].thread[t])
      /\ DataAt(run[p], task[p].id)
  BY AtStepForm
<1>4. Len(Code(p, t)) \in Nat /\ DOMAIN Code(p, t) = 1..Len(Code(p, t))
  BY AtStepCode
<1> HIDE DEF th, told
<1>5. /\ IsThread(th) /\ ThreadAt(th, Code(p, t))
      /\ th.scope = run[p].thread[t].scope /\ th.loc = "enter"
      /\ th.err = run[p].thread[t].err
  BY <1>3, <1>4, ObserveMove DEF th
<1>6. Known(view, DOMAIN NameOf[task[p].id])
  BY RunDataPut
<1> HIDE DEF view
<1>7. /\ Becomes(run[p], told, t, th) /\ told.seen = run[p].seen
      /\ told.view = view
  BY <1>1, <1>3, ViewForm
<1>8. told.cache = run[p].cache
  BY <1>7 DEF Becomes
<1>9. DataAt(told, task[p].id)
  BY <1>3, <1>6, <1>7, <1>8 DEF DataAt
<1>10. CASE Step(p, t).kind = "sleep" /\ now < r.n
  <2> DEFINE o == [kind |-> "suspend", resumeAt |-> r.n]
  <2>1. ErrOK(o, SignalOf(p)) /\ o.kind # "none"
    BY ResultTimes, ErrForms
  <2>2. Raise(p, t, told, o)
    BY <1>2, <1>10
  <2> HIDE DEF o
  <2>3. th.at \in 1..(Len(CodeOf(task[p].id, run[p].thread[1].at, t)) + 1)
    BY <1>3, <1>5 DEF ThreadAt
  <2> QED
    BY <1>5, <1>7, <1>9, <2>1, <2>2, <2>3, AtStepContext, RaiseMoves
<1>11. CASE ~(Step(p, t).kind = "sleep" /\ now < r.n)
  <2>1. run' = [run EXCEPT ![p] = told] /\ UNCHANGED vars
    BY <1>2, <1>11 DEF Continues
  <2>2. ContextAt(told, task[p].id, SignalOf(p))
    BY <1>3, <1>5, <1>7, <1>9, AtStepContext, ContextMove
  <2> QED
    BY <2>1, <2>2 DEF MovesOn
<1> QED
  BY <1>10, <1>11

(* A goroutine goes from one place of its step to another.                 *)
LEMMA PlaceMoves ==
  ASSUME NEW p \in Workers, NEW t, AtStep(p, t),
         run[p].thread[t].loc \in {"lookup", "fn", "save"},
         NEW loc \in {"fn", "save"}, NEW v \in StepResult \cup {NoResult},
         loc = "save" => v \in StepResult, Continues(p, Moved(p, t, loc, v))
  PROVE  MovesOn(p)
<1> DEFINE th == Placed(run[p].thread[t], loc, v)
           q == Moved(p, t, loc, v)
<1>1. q = WithThread(run[p], t, th)
  BY DEF Moved, WithThread, Placed
<1>2. /\ Code(p, t) = CodeOf(task[p].id, run[p].thread[1].at, t)
      /\ ThreadAt(run[p].thread[t], Code(p, t))
      /\ IsRun(run[p]) /\ IsThread(run[p].thread[t])
      /\ DataAt(run[p], task[p].id)
  BY AtStepForm
<1>3. run' = [run EXCEPT ![p] = q] /\ UNCHANGED vars
  BY DEF Continues
<1> HIDE DEF th, q
<1>4. /\ IsThread(th) /\ ThreadAt(th, Code(p, t))
      /\ th.scope = run[p].thread[t].scope /\ th.loc = loc
      /\ th.err = run[p].thread[t].err
  BY <1>2, LocMove DEF th
<1>5. Becomes(run[p], q, t, th) /\ q.seen = run[p].seen /\ q.view = run[p].view
  BY <1>1, <1>2, MoveForm
<1>6. q.cache = run[p].cache
  BY <1>5 DEF Becomes
<1>7. DataAt(q, task[p].id)
  BY <1>2, <1>5, <1>6 DEF DataAt
<1>8. th.loc # "join" /\ th.loc # "done"
  BY <1>4
<1>9. ContextAt(q, task[p].id, SignalOf(p))
  BY <1>2, <1>4, <1>5, <1>7, <1>8, AtStepContext, ContextMove
<1> QED
  BY <1>3, <1>9 DEF MovesOn

LEMMA LookupMoves ==
  ASSUME NEW p \in Workers, NEW t, AtStep(p, t), Lookup(p, t),
         Known(results[task[p].id], Names[task[p].id])
  PROVE  Ends(p) \/ MovesOn(p)
<1> DEFINE found == IF Cached(p, t) THEN run[p].cache ELSE results[task[p].id]
<1>1. run[p].thread[t].loc = "lookup"
  BY DEF Lookup, InStep
<1>2. IF NameHere(p, t) \in DOMAIN found
      THEN Observe(p, t, found[NameHere(p, t)])
      ELSE Continues(p, Moved(p, t, "fn", NoResult))
  BY DEF Lookup
<1>3. Known(run[p].cache, Names[task[p].id])
  BY AtStepForm DEF DataAt
<1>4. Known(found, Names[task[p].id])
  BY <1>3
<1> HIDE DEF found
<1>5. CASE NameHere(p, t) \in DOMAIN found
  <2>1. found[NameHere(p, t)] \in StepResult
    BY <1>4, <1>5, KnownForm
  <2> QED
    BY <1>1, <1>2, <1>5, <2>1, ObserveMoves
<1>6. CASE NameHere(p, t) \notin DOMAIN found
  <2>1. Continues(p, Moved(p, t, "fn", NoResult))
    BY <1>2, <1>6
  <2> QED
    BY <1>1, <2>1, PlaceMoves
<1> QED
  BY <1>5, <1>6

LEMMA RunFnMoves ==
  ASSUME NEW p \in Workers, NEW t, AtStep(p, t), RunFn(p, t), now \in 0..Horizon
  PROVE  MovesOn(p)
<1>1. run[p].thread[t].loc = "fn" /\ Step(p, t).kind \in {"run", "get", "sleep", "wait"}
  BY AtStepCode DEF RunFn, InStep
<1>2. PICK r : /\ \/ \E n \in Values : r = Result("value", n)
                  \/ r = Result("time", At(now + Step(p, t).span))
               /\ Continues(p, Moved(p, t, "save", r))
  <2>1. CASE Step(p, t).kind \in {"run", "get"}
    BY <2>1 DEF RunFn
  <2>2. CASE Step(p, t).kind = "sleep"
    BY <2>2 DEF RunFn
  <2>3. CASE Step(p, t).kind = "wait"
    BY <2>3 DEF RunFn
  <2> QED
    BY <1>1, <2>1, <2>2, <2>3
<1>3. At(now + Step(p, t).span) \in 0..Horizon
  BY AtType DEF At
<1>4. r \in StepResult
  BY <1>2, <1>3, ResultTimes
<1> QED
  BY <1>1, <1>2, <1>4, PlaceMoves

LEMMA FnErrorsOK ==
  ASSUME NEW p, NEW o \in FnErrors(p), NEW signal
  PROVE  ErrOK(o, signal) /\ o.kind # "none"
<1>1. /\ o \in Outcome /\ o.kind \in StepFaults
      /\ o.kind # "suspend" => o.resumeAt = NoTime
  BY DEF FnErrors
<1>2. o.kind # "none" /\ o.kind # "completed"
  BY <1>1, FaultsAssumption DEF Failures
<1>3. o = [kind |-> o.kind, resumeAt |-> o.resumeAt]
  BY <1>1 DEF Outcome
<1>4. o.kind # "suspend" => o = OutcomeOf(o.kind)
  BY <1>1, <1>3 DEF OutcomeOf
<1> QED
  BY <1>1, <1>2, <1>4 DEF ErrOK, Asked

LEMMA FnFailsMoves ==
  ASSUME NEW p \in Workers, NEW t, AtStep(p, t), FnFails(p, t)
  PROVE  Ends(p) \/ MovesOn(p)
<1>1. PICK o \in FnErrors(p) : Raise(p, t, run[p], o)
  BY DEF FnFails
<1>2. ErrOK(o, SignalOf(p)) /\ o.kind # "none"
  BY FnErrorsOK
<1> QED
  BY <1>1, <1>2, AtStepContext, RaiseHere

LEMMA WaitFnMoves ==
  ASSUME NEW p \in Workers, NEW t, AtStep(p, t), WaitFn(p, t)
  PROVE  Ends(p) \/ MovesOn(p)
<1> DEFINE at == At(now + Step(p, t).span)
<1>1. at \in 0..Horizon
  BY AtType
<1>2. Subscribes(p, t, at)
  BY DEF WaitFn
<1> HIDE DEF at
<1>3. CASE subs[Step(p, t).key] # NoSub
  <2>1. Raise(p, t, run[p], OutcomeOf("transient"))
    BY <1>2, <1>3 DEF Subscribes
  <2>2. OutcomeOf("transient").kind # "none"
    BY DEF OutcomeOf
  <2> QED
    BY <2>1, <2>2, ErrForms, AtStepContext, RaiseHere
<1>4. CASE subs[Step(p, t).key] = NoSub
  <2> DEFINE o == [kind |-> "suspend", resumeAt |-> at]
  <2>1. Raise(p, t, run[p], o)
    BY <1>2, <1>4 DEF Subscribes
  <2>2. ErrOK(o, SignalOf(p)) /\ o.kind # "none"
    BY <1>1, ErrForms
  <2> HIDE DEF o
  <2> QED
    BY <2>1, <2>2, AtStepContext, RaiseHere
<1> QED
  BY <1>3, <1>4

LEMMA SaveMoves ==
  ASSUME NEW p \in Workers, NEW t, AtStep(p, t), SaveStep(p, t)
  PROVE  Ends(p) \/ MovesOn(p)
<1>1. run[p].thread[t].loc = "save" /\ Observe(p, t, run[p].thread[t].val)
  BY DEF SaveStep, InStep
<1>2. run[p].thread[t].val \in StepResult
  BY <1>1, AtStepForm DEF ThreadAt
<1> QED
  BY <1>1, <1>2, ObserveMoves

LEMMA StepStoreFailsMoves ==
  ASSUME NEW p \in Workers, NEW t, AtStep(p, t), StepStoreFails(p, t)
  PROVE  Ends(p) \/ MovesOn(p)
<1>1. OutcomeOf("transient").kind # "none" /\ ErrOK(OutcomeOf("transient"), SignalOf(p))
  BY ErrForms DEF OutcomeOf
<1>2. CASE /\ InStep(p, t, "enter")
           /\ Raise(p, t, Tracked(p, t, "enter"), OutcomeOf("transient"))
  <2>1. run[p].thread[t].loc = "enter"
    BY <1>2 DEF InStep
  <2> QED
    BY <1>1, <1>2, <2>1, EnterRaises
<1>3. CASE Raise(p, t, run[p], OutcomeOf("transient"))
  BY <1>1, <1>3, AtStepContext, RaiseHere
<1> QED
  BY <1>2, <1>3 DEF StepStoreFails

LEMMA GoroutineAtStep ==
  ASSUME NEW p \in Workers, task[p].id \in Workflows,
         ContextAt(run[p], task[p].id, SignalOf(p)),
         NEW t \in DOMAIN run[p].thread, Goroutine(p, t)
  PROVE  AtStep(p, t)
<1>1. /\ run[p].thread[t].at \in DOMAIN Code(p, t)
      /\ run[p].thread[t].loc \in {"enter", "lookup", "fn", "save"}
      /\ run[p].thread[t].loc = "enter" => Step(p, t).kind # "parallel"
  <2>1. CASE EnterStep(p, t)
    BY <2>1 DEF EnterStep, InStep
  <2>2. CASE Lookup(p, t)
    BY <2>2 DEF Lookup, InStep
  <2>3. CASE RunFn(p, t) \/ FnFails(p, t) \/ WaitFn(p, t)
    BY <2>3 DEF RunFn, FnFails, WaitFn, InStep
  <2>4. CASE SaveStep(p, t)
    BY <2>4 DEF SaveStep, InStep
  <2>5. CASE StepStoreFails(p, t)
    BY <2>5 DEF StepStoreFails, InStep
  <2> QED
    BY <2>1, <2>2, <2>3, <2>4, <2>5 DEF Goroutine
<1>2. ThreadAt(run[p].thread[t], CodeOf(task[p].id, run[p].thread[1].at, t))
  BY DEF ContextAt, PlacedAt
<1>3. /\ CodeOf(task[p].id, run[p].thread[1].at, t) = Code(p, t)
      /\ Step(p, t) = Code(p, t)[run[p].thread[t].at]
  BY DEF Code, CodeOf, Main, Here, Step
<1>4. Step(p, t).kind # "parallel"
  BY <1>1, <1>2, <1>3 DEF ThreadAt
<1> QED
  BY <1>1, <1>4 DEF AtStep

(* A step of a goroutine ends the execution or moves its context on.       *)
LEMMA GoroutineMoves ==
  ASSUME NEW p \in Workers, NEW t, AtStep(p, t), Goroutine(p, t),
         now \in 0..Horizon, Known(results[task[p].id], Names[task[p].id])
  PROVE  Ends(p) \/ MovesOn(p)
<1>1. CASE EnterStep(p, t)
  BY <1>1, EnterMoves
<1>2. CASE Lookup(p, t)
  BY <1>2, LookupMoves
<1>3. CASE RunFn(p, t)
  BY <1>3, RunFnMoves
<1>4. CASE FnFails(p, t)
  BY <1>4, FnFailsMoves
<1>5. CASE WaitFn(p, t)
  BY <1>5, WaitFnMoves
<1>6. CASE SaveStep(p, t)
  BY <1>6, SaveMoves
<1>7. CASE StepStoreFails(p, t)
  BY <1>7, StepStoreFailsMoves
<1> QED
  BY <1>1, <1>2, <1>3, <1>4, <1>5, <1>6, <1>7 DEF Goroutine

-----------------------------------------------------------------------------
(* The tables                                                              *)

(* Only steps of a workflow have results, or may be waited for.            *)
SubOK(s) == s \in Subscription /\ s.name \in Names[s.id]

TablesOK ==
  /\ results = [w \in Workflows |-> results[w]]
  /\ subs = [k \in Keys |-> subs[k]]
  /\ \A w \in Workflows : Known(results[w], Names[w])
  /\ \A k \in Keys : subs[k] = NoSub \/ SubOK(subs[k])

(* What a goroutine does to the tables: it saves the result of its step,   *)
(* subscribes to its key, or leaves them alone.                            *)
Saves(p, t) ==
  /\ InStep(p, t, "save")
  /\ results' = [results EXCEPT ![task[p].id] =
                   Put(@, NameHere(p, t), run[p].thread[t].val)]
  /\ UNCHANGED <<subs, tick>>

SubscribesTo(p, t) ==
  /\ InStep(p, t, "fn") /\ Step(p, t).kind = "wait"
  /\ subs' = [subs EXCEPT ![Step(p, t).key] =
                [id |-> task[p].id, name |-> NameHere(p, t),
                 deadline |-> At(now + Step(p, t).span)]]
  /\ UNCHANGED <<results, tick>>

LEMMA GoroutineTables ==
  ASSUME NEW p, NEW t, Goroutine(p, t)
  PROVE  Saves(p, t) \/ SubscribesTo(p, t) \/ UNCHANGED <<results, subs, tick>>
<1>1. CASE EnterStep(p, t)
  BY <1>1 DEF EnterStep
<1>2. CASE Lookup(p, t)
  BY <1>2 DEF Lookup
<1>3. CASE RunFn(p, t)
  BY <1>3 DEF RunFn
<1>4. CASE FnFails(p, t)
  BY <1>4 DEF FnFails
<1>5. CASE WaitFn(p, t)
  BY <1>5 DEF WaitFn, Subscribes, SubscribesTo
<1>6. CASE SaveStep(p, t)
  BY <1>6 DEF SaveStep, Saves
<1>7. CASE StepStoreFails(p, t)
  BY <1>7 DEF StepStoreFails
<1> QED
  BY <1>1, <1>2, <1>3, <1>4, <1>5, <1>6, <1>7 DEF Goroutine

LEMMA SavesTables ==
  ASSUME TablesOK, NEW p, NEW t, AtStep(p, t), Saves(p, t)
  PROVE  TablesOK'
<1> DEFINE w == task[p].id
           name == NameHere(p, t)
           val == run[p].thread[t].val
<1>1. run[p].thread[t].loc = "save"
  BY DEF Saves, InStep
<1>2. w \in Workflows
  BY DEF AtStep
<1>3. name \in Names[w]
  BY <1>1, NameHereForm, AtStepCode
<1>4. val \in StepResult
  BY <1>1, AtStepForm DEF ThreadAt
<1>5. results' = [results EXCEPT ![w] = Put(results[w], name, val)] /\ subs' = subs
  BY DEF Saves
<1> HIDE DEF w, name, val
<1>6. Known(Put(results[w], name, val), Names[w])
  BY <1>2, <1>3, <1>4, KnownPut DEF TablesOK
<1>7. \A v \in Workflows : Known(results'[v], Names[v])
  <2> SUFFICES ASSUME NEW v \in Workflows PROVE Known(results'[v], Names[v])
    OBVIOUS
  <2>1. CASE v = w
    BY <1>2, <1>5, <1>6, <2>1 DEF TablesOK
  <2>2. CASE v # w
    BY <1>2, <1>5, <2>2 DEF TablesOK
  <2> QED
    BY <2>1, <2>2
<1>8. results' = [v \in Workflows |-> results'[v]]
  BY <1>5 DEF TablesOK
<1> QED
  BY <1>5, <1>7, <1>8 DEF TablesOK

LEMMA SubscribesTables ==
  ASSUME TablesOK, NEW p, NEW t, AtStep(p, t), SubscribesTo(p, t)
  PROVE  TablesOK'
<1> DEFINE w == task[p].id
           name == NameHere(p, t)
           at == At(now + Step(p, t).span)
           key == Step(p, t).key
           sub == [id |-> w, name |-> name, deadline |-> at]
<1>1. run[p].thread[t].loc = "fn"
  BY DEF SubscribesTo, InStep
<1>2. w \in Workflows
  BY DEF AtStep
<1>3. name \in Names[w]
  BY <1>1, NameHereForm, AtStepCode
<1>4. at \in 0..Horizon
  BY AtType
<1>5. subs' = [subs EXCEPT ![key] = sub] /\ results' = results
  BY DEF SubscribesTo
<1> HIDE DEF w, name, at, key
<1>6. sub.name = name /\ sub.id = w /\ sub \in Subscription
  BY <1>2, <1>3, <1>4 DEF Subscription
<1>7. SubOK(sub)
  BY <1>3, <1>6 DEF SubOK
<1> HIDE DEF sub
<1>8. \A k \in Keys : subs'[k] = NoSub \/ SubOK(subs'[k])
  BY <1>5, <1>7 DEF TablesOK
<1>9. subs' = [k \in Keys |-> subs'[k]]
  BY <1>5 DEF TablesOK
<1> QED
  BY <1>5, <1>8, <1>9 DEF TablesOK

(* Results are delivered to the workflows that wait for them, under the    *)
(* names of the steps that wait.                                           *)
LEMMA DeliverTables ==
  ASSUME TablesOK, NEW K \in SUBSET Keys, NEW r \in StepResult, Deliver(K, r)
  PROVE  TablesOK'
<1>1. subs' = [k \in Keys |-> IF k \in K THEN NoSub ELSE subs[k]]
  BY DEF Deliver
<1>2. ASSUME NEW w \in Workflows
      PROVE  Known(results'[w], Names[w])
  <2> DEFINE names == {subs[k].name : k \in {h \in K : subs[h].id = w}}
             got == [n \in names |-> r]
  <2>1. results'[w] = Merge(results[w], got)
    BY DEF Deliver
  <2>2. \A n \in names : n \in Names[w]
    <3> SUFFICES ASSUME NEW k \in K, subs[k].id = w PROVE subs[k].name \in Names[w]
      OBVIOUS
    <3>1. subs[k] # NoSub
      BY WorkflowsAssumption DEF NoSub
    <3> QED
      BY <3>1 DEF TablesOK, SubOK
  <2>3. DOMAIN got = names /\ \A n \in names : got[n] = r
    OBVIOUS
  <2> HIDE DEF names, got
  <2>4. \A x \in DOMAIN results[w] : x \in Names[w] /\ results[w][x] \in StepResult
    BY KnownForm DEF TablesOK
  <2>5. ASSUME NEW x \in DOMAIN Merge(results[w], got)
        PROVE  x \in Names[w] /\ Merge(results[w], got)[x] \in StepResult
    <3>1. x \in DOMAIN results[w] \cup DOMAIN got
      BY MergeForm
    <3>2. CASE x \in DOMAIN got
      <4>1. Merge(results[w], got)[x] = got[x]
        BY <3>2 DEF Merge
      <4> QED
        BY <2>2, <2>3, <3>2, <4>1
    <3>3. CASE x \notin DOMAIN got
      <4>1. Merge(results[w], got)[x] = results[w][x]
        BY <3>1, <3>3 DEF Merge
      <4> QED
        BY <2>4, <3>1, <3>3, <4>1
    <3> QED
      BY <3>2, <3>3
  <2> QED
    BY <2>1, <2>5, KnownForm
<1>3. results' = [w \in Workflows |-> results'[w]]
  BY DEF Deliver
<1>4. subs' = [k \in Keys |-> subs'[k]]
  BY <1>1
<1>5. \A k \in Keys : subs'[k] = NoSub \/ SubOK(subs'[k])
  BY <1>1 DEF TablesOK
<1> QED
  BY <1>2, <1>3, <1>4, <1>5 DEF TablesOK

-----------------------------------------------------------------------------
(* The invariant                                                           *)

(* A worker has a context from the prefetch to the end of the execution,   *)
(* and is in it where its program says.                                    *)
RunOK(p) ==
  /\ run[p] # NoRun =>
       /\ pc[p] \in {"signal", "execute"}
       /\ task[p].id \in Workflows
       /\ ContextAt(run[p], task[p].id, SignalOf(p))
  /\ pc[p] = "execute" => run[p] # NoRun

TicksOK == tick \in [Engines -> {"promote", "timeout"}]

RunsOK == /\ run = [p \in Workers |-> run[p]]
          /\ \A p \in Workers : RunOK(p)

StepsInv == TablesOK /\ TicksOK /\ RunsOK

LEMMA StepsInitInv == StepsInit => StepsInv
<1> SUFFICES ASSUME StepsInit PROVE StepsInv
  OBVIOUS
<1>1. TablesOK
  <2>1. \A w \in Workflows : results[w] = <<>>
    BY DEF StepsInit
  <2>2. \A w \in Workflows : Known(results[w], Names[w])
    BY <2>1, KnownForm
  <2> QED
    BY <2>2 DEF StepsInit, TablesOK
<1>2. TicksOK
  BY DEF StepsInit, TicksOK
<1>3. RunsOK
  <2>1. \A p \in Workers : run[p] = NoRun
    BY DEF StepsInit
  <2>2. \A p \in Workers : pc[p] = "idle"
    BY DEF StepsInit, Init
  <2> QED
    BY <2>1, <2>2 DEF StepsInit, RunsOK, RunOK
<1> QED
  BY <1>1, <1>2, <1>3 DEF StepsInv

-----------------------------------------------------------------------------
(* The beginning and the end of an execution, Parallel                     *)

LEMMA LeastNatural ==
  ASSUME NEW T \in SUBSET Nat, T # {}
  PROVE  \E n \in T : \A m \in T : n <= m
<1> DEFINE R == OpToRel(<, Nat)
<1>1. IsWellFoundedOn(R, Nat)
  BY NatLessThanWellFounded
<1>2. \A n, m \in Nat : n < m => <<n, m>> \in R
  BY DEF OpToRel
<1> HIDE DEF R
<1>3. PICK n \in T : \A m \in T : ~(<<m, n>> \in R)
  BY <1>1, WFMin
<1>4. ASSUME NEW m \in T
      PROVE  n <= m
  <2>1. m \in Nat /\ n \in Nat
    OBVIOUS
  <2>2. ~(m < n)
    BY <1>2, <1>3, <2>1
  <2> QED
    BY <2>1, <2>2
<1> QED
  BY <1>3, <1>4

LEMMA FirstIn ==
  ASSUME NEW T \in SUBSET Nat, T # {}
  PROVE  First(T) \in T
BY LeastNatural DEF First

(* The goroutines that sleep have one that sleeps longest.                 *)
LEMMA LatestIn ==
  ASSUME NEW T, NEW f, \A t \in T : f[t] \in 0..Horizon, T # {}
  PROVE  \E t \in T : \A u \in T : f[t] >= f[u]
<1> DEFINE D == {Horizon - f[t] : t \in T}
<1>1. D \in SUBSET Nat /\ D # {}
  BY HorizonAssumption
<1>2. PICK n \in D : \A m \in D : n <= m
  BY <1>1, LeastNatural
<1>3. PICK t \in T : n = Horizon - f[t]
  BY <1>2
<1>4. ASSUME NEW u \in T
      PROVE  f[t] >= f[u]
  <2>1. Horizon - f[t] <= Horizon - f[u]
    BY <1>2, <1>3
  <2>2. f[t] \in Nat /\ f[u] \in Nat /\ Horizon \in Nat
    BY HorizonAssumption
  <2> QED
    BY <2>1, <2>2
<1> QED
  BY <1>4

LEMMA FreshThread ==
  ASSUME NEW scope, NEW code, Len(code) \in Nat,
         NEW th, th = Thread(scope, "enter")
  PROVE  /\ IsThread(th) /\ ThreadAt(th, code)
         /\ th.scope = scope /\ th.loc = "enter" /\ th.err = NoOutcome /\ th.at = 1
<1>1. /\ th.scope = scope /\ th.loc = "enter" /\ th.err = NoOutcome
      /\ th.at = 1 /\ th.val = NoResult /\ th.count = [k \in Numbered |-> 0]
  BY DEF Thread
<1>2. NoOutcome \in Outcome
  BY ErrForms DEF ErrOK
<1>3. IsThread(th)
  BY <1>2 DEF Thread, IsThread, Locations
<1>4. \A k \in Numbered : CountAt(code, 0, k) = 0
  BY CountNone
<1>5. ThreadAt(th, code)
  BY <1>1, <1>4 DEF ThreadAt
<1> QED
  BY <1>1, <1>3, <1>5

(* The context of an execution that begins: nothing was run yet.           *)
LEMMA PrefetchMoves ==
  ASSUME NEW p \in Workers, task[p].id \in Workflows, RunsOK,
         Known(results[task[p].id], Names[task[p].id]), Prefetch(p)
  PROVE  /\ run' = [run EXCEPT ![p] = run'[p]]
         /\ run'[p] # NoRun
         /\ ContextAt(run'[p], task[p].id, SignalOf(p))
<1> DEFINE w == task[p].id
           th == Thread(Root, "enter")
           q == run'[p]
<1>1. /\ q.thread = <<th>> /\ q.cache = results[w]
      /\ q.seen = {} /\ q.view = <<>>
      /\ q \in [thread : {q.thread}, seen : {q.seen}, cache : {q.cache}, view : {q.view}]
  <2>1. run[p] = NoRun /\ p \in DOMAIN run
    BY DEF Prefetch, RunsOK
  <2>2. q = [NoRun EXCEPT !.thread = <<th>>, !.cache = results[w]]
    BY <2>1 DEF Prefetch
  <2> QED
    BY <2>2 DEF NoRun
<1>2. run' = [run EXCEPT ![p] = q]
  BY DEF Prefetch, RunsOK
<1>3. q # NoRun
  <2>1. th.loc = "enter" /\ NoRun.thread[1].loc = "prefetch"
    BY DEF Thread, NoRun
  <2> QED
    BY <1>1, <2>1
<1> HIDE DEF q
<1>4. Len(Program[w]) \in Nat /\ CodeOf(w, 1, 1) = Program[w]
  BY MainCode DEF CodeOf
<1>0. th = Thread(Root, "enter")
  OBVIOUS
<1> HIDE DEF th
<1>5. /\ IsThread(th) /\ ThreadAt(th, CodeOf(w, 1, 1))
      /\ th.scope = Root /\ th.loc = "enter" /\ th.err = NoOutcome /\ th.at = 1
  BY <1>0, <1>4, FreshThread
<1>6. DOMAIN q.thread = 1..1 /\ q.thread[1] = th
  BY <1>1
<1>7. IsRun(q)
  <2>1. q.thread = [i \in 1..1 |-> q.thread[i]]
    BY <1>1, <1>6
  <2>2. \E n \in Nat \ {0} : q.thread = [i \in 1..n |-> q.thread[i]]
    BY <2>1
  <2>3. \A t \in DOMAIN q.thread : IsThread(q.thread[t])
    BY <1>5, <1>6
  <2>4. q \in [thread : {q.thread}, seen : {q.seen}, cache : {q.cache}, view : {q.view}]
    BY <1>1
  <2> QED
    BY <2>2, <2>3, <2>4 DEF IsRun
<1>8. PlacedAt(q, w)
  BY <1>5, <1>6, <1>7 DEF PlacedAt, Forks, ScopeAt
<1>9. DataAt(q, w)
  BY <1>1, KnownForm DEF DataAt
<1>10. ErrsAt(q, SignalOf(p))
  BY <1>5, <1>6, ErrForms DEF ErrsAt
<1> QED
  BY <1>2, <1>3, <1>8, <1>9, <1>10 DEF ContextAt, q

(* A goroutine in front of others.                                         *)
InFront(c, x, s) ==
  /\ c = [i \in 1..(Len(s) + 1) |-> c[i]]
  /\ c[1] = x
  /\ \A i \in 1..Len(s) : c[i + 1] = s[i]

LEMMA ConsForm ==
  ASSUME NEW S, NEW x \in S, NEW s \in Seq(S)
  PROVE  InFront(<<x>> \o s, x, s)
<1> DEFINE c == <<x>> \o s
<1>1. <<x>> \in Seq(S) /\ Len(<<x>>) = 1 /\ <<x>>[1] = x
  OBVIOUS
<1>2. Len(s) \in Nat
  BY LenProperties
<1>3. /\ c \in Seq(S) /\ Len(c) = 1 + Len(s)
      /\ \A i \in 1..(1 + Len(s)) : c[i] = IF i <= 1 THEN <<x>>[i] ELSE s[i - 1]
  BY <1>1, ConcatProperties
<1>4. c \in [1..Len(c) -> S]
  BY <1>3, LenProperties
<1> HIDE DEF c
<1>5. c = [i \in 1..(Len(s) + 1) |-> c[i]]
  BY <1>2, <1>3, <1>4
<1>6. c[1] = x
  BY <1>1, <1>2, <1>3
<1>7. ASSUME NEW i \in 1..Len(s)
      PROVE  c[i + 1] = s[i]
  <2>1. i + 1 \in 1..(1 + Len(s)) /\ ~(i + 1 <= 1) /\ (i + 1) - 1 = i
    BY <1>2
  <2>2. c[i + 1] = s[(i + 1) - 1]
    BY <1>3, <2>1
  <2> QED
    BY <2>1, <2>2
<1> QED
  BY <1>5, <1>6, <1>7 DEF c, InFront

LEMMA SeqOfFunction ==
  ASSUME NEW n \in Nat, NEW S, NEW s \in [1..n -> S]
  PROVE  s \in Seq(S) /\ Len(s) = n
OBVIOUS

MainAt(th, loc, n) == [th EXCEPT !.loc = loc, !.at = n]

(* A main thread that is at no step of its own any more, or not yet.       *)
LEMMA MainMoves ==
  ASSUME NEW th, IsThread(th), NEW loc \in {"enter", "join"}, NEW n \in Nat \ {0},
         NEW th2, th2 = MainAt(th, loc, n)
  PROVE  /\ IsThread(th2) /\ th2.loc = loc /\ th2.at = n
         /\ th2.scope = th.scope /\ th2.count = th.count
         /\ th2.err = th.err /\ th2.val = th.val
<1>1. th \in [scope : {th.scope}, at : Nat \ {0}, loc : Locations,
              val : StepResult \cup {NoResult}, count : [Numbered -> Nat],
              err : Outcome]
  BY DEF IsThread
<1>2. /\ th2.scope = th.scope /\ th2.loc = loc /\ th2.err = th.err
      /\ th2.at = n /\ th2.count = th.count /\ th2.val = th.val
  BY <1>1 DEF MainAt
<1>3. loc \in Locations
  BY DEF Locations
<1>4. IsThread(th2)
  BY <1>1, <1>3 DEF IsThread, MainAt
<1> QED
  BY <1>2, <1>4

LEMMA ForkMoves ==
  ASSUME NEW p \in Workers, task[p].id \in Workflows,
         ContextAt(run[p], task[p].id, SignalOf(p)), Fork(p)
  PROVE  MovesOn(p)
<1> DEFINE w == task[p].id
           r == run[p]
           th == r.thread[1]
           i == th.at
           branches == Program[w][i].branches
           main == [th EXCEPT !.loc = "join"]
           forked == [b \in DOMAIN branches |-> Scope(branches[b].name)]
           q == [r EXCEPT !.thread = <<main>> \o forked]
<1>1. /\ th.loc = "enter" /\ i \in DOMAIN Program[w]
      /\ Program[w][i].kind = "parallel" /\ 1 \in DOMAIN r.thread
      /\ run' = [run EXCEPT ![p] = q] /\ UNCHANGED vars
  BY DEF Fork, InStep, Step, Code, Main, Continues
<1>2. /\ IsRun(r) /\ PlacedAt(r, w) /\ DataAt(r, w) /\ ErrsAt(r, SignalOf(p))
      /\ th.err = NoOutcome /\ th.scope = Root /\ IsThread(th)
      /\ ThreadAt(th, Program[w])
  <2>1. /\ IsRun(r) /\ PlacedAt(r, w) /\ DataAt(r, w) /\ ErrsAt(r, SignalOf(p))
    BY DEF ContextAt, PlacedAt
  <2>2. /\ ThreadAt(th, CodeOf(w, i, 1)) /\ th.scope = ScopeAt(w, i, 1)
        /\ th.err = NoOutcome /\ IsThread(th)
    BY <1>1, <2>1 DEF PlacedAt, IsRun
  <2> QED
    BY <2>1, <2>2 DEF CodeOf, ScopeAt
<1>3. /\ Len(branches) \in Nat /\ DOMAIN branches = 1..Len(branches)
      /\ \A b \in DOMAIN branches : Len(branches[b].steps) \in Nat
  BY <1>1, BranchCode
<1>4. /\ IsThread(main) /\ main.loc = "join" /\ main.at = i
      /\ main.scope = Root /\ main.count = th.count
      /\ main.err = NoOutcome /\ main.val = th.val
  <2>1. i \in Nat \ {0}
    BY <1>2 DEF IsThread
  <2>2. main = MainAt(th, "join", i)
    BY <1>2 DEF IsThread, MainAt
  <2>3. th.err = NoOutcome /\ th.scope = Root /\ IsThread(th)
    BY <1>2
  <2> HIDE DEF main, th, i, r
  <2>4. /\ IsThread(main) /\ main.loc = "join" /\ main.at = i
        /\ main.scope = th.scope /\ main.count = th.count
        /\ main.err = th.err /\ main.val = th.val
    BY <2>1, <2>2, <2>3, MainMoves
  <2> QED
    BY <2>3, <2>4
<1>5. \A b \in DOMAIN branches :
        /\ IsThread(forked[b]) /\ ThreadAt(forked[b], branches[b].steps)
        /\ forked[b].scope = branches[b].name /\ forked[b].loc = "enter"
        /\ forked[b].err = NoOutcome
  <2> SUFFICES ASSUME NEW b \in DOMAIN branches
               PROVE  /\ IsThread(forked[b]) /\ ThreadAt(forked[b], branches[b].steps)
                      /\ forked[b].scope = branches[b].name /\ forked[b].loc = "enter"
                      /\ forked[b].err = NoOutcome
    OBVIOUS
  <2>1. forked[b] = Thread(branches[b].name, "enter")
    BY DEF Scope
  <2>2. Len(branches[b].steps) \in Nat
    BY <1>3
  <2> HIDE DEF forked, branches, main, q
  <2> QED
    BY <2>1, <2>2, FreshThread
<1>6. forked \in Seq(Range(forked) \cup {main}) /\ Len(forked) = Len(branches)
  <2> DEFINE S == Range(forked) \cup {main}
             n == Len(branches)
  <2>1. n \in Nat /\ forked = [b \in 1..n |-> forked[b]]
    BY <1>3
  <2>2. \A b \in 1..n : forked[b] \in S
    BY <2>1 DEF Range
  <2> HIDE DEF S, n, forked
  <2>3. forked \in [1..n -> S]
    BY <2>1, <2>2
  <2>4. forked \in Seq(S) /\ Len(forked) = n
    BY <2>1, <2>3, SeqOfFunction
  <2> QED
    BY <2>4 DEF S, n
<1>7. r \in [thread : {r.thread}, seen : {r.seen}, cache : {r.cache}, view : {r.view}]
  BY <1>2 DEF IsRun
<1>8. /\ q.thread = <<main>> \o forked /\ q.seen = r.seen /\ q.cache = r.cache
      /\ q.view = r.view
      /\ q \in [thread : {q.thread}, seen : {q.seen}, cache : {q.cache}, view : {q.view}]
  BY <1>7
<1> HIDE DEF main, forked, q, branches
<1>9. /\ q.thread = [t \in 1..(Len(branches) + 1) |-> q.thread[t]]
      /\ q.thread[1] = main
      /\ \A b \in 1..Len(branches) : q.thread[b + 1] = forked[b]
  <2> DEFINE S == Range(forked) \cup {main}
  <2>1. main \in S /\ forked \in Seq(S)
    BY <1>6
  <2> HIDE DEF S
  <2>2. InFront(<<main>> \o forked, main, forked)
    BY <2>1, ConsForm
  <2> QED
    BY <1>6, <1>8, <2>2 DEF InFront
<1>10. DOMAIN q.thread = 1..(Len(branches) + 1)
  BY <1>9
<1>11. \A t \in DOMAIN q.thread :
         t = 1 \/ (t - 1 \in DOMAIN branches /\ q.thread[t] = forked[t - 1])
  <2> SUFFICES ASSUME NEW t \in DOMAIN q.thread, t # 1
               PROVE  t - 1 \in DOMAIN branches /\ q.thread[t] = forked[t - 1]
    OBVIOUS
  <2>1. t - 1 \in 1..Len(branches) /\ (t - 1) + 1 = t
    BY <1>3, <1>10
  <2> QED
    BY <1>3, <1>9, <2>1
<1>12. IsRun(q)
  <2>1. \A t \in DOMAIN q.thread : IsThread(q.thread[t])
    BY <1>4, <1>5, <1>9, <1>11
  <2>2. Len(branches) + 1 \in Nat \ {0}
    BY <1>3
  <2> QED
    BY <1>8, <1>9, <2>1, <2>2 DEF IsRun
<1>13. ASSUME NEW t \in DOMAIN q.thread
       PROVE  /\ ThreadAt(q.thread[t], CodeOf(w, i, t))
              /\ q.thread[t].scope = ScopeAt(w, i, t)
              /\ t # 1 => q.thread[t].loc # "join"
              /\ q.thread[t].err = NoOutcome
  <2>1. CASE t = 1
    <3>1. ThreadAt(main, Program[w])
      BY <1>1, <1>2, <1>4 DEF ThreadAt
    <3> QED
      BY <1>4, <1>9, <2>1, <3>1 DEF CodeOf, ScopeAt
  <2>2. CASE t # 1
    <3>1. t - 1 \in DOMAIN branches /\ q.thread[t] = forked[t - 1]
      BY <1>11, <2>2
    <3>2. /\ ThreadAt(forked[t - 1], branches[t - 1].steps)
          /\ forked[t - 1].scope = branches[t - 1].name
          /\ forked[t - 1].loc = "enter" /\ forked[t - 1].err = NoOutcome
      BY <1>5, <3>1
    <3> QED
      BY <2>2, <3>1, <3>2 DEF CodeOf, ScopeAt, branches
  <2> QED
    BY <2>1, <2>2
<1>14. PlacedAt(q, w)
  <2>1. Forks(q, w)
    BY <1>1, <1>4, <1>9, <1>10 DEF Forks, branches
  <2> QED
    BY <1>4, <1>9, <1>12, <1>13, <2>1 DEF PlacedAt
<1>15. DataAt(q, w)
  BY <1>2, <1>8 DEF DataAt
<1>16. ErrsAt(q, SignalOf(p))
  BY <1>13, ErrForms DEF ErrsAt
<1> QED
  BY <1>1, <1>14, <1>15, <1>16 DEF ContextAt, MovesOn

(* What Parallel returns is the error of one of its branches.              *)
LEMMA JoinedIsAnError ==
  ASSUME NEW r, IsRun(r), NEW signal, ErrsAt(r, signal), Joined(r.thread) # NoOutcome
  PROVE  ErrOK(Joined(r.thread), signal) /\ Joined(r.thread).kind # "none"
<1> DEFINE T == r.thread
<1>1. \A t \in DOMAIN T : t \in Nat /\ ErrOK(T[t].err, signal)
  BY RunDomain DEF ErrsAt
<1>2. \A t \in DOMAIN T : T[t].err.resumeAt \in 0..Horizon
  BY <1>1 DEF ErrOK, Outcome
<1> HIDE DEF T
<1>3. CASE Failed(T) # {}
  <2>1. Failed(T) \in SUBSET Nat
    BY <1>1 DEF Failed, Errors
  <2>2. First(Failed(T)) \in Failed(T)
    BY <1>3, <2>1, FirstIn
  <2>3. Joined(T) = T[First(Failed(T))].err
    BY <1>3 DEF Joined
  <2>4. ErrOK(Joined(T), signal) /\ Joined(T).kind # "none"
    BY <1>1, <2>2, <2>3 DEF Failed, Errors, Failures
  <2> QED
    BY <2>4 DEF T
<1>4. CASE Failed(T) = {} /\ Asleep(T) # {}
  <2> DEFINE f == [t \in Asleep(T) |-> T[t].err.resumeAt]
             latest == CHOOSE t \in Asleep(T) : \A u \in Asleep(T) :
                         T[t].err.resumeAt >= T[u].err.resumeAt
  <2>1. \A t \in Asleep(T) : f[t] \in 0..Horizon /\ f[t] = T[t].err.resumeAt
    BY <1>2 DEF Asleep, Errors
  <2> HIDE DEF f
  <2>2. \E t \in Asleep(T) : \A u \in Asleep(T) : f[t] >= f[u]
    BY <1>4, <2>1, LatestIn
  <2>3. \E t \in Asleep(T) : \A u \in Asleep(T) :
          T[t].err.resumeAt >= T[u].err.resumeAt
    BY <2>1, <2>2
  <2>4. latest \in Asleep(T)
    BY <2>3
  <2>5. Joined(T) = T[latest].err
    BY <1>4 DEF Joined
  <2> HIDE DEF latest
  <2>6. ErrOK(Joined(T), signal) /\ Joined(T).kind # "none"
    BY <1>1, <2>4, <2>5 DEF Asleep, Errors
  <2> QED
    BY <2>6 DEF T
<1>5. Failed(T) # {} \/ Asleep(T) # {}
  BY DEF Joined, T
<1> QED
  BY <1>3, <1>4, <1>5

LEMMA NextPlace ==
  ASSUME NEW n \in Nat, NEW i \in 1..n
  PROVE  i \in Nat \ {0} /\ i + 1 \in Nat \ {0} /\ (i + 1) - 1 = i /\ i + 1 \in 1..(n + 1)
OBVIOUS

LEMMA JoinMoves ==
  ASSUME NEW p \in Workers, task[p].id \in Workflows,
         ContextAt(run[p], task[p].id, SignalOf(p)), Join(p)
  PROVE  Ends(p) \/ MovesOn(p)
<1> DEFINE w == task[p].id
           r == run[p]
           th == r.thread[1]
           i == th.at
           main == [th EXCEPT !.loc = "enter", !.at = i + 1]
           q == [r EXCEPT !.thread = <<main>>]
<1>1. /\ IsRun(r) /\ PlacedAt(r, w) /\ DataAt(r, w) /\ ErrsAt(r, SignalOf(p))
      /\ 1 \in DOMAIN r.thread
  BY RunDomain DEF ContextAt, PlacedAt
<1>2. CASE Joined(r.thread) # NoOutcome
  <2>1. Return(p, Joined(r.thread)) /\ run' = [run EXCEPT ![p] = NoRun]
    BY <1>2 DEF Join, Forget
  <2>2. ErrOK(Joined(r.thread), SignalOf(p)) /\ Joined(r.thread).kind # "none"
    BY <1>1, <1>2, JoinedIsAnError
  <2> QED
    BY <2>1, <2>2 DEF Ends
<1>3. CASE Joined(r.thread) = NoOutcome
  <2>1. run' = [run EXCEPT ![p] = q] /\ UNCHANGED vars
    BY <1>3 DEF Join, Continues, Here
  <2>2. /\ th.loc = "join" /\ i \in DOMAIN Program[w]
        /\ Program[w][i].kind = "parallel"
    BY <1>1 DEF Join, Forked, PlacedAt, Forks
  <2>3. /\ IsThread(th) /\ th.scope = Root /\ th.err = NoOutcome
        /\ ThreadAt(th, Program[w])
    BY <1>1 DEF PlacedAt, IsRun, CodeOf, ScopeAt
  <2>4. i \in Nat \ {0} /\ DOMAIN Program[w] = 1..Len(Program[w]) /\ Len(Program[w]) \in Nat
    BY <2>3, MainCode DEF IsThread
  <2>5. i + 1 \in Nat \ {0} /\ (i + 1) - 1 = i /\ i + 1 \in 1..(Len(Program[w]) + 1)
    <3>1. i \in 1..Len(Program[w])
      BY <2>2, <2>4
    <3> HIDE DEF i, w
    <3> QED
      BY <2>4, <3>1, NextPlace
  <2>6. main = MainAt(th, "enter", i + 1)
    BY DEF MainAt
  <2>7. r \in [thread : {r.thread}, seen : {r.seen}, cache : {r.cache}, view : {r.view}]
    BY <1>1 DEF IsRun
  <2>8. /\ q.thread = <<main>> /\ q.seen = r.seen /\ q.cache = r.cache
        /\ q.view = r.view
        /\ q \in [thread : {q.thread}, seen : {q.seen}, cache : {q.cache}, view : {q.view}]
    BY <2>7
  <2> HIDE DEF main, q, th, i
  <2>9. /\ IsThread(main) /\ main.loc = "enter" /\ main.at = i + 1
        /\ main.scope = Root /\ main.count = th.count /\ main.err = NoOutcome
        /\ main.val = th.val
    <3>1. /\ IsThread(main) /\ main.loc = "enter" /\ main.at = i + 1
          /\ main.scope = th.scope /\ main.count = th.count
          /\ main.err = th.err /\ main.val = th.val
      <4> DEFINE n == i + 1
      <4>1. n \in Nat \ {0} /\ main = MainAt(th, "enter", n) /\ IsThread(th)
        BY <2>3, <2>5, <2>6
      <4> HIDE DEF n
      <4>2. /\ IsThread(main) /\ main.loc = "enter" /\ main.at = n
            /\ main.scope = th.scope /\ main.count = th.count
            /\ main.err = th.err /\ main.val = th.val
        BY <4>1, MainMoves
      <4> QED
        BY <4>2 DEF n
    <3> QED
      BY <2>3, <3>1
  <2>10. \A k \in Numbered : main.count[k] = CountAt(Program[w], main.at - 1, k)
    <3> SUFFICES ASSUME NEW k \in Numbered
                 PROVE  main.count[k] = CountAt(Program[w], main.at - 1, k)
      OBVIOUS
    <3>1. th.count[k] = CountAt(Program[w], i - 1, k)
      BY <2>2, <2>3 DEF ThreadAt, th, i
    <3>2. Program[w][i].kind # k
      BY <2>2 DEF Numbered
    <3>3. CountAt(Program[w], i, k) = CountAt(Program[w], i - 1, k)
      BY <2>4, <3>2, CountNext
    <3> QED
      BY <2>5, <2>9, <3>1, <3>3
  <2>11. ThreadAt(main, Program[w])
    BY <2>5, <2>9, <2>10 DEF ThreadAt
  <2>12. DOMAIN q.thread = 1..1 /\ q.thread[1] = main
    BY <2>8
  <2>13. IsRun(q)
    <3>1. q.thread = [t \in 1..1 |-> q.thread[t]]
      BY <2>8, <2>12
    <3>2. \E n \in Nat \ {0} : q.thread = [t \in 1..n |-> q.thread[t]]
      BY <3>1
    <3>3. \A t \in DOMAIN q.thread : IsThread(q.thread[t])
      BY <2>9, <2>12
    <3>4. q \in [thread : {q.thread}, seen : {q.seen}, cache : {q.cache}, view : {q.view}]
      BY <2>8
    <3> QED
      BY <3>2, <3>3, <3>4 DEF IsRun
  <2>14. PlacedAt(q, w)
    BY <2>9, <2>11, <2>12, <2>13 DEF PlacedAt, Forks, CodeOf, ScopeAt
  <2>15. DataAt(q, w)
    BY <1>1, <2>8 DEF DataAt
  <2>16. ErrsAt(q, SignalOf(p))
    BY <2>9, <2>12, ErrForms DEF ErrsAt
  <2> QED
    BY <2>1, <2>14, <2>15, <2>16 DEF ContextAt, MovesOn
<1> QED
  BY <1>2, <1>3

-----------------------------------------------------------------------------
(* A worker                                                                *)

LEMMA ContextOf ==
  ASSUME RunsOK, NEW p \in Workers, pc[p] = "execute" \/ run[p] # NoRun
  PROVE  /\ run[p] # NoRun /\ task[p].id \in Workflows
         /\ pc[p] \in {"signal", "execute"}
         /\ ContextAt(run[p], task[p].id, SignalOf(p))
BY DEF RunsOK, RunOK

LEMMA GoroutineExecutes ==
  ASSUME NEW p, NEW t, Goroutine(p, t)
  PROVE  pc[p] = "execute"
BY DEF Goroutine, EnterStep, Lookup, RunFn, FnFails, WaitFn, SaveStep,
       StepStoreFails, InStep

LEMMA GoroutineWorks ==
  ASSUME TypeOK, StepsInv, NEW p \in Workers, NEW t \in DOMAIN run[p].thread,
         Goroutine(p, t)
  PROVE  AtStep(p, t) /\ pc[p] = "execute" /\ (Ends(p) \/ MovesOn(p))
<1>1. /\ pc[p] = "execute" /\ task[p].id \in Workflows
      /\ ContextAt(run[p], task[p].id, SignalOf(p))
  BY GoroutineExecutes, ContextOf DEF StepsInv
<1>2. AtStep(p, t)
  BY <1>1, GoroutineAtStep
<1>3. now \in 0..Horizon
  BY DEF TypeOK
<1>4. Known(results[task[p].id], Names[task[p].id])
  BY <1>1 DEF StepsInv, TablesOK
<1> QED
  BY <1>1, <1>2, <1>3, <1>4, GoroutineMoves

(* The workflow returns; cancelled only if that was asked for.             *)
Answers(p) ==
  Execute(p) /\ (outcome'[p].kind = "cancelled" => Asked(SignalOf(p)))

(* What comes out of the steps of a workflow is what Execute may return.   *)
LEMMA EndsExecute ==
  ASSUME TypeOK, NEW p \in Workers, pc[p] = "execute", Ends(p)
  PROVE  Answers(p)
<1>1. PICK o : /\ ErrOK(o, SignalOf(p)) /\ o.kind # "none" /\ Return(p, o)
  BY DEF Ends
<1>2. o.kind \in {"cancelled", "permanent", "suspend", "transient"}
  BY <1>1 DEF ErrOK, Outcome
<1>3. outcome'[p] = o
  BY <1>1 DEF Return, TypeOK
<1>4. outcome'[p].kind = "cancelled" => Asked(SignalOf(p))
  BY <1>1, <1>3 DEF ErrOK
<1>5. CASE o.kind # "suspend"
  <2>1. Return(p, OutcomeOf(o.kind))
    BY <1>1, <1>5 DEF ErrOK
  <2>2. Execute(p)
    BY <1>2, <1>5, <2>1 DEF Execute
  <2> QED
    BY <1>4, <2>2 DEF Answers
<1>6. CASE o.kind = "suspend"
  <2>1. o = [kind |-> "suspend", resumeAt |-> o.resumeAt] /\ o.resumeAt \in 0..Horizon
    BY <1>1, <1>6 DEF ErrOK, Outcome
  <2>2. SuspendBound = 0 /\ o.resumeAt \in ResumeTimes
    BY <2>1, ExecutionAssumption
  <2>3. Return(p, [kind |-> "suspend", resumeAt |-> o.resumeAt])
    BY <1>1, <2>1
  <2>4. Execute(p)
    BY <2>2, <2>3 DEF Execute
  <2> QED
    BY <1>4, <2>4 DEF Answers
<1> QED
  BY <1>5, <1>6

Routine(p) ==
  \/ DropUnregistered(p) \/ DropHeld(p) \/ Acquire(p)
  \/ RecordCancelled(p) \/ RecordPermanent(p) \/ RecordSuspend(p)
  \/ RecordExhausted(p) \/ RecordRetry(p) \/ RecordCompleted(p)
  \/ Conflict(p) \/ Release(p)

Begins(p) ==
  /\ pc[p] = "signal" /\ task[p].id \in Workflows
  /\ run' = [run EXCEPT ![p] = run'[p]] /\ run'[p] # NoRun
  /\ ContextAt(run'[p], task[p].id, SignalOf(p)) /\ UNCHANGED vars

(* What a step of a worker does to its engine and to its context.          *)
WorkerForm(p) ==
  \/ pc[p] = "execute" /\ MovesOn(p)
  \/ Begins(p)
  \/ /\ Answers(p) \/ ObserveCancel(p) \/ StoreFails(p)
     /\ run' = [run EXCEPT ![p] = NoRun]
  \/ BeginExecute(p) /\ run[p] # NoRun /\ run' = run
  \/ Routine(p) /\ run' = run

LEMMA WorkerForms ==
  ASSUME TypeOK, StepsInv, NEW p \in Workers, StepsWorker(p)
  PROVE  WorkerForm(p)
<1>0. RunsOK
  BY DEF StepsInv
<1>1. CASE Prefetch(p)
  <2>1. pc[p] = "signal" /\ UNCHANGED vars
    BY <1>1 DEF Prefetch
  <2>2. task[p].id \in Workflows
    BY <2>1 DEF TypeOK, Copy
  <2>3. Known(results[task[p].id], Names[task[p].id])
    BY <2>2 DEF StepsInv, TablesOK
  <2> QED
    BY <1>0, <1>1, <2>1, <2>2, <2>3, PrefetchMoves DEF WorkerForm, Begins
<1>2. CASE AfterPrefetch(p)
  BY <1>2 DEF AfterPrefetch, Forget, WorkerForm
<1>3. ASSUME NEW t \in DOMAIN run[p].thread, Goroutine(p, t)
      PROVE  WorkerForm(p)
  <2>1. pc[p] = "execute" /\ (Ends(p) \/ MovesOn(p))
    BY <1>3, GoroutineWorks
  <2>2. CASE Ends(p)
    BY <2>1, <2>2, EndsExecute DEF Ends, WorkerForm
  <2> QED
    BY <2>1, <2>2 DEF WorkerForm
<1>4. CASE Fork(p)
  <2>1. pc[p] = "execute"
    BY <1>4 DEF Fork, InStep
  <2> QED
    BY <1>0, <1>4, <2>1, ContextOf, ForkMoves DEF WorkerForm
<1>5. CASE Join(p)
  <2>1. pc[p] = "execute"
    BY <1>5 DEF Join
  <2>2. Ends(p) \/ MovesOn(p)
    BY <1>0, <1>5, <2>1, ContextOf, JoinMoves
  <2>3. CASE Ends(p)
    BY <2>1, <2>3, EndsExecute DEF Ends, WorkerForm
  <2> QED
    BY <2>1, <2>2, <2>3 DEF WorkerForm
<1>6. CASE Finish(p)
  <2>1. outcome'[p] = OutcomeOf("completed")
    BY <1>6 DEF Finish, Return, TypeOK
  <2>2. Execute(p) /\ outcome'[p].kind # "cancelled"
    BY <1>6, <2>1 DEF Finish, Execute, OutcomeOf
  <2> QED
    BY <1>6, <2>2 DEF Finish, Forget, Answers, WorkerForm
<1>7. CASE StepsStoreFails(p)
  BY <1>7 DEF StepsStoreFails, Forget, WorkerForm
<1> QED
  BY <1>1, <1>2, <1>3, <1>4, <1>5, <1>6, <1>7
     DEF StepsWorker, stepVars, WorkerForm, Routine

LEMMA WorkerImplements ==
  ASSUME NEW p \in Workers, WorkerForm(p)
  PROVE  WorkerStep(p) \/ UNCHANGED vars
<1>1. CASE MovesOn(p)
  BY <1>1 DEF MovesOn
<1>2. CASE Begins(p)
  BY <1>2 DEF Begins
<1>3. CASE Routine(p)
  BY <1>3 DEF Routine, WorkerStep
<1>4. CASE Answers(p) \/ ObserveCancel(p) \/ StoreFails(p) \/ BeginExecute(p)
  BY <1>4 DEF WorkerStep, Answers
<1> QED
  BY <1>1, <1>2, <1>3, <1>4 DEF WorkerForm

LEMMA WorkerTables ==
  ASSUME TypeOK, StepsInv, NEW p \in Workers, StepsWorker(p)
  PROVE  TablesOK' /\ TicksOK'
<1>0. TablesOK /\ TicksOK
  BY DEF StepsInv
<1>1. CASE UNCHANGED <<results, subs, tick>>
  <2>1. TablesOK'
    BY <1>0, <1>1 DEF TablesOK
  <2> QED
    BY <1>0, <1>1, <2>1 DEF TicksOK
<1>2. ASSUME NEW t \in DOMAIN run[p].thread, Goroutine(p, t)
      PROVE  TablesOK' /\ TicksOK'
  <2>1. AtStep(p, t)
    BY <1>2, GoroutineWorks
  <2>2. Saves(p, t) \/ SubscribesTo(p, t) \/ UNCHANGED <<results, subs, tick>>
    BY <1>2, GoroutineTables
  <2>3. CASE Saves(p, t)
    BY <1>0, <2>1, <2>3, SavesTables DEF Saves, TicksOK
  <2>4. CASE SubscribesTo(p, t)
    BY <1>0, <2>1, <2>4, SubscribesTables DEF SubscribesTo, TicksOK
  <2> QED
    BY <1>1, <2>2, <2>3, <2>4
<1> QED
  BY <1>1, <1>2 DEF StepsWorker, Prefetch, AfterPrefetch, Fork, Join, Finish,
     StepsStoreFails, stepVars

-----------------------------------------------------------------------------
(* The contexts of the workers                                             *)

LEMMA ContextLater ==
  ASSUME NEW r, NEW w, NEW signal, NEW later, ContextAt(r, w, signal),
         signal = "cancel_requested" => later = "cancel_requested"
  PROVE  ContextAt(r, w, later)
BY DEF ContextAt, ErrsAt, ErrOK, Asked

LEMMA RunKept ==
  ASSUME TypeOK, CopiesCurrent, [Next]_vars, NEW p \in Workers, RunOK(p),
         run'[p] = run[p], pc'[p] = pc[p], task'[p] = task[p]
  PROVE  RunOK(p)'
<1>1. CASE run[p] # NoRun
  <2> DEFINE w == task[p].id
  <2>1. /\ w \in Workflows /\ pc[p] \in {"signal", "execute"}
        /\ ContextAt(run[p], w, SignalOf(p))
    BY <1>1 DEF RunOK
  <2>2. wf[w].signal = "cancel_requested" => wf'[w].signal = "cancel_requested"
    BY <2>1, SignalKept
  <2>3. SignalOf(p) = wf[w].signal /\ SignalOf(p)' = wf'[w].signal
    BY DEF SignalOf
  <2> HIDE DEF w
  <2>4. ContextAt(run[p], w, SignalOf(p)')
    BY <2>1, <2>2, <2>3, ContextLater
  <2>5. ContextAt(run'[p], w, SignalOf(p)')
    BY <2>4
  <2>6. task'[p].id = w /\ w \in Workflows /\ pc'[p] \in {"signal", "execute"}
        /\ run'[p] # NoRun
    BY <1>1, <2>1 DEF w
  <2> QED
    BY <2>5, <2>6 DEF RunOK
<1>2. CASE run[p] = NoRun
  BY <1>2 DEF RunOK
<1> QED
  BY <1>1, <1>2

LEMMA RunEnds ==
  ASSUME NEW p, run'[p] = NoRun, pc'[p] # "execute"
  PROVE  RunOK(p)'
BY DEF RunOK

(* A worker leaves the others alone.                                       *)
LEMMA OtherWorkers ==
  ASSUME TypeOK, RunsOK, NEW p \in Workers, NEW q \in Workers, q # p, WorkerForm(p)
  PROVE  run'[q] = run[q] /\ pc'[q] = pc[q] /\ task'[q] = task[q]
<1>1. DOMAIN run = Workers
  BY DEF RunsOK
<1>2. run'[q] = run[q]
  BY <1>1 DEF WorkerForm, MovesOn, Begins
<1>3. ASSUME WorkerStep(p)
      PROVE  pc'[q] = pc[q] /\ task'[q] = task[q]
  BY <1>3 DEF TypeOK, WorkerStep, DropUnregistered, DropHeld, Acquire,
     ObserveCancel, BeginExecute, Execute, Return, RecordCancelled,
     RecordPermanent, RecordSuspend, RecordExhausted, RecordRetry,
     RecordCompleted, Resolving, Conflict, StoreFails, Release
<1>4. ASSUME UNCHANGED vars
      PROVE  pc'[q] = pc[q] /\ task'[q] = task[q]
  BY <1>4 DEF vars, memoryVars
<1>5. WorkerStep(p) \/ UNCHANGED vars
  BY WorkerImplements
<1> QED
  BY <1>2, <1>3, <1>4, <1>5

LEMMA OwnRun ==
  ASSUME TypeOK, RunsOK, NEW p \in Workers, WorkerForm(p)
  PROVE  RunOK(p)'
<1>0. p \in DOMAIN run /\ RunOK(p)
  BY DEF RunsOK
<1>1. CASE pc[p] = "execute" /\ MovesOn(p)
  <2>1. PICK q : /\ ContextAt(q, task[p].id, SignalOf(p))
                 /\ run' = [run EXCEPT ![p] = q] /\ UNCHANGED vars
    BY <1>1 DEF MovesOn
  <2>2. run'[p] = q /\ pc'[p] = pc[p] /\ task'[p] = task[p] /\ SignalOf(p)' = SignalOf(p)
    BY <1>0, <2>1 DEF vars, memoryVars, SignalOf
  <2>3. q # NoRun
    <3>1. NoRun.thread[1].loc = "prefetch"
      BY DEF NoRun, Thread
    <3>2. 1 \in DOMAIN q.thread /\ IsThread(q.thread[1])
      BY <2>1, RunDomain DEF ContextAt, PlacedAt
    <3>3. q.thread[1].loc # "prefetch"
      BY <3>2 DEF IsThread, Locations
    <3> QED
      BY <3>1, <3>3
  <2>4. task[p].id \in Workflows
    BY <1>0, <1>1 DEF RunOK
  <2> QED
    BY <1>1, <2>1, <2>2, <2>3, <2>4 DEF RunOK
<1>2. CASE Begins(p)
  <2>1. /\ pc'[p] = "signal" /\ task'[p] = task[p] /\ SignalOf(p)' = SignalOf(p)
        /\ run'[p] # NoRun /\ task[p].id \in Workflows
        /\ ContextAt(run'[p], task[p].id, SignalOf(p))
    BY <1>2 DEF Begins, vars, memoryVars, SignalOf
  <2> QED
    BY <2>1 DEF RunOK
<1>3. CASE /\ Answers(p) \/ ObserveCancel(p) \/ StoreFails(p)
           /\ run' = [run EXCEPT ![p] = NoRun]
  <2>1. pc'[p] \in {"resolve", "release"}
    BY <1>3 DEF Answers, Execute, ObserveCancel, StoreFails, Return, TypeOK
  <2> QED
    BY <1>0, <1>3, <2>1, RunEnds
<1>4. CASE BeginExecute(p) /\ run[p] # NoRun /\ run' = run
  <2>1. /\ pc'[p] = "execute" /\ task'[p] = task[p] /\ SignalOf(p)' = SignalOf(p)
    BY <1>4 DEF BeginExecute, TypeOK, SignalOf
  <2> QED
    BY <1>0, <1>4, <2>1 DEF RunOK
<1>5. CASE Routine(p) /\ run' = run
  <2>1. pc[p] \notin {"signal", "execute"} /\ pc'[p] # "execute"
    BY <1>5 DEF Routine, DropUnregistered, DropHeld, Acquire, Take,
       RecordCancelled, RecordPermanent, RecordSuspend, RecordExhausted,
       RecordRetry, RecordCompleted, Conflict, Resolving, Release, TypeOK
  <2> QED
    BY <1>0, <1>5, <2>1, RunEnds DEF RunOK
<1> QED
  BY <1>1, <1>2, <1>3, <1>4, <1>5 DEF WorkerForm

LEMMA RunFunction ==
  ASSUME RunsOK, NEW p \in Workers, WorkerForm(p)
  PROVE  run' = [q \in Workers |-> run'[q]]
<1>1. run = [q \in Workers |-> run[q]]
  BY DEF RunsOK
<1>2. CASE run' = run
  BY <1>1, <1>2
<1>3. ASSUME NEW r, run' = [run EXCEPT ![p] = r]
      PROVE  run' = [q \in Workers |-> run'[q]]
  BY <1>1, <1>3
<1> QED
  BY <1>2, <1>3 DEF WorkerForm, MovesOn, Begins

LEMMA WorkerRuns ==
  ASSUME TypeOK, CopiesCurrent, StepsInv, NEW p \in Workers, StepsWorker(p)
  PROVE  RunsOK' /\ [Next]_vars
<1>1. RunsOK /\ WorkerForm(p)
  BY WorkerForms DEF StepsInv
<1>2. [Next]_vars
  BY <1>1, WorkerImplements DEF Next
<1>3. ASSUME NEW q \in Workers
      PROVE  RunOK(q)'
  <2>1. CASE q = p
    BY <1>1, <2>1, OwnRun
  <2>2. CASE q # p
    <3>1. run'[q] = run[q] /\ pc'[q] = pc[q] /\ task'[q] = task[q] /\ RunOK(q)
      BY <1>1, <2>2, OtherWorkers DEF RunsOK
    <3> QED
      BY <1>2, <3>1, RunKept
  <2> QED
    BY <2>1, <2>2
<1> QED
  BY <1>1, <1>2, <1>3, RunFunction DEF RunsOK

-----------------------------------------------------------------------------
(* Events, promoters and clients                                           *)

LEMMA WakeImplements ==
  ASSUME TablesOK, NEW K \in SUBSET Keys, \A k \in K : subs[k] # NoSub,
         WakeSubscribers(K)
  PROVE  [Next]_vars /\ UNCHANGED <<pc, task>>
<1> DEFINE ids == {subs[k].id : k \in K}
<1>1. ids \in SUBSET Workflows
  BY DEF TablesOK, SubOK, Subscription
<1>2. CASE Wake(ids)
  BY <1>1, <1>2 DEF Next, ClientStep, Wake, memoryVars
<1>3. CASE UNCHANGED vars
  BY <1>3 DEF vars, memoryVars
<1> QED
  BY <1>2, <1>3 DEF WakeSubscribers

LEMMA DeliveredTables ==
  ASSUME TablesOK, NEW K \in SUBSET Keys,
         Deliver(K, Result("event", 1)) \/ Deliver(K, Result("timeout", 0))
  PROVE  TablesOK'
<1>1. Result("event", 1) \in StepResult /\ Result("timeout", 0) \in StepResult
  BY ResultTimes
<1> QED
  BY <1>1, DeliverTables

(* Steps that leave every worker with its task, its place and its context. *)
Apart == [Next]_vars /\ UNCHANGED <<pc, task, run>> /\ TablesOK' /\ TicksOK'

LEMMA SendEventApart ==
  ASSUME StepsInv, NEW k \in Keys, SendEvent(k)
  PROVE  Apart
<1>1. TablesOK /\ TicksOK /\ {k} \in SUBSET Keys
  BY DEF StepsInv
<1>2. \A h \in {k} : subs[h] # NoSub
  BY DEF SendEvent
<1>3. [Next]_vars /\ UNCHANGED <<pc, task>>
  BY <1>1, <1>2, WakeImplements DEF SendEvent
<1>4. TablesOK'
  BY <1>1, DeliveredTables DEF SendEvent
<1> QED
  BY <1>1, <1>3, <1>4 DEF Apart, SendEvent, TicksOK

LEMMA TablesSame ==
  ASSUME TablesOK, UNCHANGED <<results, subs>>
  PROVE  TablesOK'
BY DEF TablesOK

LEMMA TimeOutApart ==
  ASSUME StepsInv, NEW e \in Engines, TimeOutTick(e)
  PROVE  Apart
<1>1. TablesOK /\ TicksOK /\ Expired \in SUBSET Keys
  BY DEF StepsInv, Expired
<1>2. \A k \in Expired : subs[k] # NoSub
  BY DEF Expired
<1>3. [Next]_vars /\ UNCHANGED <<pc, task>> /\ TablesOK'
  <2>1. \/ Deliver(Expired, Result("timeout", 0)) /\ WakeSubscribers(Expired)
        \/ PromoterFails
    BY DEF TimeOutTick
  <2>2. CASE Deliver(Expired, Result("timeout", 0)) /\ WakeSubscribers(Expired)
    BY <1>1, <1>2, <2>2, WakeImplements, DeliveredTables
  <2>3. CASE PromoterFails
    BY <1>1, <2>3, TablesSame DEF PromoterFails, vars, memoryVars
  <2> QED
    BY <2>1, <2>2, <2>3
<1>4. TicksOK'
  BY <1>1 DEF TicksOK, TimeOutTick
<1> QED
  BY <1>3, <1>4 DEF Apart, TimeOutTick

LEMMA EngineApart ==
  ASSUME StepsInv, NEW e \in Engines, StepsEngine(e)
  PROVE  Apart \/ StepsCrash(e)
<1>1. TablesOK /\ TicksOK
  BY DEF StepsInv
<1>2. CASE PromoteTick(e)
  <2>1. [Next]_vars /\ UNCHANGED <<pc, task>>
    <3>1. CASE Promote(e)
      BY <3>1 DEF Promote, memoryVars, Next, EngineStep
    <3>2. CASE UNCHANGED vars
      BY <3>2 DEF vars, memoryVars
    <3> QED
      BY <1>2, <3>1, <3>2 DEF PromoteTick, PromoterFails
  <2>2. TicksOK'
    BY <1>1, <1>2 DEF PromoteTick, TicksOK
  <2> QED
    BY <1>1, <1>2, <2>1, <2>2, TablesSame DEF PromoteTick, Apart
<1>3. CASE TimeOutTick(e)
  BY <1>3, TimeOutApart
<1>4. CASE StepsStop(e)
  <2>1. [Next]_vars /\ UNCHANGED <<pc, task>>
    BY <1>4 DEF StepsStop, Stop, Next, EngineStep
  <2>2. TicksOK'
    BY <1>1, <1>4 DEF StepsStop, TicksOK
  <2> QED
    BY <1>1, <1>4, <2>1, <2>2, TablesSame DEF StepsStop, Apart
<1>5. CASE /\ Poll(e) \/ DrainTimeout(e) \/ StartReturns(e) \/ Restart(e)
           /\ UNCHANGED stepVars
  <2>1. [Next]_vars /\ UNCHANGED <<pc, task>>
    BY <1>5 DEF Poll, DrainTimeout, StartReturns, Restart, Next, EngineStep
  <2>2. UNCHANGED <<results, subs, tick, run>>
    BY <1>5 DEF stepVars
  <2>3. TicksOK'
    BY <1>1, <2>2 DEF TicksOK
  <2> QED
    BY <1>1, <2>1, <2>2, <2>3, TablesSame DEF Apart
<1> QED
  BY <1>2, <1>3, <1>4, <1>5 DEF StepsEngine

LEMMA ClientApart ==
  ASSUME StepsInv,
         \/ \E w \in Workflows : (Submit(w) \/ RequestCancel(w)) /\ UNCHANGED stepVars
         \/ PassTime /\ UNCHANGED stepVars
         \/ UNCHANGED allVars
  PROVE  Apart
<1>1. TablesOK /\ TicksOK
  BY DEF StepsInv
<1>2. UNCHANGED <<results, subs, tick, run>>
  BY DEF stepVars, allVars
<1>3. [Next]_vars /\ UNCHANGED <<pc, task>>
  BY DEF Next, ClientStep, Submit, RequestCancel, PassTime, memoryVars, allVars, vars
<1>4. TicksOK'
  BY <1>1, <1>2 DEF TicksOK
<1> QED
  BY <1>1, <1>2, <1>3, <1>4, TablesSame DEF Apart

LEMMA ApartRuns ==
  ASSUME TypeOK, CopiesCurrent, StepsInv, Apart
  PROVE  StepsInv'
<1>1. RunsOK
  BY DEF StepsInv
<1>2. \A p \in Workers : RunOK(p)'
  BY <1>1, RunKept DEF Apart, RunsOK
<1>3. run' = [p \in Workers |-> run'[p]]
  BY <1>1 DEF Apart, RunsOK
<1>4. RunsOK'
  BY <1>2, <1>3 DEF RunsOK
<1> QED
  BY <1>4 DEF Apart, StepsInv

LEMMA CrashRuns ==
  ASSUME TypeOK, CopiesCurrent, StepsInv, NEW e \in Engines, StepsCrash(e)
  PROVE  StepsInv' /\ [Next]_vars
<1>1. TablesOK /\ TicksOK /\ RunsOK
  BY DEF StepsInv
<1>2. [Next]_vars
  BY DEF StepsCrash, Next, EngineStep
<1>3. TablesOK'
  BY <1>1, TablesSame DEF StepsCrash
<1>4. TicksOK'
  BY <1>1 DEF TicksOK, StepsCrash
<1>5. run' = [p \in Workers |-> run'[p]]
  BY DEF StepsCrash
<1>6. ASSUME NEW p \in Workers
      PROVE  RunOK(p)'
  <2>1. CASE EngineOf[p] = e
    <3>1. run'[p] = NoRun /\ pc'[p] = "idle"
      BY <2>1 DEF StepsCrash, Crash
    <3> QED
      BY <3>1, RunEnds
  <2>2. CASE EngineOf[p] # e
    <3>1. run'[p] = run[p] /\ pc'[p] = pc[p] /\ task'[p] = task[p] /\ RunOK(p)
      BY <1>1, <2>2 DEF StepsCrash, Crash, RunsOK
    <3> QED
      BY <1>2, <3>1, RunKept
  <2> QED
    BY <2>1, <2>2
<1>7. RunsOK'
  BY <1>5, <1>6 DEF RunsOK
<1> QED
  BY <1>2, <1>3, <1>4, <1>7 DEF StepsInv

(* Every step is one of Dispatch or changes nothing there, and keeps the   *)
(* contexts and the tables in order.                                       *)
LEMMA StepsNextInv ==
  ASSUME TypeOK, CopiesCurrent, StepsInv, [StepsNext]_allVars
  PROVE  StepsInv' /\ [Next]_vars
<1>1. ASSUME NEW p \in Workers, StepsWorker(p)
      PROVE  StepsInv' /\ [Next]_vars
  BY <1>1, WorkerRuns, WorkerTables DEF StepsInv
<1>2. ASSUME NEW e \in Engines, StepsEngine(e)
      PROVE  StepsInv' /\ [Next]_vars
  <2>1. CASE StepsCrash(e)
    BY <2>1, CrashRuns
  <2>2. CASE Apart
    BY <2>2, ApartRuns DEF Apart
  <2> QED
    BY <1>2, <2>1, <2>2, EngineApart
<1>3. ASSUME NEW k \in Keys, SendEvent(k)
      PROVE  StepsInv' /\ [Next]_vars
  <2>1. Apart
    BY <1>3, SendEventApart
  <2> QED
    BY <2>1, ApartRuns DEF Apart
<1>4. CASE \/ \E w \in Workflows : (Submit(w) \/ RequestCancel(w)) /\ UNCHANGED stepVars
           \/ PassTime /\ UNCHANGED stepVars
           \/ UNCHANGED allVars
  <2>1. Apart
    BY <1>4, ClientApart
  <2> QED
    BY <2>1, ApartRuns DEF Apart
<1> QED
  BY <1>1, <1>2, <1>3, <1>4 DEF StepsNext

-----------------------------------------------------------------------------
(* Theorems                                                                *)

LEMMA StepsInvariant ==
  StepsSpec => [](TypeOK /\ CopiesCurrent /\ StepsInv)
<1> DEFINE Inv == TypeOK /\ CopiesCurrent /\ StepsInv
<1>1. StepsInit => Inv
  <2>1. StepsInit => Init
    BY DEF StepsInit
  <2> QED
    BY <2>1, TypeInit, CopiesInit, StepsInitInv
<1>2. Inv /\ [StepsNext]_allVars => Inv'
  BY StepsNextInv, TypeNext, CopiesNext
<1> QED
  BY <1>1, <1>2, PTL DEF StepsSpec

(* The refinement: whatever Run, SleepUntil, WaitForEvent, Get, Parallel,  *)
(* events and timeouts do, and in whatever order the goroutines of the     *)
(* branches run, the engine sees an execution of Dispatch, so that all     *)
(* that is proved of Dispatch holds with durable steps.                    *)
THEOREM DurableStepsImplementDispatch == StepsSpec => StepsImplementDispatch
<1>1. StepsInit => Init
  BY DEF StepsInit
<1>2. TypeOK /\ CopiesCurrent /\ StepsInv /\ [StepsNext]_allVars => [Next]_vars
  BY StepsNextInv
<1> QED
  BY <1>1, <1>2, StepsInvariant, PTL DEF StepsSpec, StepsImplementDispatch, Spec

LEMMA SameLength ==
  ASSUME NEW m \in Nat, NEW n \in Nat, 1..m = 1..n
  PROVE  m = n
<1>1. \A i \in 1..m : i <= n
  OBVIOUS
<1>2. \A i \in 1..n : i <= m
  OBVIOUS
<1> QED
  BY <1>1, <1>2

(* The goroutines that Parallel starts are those of ThreadsOK.             *)
LEMMA PlacedThreads ==
  ASSUME NEW p, task[p].id \in Workflows, PlacedAt(run[p], task[p].id)
  PROVE  ThreadsOK(p)
<1> DEFINE w == task[p].id
           r == run[p]
<1>1. IsRun(r) /\ Forks(r, w) /\ 1 \in DOMAIN r.thread
  BY RunDomain DEF PlacedAt
<1>2. \A t \in DOMAIN r.thread :
        /\ IsThread(r.thread[t]) /\ t \in Nat \ {0}
        /\ ThreadAt(r.thread[t], CodeOf(w, r.thread[1].at, t))
        /\ r.thread[t].scope = ScopeAt(w, r.thread[1].at, t)
        /\ r.thread[t].loc = "join" => t = 1
  BY <1>1, RunDomain DEF PlacedAt
<1>3. \A t : /\ CodeOf(w, r.thread[1].at, t) = Code(p, t)
             /\ ScopeAt(w, r.thread[1].at, t) = ScopeOf(p, t)
  BY DEF CodeOf, Code, ScopeAt, ScopeOf, Main, Here
<1>4. ASSUME NEW t \in DOMAIN r.thread
      PROVE  r.thread[t] \in
               [scope : {ScopeOf(p, t)}, at : 1..(Len(Code(p, t)) + 1),
                loc : Locations, val : StepResult \cup {NoResult},
                count : [Numbered -> Nat], err : Outcome]
  <2>1. r.thread[t].at \in 1..(Len(Code(p, t)) + 1)
    BY <1>2, <1>3 DEF ThreadAt
  <2>2. r.thread[t].scope = ScopeOf(p, t)
    BY <1>2, <1>3
  <2>3. IsThread(r.thread[t])
    BY <1>2
  <2> QED
    BY <2>1, <2>2, <2>3 DEF IsThread
<1>5. Here(p) \in 1..(Len(Main(p)) + 1)
  BY <1>1, <1>2, <1>3 DEF ThreadAt, Code, Here
<1>6. Len(r.thread) = IF Forked(p) THEN 1 + Len(Main(p)[Here(p)].branches) ELSE 1
  <2>1. PICK n \in Nat \ {0} : r.thread = [i \in 1..n |-> r.thread[i]]
    BY <1>1 DEF IsRun
  <2>2. Len(r.thread) = n /\ DOMAIN r.thread = 1..n
    BY <2>1
  <2>3. CASE Forked(p)
    <3> DEFINE m == Len(Program[w][r.thread[1].at].branches)
    <3>1. /\ r.thread[1].at \in DOMAIN Program[w]
          /\ Program[w][r.thread[1].at].kind = "parallel"
          /\ DOMAIN r.thread = 1..(m + 1)
      BY <1>1, <2>3 DEF Forks, Forked
    <3>2. Branching(Program[w][r.thread[1].at])
      BY <3>1, MainCode
    <3>3. m \in Nat
      <4> DEFINE bs == Program[w][r.thread[1].at].branches
      <4>1. bs \in Seq(Range(bs))
        BY <3>2 DEF Branching
      <4> QED
        BY <4>1, LenProperties
    <3>4. m = Len(Main(p)[Here(p)].branches)
      BY DEF Main, Here
    <3> HIDE DEF m
    <3>5. n = m + 1
      BY <2>2, <3>1, <3>3, SameLength
    <3> QED
      BY <2>2, <2>3, <3>3, <3>4, <3>5
  <2>4. CASE ~Forked(p)
    <3>1. DOMAIN r.thread = 1..1
      BY <1>1, <2>4 DEF Forks, Forked
    <3>2. n = 1
      BY <2>2, <3>1, SameLength
    <3> QED
      BY <2>2, <2>4, <3>2
  <2> QED
    BY <2>3, <2>4
<1> QED
  BY <1>2, <1>4, <1>5, <1>6 DEF ThreadsOK

(* Every variable of the durable steps has its type: a context exists only *)
(* from the prefetch of its results to the end of Execute, and has the     *)
(* goroutines of the Parallel it is in, each at a step of its own branch   *)
(* or behind the last, in the scope of that branch.                        *)
THEOREM StepsTypeCorrect == StepsSpec => []StepsTypeOK
<1>1. ASSUME TypeOK, StepsInv
      PROVE  StepsTypeOK
  <2>1. ASSUME NEW p \in Workers, run[p] # NoRun
        PROVE  /\ pc[p] \in {"signal", "execute"}
               /\ ThreadsOK(p)
               /\ run[p].seen \subseteq Names[task[p].id]
               /\ Known(run[p].cache, Names[task[p].id])
               /\ Known(run[p].view, DOMAIN NameOf[task[p].id])
    <3>1. /\ pc[p] \in {"signal", "execute"} /\ task[p].id \in Workflows
          /\ ContextAt(run[p], task[p].id, SignalOf(p))
      BY <1>1, <2>1, ContextOf DEF StepsInv
    <3>2. PlacedAt(run[p], task[p].id) /\ DataAt(run[p], task[p].id)
      BY <3>1 DEF ContextAt
    <3> QED
      BY <3>1, <3>2, PlacedThreads DEF DataAt
  <2>2. \A k \in Keys : subs[k] = NoSub \/ subs[k] \in Subscription
    BY <1>1 DEF StepsInv, TablesOK, SubOK
  <2>3. \A w \in Workflows : Known(results[w], Names[w])
    BY <1>1 DEF StepsInv, TablesOK
  <2> QED
    BY <1>1, <2>1, <2>2, <2>3 DEF StepsTypeOK, StepsInv, TicksOK
<1> QED
  BY <1>1, StepsInvariant, PTL
-----------------------------------------------------------------------------
(* Cancellation                                                            *)

(* How the outcome and the task of a worker change in one step.            *)
LEMMA OutcomeStep ==
  ASSUME TypeOK, [Next]_vars, NEW q \in Workers
  PROVE  \/ outcome'[q] = outcome[q] /\ task'[q] = task[q]
         \/ outcome'[q].kind = "none"
         \/ outcome'[q].kind # "cancelled"
         \/ task'[q] = task[q] /\ (SignalOf(q) = "cancel_requested" \/ Execute(q))
<1>1. CASE UNCHANGED <<outcome, task>>
  BY <1>1
<1>2. CASE \E e \in Engines : Crash(e)
  BY <1>2, OutcomeTypes DEF Crash
<1>3. ASSUME NEW p \in Workers, Acquire(p)
      PROVE  \/ outcome'[q] = outcome[q] /\ task'[q] = task[q]
             \/ outcome'[q].kind = "none"
  <2>1. CASE q = p
    <3>1. pc[q] = "idle" /\ outcome'[q] = outcome[q]
      BY <1>3, <2>1 DEF Acquire, Take
    <3>2. outcome[q].kind = "none"
      BY <3>1 DEF TypeOK
    <3> QED
      BY <3>1, <3>2
  <2>2. CASE q # p
    BY <1>3, <2>2 DEF Acquire, TypeOK
  <2> QED
    BY <2>1, <2>2
<1>4. ASSUME NEW p \in Workers, Release(p)
      PROVE  \/ outcome'[q] = outcome[q] /\ task'[q] = task[q]
             \/ outcome'[q].kind = "none"
  BY <1>4, OutcomeTypes DEF Release, TypeOK
<1>5. ASSUME NEW p \in Workers, ObserveCancel(p) \/ Execute(p)
      PROVE  \/ outcome'[q] = outcome[q] /\ task'[q] = task[q]
             \/ task'[q] = task[q] /\ (SignalOf(q) = "cancel_requested" \/ Execute(q))
  <2>1. \E o : Return(p, o)
    BY <1>5 DEF ObserveCancel, Execute
  <2>2. CASE q = p
    <3>1. task'[q] = task[q]
      BY <2>1 DEF Return
    <3> QED
      BY <1>5, <2>2, <3>1 DEF ObserveCancel, SignalOf
  <2>3. CASE q # p
    BY <2>1, <2>3 DEF Return, TypeOK
  <2> QED
    BY <2>2, <2>3
<1> QED
  BY <1>1, <1>2, <1>3, <1>4, <1>5
     DEF Next, ClientStep, Submit, RequestCancel, Wake, PassTime, EngineStep,
         WorkerStep, Promote, Poll, Stop, DrainTimeout, StartReturns, Restart,
         DropUnregistered, DropHeld, BeginExecute, Conflict, StoreFails,
         RecordCancelled, RecordPermanent, RecordSuspend, RecordExhausted,
         RecordRetry, RecordCompleted, Resolving, memoryVars, vars

(* Of the steps of this module, one that is an Execute of Dispatch returns *)
(* cancelled only if that was asked for.                                   *)
LEMMA ExecuteAsked ==
  ASSUME TypeOK, CopiesCurrent, StepsInv, [StepsNext]_allVars,
         NEW q \in Workers, Execute(q), outcome'[q].kind = "cancelled"
  PROVE  Asked(SignalOf(q))
<1>1. pc[q] = "execute" /\ pc'[q] = "resolve"
  BY DEF Execute, Return, TypeOK
<1>2. ASSUME NEW p \in Workers, StepsWorker(p)
      PROVE  Asked(SignalOf(q))
  <2>1. WorkerForm(p) /\ RunsOK
    BY <1>2, WorkerForms DEF StepsInv
  <2>2. p = q
    BY <1>1, <2>1, OtherWorkers
  <2>3. ~MovesOn(p) /\ ~Begins(p)
    BY <1>1, <2>2 DEF MovesOn, Begins, vars, memoryVars
  <2>4. ~ObserveCancel(p) /\ ~StoreFails(p) /\ ~BeginExecute(p)
    BY <1>1, <2>2 DEF ObserveCancel, StoreFails, BeginExecute
  <2>5. ~Routine(p)
    BY <1>1, <2>2 DEF Routine, DropUnregistered, DropHeld, Acquire, Take,
       RecordCancelled, RecordPermanent, RecordSuspend, RecordExhausted,
       RecordRetry, RecordCompleted, Conflict, Resolving, Release
  <2>6. Answers(p)
    BY <2>1, <2>3, <2>4, <2>5 DEF WorkerForm
  <2> QED
    BY <2>2, <2>6 DEF Answers
<1>3. ~Apart
  BY <1>1 DEF Apart
<1>4. ASSUME NEW e \in Engines
      PROVE  ~StepsCrash(e)
  BY <1>1 DEF StepsCrash, Crash
<1> QED
  BY <1>2, <1>3, <1>4, EngineApart, SendEventApart, ClientApart DEF StepsNext

(* No worker and no row is cancelled without a request.                    *)
AskedInv ==
  /\ \A p \in Workers : outcome[p].kind = "cancelled" => Asked(SignalOf(p))
  /\ \A w \in Workflows : wf[w].status = "cancelled" => Asked(wf[w].signal)

LEMMA AskedNext ==
  ASSUME TypeOK, CopiesCurrent, StepsInv, AskedInv, [StepsNext]_allVars
  PROVE  AskedInv'
<1>1. [Next]_vars
  BY StepsNextInv
<1>2. \A w \in Workflows : Asked(wf[w].signal) => Asked(wf'[w].signal)
  BY <1>1, SignalKept DEF Asked
<1>3. ASSUME NEW q \in Workers, outcome'[q].kind = "cancelled"
      PROVE  Asked(SignalOf(q)')
  <2>1. task'[q] = task[q] /\ Asked(SignalOf(q))
    BY <1>1, <1>3, OutcomeStep, ExecuteAsked DEF AskedInv, Asked
  <2>2. TypeOK'
    BY <1>1, TypeNext
  <2>3. task'[q].id \in Workflows
    <3>1. pc'[q] # "idle"
      BY <1>3, <2>2 DEF TypeOK
    <3>2. task'[q] \in Copy
      BY <2>2, <3>1 DEF TypeOK
    <3> QED
      BY <3>2 DEF Copy
  <2> QED
    BY <1>2, <2>1, <2>3 DEF SignalOf
<1>4. ASSUME NEW w \in Workflows, wf'[w].status = "cancelled"
      PROVE  Asked(wf'[w].signal)
  <2>1. RowStep(w) /\ wf[w] \in Row
    BY <1>1, RowSteps, RowTypes
  <2>2. CASE wf[w].status = "cancelled"
    BY <1>2, <2>2 DEF AskedInv
  <2>3. CASE \E p \in Workers : RowRecorded(w, p)
    <3>1. PICK p \in Workers : RowRecorded(w, p)
      BY <2>3
    <3>2. outcome[p].kind = "cancelled" /\ task[p].id = w
      BY <1>4, <2>1, <3>1 DEF RowRecorded, Row
    <3> QED
      BY <1>2, <3>2 DEF AskedInv, SignalOf
  <2>4. wf[w].status = "cancelled" \/ \E p \in Workers : RowRecorded(w, p)
    <3>1. wf'[w] # NewRow
      BY <1>4 DEF NewRow
    <3>2. wf'[w] # PromotedRow(wf[w])
      BY <1>4, <2>1 DEF PromotedRow, Row
    <3>3. wf'[w] = [wf[w] EXCEPT !.signal = "cancel_requested"] =>
            wf[w].status = "cancelled"
      BY <1>4, <2>1 DEF Row
    <3> QED
      BY <1>4, <2>1, <3>1, <3>2, <3>3 DEF RowStep
  <2> QED
    BY <2>2, <2>3, <2>4
<1> QED
  BY <1>3, <1>4 DEF AskedInv

(* A workflow none of whose functions returns a CancelledError is recorded *)
(* as cancelled only if somebody asked for it, whatever was executed from  *)
(* stale copies and in whatever branch the request was seen.               *)
THEOREM CancelledOnlyIfAsked == StepsSpec => []CancelledIfAsked
<1>1. StepsInit => AskedInv
  BY DEF StepsInit, Init, StoreInit, AbsentRow, AskedInv, NoOutcome, OutcomeOf
<1>2. TypeOK /\ CopiesCurrent /\ StepsInv /\ AskedInv /\ [StepsNext]_allVars
        => AskedInv'
  BY AskedNext
<1>3. AskedInv => CancelledIfAsked
  BY DEF AskedInv, Asked, CancelledIfAsked
<1> QED
  BY <1>1, <1>2, <1>3, StepsInvariant, PTL DEF StepsSpec
=============================================================================
