---------------------------- MODULE SleepsProofs ----------------------------
(***************************************************************************)
(* Proof that a workflow, once suspended, is not resumed by the clock      *)
(* before every sleep it has recorded is over.  It is that of one engine   *)
(* and steps with names of their own, by what a sleeping branch, a row of  *)
(* step_results and a subscription say of the steps before and after them. *)
(***************************************************************************)
EXTENDS ReplayProofs

-----------------------------------------------------------------------------
(* Sleeping as long as the longest sleep: the invariant                    *)

(* The sleep at s, if s is one that has a result, is over at n.            *)
Over(w, f, s, n) ==
  Has(w, f, s) /\ Got(w, f, s).tag = "time" => Got(w, f, s).n <= n

Settled(w, f, s, n) == Has(w, f, s) /\ Over(w, f, s, n)

(* Over now, or when the workflow resumes.                                 *)
Rested(w, f, s, n, resumeAt) == Over(w, f, s, n) \/ Over(w, f, s, resumeAt)

(* The call site s comes before u for one goroutine.                       *)
Before(s, u) == s[1] < u[1] \/ (s[1] = u[1] /\ s[2] = u[2] /\ s[3] < u[3])

Sleeping(r, t) == r.thread[t].loc = "done" /\ r.thread[t].err.kind = "suspend"

(* The execution has got beyond s, and does not sleep in the branch of s.  *)
AwakeBy(r, s) ==
  \/ s[1] < r.thread[1].at
  \/ \E t \in DOMAIN r.thread : BeyondIn(r, t, s) /\ ~Sleeping(r, t)

(* What a goroutine that sleeps may have before it.                        *)
Ahead(r, t, s) ==
  s[1] > r.thread[1].at \/ (s[1] = r.thread[1].at /\ s[2] = t - 1)

(* No sleep after s is recorded.                                           *)
NoneAfter(w, f, s) ==
  \A u \in Sites(w) : Before(s, u) /\ Has(w, f, u) => Got(w, f, u).tag # "time"

(* Every step got beyond is settled, but in the branches that sleep; and   *)
(* what these may have before them is over when they resume.               *)
SleepsIn(r, w, f, n) ==
  /\ \A s \in Sites(w) : AwakeBy(r, s) => Settled(w, f, s, n)
  /\ \A t \in DOMAIN r.thread : Sleeping(r, t) =>
       \A s \in Sites(w) : Ahead(r, t, s) =>
         Rested(w, f, s, n, r.thread[t].err.resumeAt)
  /\ \A t \in DOMAIN r.thread : r.thread[t].loc \in {"fn", "save"} =>
       /\ NoneAfter(w, f, SiteIn(r, t))
       /\ r.thread[t].loc = "save" =>
            (r.thread[t].val.tag = "time" <=> Kind(w, SiteIn(r, t)) = "sleep")
  /\ \A t \in DOMAIN r.thread :
       r.thread[t].err.kind = "suspend" => r.thread[t].loc = "done"

(* Sleeps have times, and a step has a result only once those before it    *)
(* are settled.                                                            *)
TableIn(w, f, n) ==
  /\ \A s \in Sites(w) : Has(w, f, s) =>
       (Got(w, f, s).tag = "time" <=> Kind(w, s) = "sleep")
  /\ \A s, u \in Sites(w) : Has(w, f, u) /\ Before(s, u) => Settled(w, f, s, n)

SleepsOK(p) ==
  run[p] # NoRun => SleepsIn(run[p], task[p].id, results[task[p].id], now)

(* An event is waited for only once the steps before it are settled.       *)
WaitsSettled(sub, f, n) ==
  \A s, u \in Sites(sub.id) : sub.name = NameOf[sub.id][u] /\ Before(s, u) =>
    Settled(sub.id, f, s, n)

SubsSettled ==
  \A k \in Keys : subs[k] # NoSub => WaitsSettled(subs[k], results[subs[k].id], now)

SuspendsRested(p) ==
  pc[p] = "resolve" /\ outcome[p].kind = "suspend" =>
    \A s \in Sites(task[p].id) :
      Rested(task[p].id, results[task[p].id], s, now, outcome[p].resumeAt)

SleepsInv ==
  /\ \A p \in Workers : SleepsOK(p) /\ SuspendsRested(p)
  /\ \A w \in Workflows : TableIn(w, results[w], now)
  /\ SubsSettled

(* Later, with the results of events besides.                              *)
Later(w, f, g, n, m) ==
  /\ n \in Nat /\ m \in Nat /\ n <= m
  /\ \A s \in Sites(w) : Has(w, f, s) => Has(w, g, s) /\ Got(w, f, s).n \in Nat
  /\ \A s \in Sites(w) : Has(w, g, s) =>
       \/ Got(w, g, s).tag # "time"
       \/ Has(w, f, s) /\ Got(w, g, s) = Got(w, f, s)

LEMMA LaterOver ==
  ASSUME NEW w, NEW f, NEW g, NEW n, NEW m, Later(w, f, g, n, m), NEW s \in Sites(w)
  PROVE  /\ Over(w, f, s, n) => Over(w, g, s, m)
         /\ Settled(w, f, s, n) => Settled(w, g, s, m)
         /\ \A x : Rested(w, f, s, n, x) => Rested(w, g, s, m, x)
<1>1. /\ n \in Nat /\ m \in Nat /\ n <= m
      /\ Has(w, f, s) => Has(w, g, s) /\ Got(w, f, s).n \in Nat
      /\ Has(w, g, s) => \/ Got(w, g, s).tag # "time"
                         \/ Has(w, f, s) /\ Got(w, g, s) = Got(w, f, s)
  BY DEF Later
<1>2. Over(w, f, s, n) => Over(w, g, s, m)
  BY <1>1 DEF Over
<1>3. \A x : Over(w, f, s, x) => Over(w, g, s, x)
  BY <1>1 DEF Over
<1> QED
  BY <1>1, <1>2, <1>3 DEF Settled, Rested

LEMMA SleepsLater ==
  ASSUME NEW r, NEW w, NEW f, NEW g, NEW n, NEW m, Later(w, f, g, n, m),
         SleepsIn(r, w, f, n)
  PROVE  SleepsIn(r, w, g, m)
<1>1. ASSUME NEW s \in Sites(w), AwakeBy(r, s)
      PROVE  Settled(w, g, s, m)
  BY <1>1, LaterOver DEF SleepsIn
<1>2. ASSUME NEW t \in DOMAIN r.thread, Sleeping(r, t), NEW s \in Sites(w), Ahead(r, t, s)
      PROVE  Rested(w, g, s, m, r.thread[t].err.resumeAt)
  BY <1>2, LaterOver DEF SleepsIn
<1>3. ASSUME NEW s, NoneAfter(w, f, s)
      PROVE  NoneAfter(w, g, s)
  BY <1>3 DEF NoneAfter, Later
<1> QED
  BY <1>1, <1>2, <1>3 DEF SleepsIn

LEMMA RecordedTimes ==
  ASSUME TablesOK, NEW w \in Workflows
  PROVE  \A s : Has(w, results[w], s) =>
           Got(w, results[w], s) \in StepResult /\ Got(w, results[w], s).n \in Nat
<1>1. Known(results[w], Names[w])
  BY DEF TablesOK
<1>2. \A n \in DOMAIN results[w] : results[w][n] \in StepResult
  BY <1>1, KnownForm
<1> QED
  BY <1>2, ResultTimes DEF Has, Got

LEMMA LaterStep ==
  ASSUME TypeOK, StepsInv, now' \in Nat, now <= now', NEW w \in Workflows,
         results'[w] = results[w] \/ Delivers
  PROVE  Later(w, results[w], results'[w], now, now')
<1>1. now \in Nat
  BY HorizonAssumption DEF TypeOK
<1>2. \A s : Has(w, results[w], s) => Got(w, results[w], s).n \in Nat
  BY RecordedTimes DEF StepsInv
<1>3. CASE results'[w] = results[w]
  BY <1>1, <1>2, <1>3 DEF Later
<1>4. CASE Delivers
  BY <1>1, <1>2, <1>4, DeliveredResults DEF Later, Has, Got
<1> QED
  BY <1>3, <1>4

(* A goroutine that goes on has got beyond its site; the others stay.      *)
LEMMA AwakeMore ==
  ASSUME NEW p \in Workers, NEW t, AtStep(p, t), NEW th, Alters(p, t, th),
         th.at \in {run[p].thread[t].at, run[p].thread[t].at + 1},
         t = 1 => th.loc # "done",
         NEW s \in Sites(task[p].id), AwakeBy(run'[p], s)
  PROVE  \/ AwakeBy(run[p], s)
         \/ /\ th.at = run[p].thread[t].at + 1 /\ s = Site(p, t)
            /\ ~(th.loc = "done" /\ th.err.kind = "suspend")
<1> DEFINE r == run[p]
           q == run'[p]
<1>1. Swapped(r, q, t, th) /\ IsRun(r)
  BY AtStepForm, AltersSwaps
<1>2. 1 \in DOMAIN r.thread /\ t \in DOMAIN r.thread
      /\ (\A u \in DOMAIN r.thread : u \in Nat)
  BY <1>1, RunDomain DEF AtStep
<1>3. r.thread[t].loc # "done"
  BY DEF AtStep
<1>4. s[2] \in Nat
  BY SiteParts DEF AtStep
<1>5. PassedBy(q, s)
  BY DEF AwakeBy, PassedBy
<1>6. CASE PassedBy(r, s)
  <2>1. CASE s[1] < r.thread[1].at
    BY <2>1 DEF AwakeBy
  <2>2. ASSUME NEW u \in DOMAIN r.thread, BeyondIn(r, u, s), Sleeping(r, u)
        PROVE  AwakeBy(r, s)
    <3>1. u # t /\ u # 1 /\ t # 1
      BY <1>3, <2>2, AloneWhenMain DEF Sleeping, BeyondIn
    <3>2. q.thread[u] = r.thread[u] /\ q.thread[1] = r.thread[1]
      BY <1>1, <1>2, <2>2, <3>1 DEF Swapped
    <3>3. CASE s[1] < q.thread[1].at
      BY <3>2, <3>3 DEF AwakeBy
    <3>4. ASSUME NEW v \in DOMAIN q.thread, BeyondIn(q, v, s), ~Sleeping(q, v)
          PROVE  FALSE
      <4>1. v \in Nat /\ s[2] = v - 1 /\ u \in Nat /\ s[2] = u - 1
        BY <1>1, <1>2, <2>2, <3>4 DEF Swapped, BeyondIn
      <4>2. v = u
        BY <4>1
      <4> QED
        BY <2>2, <3>2, <3>4, <4>2 DEF Sleeping
    <3> QED
      BY <3>3, <3>4 DEF AwakeBy
  <2> QED
    BY <1>6, <2>1, <2>2 DEF PassedBy, AwakeBy
<1>7. CASE th.at = r.thread[t].at + 1 /\ s = Site(p, t) /\ ~PassedBy(r, s)
  <2>1. ASSUME th.loc = "done", th.err.kind = "suspend"
        PROVE  AwakeBy(r, s)
    <3>1. Sleeping(q, t)
      BY <1>1, <2>1 DEF Sleeping, Swapped
    <3>2. s[1] = r.thread[1].at /\ s[2] = t - 1
      BY <1>7 DEF Site, Here
    <3>3. t # 1 /\ q.thread[1] = r.thread[1]
      BY <1>1, <1>2, <2>1 DEF Swapped
    <3>4. CASE s[1] < q.thread[1].at
      BY <1>7, <3>3, <3>4 DEF PassedBy
    <3>5. ASSUME NEW v \in DOMAIN q.thread, BeyondIn(q, v, s), ~Sleeping(q, v)
          PROVE  FALSE
      <4>1. v \in Nat /\ s[2] = v - 1 /\ t \in Nat /\ s[2] = t - 1
        BY <1>1, <1>2, <3>2, <3>5 DEF Swapped, BeyondIn
      <4>2. v = t
        BY <4>1
      <4> QED
        BY <3>1, <3>5, <4>2
    <3> QED
      BY <3>4, <3>5 DEF AwakeBy
  <2> QED
    BY <1>7, <2>1
<1> QED
  BY <1>5, <1>6, <1>7, PassedMore

(* A step of a goroutine may give a result to its site, and to no other.   *)
LEMMA EffectSites ==
  ASSUME NamesDistinct, TablesOK, NEW p, NEW t, AtStep(p, t),
         ReplayIn(run[p], task[p].id, results[task[p].id]),
         results' = results \/ Saves(p, t), NEW s \in Sites(task[p].id)
  PROVE  /\ Has(task[p].id, results[task[p].id], s) =>
              /\ Has(task[p].id, results'[task[p].id], s)
              /\ Got(task[p].id, results'[task[p].id], s)
                   = Got(task[p].id, results[task[p].id], s)
         /\ s # Site(p, t) /\ Has(task[p].id, results'[task[p].id], s) =>
              Has(task[p].id, results[task[p].id], s)
<1>1. CASE results' = results
  BY <1>1
<1>2. CASE Saves(p, t)
  <2> DEFINE w == task[p].id
             f == results[w]
             g == results'[w]
             n == NameOf[w][Site(p, t)]
  <2>1. Extends(f, g) /\ DOMAIN g = DOMAIN f \cup {n}
    BY <1>2, SavesFresh
  <2>2. w \in Workflows /\ Site(p, t) \in Sites(w)
    BY SiteInForm DEF AtStep
  <2>3. s # Site(p, t) => NameOf[w][s] # n
    BY <2>2 DEF NamesDistinct
  <2> HIDE DEF w, f, g, n
  <2>4. /\ Has(w, f, s) => Has(w, g, s) /\ Got(w, g, s) = Got(w, f, s)
        /\ s # Site(p, t) /\ Has(w, g, s) => Has(w, f, s)
    BY <2>1, <2>3 DEF Extends, Has, Got
  <2> QED
    BY <2>4 DEF w, f, g
<1> QED
  BY <1>1, <1>2

LEMMA EffectOver ==
  ASSUME NamesDistinct, TablesOK, NEW p, NEW t, AtStep(p, t),
         ReplayIn(run[p], task[p].id, results[task[p].id]),
         results' = results \/ Saves(p, t), NEW s \in Sites(task[p].id), NEW n
  PROVE  /\ Settled(task[p].id, results[task[p].id], s, n) =>
              Settled(task[p].id, results'[task[p].id], s, n)
         /\ s # Site(p, t) /\ Over(task[p].id, results[task[p].id], s, n) =>
              Over(task[p].id, results'[task[p].id], s, n)
BY EffectSites DEF Settled, Over

(* All that comes before a step that runs is settled.                      *)
LEMMA BeforeSettled ==
  ASSUME NEW p, NEW t, AtStep(p, t), NEW f, NEW n, SleepsIn(run[p], task[p].id, f, n),
         NEW s \in Sites(task[p].id), Before(s, Site(p, t))
  PROVE  Settled(task[p].id, f, s, n)
<1> DEFINE r == run[p]
<1>1. Site(p, t)[1] = r.thread[1].at /\ Site(p, t)[2] = t - 1
      /\ Site(p, t)[3] = IF t = 1 THEN 0 ELSE r.thread[t].at
  BY DEF Site, Here
<1>2. s[3] \in Nat /\ t \in DOMAIN r.thread /\ ~Sleeping(r, t)
  BY SiteParts DEF AtStep, Sleeping
<1>3. AwakeBy(r, s)
  <2>1. CASE s[1] < r.thread[1].at
    BY <2>1 DEF AwakeBy
  <2>2. CASE /\ s[1] = r.thread[1].at /\ s[2] = t - 1
             /\ s[3] < (IF t = 1 THEN 0 ELSE r.thread[t].at)
    <3>1. t # 1
      BY <1>2, <2>2
    <3>2. BeyondIn(r, t, s)
      BY <2>2, <3>1 DEF BeyondIn
    <3> QED
      BY <1>2, <3>2 DEF AwakeBy
  <2> QED
    BY <1>1, <2>1, <2>2 DEF Before
<1> QED
  BY <1>3 DEF SleepsIn

LEMMA SavesTable ==
  ASSUME NamesDistinct, TablesOK, NEW p, NEW t, AtStep(p, t), Saves(p, t), NEW n,
         ReplayIn(run[p], task[p].id, results[task[p].id]),
         SleepsIn(run[p], task[p].id, results[task[p].id], n),
         TableIn(task[p].id, results[task[p].id], n)
  PROVE  TableIn(task[p].id, results'[task[p].id], n)
<1> DEFINE w == task[p].id
           f == results[w]
           g == results'[w]
           site == Site(p, t)
<1>1. site \in Sites(w) /\ site = SiteIn(run[p], t)
  BY SiteInForm
<1>2. ASSUME NEW s \in Sites(w), Has(w, g, s)
      PROVE  Got(w, g, s).tag = "time" <=> Kind(w, s) = "sleep"
  <2>1. CASE s = site
    <3>1. Got(w, g, s) = run[p].thread[t].val
      BY <2>1, SavesFresh DEF Got
    <3>2. t \in DOMAIN run[p].thread /\ run[p].thread[t].loc = "save"
      BY DEF Saves, InStep
    <3> QED
      BY <1>1, <2>1, <3>1, <3>2 DEF SleepsIn
  <2>2. CASE s # site
    <3>1. Has(w, f, s) /\ Got(w, g, s) = Got(w, f, s)
      BY <1>2, <2>2, EffectSites
    <3> QED
      BY <3>1 DEF TableIn
  <2> QED
    BY <2>1, <2>2
<1>3. ASSUME NEW s \in Sites(w), NEW u \in Sites(w), Has(w, g, u), Before(s, u)
      PROVE  Settled(w, g, s, n)
  <2>1. Settled(w, f, s, n)
    <3>1. CASE u = site
      BY <1>3, <3>1, BeforeSettled
    <3>2. CASE u # site
      <4>1. Has(w, f, u)
        BY <1>3, <3>2, EffectSites
      <4> QED
        BY <1>3, <4>1 DEF TableIn
    <3> QED
      BY <3>1, <3>2
  <2> QED
    BY <2>1, EffectOver
<1> QED
  BY <1>2, <1>3 DEF TableIn

-----------------------------------------------------------------------------
(* Sleeping as long as the longest sleep: the goroutines                   *)

(* A goroutine that goes on leaves all of it true.                         *)
LEMMA SleepsAlters ==
  ASSUME NamesDistinct, TablesOK, NEW p \in Workers, NEW t, AtStep(p, t),
         NEW th, Alters(p, t, th), NEW n,
         ReplayIn(run[p], task[p].id, results[task[p].id]),
         SleepsIn(run[p], task[p].id, results[task[p].id], n),
         results' = results \/ Saves(p, t),
         th.at \in {run[p].thread[t].at, run[p].thread[t].at + 1},
         t = 1 => th.loc # "done",
         th.err.kind = "suspend" => th.loc = "done",
         th.at = run[p].thread[t].at + 1 =>
           \/ th.loc = "done" /\ th.err.kind = "suspend"
           \/ Settled(task[p].id, results'[task[p].id], Site(p, t), n),
         th.loc = "done" /\ th.err.kind = "suspend" =>
           \A s \in Sites(task[p].id) : Ahead(run[p], t, s) =>
             Rested(task[p].id, results'[task[p].id], s, n, th.err.resumeAt),
         th.loc \in {"fn", "save"} =>
           /\ results' = results /\ th.at = run[p].thread[t].at
           /\ NoneAfter(task[p].id, results[task[p].id], Site(p, t))
           /\ th.loc = "save" => (th.val.tag = "time" <=> Step(p, t).kind = "sleep")
  PROVE  SleepsIn(run'[p], task[p].id, results'[task[p].id], n)
<1> DEFINE w == task[p].id
           r == run[p]
           q == run'[p]
           f == results[w]
           g == results'[w]
           site == Site(p, t)
<1>1. Swapped(r, q, t, th) /\ IsRun(r)
  BY AtStepForm, AltersSwaps
<1>2. /\ 1 \in DOMAIN r.thread /\ t \in DOMAIN r.thread /\ DOMAIN q.thread = DOMAIN r.thread
      /\ q.thread[t] = th
  BY <1>1, RunDomain DEF AtStep, Swapped
<1>3. /\ site = SiteIn(r, t) /\ site \in Sites(w) /\ Kind(w, site) = Step(p, t).kind
      /\ site[1] = r.thread[1].at /\ site[2] = t - 1
  BY SiteInForm DEF Site, Here
<1>4. ASSUME NEW u \in DOMAIN r.thread, u # t
      PROVE  /\ q.thread[u] = r.thread[u] /\ q.thread[1] = r.thread[1]
             /\ u \in Nat /\ t \in Nat
  <2>1. t # 1
    BY <1>4, AloneWhenMain
  <2> QED
    BY <1>1, <1>2, <1>4, <2>1, RunDomain, SiteInForm DEF Swapped
<1>5. ASSUME NEW s \in Sites(w), AwakeBy(q, s)
      PROVE  Settled(w, g, s, n)
  <2>1. CASE AwakeBy(r, s)
    <3>1. Settled(w, f, s, n)
      BY <2>1 DEF SleepsIn
    <3> QED
      BY <3>1, EffectOver
  <2>2. CASE /\ th.at = r.thread[t].at + 1 /\ s = site
             /\ ~(th.loc = "done" /\ th.err.kind = "suspend")
    BY <2>2
  <2> QED
    BY <1>5, <2>1, <2>2, AwakeMore
<1>6. ASSUME NEW u \in DOMAIN q.thread, Sleeping(q, u), NEW s \in Sites(w), Ahead(q, u, s)
      PROVE  Rested(w, g, s, n, q.thread[u].err.resumeAt)
  <2>1. CASE u = t
    <3>1. t # 1
      BY <1>2, <1>6, <2>1 DEF Sleeping
    <3>2. q.thread[1] = r.thread[1]
      BY <1>1, <1>2, <3>1 DEF Swapped
    <3>3. Ahead(r, t, s)
      BY <1>6, <2>1, <3>2 DEF Ahead
    <3> QED
      BY <1>2, <1>6, <2>1, <3>3 DEF Sleeping
  <2>2. CASE u # t
    <3>1. q.thread[u] = r.thread[u] /\ q.thread[1] = r.thread[1] /\ u \in Nat /\ t \in Nat
      BY <1>2, <1>4, <2>2
    <3>2. Sleeping(r, u) /\ Ahead(r, u, s)
      BY <1>6, <3>1 DEF Sleeping, Ahead
    <3>3. Rested(w, f, s, n, r.thread[u].err.resumeAt)
      BY <1>2, <3>2 DEF SleepsIn
    <3>4. s # site
      <4>1. s[1] > r.thread[1].at \/ s[2] = u - 1
        BY <3>2 DEF Ahead
      <4>2. r.thread[1].at \in Nat
        BY <1>1, <1>2, RunDomain DEF IsThread
      <4>3. u - 1 # t - 1
        BY <2>2, <3>1
      <4> QED
        BY <1>3, <4>1, <4>2, <4>3
    <3> QED
      BY <3>1, <3>3, <3>4, EffectOver DEF Rested
  <2> QED
    BY <2>1, <2>2
<1>7. ASSUME NEW u \in DOMAIN q.thread, q.thread[u].loc \in {"fn", "save"}
      PROVE  /\ NoneAfter(w, g, SiteIn(q, u))
             /\ q.thread[u].loc = "save" =>
                  (q.thread[u].val.tag = "time" <=> Kind(w, SiteIn(q, u)) = "sleep")
  <2>1. CASE u = t
    <3>1. th.loc \in {"fn", "save"} /\ th.at = r.thread[t].at
      BY <1>2, <1>7, <2>1
    <3>2. q.thread[1].at = r.thread[1].at
      BY <1>1, <1>2, <3>1 DEF Swapped
    <3>3. SiteIn(q, u) = site
      BY <1>2, <1>3, <2>1, <3>1, <3>2 DEF SiteIn
    <3> QED
      BY <1>2, <1>3, <2>1, <3>1, <3>3
  <2>2. CASE u # t
    <3>1. q.thread[u] = r.thread[u] /\ q.thread[1] = r.thread[1] /\ u \in Nat /\ t \in Nat
      BY <1>2, <1>4, <2>2
    <3>2. SiteIn(q, u) = SiteIn(r, u) /\ u \in DOMAIN r.thread
      BY <1>2, <3>1 DEF SiteIn
    <3>3. /\ NoneAfter(w, f, SiteIn(r, u))
          /\ r.thread[u].loc = "save" =>
               (r.thread[u].val.tag = "time" <=> Kind(w, SiteIn(r, u)) = "sleep")
      BY <1>7, <3>1, <3>2 DEF SleepsIn
    <3>4. ASSUME NEW s \in Sites(w), Before(SiteIn(r, u), s), Has(w, g, s)
          PROVE  Got(w, g, s).tag # "time"
      <4>1. s # site
        <5>1. SiteIn(r, u)[1] = r.thread[1].at /\ SiteIn(r, u)[2] = u - 1
          BY DEF SiteIn, SiteOf
        <5>2. s[1] > r.thread[1].at \/ s[2] = u - 1
          BY <1>3, <3>4, <5>1 DEF Before
        <5>3. r.thread[1].at \in Nat
          BY <1>1, <1>2, RunDomain DEF IsThread
        <5>4. u - 1 # t - 1
          BY <2>2, <3>1
        <5> QED
          BY <1>3, <5>2, <5>3, <5>4
      <4>2. Has(w, f, s) /\ Got(w, g, s) = Got(w, f, s)
        BY <3>4, <4>1, EffectSites
      <4> QED
        BY <3>3, <3>4, <4>2 DEF NoneAfter
    <3> QED
      BY <3>1, <3>2, <3>3, <3>4 DEF NoneAfter
  <2> QED
    BY <2>1, <2>2
<1>8. ASSUME NEW u \in DOMAIN q.thread, q.thread[u].err.kind = "suspend"
      PROVE  q.thread[u].loc = "done"
  <2>1. CASE u = t
    BY <1>2, <1>8, <2>1
  <2>2. CASE u # t
    BY <1>2, <1>4, <1>8, <2>2 DEF SleepsIn
  <2> QED
    BY <2>1, <2>2
<1> QED
  BY <1>5, <1>6, <1>7, <1>8 DEF SleepsIn

(* A goroutine that suspends may sleep until then: what comes before its   *)
(* step is settled, and nothing after it is recorded as a sleep.           *)
LEMMA AheadRests ==
  ASSUME NamesDistinct, TablesOK, NEW p, NEW t, AtStep(p, t), NEW n, NEW resumeAt,
         ReplayIn(run[p], task[p].id, results[task[p].id]),
         SleepsIn(run[p], task[p].id, results[task[p].id], n),
         results' = results \/ Saves(p, t),
         Over(task[p].id, results'[task[p].id], Site(p, t), resumeAt),
         NoneAfter(task[p].id, results'[task[p].id], Site(p, t)),
         NEW s \in Sites(task[p].id), Ahead(run[p], t, s)
  PROVE  Rested(task[p].id, results'[task[p].id], s, n, resumeAt)
<1> DEFINE w == task[p].id
           r == run[p]
           g == results'[w]
           site == Site(p, t)
           j == IF t = 1 THEN 0 ELSE r.thread[t].at
<1>1. /\ site = <<r.thread[1].at, t - 1, j>> /\ site \in Sites(w)
      /\ t \in Nat /\ j \in Nat /\ r.thread[1].at \in Nat
  <2>1. IsRun(r) /\ r.thread[t].at \in Nat /\ t \in Nat /\ site \in Sites(w)
    BY AtStepForm, AtStepCode, SiteInForm
  <2>2. IsThread(r.thread[1])
    BY <2>1, RunDomain
  <2> QED
    BY <2>1, <2>2 DEF Site, Here, IsThread
<1>2. s = <<s[1], s[2], s[3]>> /\ s[1] \in Nat /\ s[2] \in Nat /\ s[3] \in Nat
      /\ (s[2] = 0 => s[3] = 0)
  BY SiteParts DEF AtStep
<1>3. CASE Before(site, s)
  BY <1>3 DEF NoneAfter, Rested, Over
<1>4. CASE s = site
  BY <1>4 DEF Rested
<1>5. CASE Before(s, site)
  <2>1. Settled(w, results[w], s, n)
    BY <1>5, BeforeSettled
  <2>2. Settled(w, g, s, n)
    BY <2>1, EffectOver
  <2> QED
    BY <2>2 DEF Settled, Rested
<1>6. Before(site, s) \/ s = site \/ Before(s, site)
  <2> HIDE DEF j
  <2>1. site[1] = r.thread[1].at /\ site[2] = t - 1 /\ site[3] = j
    BY <1>1
  <2>2. CASE s[1] > r.thread[1].at
    BY <2>1, <2>2 DEF Before
  <2>3. CASE s[1] = r.thread[1].at /\ s[2] = t - 1
    BY <1>1, <1>2, <2>1, <2>3 DEF Before
  <2> QED
    BY <2>2, <2>3 DEF Ahead
<1> QED
  BY <1>3, <1>4, <1>5, <1>6

(* A goroutine that suspends, or fails.                                    *)
LEMMA SleepsLeaves ==
  ASSUME NamesDistinct, TypeOK, StepsInv, NEW p \in Workers, pc[p] = "execute",
         NEW t, AtStep(p, t), NEW o, NEW at, NEW view, Leaves(p, t, o, at, view),
         ReplayIn(run[p], task[p].id, results[task[p].id]),
         SleepsIn(run[p], task[p].id, results[task[p].id], now),
         results' = results \/ Saves(p, t),
         \/ at = run[p].thread[t].at
         \/ at = run[p].thread[t].at + 1 /\ o.kind = "suspend",
         o.kind = "suspend" =>
           \A s \in Sites(task[p].id) : Ahead(run[p], t, s) =>
             Rested(task[p].id, results'[task[p].id], s, now, o.resumeAt)
  PROVE  SleepsOK(p)' /\ SuspendsRested(p)'
<1> DEFINE w == task[p].id
           r == run[p]
<1>1. CASE t = 1
  <2>1. Quits(p, o)
    BY <1>1 DEF Leaves
  <2>2. run'[p] = NoRun
    BY <2>1, QuitsForgets
  <2>3. outcome'[p] = o /\ task' = task /\ now' = now
    BY <2>1 DEF Quits, Return, TypeOK
  <2>4. ASSUME o.kind = "suspend", NEW s \in Sites(w)
        PROVE  Rested(w, results'[w], s, now, o.resumeAt)
    <3>1. /\ s[1] \in Nat /\ (Program[w][s[1]].kind # "parallel" <=> s[2] = 0)
      BY SiteParts DEF AtStep
    <3>2. r.thread[1].at \in Nat /\ Program[w][r.thread[1].at].kind # "parallel"
      BY <1>1, AtStepForm, AtStepCode DEF Reached
    <3>3. CASE s[1] < r.thread[1].at
      <4>1. Settled(w, results[w], s, now)
        BY <3>3 DEF SleepsIn, AwakeBy
      <4>2. Settled(w, results'[w], s, now)
        BY <4>1, EffectOver DEF StepsInv
      <4> QED
        BY <4>2 DEF Settled, Rested
    <3>4. CASE s[1] > r.thread[1].at
      BY <2>4, <3>4 DEF Ahead
    <3>5. CASE s[1] = r.thread[1].at
      BY <1>1, <2>4, <3>1, <3>2, <3>5 DEF Ahead
    <3> QED
      BY <3>1, <3>2, <3>3, <3>4, <3>5
  <2> QED
    BY <2>2, <2>3, <2>4 DEF SleepsOK, SuspendsRested
<1>2. CASE t # 1
  <2>1. PICK th : Alters(p, t, th) /\ th.at = at /\ th.loc = "done" /\ th.err = o
    BY <1>2 DEF Leaves
  <2>2. task' = task /\ pc' = pc /\ now' = now /\ TablesOK
    BY <2>1 DEF Alters, vars, memoryVars, StepsInv
  <2>3. r.thread[t].at \in Nat
    BY AtStepCode
  <2>4. SleepsIn(run'[p], w, results'[w], now)
    BY <1>2, <2>1, <2>2, <2>3, SleepsAlters
  <2> QED
    BY <2>2, <2>4 DEF SleepsOK, SuspendsRested
<1> QED
  BY <1>1, <1>2

LEMMA AwakeAtStep ==
  ASSUME NEW p, NEW t, AtStep(p, t), NEW w, NEW f, NEW n, SleepsIn(run[p], w, f, n)
  PROVE  run[p].thread[t].err.kind # "suspend"
BY DEF AtStep, SleepsIn

LEMMA SleepsGoes ==
  ASSUME NamesDistinct, TypeOK, StepsInv, NEW p \in Workers, pc[p] = "execute",
         NEW t, AtStep(p, t), NEW loc \in {"enter", "lookup"}, NEW at, NEW view,
         Goes(p, t, loc, at, view),
         ReplayIn(run[p], task[p].id, results[task[p].id]),
         SleepsIn(run[p], task[p].id, results[task[p].id], now),
         results' = results \/ Saves(p, t),
         \/ at = run[p].thread[t].at
         \/ /\ at = run[p].thread[t].at + 1
            /\ Settled(task[p].id, results'[task[p].id], Site(p, t), now)
  PROVE  SleepsOK(p)' /\ SuspendsRested(p)'
<1>1. PICK th : /\ Alters(p, t, th) /\ th.at = at /\ th.loc = loc
                /\ th.err = run[p].thread[t].err
  BY DEF Goes
<1>2. task' = task /\ pc' = pc /\ now' = now /\ TablesOK
  BY <1>1 DEF Alters, vars, memoryVars, StepsInv
<1>3. run[p].thread[t].at \in Nat /\ th.err.kind # "suspend" /\ th.loc \notin {"done", "fn", "save"}
  BY <1>1, AtStepCode, AwakeAtStep
<1>4. SleepsIn(run'[p], task[p].id, results'[task[p].id], now)
  BY <1>1, <1>2, <1>3, SleepsAlters
<1> QED
  BY <1>2, <1>4 DEF SleepsOK, SuspendsRested

(* A goroutine that computes the result of its step, or is about to.       *)
LEMMA SleepsPlaces ==
  ASSUME NamesDistinct, TypeOK, StepsInv, NEW p \in Workers, pc[p] = "execute",
         NEW t, AtStep(p, t), NEW th, Alters(p, t, th), results' = results,
         th.at = run[p].thread[t].at, th.loc \in {"fn", "save"},
         th.err = run[p].thread[t].err,
         th.loc = "save" => (th.val.tag = "time" <=> Step(p, t).kind = "sleep"),
         ReplayIn(run[p], task[p].id, results[task[p].id]),
         SleepsIn(run[p], task[p].id, results[task[p].id], now),
         NoneAfter(task[p].id, results[task[p].id], Site(p, t))
  PROVE  SleepsOK(p)' /\ SuspendsRested(p)'
<1>1. task' = task /\ pc' = pc /\ now' = now /\ TablesOK
  BY DEF Alters, vars, memoryVars, StepsInv
<1>2. run[p].thread[t].at \in Nat /\ th.err.kind # "suspend" /\ th.loc # "done"
  BY AtStepCode, AwakeAtStep
<1>3. SleepsIn(run'[p], task[p].id, results'[task[p].id], now)
  BY <1>1, <1>2, SleepsAlters
<1> QED
  BY <1>1, <1>3 DEF SleepsOK, SuspendsRested

(* A goroutine that has the result of its step.                            *)
LEMMA SleepsLearns ==
  ASSUME NamesDistinct, TypeOK, StepsInv, NEW p \in Workers, pc[p] = "execute",
         NEW t, AtStep(p, t), Learns(p, t),
         ReplayIn(run[p], task[p].id, results[task[p].id]),
         SleepsIn(run[p], task[p].id, results[task[p].id], now),
         DOMAIN run[p].cache \subseteq DOMAIN results[task[p].id],
         TableIn(task[p].id, results'[task[p].id], now)
  PROVE  SleepsOK(p)' /\ SuspendsRested(p)'
<1> DEFINE w == task[p].id
           r == run[p]
           g == results'[w]
           site == Site(p, t)
           next == r.thread[t].at + 1
<1>1. PICK x \in StepResult :
        /\ Told(p, t, x)
        /\ IF Step(p, t).kind = "sleep" /\ now < x.n
           THEN Leaves(p, t, [kind |-> "suspend", resumeAt |-> x.n], next,
                       Put(r.view, site, x))
           ELSE Goes(p, t, "enter", next, Put(r.view, site, x))
  BY DEF Learns
<1>2. results' = results \/ Saves(p, t)
  BY <1>1 DEF Told, Finds
<1>3. site \in Sites(w) /\ Kind(w, site) = Step(p, t).kind
  BY SiteInForm
<1>4. Has(w, g, site)
  BY LearnsRecorded DEF Has
<1>5. Step(p, t).kind # "wait" => Got(w, g, site) = x
  BY <1>1, ToldRecorded DEF StepsInv, Got
<1>6. Got(w, g, site).tag = "time" <=> Step(p, t).kind = "sleep"
  BY <1>3, <1>4 DEF TableIn
<1>7. now \in Nat /\ x.n \in Nat
  BY ResultTimes, HorizonAssumption DEF TypeOK
<1>8. CASE Step(p, t).kind = "sleep" /\ now < x.n
  <2> DEFINE o == [kind |-> "suspend", resumeAt |-> x.n]
  <2>1. Over(w, g, site, x.n)
    BY <1>5, <1>7, <1>8 DEF Over
  <2>2. ~Settled(w, g, site, now)
    BY <1>4, <1>5, <1>6, <1>7, <1>8 DEF Settled, Over
  <2>3. NoneAfter(w, g, site)
    BY <1>3, <2>2 DEF NoneAfter, TableIn
  <2>4. \A s \in Sites(w) : Ahead(r, t, s) => Rested(w, g, s, now, x.n)
    BY <1>2, <2>1, <2>3, AheadRests DEF StepsInv
  <2>5. Leaves(p, t, o, next, Put(r.view, site, x)) /\ o.kind = "suspend"
        /\ o.resumeAt = x.n
    BY <1>1, <1>8
  <2> HIDE DEF o
  <2> QED
    BY <1>2, <2>4, <2>5, SleepsLeaves
<1>9. CASE ~(Step(p, t).kind = "sleep" /\ now < x.n)
  <2>1. Settled(w, g, site, now)
    BY <1>4, <1>5, <1>6, <1>7, <1>9 DEF Settled, Over
  <2>2. Goes(p, t, "enter", next, Put(r.view, site, x))
    BY <1>1, <1>9
  <2> QED
    BY <1>2, <2>1, <2>2, SleepsGoes
<1> QED
  BY <1>8, <1>9

LEMMA SleepsGoroutine ==
  ASSUME NamesDistinct, TypeOK, StepsInv, NEW p \in Workers, pc[p] = "execute",
         NEW t, AtStep(p, t), Effect(p, t),
         ReplayIn(run[p], task[p].id, results[task[p].id]),
         SleepsIn(run[p], task[p].id, results[task[p].id], now),
         DOMAIN run[p].cache \subseteq DOMAIN results[task[p].id],
         TableIn(task[p].id, results[task[p].id], now)
  PROVE  /\ SleepsOK(p)' /\ SuspendsRested(p)'
         /\ TableIn(task[p].id, results'[task[p].id], now)
<1> DEFINE w == task[p].id
           r == run[p]
           at == r.thread[t].at
           site == Site(p, t)
<1>0. TablesOK
  BY DEF StepsInv
<1>1. TableIn(w, results'[w], now)
  <2>1. CASE Saves(p, t)
    BY <1>0, <2>1, SavesTable
  <2>2. CASE results' = results
    BY <2>2
  <2> QED
    BY <2>1, <2>2, EffectResults
<1>2. /\ site = SiteIn(r, t) /\ site \in Sites(w)
      /\ Kind(w, site) = Step(p, t).kind /\ t \in DOMAIN r.thread
  BY SiteInForm DEF AtStep
<1>3. CASE Fails(p, t)
  <2>1. PICK o : /\ o.kind # "suspend" /\ results' = results
                 /\ Leaves(p, t, o, at, r.view)
    BY <1>3 DEF Fails
  <2> QED
    BY <1>1, <2>1, SleepsLeaves
<1>4. CASE Enters(p, t)
  BY <1>1, <1>4, SleepsGoes DEF Enters
<1>5. CASE Misses(p, t)
  <2>1. PICK th : /\ Alters(p, t, th) /\ th.at = at /\ th.loc = "fn"
                  /\ th.err = r.thread[t].err
    BY <1>5 DEF Misses, Goes
  <2>2. ~Has(w, results[w], site) /\ results' = results
    BY <1>5, NameHereForm DEF Misses, Has
  <2>3. NoneAfter(w, results[w], site)
    BY <1>2, <2>2 DEF NoneAfter, TableIn, Settled
  <2> QED
    BY <1>1, <2>1, <2>2, <2>3, SleepsPlaces
<1>6. CASE Computes(p, t)
  <2>1. PICK th : /\ Alters(p, t, th) /\ th.at = at /\ th.loc = "save"
                  /\ th.err = r.thread[t].err
                  /\ th.val.tag = "time" <=> Step(p, t).kind = "sleep"
    BY <1>6 DEF Computes
  <2>2. NoneAfter(w, results[w], site) /\ results' = results
    BY <1>2, <1>6 DEF Computes, SleepsIn
  <2> QED
    BY <1>1, <2>1, <2>2, SleepsPlaces
<1>7. CASE Learns(p, t)
  BY <1>1, <1>7, SleepsLearns
<1>8. CASE Waits(p, t) \/ Yields(p, t)
  <2>1. PICK n \in 0..Horizon :
          Leaves(p, t, [kind |-> "suspend", resumeAt |-> n], at, r.view)
    BY <1>8 DEF Waits, Yields
  <2>2. /\ results' = results /\ Step(p, t).kind # "sleep"
        /\ r.thread[t].loc = "fn"
    BY <1>8 DEF Waits, Yields, SubscribesTo, InStep
  <2>3. NoneAfter(w, results'[w], site)
    BY <1>2, <2>2 DEF SleepsIn
  <2>4. Over(w, results'[w], site, n)
    BY <1>1, <1>2, <2>2 DEF TableIn, Over
  <2>5. \A s \in Sites(w) : Ahead(r, t, s) => Rested(w, results'[w], s, now, n)
    BY <1>0, <2>2, <2>3, <2>4, AheadRests
  <2> DEFINE o == [kind |-> "suspend", resumeAt |-> n]
  <2>6. o.kind = "suspend" /\ o.resumeAt = n /\ Leaves(p, t, o, at, r.view)
    BY <2>1
  <2> HIDE DEF o
  <2> QED
    BY <1>1, <2>2, <2>5, <2>6, SleepsLeaves
<1> QED
  BY <1>3, <1>4, <1>5, <1>6, <1>7, <1>8 DEF Effect

(* A Parallel that suspends does so until the last of its branches, and    *)
(* none of them has failed.                                                *)
LEMMA JoinedSuspends ==
  ASSUME NEW r, IsRun(r), NEW signal, ErrsAt(r, signal),
         Joined(r.thread).kind = "suspend"
  PROVE  /\ Failed(r.thread) = {}
         /\ \E u \in Asleep(r.thread) :
              /\ r.thread[u].err.resumeAt = Joined(r.thread).resumeAt
              /\ \A v \in Asleep(r.thread) :
                   r.thread[v].err.resumeAt <= Joined(r.thread).resumeAt
<1> DEFINE T == r.thread
           latest == CHOOSE t \in Asleep(T) : \A u \in Asleep(T) :
                       T[t].err.resumeAt >= T[u].err.resumeAt
<1>1. \A t \in DOMAIN T : t \in Nat /\ ErrOK(T[t].err, signal)
  BY RunDomain DEF ErrsAt
<1>2. \A t \in DOMAIN T : T[t].err.resumeAt \in 0..Horizon
  BY <1>1 DEF ErrOK, Outcome
<1> HIDE DEF T
<1>3. Failed(T) = {}
  <2> SUFFICES ASSUME Failed(T) # {} PROVE FALSE
    OBVIOUS
  <2>1. First(Failed(T)) \in Failed(T)
    BY <1>1, FirstIn DEF Failed, Errors
  <2>2. Joined(T) = T[First(Failed(T))].err
    BY DEF Joined
  <2> QED
    BY <2>1, <2>2 DEF Failed, Errors, Failures, T
<1>4. Asleep(T) # {}
  <2> SUFFICES ASSUME Asleep(T) = {} PROVE FALSE
    OBVIOUS
  <2>1. Joined(T) = NoOutcome
    BY <1>3 DEF Joined
  <2> QED
    BY <2>1 DEF NoOutcome, OutcomeOf, T
<1>5. latest \in Asleep(T) /\ \A u \in Asleep(T) :
        T[latest].err.resumeAt >= T[u].err.resumeAt
  <2> DEFINE f == [t \in Asleep(T) |-> T[t].err.resumeAt]
  <2>1. \A t \in Asleep(T) : f[t] \in 0..Horizon /\ f[t] = T[t].err.resumeAt
    BY <1>2 DEF Asleep, Errors
  <2> HIDE DEF f
  <2>2. \E t \in Asleep(T) : \A u \in Asleep(T) : f[t] >= f[u]
    BY <1>4, <2>1, LatestIn
  <2>3. \E t \in Asleep(T) : \A u \in Asleep(T) :
          T[t].err.resumeAt >= T[u].err.resumeAt
    BY <2>1, <2>2
  <2> QED
    BY <2>3
<1>6. Joined(T) = T[latest].err
  BY <1>3, <1>4 DEF Joined
<1> HIDE DEF latest
<1>7. \A u \in Asleep(T) : T[u].err.resumeAt \in Nat
  BY <1>2 DEF Asleep, Errors
<1>8. \A u \in Asleep(T) : T[u].err.resumeAt <= T[latest].err.resumeAt
  BY <1>5, <1>7
<1> QED
  BY <1>3, <1>5, <1>6, <1>8 DEF T

-----------------------------------------------------------------------------
(* Sleeping as long as the longest sleep: the steps                        *)

LEMMA OverLonger ==
  ASSUME TablesOK, NEW w \in Workflows, NEW s, NEW n \in Nat, NEW m \in Nat, n <= m,
         Over(w, results[w], s, n)
  PROVE  Over(w, results[w], s, m)
<1>1. Has(w, results[w], s) => Got(w, results[w], s).n \in Nat
  BY RecordedTimes
<1> QED
  BY <1>1 DEF Over

(* The branches of a Parallel that suspends have all returned.             *)
LEMMA JoinRests ==
  ASSUME TypeOK, TablesOK, NEW p \in Workers, task[p].id \in Workflows,
         ContextAt(run[p], task[p].id, SignalOf(p)), Joinable(p),
         Joined(run[p].thread).kind = "suspend",
         SleepsIn(run[p], task[p].id, results[task[p].id], now),
         NEW s \in Sites(task[p].id)
  PROVE  Rested(task[p].id, results[task[p].id], s, now, Joined(run[p].thread).resumeAt)
<1> DEFINE w == task[p].id
           r == run[p]
           f == results[w]
           last == Joined(r.thread).resumeAt
           t == s[2] + 1
           code == Program[w][s[1]].branches[s[2]].steps
<1>1. /\ IsRun(r) /\ ErrsAt(r, SignalOf(p)) /\ Forks(r, w)
      /\ \A u \in DOMAIN r.thread : ThreadAt(r.thread[u], CodeOf(w, Here(p), u))
      /\ r.thread[1].err = NoOutcome
  BY DEF ContextAt, PlacedAt, Here
<1>2. /\ Here(p) = r.thread[1].at
      /\ Program[w][Here(p)].kind = "parallel"
      /\ DOMAIN r.thread = 1..(Len(Program[w][Here(p)].branches) + 1)
  BY <1>1 DEF Joinable, Forked, Forks, Here
<1>3. Failed(r.thread) = {}
      /\ \A u \in Asleep(r.thread) : r.thread[u].err.resumeAt <= last
  BY <1>1, JoinedSuspends
<1>4. \A u \in DOMAIN r.thread : r.thread[u].err.resumeAt \in 0..Horizon
  BY <1>1 DEF ErrsAt, ErrOK, Outcome
<1>5. PICK u \in Asleep(r.thread) : r.thread[u].err.resumeAt = last
  BY <1>1, JoinedSuspends
<1>6. u \in DOMAIN r.thread /\ Sleeping(r, u) /\ last \in Nat
  <2>1. u \in DOMAIN r.thread /\ r.thread[u].err.kind = "suspend"
    BY DEF Asleep, Errors
  <2>2. r.thread[u].loc = "done"
    BY <2>1 DEF SleepsIn
  <2> QED
    BY <1>4, <1>5, <2>1, <2>2 DEF Sleeping
<1>7. s[1] \in Nat /\ Here(p) \in Nat
  BY <1>1, <1>2, RunDomain, SiteParts DEF IsThread
<1>8. CASE s[1] < Here(p)
  BY <1>2, <1>8 DEF SleepsIn, AwakeBy, Settled, Rested
<1>9. CASE s[1] > Here(p)
  <2>1. Ahead(r, u, s)
    BY <1>2, <1>9 DEF Ahead
  <2> QED
    BY <1>5, <1>6, <2>1 DEF SleepsIn
<1>10. CASE s[1] = Here(p)
  <2>1. /\ s[1] \in DOMAIN Program[w] /\ s[2] \in Nat \ {0}
        /\ s[2] \in DOMAIN Program[w][s[1]].branches
        /\ s[3] \in DOMAIN code
    BY <1>2, <1>10, SiteParts
  <2>2. /\ Len(Program[w][s[1]].branches) \in Nat
        /\ DOMAIN Program[w][s[1]].branches = 1..Len(Program[w][s[1]].branches)
        /\ Len(code) \in Nat /\ DOMAIN code = 1..Len(code)
    BY <1>2, <1>10, <2>1, BranchCode
  <2> HIDE DEF code
  <2>0. DOMAIN r.thread = 1..(Len(Program[w][s[1]].branches) + 1)
    BY <1>2, <1>10
  <2>3. t \in DOMAIN r.thread /\ t # 1 /\ t - 1 = s[2]
    <3> DEFINE n == Len(Program[w][s[1]].branches)
    <3>1. n \in Nat /\ s[2] \in 1..n /\ DOMAIN r.thread = 1..(n + 1)
      BY <2>0, <2>1, <2>2
    <3> HIDE DEF n
    <3> QED
      BY <3>1
  <2>4. CASE Sleeping(r, t)
    <3>1. Ahead(r, t, s)
      BY <1>2, <1>10, <2>3 DEF Ahead
    <3>2. Rested(w, f, s, now, r.thread[t].err.resumeAt)
      BY <2>3, <2>4, <3>1 DEF SleepsIn
    <3>3. r.thread[t].err.resumeAt \in Nat /\ r.thread[t].err.resumeAt <= last
      BY <1>3, <1>4, <2>3, <2>4 DEF Sleeping, Asleep, Errors
    <3> QED
      BY <1>6, <3>2, <3>3, OverLonger DEF Rested
  <2>5. CASE ~Sleeping(r, t)
    <3>1. CodeOf(w, Here(p), t) = code /\ Code(p, t) = code
      BY <1>10, <2>3 DEF CodeOf, Code, Main, Here, code
    <3>2. ThreadAt(r.thread[t], code)
      BY <1>1, <2>3, <3>1
    <3>3. r.thread[t].loc # "done"
      <4>1. r.thread[t].err.kind \notin {"cancelled", "permanent", "transient"}
        BY <1>3, <2>3 DEF Failed, Errors, Failures
      <4>2. r.thread[t].err \in Outcome /\ r.thread[t].err.kind # "completed"
        BY <1>1, <2>3 DEF ErrsAt, ErrOK
      <4>3. r.thread[t].err.kind \in {"none", "suspend"}
        BY <4>1, <4>2 DEF Outcome
      <4> QED
        BY <2>5, <3>2, <4>3 DEF ThreadAt, Sleeping
    <3>4. r.thread[t].at \notin DOMAIN code
      BY <2>3, <3>1, <3>3 DEF Joinable
    <3>5. s[3] < r.thread[t].at
      <4>1. r.thread[t].at \in 1..(Len(code) + 1)
        BY <3>2 DEF ThreadAt
      <4> QED
        BY <2>1, <2>2, <3>4, <4>1
    <3>6. AwakeBy(r, s)
      BY <1>2, <1>10, <2>3, <2>5, <3>5 DEF AwakeBy, BeyondIn
    <3> QED
      BY <3>6 DEF SleepsIn, Settled, Rested
  <2> QED
    BY <2>4, <2>5
<1> QED
  BY <1>7, <1>8, <1>9, <1>10

LEMMA MainErr ==
  ASSUME StepsInv', NEW p \in Workers, run'[p] # NoRun
  PROVE  run'[p].thread[1].err.kind = "none"
<1>1. run'[p].thread[1].err = NoOutcome
  BY DEF StepsInv, RunsOK, RunOK, ContextAt, PlacedAt
<1> QED
  BY <1>1 DEF NoOutcome, OutcomeOf

(* A context without goroutines that sleep or run a function.              *)
LEMMA SleepsFresh ==
  ASSUME NEW r, NEW q, NEW w, NEW f, NEW n, SleepsIn(r, w, f, n),
         \A s \in Sites(w) : AwakeBy(q, s) => AwakeBy(r, s) \/ Settled(w, f, s, n),
         \A t \in DOMAIN q.thread :
           q.thread[t].loc \in {"enter", "join"} /\ q.thread[t].err.kind = "none"
  PROVE  SleepsIn(q, w, f, n)
BY DEF SleepsIn, Sleeping

LEMMA SleepsStarts ==
  ASSUME StepsInv', NEW p \in Workers, run'[p] # NoRun, task[p].id \in Workflows,
         Starts(p), NEW f, NEW n
  PROVE  SleepsIn(run'[p], task[p].id, f, n)
<1> DEFINE q == run'[p]
<1>1. /\ DOMAIN q.thread = {1} /\ q.thread[1].loc = "enter" /\ q.thread[1].at = 1
      /\ q.thread[1].err.kind = "none"
  BY MainErr DEF Starts
<1>2. ASSUME NEW s \in Sites(task[p].id)
      PROVE  ~AwakeBy(q, s)
  <2>1. s[1] \in Nat \ {0}
    BY SiteParts
  <2> QED
    BY <1>1, <2>1 DEF AwakeBy, BeyondIn
<1> QED
  BY <1>1, <1>2 DEF SleepsIn, Sleeping

LEMMA SleepsSplits ==
  ASSUME StepsInv', NEW p \in Workers, run'[p] # NoRun, task[p].id \in Workflows,
         Splits(p), NEW f, NEW n, SleepsIn(run[p], task[p].id, f, n)
  PROVE  SleepsIn(run'[p], task[p].id, f, n)
<1> DEFINE q == run'[p]
           w == task[p].id
<1>1. ASSUME NEW s \in Sites(w), AwakeBy(q, s)
      PROVE  AwakeBy(run[p], s)
  <2>1. s[2] \in Nat /\ s[3] \in Nat /\ (s[2] = 0 \/ s[3] \in Nat \ {0})
    BY SiteParts
  <2>2. ASSUME NEW t \in DOMAIN q.thread
        PROVE  ~BeyondIn(q, t, s)
    BY <2>1 DEF BeyondIn, Splits
  <2>3. q.thread[1].at = run[p].thread[1].at
    BY DEF Splits, Here
  <2> QED
    BY <1>1, <2>2, <2>3 DEF AwakeBy
<1>2. ASSUME NEW t \in DOMAIN q.thread
      PROVE  q.thread[t].loc \in {"enter", "join"} /\ q.thread[t].err.kind = "none"
  <2>1. CASE t = 1
    BY <2>1, MainErr DEF Splits
  <2>2. CASE t # 1
    BY <1>2, <2>2 DEF Splits, NoOutcome, OutcomeOf
  <2> QED
    BY <2>1, <2>2
<1> HIDE DEF q, w
<1>3. SleepsIn(run[p], w, f, n)
  BY DEF w
<1>4. SleepsIn(q, w, f, n)
  BY <1>1, <1>2, <1>3, SleepsFresh
<1> QED
  BY <1>4 DEF q, w

LEMMA SleepsResumes ==
  ASSUME StepsInv', NEW p \in Workers, run'[p] # NoRun, task[p].id \in Workflows,
         ContextAt(run[p], task[p].id, SignalOf(p)),
         Resumes(p), NEW f, NEW n, SleepsIn(run[p], task[p].id, f, n)
  PROVE  SleepsIn(run'[p], task[p].id, f, n)
<1> DEFINE r == run[p]
           q == run'[p]
           w == task[p].id
<1>1. IsRun(r) /\ ErrsAt(r, SignalOf(p)) /\ Here(p) \in Nat
  BY RunDomain DEF ContextAt, PlacedAt, IsThread, Here
<1>2. \A t \in DOMAIN r.thread : ~Sleeping(r, t)
  BY <1>1, JoinedNone DEF Resumes, Sleeping
<1>3. /\ DOMAIN q.thread = {1} /\ q.thread[1].loc = "enter"
      /\ q.thread[1].at = Here(p) + 1 /\ q.thread[1].err.kind = "none"
  BY MainErr DEF Resumes
<1>4. ASSUME NEW s \in Sites(w), AwakeBy(q, s)
      PROVE  AwakeBy(r, s)
  <2>1. s[1] < Here(p) + 1 /\ s[1] \in Nat
    BY <1>3, <1>4, SiteParts DEF AwakeBy, BeyondIn
  <2>2. CASE s[1] < Here(p)
    BY <2>2 DEF AwakeBy, Here
  <2>3. CASE s[1] = Here(p)
    <3>1. PassedBy(r, s)
      BY <2>3, BranchesRun DEF Resumes
    <3> QED
      BY <1>2, <3>1 DEF PassedBy, AwakeBy
  <2> QED
    BY <1>1, <2>1, <2>2, <2>3
<1> HIDE DEF r, q, w
<1>5. SleepsIn(r, w, f, n)
  BY DEF r, w
<1>6. SleepsIn(q, w, f, n)
  BY <1>3, <1>4, <1>5, SleepsFresh
<1> QED
  BY <1>6 DEF q, w

(* A step of the worker itself.                                            *)
SleepsOwnInv(p) ==
  /\ ReplayOK(p) /\ PassedRecorded(p) /\ SleepsOK(p)
  /\ task[p].id \in Workflows => TableIn(task[p].id, results[task[p].id], now)

LEMMA SleepsAround ==
  ASSUME TypeOK, StepsInv, StepsInv', NEW p \in Workers, Around(p), SleepsOK(p), now' = now
  PROVE  SleepsOK(p)' /\ SuspendsRested(p)'
<1>1. RunOK(p)
  BY DEF StepsInv, RunsOK
<1>2. SuspendsRested(p)'
  BY DEF Around, SuspendsRested
<1>3. CASE run'[p] = NoRun
  BY <1>2, <1>3 DEF SleepsOK
<1>4. CASE run' = run /\ task'[p] = task[p] /\ results' = results
  BY <1>2, <1>4 DEF SleepsOK
<1> QED
  BY <1>1, <1>3, <1>4 DEF Around, StepsInv, RunsOK

(* What a step of a worker leaves of the results of a workflow.            *)
LEMMA WorkerResults ==
  ASSUME TypeOK, StepsInv, NEW p \in Workers, StepsWorker(p)
  PROVE  \/ results' = results /\ subs' = subs
         \/ \E t : /\ pc[p] = "execute" /\ AtStep(p, t) /\ Effect(p, t)
                   /\ Saves(p, t) \/ SubscribesTo(p, t)
                   /\ \A w \in Workflows : w # task[p].id => results'[w] = results[w]
<1>1. ASSUME NEW t, pc[p] = "execute", AtStep(p, t), Effect(p, t),
             ~(results' = results /\ subs' = subs)
      PROVE  /\ Saves(p, t) \/ SubscribesTo(p, t)
             /\ \A w \in Workflows : w # task[p].id => results'[w] = results[w]
  <2>1. CASE Saves(p, t)
    BY <1>1, <2>1, SavedResults DEF StepsInv
  <2>2. CASE SubscribesTo(p, t)
    BY <2>2 DEF SubscribesTo
  <2> QED
    BY <1>1, <2>1, <2>2, EffectResults
<1> QED
  BY <1>1, WorkerEffects DEF WorkerEffect, Starts, Around, Splits, Resumes,
     GivesUp, Completes

LEMMA SleepsOwn ==
  ASSUME NamesDistinct, TypeOK, StepsInv, StepsInv', NEW p \in Workers,
         StepsWorker(p), SleepsOwnInv(p)
  PROVE  SleepsOK(p)' /\ SuspendsRested(p)'
<1> DEFINE w == task[p].id
           r == run[p]
<1>0. RunOK(p) /\ now' = now /\ p \in DOMAIN run
  BY WorkerClock DEF StepsInv, RunsOK
<1>1. CASE Around(p)
  BY <1>0, <1>1, SleepsAround DEF SleepsOwnInv
<1>2. CASE Starts(p) /\ w \in Workflows /\ pc[p] = "signal"
  <2>1. task' = task /\ pc' = pc
    BY <1>2 DEF Starts, vars, memoryVars
  <2>2. SleepsOK(p)'
    BY <1>2, <2>1, SleepsStarts DEF SleepsOK
  <2> QED
    BY <1>2, <2>1, <2>2 DEF SuspendsRested
<1>3. CASE pc[p] = "execute" /\ w \in Workflows /\ ContextAt(r, w, SignalOf(p))
  <2>1. /\ r # NoRun /\ ReplayIn(r, w, results[w]) /\ SleepsIn(r, w, results[w], now)
        /\ DOMAIN r.cache \subseteq DOMAIN results[w] /\ TableIn(w, results[w], now)
    BY <1>0, <1>3 DEF RunOK, SleepsOwnInv, ReplayOK, SleepsOK, PassedRecorded
  <2>2. ASSUME NEW t \in DOMAIN r.thread, AtStep(p, t), Effect(p, t)
        PROVE  SleepsOK(p)' /\ SuspendsRested(p)'
    BY <1>3, <2>1, <2>2, SleepsGoroutine
  <2>3. CASE Splits(p) \/ Resumes(p)
    <3>1. task' = task /\ pc' = pc /\ results' = results
      BY <2>3 DEF Splits, Resumes, vars, memoryVars
    <3>2. SleepsOK(p)'
      BY <1>0, <1>3, <2>1, <2>3, <3>1, SleepsSplits, SleepsResumes DEF SleepsOK
    <3> QED
      BY <1>3, <3>1, <3>2 DEF SuspendsRested
  <2>4. ASSUME NEW o, Quits(p, o), results' = results,
               o.kind = "suspend" => \A s \in Sites(w) :
                 Rested(w, results[w], s, now, o.resumeAt)
        PROVE  SleepsOK(p)' /\ SuspendsRested(p)'
    <3>1. outcome'[p] = o /\ task' = task
      BY <2>4 DEF Quits, Return, TypeOK
    <3> QED
      BY <1>0, <2>4, <3>1, QuitsForgets DEF SleepsOK, SuspendsRested
  <2>5. CASE GivesUp(p)
    <3>1. Joined(r.thread).kind = "suspend" => \A s \in Sites(w) :
            Rested(w, results[w], s, now, Joined(r.thread).resumeAt)
      BY <1>3, <2>1, <2>5, JoinRests DEF GivesUp, StepsInv
    <3> QED
      BY <2>4, <2>5, <3>1 DEF GivesUp
  <2>6. CASE Completes(p)
    <3>1. OutcomeOf("completed").kind # "suspend"
      BY DEF OutcomeOf
    <3> QED
      BY <2>4, <2>6, <3>1 DEF Completes
  <2> QED
    BY <1>3, <2>2, <2>3, <2>5, <2>6, WorkerEffects, <1>1, <1>2 DEF WorkerEffect
<1> QED
  BY <1>1, <1>2, <1>3, WorkerEffects DEF WorkerEffect

(* Events give results to steps whose predecessors are settled.            *)
LEMMA DeliversTable ==
  ASSUME NamesDistinct, TypeOK, StepsInv, AwaitedOK, SubsSettled, Delivers,
         now' \in Nat, now <= now', NEW w \in Workflows, TableIn(w, results[w], now)
  PROVE  TableIn(w, results'[w], now')
<1> DEFINE f == results[w]
           g == results'[w]
<1>1. Later(w, f, g, now, now')
  BY LaterStep
<1>2. ASSUME NEW u \in Sites(w), Has(w, g, u), ~(Has(w, f, u) /\ Got(w, g, u) = Got(w, f, u))
      PROVE  Awaited(w, NameOf[w][u]) /\ Got(w, g, u).tag # "time"
  BY <1>2, DeliveredResults DEF Has, Got
<1>3. ASSUME NEW s \in Sites(w), Has(w, g, s)
      PROVE  Got(w, g, s).tag = "time" <=> Kind(w, s) = "sleep"
  <2>1. CASE Has(w, f, s) /\ Got(w, g, s) = Got(w, f, s)
    BY <2>1 DEF TableIn
  <2>2. CASE ~(Has(w, f, s) /\ Got(w, g, s) = Got(w, f, s))
    <3>1. Awaited(w, NameOf[w][s]) /\ Got(w, g, s).tag # "time"
      BY <1>2, <1>3, <2>2
    <3>2. PICK k \in Keys : subs[k] # NoSub /\ subs[k].id = w /\ subs[k].name = NameOf[w][s]
      BY <3>1 DEF Awaited
    <3>3. PICK u \in Sites(w) : NameOf[w][s] = NameOf[w][u] /\ Kind(w, u) = "wait"
      BY <3>2 DEF AwaitedOK, WaitsOK
    <3>4. s = u
      BY <3>3 DEF NamesDistinct
    <3> QED
      BY <3>1, <3>3, <3>4
  <2> QED
    BY <2>1, <2>2
<1>4. ASSUME NEW s \in Sites(w), NEW u \in Sites(w), Has(w, g, u), Before(s, u)
      PROVE  Settled(w, g, s, now')
  <2>1. Settled(w, f, s, now)
    <3>1. CASE Has(w, f, u)
      BY <1>4, <3>1 DEF TableIn
    <3>2. CASE ~Has(w, f, u)
      <4>1. Awaited(w, NameOf[w][u])
        BY <1>2, <1>4, <3>2
      <4>2. PICK k \in Keys : subs[k] # NoSub /\ subs[k].id = w /\ subs[k].name = NameOf[w][u]
        BY <4>1 DEF Awaited
      <4> QED
        BY <1>4, <4>2 DEF SubsSettled, WaitsSettled
    <3> QED
      BY <3>1, <3>2
  <2> QED
    BY <1>1, <2>1, LaterOver
<1> QED
  BY <1>3, <1>4 DEF TableIn

LEMMA WaitsLater ==
  ASSUME NEW sub, NEW f, NEW g, NEW n, NEW m, WaitsSettled(sub, f, n),
         \A s \in Sites(sub.id) : Settled(sub.id, f, s, n) => Settled(sub.id, g, s, m)
  PROVE  WaitsSettled(sub, g, m)
BY DEF WaitsSettled

LEMMA SubscribesSettled ==
  ASSUME NamesDistinct, StepsInv, NEW p, NEW t, AtStep(p, t), SubscribesTo(p, t), NEW n,
         SleepsIn(run[p], task[p].id, results[task[p].id], n),
         NEW k \in Keys, subs'[k] # subs[k]
  PROVE  subs'[k].id = task[p].id /\ WaitsSettled(subs'[k], results[task[p].id], n)
<1> DEFINE w == task[p].id
           m == NameHere(p, t)
           sub == [id |-> w, name |-> m, deadline |-> At(now + Step(p, t).span)]
<1>1. subs = [h \in Keys |-> subs[h]]
  BY DEF StepsInv, TablesOK
<1>2. run[p].thread[t].loc = "fn" /\ subs' = [subs EXCEPT ![Step(p, t).key] = sub]
  BY DEF SubscribesTo, InStep
<1>3. m = NameOf[w][Site(p, t)] /\ Site(p, t) \in Sites(w) /\ w \in Workflows
  BY <1>2, NameHereForm, SiteInForm DEF AtStep
<1>4. \A s \in Sites(w) : Before(s, Site(p, t)) => Settled(w, results[w], s, n)
  BY BeforeSettled
<1>5. \A u \in Sites(w) : m = NameOf[w][u] => u = Site(p, t)
  BY <1>3 DEF NamesDistinct
<1> HIDE DEF w, m
<1>6. subs'[k] = sub
  BY <1>1, <1>2
<1>7. subs'[k].id = w /\ subs'[k].name = m
  BY <1>6
<1>8. WaitsSettled(subs'[k], results[w], n)
  BY <1>4, <1>5, <1>7 DEF WaitsSettled
<1> QED
  BY <1>7, <1>8 DEF w

LEMMA SubsSettledWorker ==
  ASSUME NamesDistinct, TypeOK, StepsInv, SubsSettled, NEW p \in Workers, StepsWorker(p),
         SleepsOwnInv(p)
  PROVE  SubsSettled'
<1>1. now' = now
  BY WorkerClock
<1> SUFFICES ASSUME NEW k \in Keys, subs'[k] # NoSub
             PROVE  WaitsSettled(subs'[k], results'[subs'[k].id], now)
  BY <1>1 DEF SubsSettled, WaitsSettled, Settled, Over, Has, Got
<1>2. CASE results' = results /\ subs' = subs
  BY <1>2 DEF SubsSettled
<1>3. ASSUME NEW t, pc[p] = "execute", AtStep(p, t), Effect(p, t),
             Saves(p, t) \/ SubscribesTo(p, t),
             \A w \in Workflows : w # task[p].id => results'[w] = results[w]
      PROVE  WaitsSettled(subs'[k], results'[subs'[k].id], now)
  <2>1. /\ run[p] # NoRun /\ task[p].id \in Workflows
        /\ ReplayIn(run[p], task[p].id, results[task[p].id])
        /\ SleepsIn(run[p], task[p].id, results[task[p].id], now)
    BY <1>3 DEF StepsInv, RunsOK, RunOK, SleepsOwnInv, ReplayOK, SleepsOK, AtStep
  <2>2. CASE subs'[k] # subs[k]
    <3>1. SubscribesTo(p, t) /\ results' = results
      BY <1>3, <2>2 DEF Saves, SubscribesTo
    <3> QED
      BY <1>3, <2>1, <2>2, <3>1, SubscribesSettled
  <2>3. CASE subs'[k] = subs[k]
    <3> DEFINE w == subs[k].id
    <3>1. w \in Workflows /\ WaitsSettled(subs[k], results[w], now)
      BY <2>3 DEF StepsInv, TablesOK, SubOK, Subscription, SubsSettled
    <3>2. ASSUME NEW s \in Sites(w), Settled(w, results[w], s, now)
          PROVE  Settled(w, results'[w], s, now)
      <4>1. CASE w = task[p].id
        <5>1. results' = results \/ Saves(p, t)
          BY <1>3 DEF SubscribesTo
        <5> QED
          BY <1>3, <2>1, <3>2, <4>1, <5>1, EffectOver DEF StepsInv
      <4>2. CASE w # task[p].id
        BY <1>3, <3>1, <3>2, <4>2
      <4> QED
        BY <4>1, <4>2
    <3> QED
      BY <2>3, <3>1, <3>2, WaitsLater
  <2> QED
    BY <2>2, <2>3
<1> QED
  BY <1>2, <1>3, WorkerResults

LEMMA SubsSettledBeside ==
  ASSUME TypeOK, StepsInv, SubsSettled, now' \in Nat, now <= now',
         Delivers \/ (results' = results /\ subs' = subs)
  PROVE  SubsSettled'
<1> SUFFICES ASSUME NEW k \in Keys, subs'[k] # NoSub
             PROVE  WaitsSettled(subs'[k], results'[subs'[k].id], now')
  BY DEF SubsSettled, WaitsSettled, Settled, Over, Has, Got
<1>1. subs'[k] = subs[k] /\ subs[k] # NoSub
  BY DEF Delivers, Deliver
<1> DEFINE w == subs[k].id
<1>2. w \in Workflows /\ WaitsSettled(subs[k], results[w], now)
  BY <1>1 DEF StepsInv, TablesOK, SubOK, Subscription, SubsSettled
<1>3. Later(w, results[w], results'[w], now, now')
  BY <1>2, LaterStep
<1>4. \A s \in Sites(w) : Settled(w, results[w], s, now) => Settled(w, results'[w], s, now')
  BY <1>3, LaterOver
<1> QED
  BY <1>1, <1>2, <1>4, WaitsLater

-----------------------------------------------------------------------------
(* Sleeping as long as the longest sleep: the theorem                      *)

(* Whatever happens beside a worker that holds a workflow comes later.     *)
LEMMA LaterBeside ==
  ASSUME OneEngine, TypeOK, TypeOK', LeaseForm, StepsInv, [StepsNext]_allVars,
         NEW p \in Workers, pc[p] # "idle", ~StepsWorker(p)
  PROVE  /\ task[p].id \in Workflows
         /\ Later(task[p].id, results[task[p].id], results'[task[p].id], now, now')
<1>1. task[p].id \in Workflows
  BY TypeTasks DEF TasksOK
<1>2. now \in Nat /\ now' \in Nat
  BY HorizonAssumption DEF TypeOK
<1>3. now <= now' /\ (results'[task[p].id] = results[task[p].id] \/ Delivers)
  BY <1>2, ResultsBeside DEF Besides
<1> QED
  BY <1>1, <1>2, <1>3, LaterStep

LEMMA SleepsNext ==
  ASSUME OneEngine, NamesDistinct, TypeOK, TypeOK', LeaseForm, StepsInv, StepsInv',
         ReplayInv, WholeInv, SleepsInv, [StepsNext]_allVars
  PROVE  SleepsInv'
<1>0. now \in Nat /\ now' \in Nat
  BY HorizonAssumption DEF TypeOK
<1>1. \A p \in Workers : SleepsOwnInv(p)
  BY DEF ReplayInv, WholeInv, SleepsInv, SleepsOwnInv
<1>2. ASSUME NEW p \in Workers
      PROVE  SleepsOK(p)' /\ SuspendsRested(p)'
  <2>1. CASE StepsWorker(p)
    BY <1>1, <2>1, SleepsOwn
  <2>2. CASE run'[p] = NoRun /\ pc'[p] = "idle"
    BY <2>2 DEF SleepsOK, SuspendsRested
  <2>3. CASE /\ ~StepsWorker(p) /\ run'[p] = run[p] /\ pc'[p] = pc[p]
             /\ task'[p] = task[p] /\ outcome'[p] = outcome[p]
    <3> DEFINE w == task[p].id
    <3>1. pc[p] # "idle" => w \in Workflows /\ Later(w, results[w], results'[w], now, now')
      BY <2>3, LaterBeside
    <3>2. SleepsOK(p)'
      <4> SUFFICES ASSUME run[p] # NoRun
                   PROVE  SleepsIn(run[p], w, results'[w], now')
        BY <2>3 DEF SleepsOK
      <4>1. pc[p] # "idle"
        BY DEF StepsInv, RunsOK, RunOK
      <4>2. SleepsIn(run[p], w, results[w], now)
        BY DEF SleepsInv, SleepsOK
      <4> QED
        BY <3>1, <4>1, <4>2, SleepsLater
    <3>3. SuspendsRested(p)'
      <4> SUFFICES ASSUME pc[p] = "resolve", outcome[p].kind = "suspend",
                          NEW s \in Sites(w)
                   PROVE  Rested(w, results'[w], s, now', outcome[p].resumeAt)
        BY <2>3 DEF SuspendsRested
      <4>1. Rested(w, results[w], s, now, outcome[p].resumeAt)
        BY DEF SleepsInv, SuspendsRested
      <4> QED
        BY <3>1, <4>1, LaterOver
    <3> QED
      BY <3>2, <3>3
  <2> QED
    BY <2>1, <2>2, <2>3, IdleWorkers DEF Idles
<1>3. (\A w \in Workflows : TableIn(w, results[w], now)') /\ SubsSettled'
  <2>1. ASSUME NEW p \in Workers, StepsWorker(p)
        PROVE  (\A w \in Workflows : TableIn(w, results'[w], now)) /\ SubsSettled' /\ now' = now
    <3>1. SubsSettled' /\ now' = now
      BY <1>1, <2>1, SubsSettledWorker, WorkerClock DEF SleepsInv
    <3>2. ASSUME NEW t, pc[p] = "execute", AtStep(p, t), Effect(p, t),
                 \A w \in Workflows : w # task[p].id => results'[w] = results[w]
          PROVE  \A w \in Workflows : TableIn(w, results'[w], now)
      <4>1. /\ run[p] # NoRun /\ task[p].id \in Workflows
            /\ ReplayIn(run[p], task[p].id, results[task[p].id])
            /\ SleepsIn(run[p], task[p].id, results[task[p].id], now)
            /\ DOMAIN run[p].cache \subseteq DOMAIN results[task[p].id]
        BY <1>1, <3>2 DEF StepsInv, RunsOK, RunOK, SleepsOwnInv, ReplayOK, SleepsOK,
           PassedRecorded, AtStep
      <4>2. TableIn(task[p].id, results'[task[p].id], now)
        BY <3>2, <4>1, SleepsGoroutine DEF SleepsInv
      <4> QED
        BY <3>2, <4>2 DEF SleepsInv
    <3>3. CASE results' = results
      BY <3>1, <3>3 DEF SleepsInv
    <3>4. CASE \E t : /\ pc[p] = "execute" /\ AtStep(p, t) /\ Effect(p, t)
                      /\ Saves(p, t) \/ SubscribesTo(p, t)
                      /\ \A w \in Workflows : w # task[p].id => results'[w] = results[w]
      <4>1. PICK t : /\ pc[p] = "execute" /\ AtStep(p, t) /\ Effect(p, t)
                     /\ \A w \in Workflows : w # task[p].id => results'[w] = results[w]
        BY <3>4
      <4> QED
        BY <3>1, <3>2, <4>1
    <3> QED
      BY <2>1, <3>3, <3>4, WorkerResults
  <2>2. CASE Besides
    <3>1. now <= now'
      BY <1>0, <2>2 DEF Besides
    <3>2. SubsSettled'
      BY <1>0, <2>2, <3>1, SubsSettledBeside DEF Besides, SleepsInv
    <3>3. ASSUME NEW w \in Workflows
          PROVE  TableIn(w, results'[w], now')
      <4>1. CASE Delivers
        BY <1>0, <3>1, <4>1, DeliversTable DEF SleepsInv, ReplayInv
      <4>2. CASE results' = results
        <5>1. Later(w, results[w], results'[w], now, now')
          BY <1>0, <3>1, <4>2, LaterStep
        <5> QED
          BY <4>2, <5>1, LaterOver DEF SleepsInv, TableIn
      <4> QED
        BY <2>2, <4>1, <4>2 DEF Besides
    <3> QED
      BY <3>2, <3>3
  <2>3. CASE \E e \in Engines : Dies(e)
    <3>1. results' = results /\ subs' = subs /\ now' = now
      BY <2>3 DEF Dies
    <3>2. SubsSettled'
      BY <1>0, <3>1, SubsSettledBeside DEF SleepsInv
    <3> QED
      BY <3>1, <3>2 DEF SleepsInv
  <2> QED
    BY <2>1, <2>2, <2>3, StepKinds
<1> QED
  BY <1>2, <1>3 DEF SleepsInv

LEMMA SleepsInit == StepsInit => SleepsInv
<1> SUFFICES ASSUME StepsInit PROVE SleepsInv
  OBVIOUS
<1>1. \A p \in Workers : run[p] = NoRun /\ pc[p] = "idle"
  BY DEF StepsInit, Init
<1>2. \A k \in Keys : subs[k] = NoSub
  BY DEF StepsInit
<1>3. \A w \in Workflows : DOMAIN results[w] = {}
  BY DEF StepsInit
<1> QED
  BY <1>1, <1>2, <1>3
     DEF SleepsInv, SleepsOK, SuspendsRested, SubsSettled, TableIn, Has

LEMMA WholeInvariant == StepsSpec => []WholeInv
<1>1. TypeOK /\ CopiesCurrent /\ StepsInv /\ WholeInv /\ [StepsNext]_allVars
        => WholeInv'
  BY WholeNext
<1> QED
  BY <1>1, WholeInit, StepsInvariant, PTL DEF StepsSpec

LEMMA SleepsInvariant ==
  ASSUME OneEngine, NamesDistinct
  PROVE  StepsSpec => []SleepsInv
<1> DEFINE Known1 == TypeOK /\ CopiesCurrent /\ StepsInv /\ LeaseForm /\ ReplayInv /\ WholeInv
<1>1. Known1 /\ Known1' /\ SleepsInv /\ [StepsNext]_allVars => SleepsInv'
  BY SleepsNext
<1>2. StepsSpec => []Known1
  BY StepsInvariant, LeasesHeld, ReplayInvariant, WholeInvariant, PTL
<1> QED
  BY <1>1, <1>2, SleepsInit, PTL DEF StepsSpec

(* A workflow that is suspended is not resumed by the clock before every   *)
(* sleep it has recorded is over: for one engine and steps with names of   *)
(* their own, in whatever branches it sleeps and waits, and whatever time  *)
(* has passed since the sleeps began.                                      *)
THEOREM SuspendsLongEnough ==
  ASSUME OneEngine, NamesDistinct
  PROVE  StepsSpec => SuspendsUntilLatest
<1> DEFINE Until(w) ==
             wf'[w].status = "suspended" /\ wf[w].status # "suspended" =>
               \A r \in Range(results[w]) :
                 r.tag = "time" => r.n <= now \/ r.n <= wf'[w].retryAfter
<1>1. ASSUME TypeOK, CopiesCurrent, StepsInv, SleepsInv, [StepsNext]_allVars,
             NEW w \in Workflows
      PROVE  Until(w)
  <2> SUFFICES ASSUME wf'[w].status = "suspended", wf[w].status # "suspended",
                      NEW r \in Range(results[w]), r.tag = "time"
               PROVE  r.n <= now \/ r.n <= wf'[w].retryAfter
    OBVIOUS
  <2>1. RowStep(w) /\ wf[w] \in Row
    BY <1>1, StepsNextInv, RowSteps, RowTypes
  <2>2. PICK p \in Workers : RowRecorded(w, p)
    <3>1. NewRow.status # "suspended"
      BY DEF NewRow
    <3>2. PromotedRow(wf[w]).status # "suspended"
      BY <2>1 DEF PromotedRow, Row
    <3>3. [wf[w] EXCEPT !.signal = "cancel_requested"].status = wf[w].status
      BY <2>1 DEF Row
    <3> QED
      BY <2>1, <3>1, <3>2, <3>3 DEF RowStep
  <2>3. /\ outcome[p].kind = "suspend" /\ pc[p] = "resolve" /\ task[p].id = w
        /\ wf'[w].retryAfter = At(outcome[p].resumeAt)
    BY <2>1, <2>2 DEF RowRecorded, Row
  <2>4. outcome[p].resumeAt \in 0..Horizon
    BY <1>1 DEF TypeOK, Outcome
  <2>5. wf'[w].retryAfter = outcome[p].resumeAt
    BY <2>3, <2>4 DEF At
  <2>6. PICK s \in Sites(w) : Has(w, results[w], s) /\ Got(w, results[w], s) = r
    <3>1. PICK n \in DOMAIN results[w] : r = results[w][n]
      BY DEF Range
    <3>2. n \in Names[w]
      BY <1>1 DEF StepsInv, TablesOK, Known
    <3>3. PICK s \in DOMAIN NameOf[w] : n = NameOf[w][s]
      BY <3>2 DEF Names, Range
    <3>4. s \in Sites(w)
      BY <3>3 DEF NameOf
    <3> QED
      BY <3>1, <3>3, <3>4 DEF Has, Got
  <2>7. Rested(w, results[w], s, now, outcome[p].resumeAt)
    BY <1>1, <2>3 DEF SleepsInv, SuspendsRested
  <2> QED
    BY <2>5, <2>6, <2>7 DEF Rested, Over
<1>2. ASSUME TypeOK, CopiesCurrent, StepsInv, SleepsInv, [StepsNext]_allVars
      PROVE  [\A w \in Workflows : Until(w)]_allVars
  BY <1>1, <1>2
<1> QED
  BY <1>2, StepsInvariant, SleepsInvariant, PTL DEF StepsSpec, SuspendsUntilLatest
=============================================================================
