--------------------------- MODULE Accounting_proofs ---------------------------
(***************************************************************************)
(* Theorems about what is counted: that the sums and denominators of the   *)
(* optimizer loops (TrainingLoop) and of the partition of a dataset        *)
(* (EpisodePartition) account for every batch, episode and frame, that the *)
(* results of a task follow from its traces (EpisodeMetrics), and that a   *)
(* report's outcomes, statistics and charts follow from what was recorded  *)
(* (ReportModel).                                                          *)
(***************************************************************************)
EXTENDS TrainingLoop, EpisodePartition, EpisodeMetrics, ReportModel, FiniteSetTheorems,
        WellFoundedInduction, TLAPS

-----------------------------------------------------------------------------
(* Sums over finite sets.  MapThenSumSet is a recursive function over the    *)
(* subsets of its set; what it computes is proved from the least subset for  *)
(* which it would be wrong.                                                  *)

\* Among subsets of a finite set, if there are some of a kind there is a least.
LEMMA LeastSubset ==
  ASSUME NEW S, IsFiniteSet(S), NEW Kind, Kind \subseteq SUBSET S, Kind # {}
  PROVE  \E m \in Kind : \A s \in Kind : s \subseteq m => s = m
<1>1. FiniteSubsetsOf(S) = SUBSET S
  BY FS_FiniteSubsetsOfFinite
<1>2. IsWellFoundedOn(StrictSubsetOrdering(S), SUBSET S)
  BY <1>1, FS_StrictSubsetOrderingWellFounded
<1>3. \E m \in Kind : \A s \in Kind : <<s, m>> \notin StrictSubsetOrdering(S)
  BY <1>2, WFMin
<1> QED BY <1>3 DEF StrictSubsetOrdering

\* The sum of a function, and the recursion that defines it.
SumOf(g, S) == MapThenSumSet(LAMBDA i : g[i], S)
AnyOf(s) == CHOOSE x \in s : TRUE
SumsUp(h, g, T) ==
  h = [s \in SUBSET T |-> IF s = {} THEN 0 ELSE g[AnyOf(s)] + h[s \ {AnyOf(s)}]]

LEMMA AnyOfIsIn == ASSUME NEW s, s # {} PROVE AnyOf(s) \in s
BY DEF AnyOf

LEMMA SumsUpAt ==
  ASSUME NEW h, NEW g, NEW T, SumsUp(h, g, T), NEW s \in SUBSET T
  PROVE  /\ s = {} => h[s] = 0
         /\ s # {} => h[s] = g[AnyOf(s)] + h[s \ {AnyOf(s)}]
<1> DEFINE value(k) == IF k = {} THEN 0 ELSE g[AnyOf(k)] + h[k \ {AnyOf(k)}]
<1>1. h = [k \in SUBSET T |-> value(k)]
  BY DEF SumsUp
<1> HIDE DEF value
<1>2. h[s] = value(s)
  BY <1>1
<1> QED BY <1>2 DEF value

LEMMA SumsUpWhole ==
  ASSUME NEW h, NEW g, NEW T, SumsUp(h, g, T), T # {}
  PROVE  h[T] = g[AnyOf(T)] + h[T \ {AnyOf(T)}]
<1> DEFINE value(k) == IF k = {} THEN 0 ELSE g[AnyOf(k)] + h[k \ {AnyOf(k)}]
<1>1. h = [k \in SUBSET T |-> value(k)]
  BY DEF SumsUp
<1>2. T \in SUBSET T
  OBVIOUS
<1> HIDE DEF value
<1>3. h[T] = value(T)
  BY <1>1, <1>2
<1> QED BY <1>3 DEF value

\* The recursion has one solution: two agree where both are defined, and there
\* is one, put together from those of the smaller sets.
LEMMA SumsAgree ==
  ASSUME NEW S, IsFiniteSet(S), NEW g, NEW T \in SUBSET S, NEW U \in SUBSET S,
         NEW h, SumsUp(h, g, T), NEW k, SumsUp(k, g, U), NEW s \in SUBSET T, s \in SUBSET U
  PROVE  h[s] = k[s]
<1> DEFINE Bad == {w \in SUBSET S : w \subseteq T /\ w \subseteq U /\ h[w] # k[w]}
<1> SUFFICES ASSUME Bad # {} PROVE FALSE
  OBVIOUS
<1>1. Bad \subseteq SUBSET S
  OBVIOUS
<1>2. PICK m \in Bad : \A w \in Bad : w \subseteq m => w = m
  <2> HIDE DEF Bad
  <2> QED BY <1>1, LeastSubset
<1>3. m \in SUBSET T /\ m \in SUBSET U /\ h[m] # k[m]
  BY <1>2
<1>4. m # {}
  BY <1>3, SumsUpAt
<1>5. AnyOf(m) \in m
  BY <1>4, AnyOfIsIn
<1>6. m \ {AnyOf(m)} \notin Bad
  BY <1>2, <1>5
<1>7. h[m \ {AnyOf(m)}] = k[m \ {AnyOf(m)}]
  BY <1>3, <1>6
<1>8. h[m] = g[AnyOf(m)] + h[m \ {AnyOf(m)}] /\ k[m] = g[AnyOf(m)] + k[m \ {AnyOf(m)}]
  BY <1>3, <1>4, SumsUpAt
<1> QED BY <1>3, <1>7, <1>8

LEMMA SumsExist ==
  ASSUME NEW S, IsFiniteSet(S), NEW g, NEW T \in SUBSET S
  PROVE  \E h : SumsUp(h, g, T)
<1> DEFINE Bad == {w \in SUBSET S : ~ \E h : SumsUp(h, g, w)}
<1> SUFFICES ASSUME Bad # {} PROVE FALSE
  OBVIOUS
<1>1. Bad \subseteq SUBSET S
  OBVIOUS
<1>2. PICK m \in Bad : \A w \in Bad : w \subseteq m => w = m
  <2> HIDE DEF Bad
  <2> QED BY <1>1, LeastSubset
<1> DEFINE H(w) == CHOOSE h : SumsUp(h, g, w)
<1>3. ASSUME NEW w, w \subseteq m, w # m PROVE SumsUp(H(w), g, w)
  <2>1. w \notin Bad /\ w \in SUBSET S
    BY <1>2, <1>3
  <2>2. \E h : SumsUp(h, g, w)
    BY <2>1
  <2> QED BY <2>2
<1> HIDE DEF H
<1> DEFINE rest(s) == s \ {AnyOf(s)}
           f == [s \in SUBSET m |-> IF s = {} THEN 0 ELSE g[AnyOf(s)] + H(rest(s))[rest(s)]]
<1>4. ASSUME NEW s \in SUBSET m, s # {} PROVE f[rest(s)] = H(rest(s))[rest(s)]
  <2>1. AnyOf(s) \in s
    BY <1>4, AnyOfIsIn
  <2> PICK u : u = rest(s)
    OBVIOUS
  <2>2. u \in SUBSET m /\ u # m /\ u \in SUBSET u
    BY <2>1
  <2>3. SumsUp(H(u), g, u)
    BY <1>3, <2>2
  <2>4. CASE u = {}
    <3>1. H(u)[u] = 0
      BY <2>2, <2>3, <2>4, SumsUpAt
    <3>2. f[u] = 0
      BY <2>2, <2>4
    <3> QED BY <3>1, <3>2
  <2>5. CASE u # {}
    <3>1. AnyOf(u) \in u
      BY <2>5, AnyOfIsIn
    <3>0. PICK v : v = rest(u)
      OBVIOUS
    <3>2. v \in SUBSET m /\ v # m /\ v \in SUBSET v /\ v \in SUBSET u
      BY <2>2, <3>0, <3>1
    <3>3. SumsUp(H(v), g, v)
      BY <1>3, <3>2
    <3>4. H(u)[v] = H(v)[v]
      <4>1. u \in SUBSET S /\ v \in SUBSET S
        BY <1>2, <2>2, <3>2
      <4> QED BY <2>3, <3>2, <3>3, <4>1, SumsAgree
    <3>5. H(u)[u] = g[AnyOf(u)] + H(u)[v]
      <4>0. PICK h : h = H(u)
        OBVIOUS
      <4>1. SumsUp(h, g, u) /\ u \in SUBSET u /\ v = u \ {AnyOf(u)}
        BY <2>2, <2>3, <3>0, <4>0
      <4>2. h[u] = g[AnyOf(u)] + h[u \ {AnyOf(u)}]
        <5> HIDE DEF Bad, f, rest
        <5>1. SumsUp(h, g, u) /\ u # {}
          BY <2>5, <4>1
        <5> QED BY <5>1, SumsUpWhole
      <4> QED BY <4>0, <4>1, <4>2
    <3>6. f[u] = g[AnyOf(u)] + H(v)[v]
      BY <2>2, <2>5, <3>0
    <3> QED BY <3>0, <3>4, <3>5, <3>6
  <2> QED BY <2>4, <2>5
<1>5. f = [s \in SUBSET m |-> IF s = {} THEN 0 ELSE g[AnyOf(s)] + f[rest(s)]]
  <2> PICK k : k = f
    OBVIOUS
  <2>1. k = [s \in SUBSET m |-> IF s = {} THEN 0 ELSE g[AnyOf(s)] + H(rest(s))[rest(s)]]
    OBVIOUS
  <2>2. \A s \in SUBSET m : s # {} => k[rest(s)] = H(rest(s))[rest(s)]
    BY <1>4
  <2> HIDE DEF f, rest
  <2>3. k = [s \in SUBSET m |-> IF s = {} THEN 0 ELSE g[AnyOf(s)] + k[rest(s)]]
    BY <2>1, <2>2
  <2> QED BY <2>3
<1>6. SumsUp(f, g, m)
  BY <1>5 DEF SumsUp
<1>7. \E h : SumsUp(h, g, m)
  <2> HIDE DEF f
  <2> QED BY <1>6
<1> QED BY <1>2, <1>7

LEMMA SumOfSumsUp ==
  ASSUME NEW S, IsFiniteSet(S), NEW g
  PROVE  \E h : SumsUp(h, g, S) /\ SumOf(g, S) = h[S]
<1>1. \E h : SumsUp(h, g, S)
  BY SumsExist
<1> DEFINE it == CHOOSE h : SumsUp(h, g, S)
<1>2. SumsUp(it, g, S)
  BY <1>1
<1>3. SumOf(g, S) = it[S]
  BY DEF SumOf, MapThenSumSet, MapThenFoldSet, SumsUp, AnyOf
<1> QED BY <1>2, <1>3

LEMMA SumOfAtAny ==
  ASSUME NEW S, IsFiniteSet(S), NEW g
  PROVE  /\ S = {} => SumOf(g, S) = 0
         /\ S # {} => SumOf(g, S) = g[AnyOf(S)] + SumOf(g, S \ {AnyOf(S)})
<1>1. PICK h : SumsUp(h, g, S) /\ SumOf(g, S) = h[S]
  BY SumOfSumsUp
<1> PICK R : R = S \ {AnyOf(S)}
  OBVIOUS
<1>2. IsFiniteSet(R) /\ R \in SUBSET S /\ R \in SUBSET R /\ S \in SUBSET S
  BY FS_Subset
<1>3. PICK k : SumsUp(k, g, R) /\ SumOf(g, R) = k[R]
  BY <1>2, SumOfSumsUp
<1>4. h[R] = k[R]
  BY <1>1, <1>2, <1>3, SumsAgree
<1> QED BY <1>1, <1>2, <1>3, <1>4, SumsUpAt

LEMMA SumOfIsNumber ==
  ASSUME NEW S, IsFiniteSet(S), NEW g, NEW Num, Num \in {Nat, Int}, \A x \in S : g[x] \in Num
  PROVE  SumOf(g, S) \in Num
<1> DEFINE Bad == {w \in SUBSET S : SumOf(g, w) \notin Num}
<1> SUFFICES ASSUME Bad # {} PROVE FALSE
  BY FS_Subset
<1>1. Bad \subseteq SUBSET S
  OBVIOUS
<1>2. PICK m \in Bad : \A w \in Bad : w \subseteq m => w = m
  <2> HIDE DEF Bad
  <2> QED BY <1>1, LeastSubset
<1>3. IsFiniteSet(m) /\ m \in SUBSET S
  BY FS_Subset
<1>4. m # {}
  <2> SUFFICES ASSUME m = {} PROVE FALSE
    OBVIOUS
  <2>1. SumOf(g, m) = 0 /\ 0 \in Num
    BY <1>3, SumOfAtAny
  <2> QED BY <2>1
<1>5. AnyOf(m) \in m
  BY <1>4, AnyOfIsIn
<1>6. SumOf(g, m \ {AnyOf(m)}) \in Num
  BY <1>2, <1>3, <1>5
<1>7. SumOf(g, m) = g[AnyOf(m)] + SumOf(g, m \ {AnyOf(m)}) /\ g[AnyOf(m)] \in Num
  BY <1>3, <1>4, <1>5, SumOfAtAny
<1> QED BY <1>2, <1>6, <1>7

\* The order in which the elements are chosen does not matter.
LEMMA SumOfWithout ==
  ASSUME NEW S, IsFiniteSet(S), NEW g, \A x \in S : g[x] \in Int, NEW x \in S
  PROVE  SumOf(g, S) = g[x] + SumOf(g, S \ {x})
<1> DEFINE Bad == {w \in SUBSET S : \E y \in w : SumOf(g, w) # g[y] + SumOf(g, w \ {y})}
<1> SUFFICES ASSUME Bad # {} PROVE FALSE
  OBVIOUS
<1>1. Bad \subseteq SUBSET S
  OBVIOUS
<1>2. PICK m \in Bad : \A w \in Bad : w \subseteq m => w = m
  <2> HIDE DEF Bad
  <2> QED BY <1>1, LeastSubset
<1>3. m \in SUBSET S
  OBVIOUS
<1>4. PICK y \in m : SumOf(g, m) # g[y] + SumOf(g, m \ {y})
  OBVIOUS
<1> PICK p : p = AnyOf(m)
  OBVIOUS
<1>5. p \in m /\ IsFiniteSet(m)
  BY <1>3, <1>4, AnyOfIsIn, FS_Subset
<1>6. SumOf(g, m) = g[p] + SumOf(g, m \ {p})
  BY <1>4, <1>5, SumOfAtAny
<1>7. y # p
  BY <1>4, <1>6
<1>8. m \ {p} \notin Bad /\ m \ {y} \notin Bad
  BY <1>2, <1>4, <1>5
<1>9. SumOf(g, m \ {p}) = g[y] + SumOf(g, (m \ {p}) \ {y})
  BY <1>3, <1>4, <1>7, <1>8
<1>10. SumOf(g, m \ {y}) = g[p] + SumOf(g, (m \ {y}) \ {p})
  BY <1>3, <1>5, <1>7, <1>8
<1> PICK r : r = (m \ {p}) \ {y}
  OBVIOUS
<1>11. (m \ {y}) \ {p} = r /\ r \in SUBSET S
  BY <1>3
<1>12. SumOf(g, r) \in Int /\ g[p] \in Int /\ g[y] \in Int
  BY <1>3, <1>5, <1>11, SumOfIsNumber, FS_Subset
<1> PICK a, b, c : a = g[p] /\ b = g[y] /\ c = SumOf(g, r)
  OBVIOUS
<1>13. SumOf(g, m) = a + (b + c)
  BY <1>6, <1>9
<1>14. g[y] + SumOf(g, m \ {y}) = b + (a + c)
  BY <1>10, <1>11
<1>15. a + (b + c) = b + (a + c)
  BY <1>12
<1> QED BY <1>4, <1>13, <1>14, <1>15

LEMMA SumOfAdds ==
  ASSUME NEW S, IsFiniteSet(S), NEW g, NEW x, x \notin S, NEW W, W = S \union {x},
         \A y \in W : g[y] \in Int
  PROVE  SumOf(g, W) = SumOf(g, S) + g[x]
<1>1. IsFiniteSet(W) /\ W \ {x} = S /\ x \in W
  BY FS_AddElement
<1>2. SumOf(g, W) = g[x] + SumOf(g, S)
  BY <1>1, SumOfWithout
<1>3. \A y \in S : g[y] \in Int
  OBVIOUS
<1>4. SumOf(g, S) \in Int /\ g[x] \in Int
  BY <1>1, <1>3, SumOfIsNumber
<1> QED BY <1>2, <1>4

-----------------------------------------------------------------------------
(* The optimizer loops, for every plan and every stream of batches.          *)

\* The batches from one to another: none, and one more.
LEMMA ExamplesGrow ==
  ASSUME stream \in Seq(Nat), NEW a \in Nat, NEW b \in Nat, a <= b + 1, 0 < a, b <= Len(stream)
  PROVE  /\ b < a => Examples(a, b) = 0
         /\ Examples(a, b) \in Nat
         /\ b < Len(stream) => Examples(a, b + 1) = Examples(a, b) + stream[b + 1]
<1>1. IsFiniteSet(a..b) /\ \A c, d \in Int : Examples(c, d) = SumOf(stream, c..d)
  BY FS_Interval DEF Examples, SumOf
<1>2. b < a => a..b = {}
  OBVIOUS
<1>3. \A i \in 1..Len(stream) : stream[i] \in Nat
  OBVIOUS
<1>4. \A i \in a..b : stream[i] \in Nat
  BY <1>3
<1>5. SumOf(stream, a..b) \in Nat
  BY <1>1, <1>4, SumOfIsNumber
<1>6. ASSUME b < Len(stream) PROVE SumOf(stream, a..(b + 1)) = SumOf(stream, a..b) + stream[b + 1]
  <2> PICK c, S, W : c = b + 1 /\ S = a..b /\ W = a..c
    OBVIOUS
  <2>1. W = S \union {c} /\ c \notin S /\ IsFiniteSet(S)
    BY <1>1
  <2>2. stream[c] \in Nat
    BY <1>3, <1>6
  <2>3. \A i \in W : stream[i] \in Int
    BY <1>4, <2>1, <2>2
  <2>4. SumOf(stream, W) = SumOf(stream, S) + stream[c]
    BY SMTT(30), <2>1, <2>3, SumOfAdds
  <2> QED BY <2>4
<1>7. b < a => SumOf(stream, a..b) = 0
  BY <1>1, <1>2, SumOfAtAny
<1> QED BY <1>1, <1>5, <1>6, <1>7

\* The two loops agree on where a group of microbatches ends.
LEMMA GroupsEndTogether ==
  ASSUME NEW n \in Nat, NEW a \in Nat \ {0}, NEW k \in 1..a
  PROVE  (n * a + k) % a = 0 <=> k = a
<1>1. CASE k = a
  <2>1. n * a + k = (n + 1) * a
    BY <1>1
  <2> QED BY <1>1, <2>1
<1>2. CASE k < a
  OBVIOUS
<1> QED BY <1>1, <1>2

-----------------------------------------------------------------------------
(* The optimizer loops, for every plan and every stream of batches: the      *)
(* inductive invariant.                                                      *)

Stages == {"idle", "prepare", "draw", "step", "changed", "validate", "save", "reload", "report",
           "trained", "failed"}

LoopTypeOK ==
  /\ job \in Jobs
  /\ stream \in Seq(Nat)
  /\ trainAt \in Stages
  /\ drawn \in 0..Len(stream)
  /\ pending \in [examples : Nat, microbatches : Nat]
  /\ metrics \in Seq([step : Nat, examples : Nat])

GroupExamples(k) == Examples((k - 1) * job.accumulation + 1, k * job.accumulation)
LinesFit ==
  \A k \in DOMAIN metrics : metrics[k].step = k /\ metrics[k].examples = GroupExamples(k)

\* What has been drawn since the last line is what is pending.
Accumulated ==
  /\ drawn = Len(metrics) * job.accumulation + pending.microbatches
  /\ pending.examples = Examples(Len(metrics) * job.accumulation + 1, drawn)
  /\ Len(metrics) < job.maxSteps

GroupsFit ==
  /\ trainAt \in {"idle", "prepare"} => drawn = 0 /\ pending = Nothing /\ metrics = <<>>
  /\ trainAt = "draw" => Accumulated /\ pending.microbatches < job.accumulation
  /\ trainAt = "step" => Accumulated /\ pending.microbatches = job.accumulation
  /\ trainAt \in {"changed", "validate", "save", "reload", "report", "trained"} =>
       Len(metrics) = job.maxSteps /\ pending = Nothing

Prepared == HostEvidence \union (IF IsQuic THEN {"target-manifest"} ELSE {})
EvidenceFits ==
  /\ trainAt \notin {"idle", "prepare", "failed"} => Prepared \subseteq evidence
  /\ trainAt \in {"reload", "report", "trained"} \/ (trainAt = "changed" /\ ~IsQuic) =>
       StagedFiles \subseteq evidence

AccountInv == LoopTypeOK /\ LinesFit /\ GroupsFit /\ EvidenceFits

LEMMA AccountInitially == LoopInit => AccountInv
<1> SUFFICES ASSUME LoopInit PROVE AccountInv
  OBVIOUS
<1>1. job \in Jobs
  BY TrainingLoopAssumption DEF LoopInit
<1>2. LoopTypeOK
  BY <1>1 DEF LoopInit, LoopTypeOK, Nothing, Stages
<1>3. LinesFit /\ GroupsFit /\ EvidenceFits
  BY DEF LoopInit, LinesFit, GroupsFit, EvidenceFits
<1> QED BY <1>2, <1>3 DEF AccountInv

LEMMA ExamplesAreSums == \A a, b : Examples(a, b) = SumOf(stream, a..b)
BY DEF Examples, SumOf

LEMMA ExamplesAreSumsNext == (\A a, b : Examples(a, b) = SumOf(stream, a..b))'
BY ExamplesAreSums, PTL

\* What is written about the groups stays right while plan and stream stay.
LEMMA SetupKept ==
  ASSUME UNCHANGED loopSetup
  PROVE  /\ IsQuic' = IsQuic /\ HostEvidence' = HostEvidence /\ Prepared' = Prepared
         /\ StagedFiles' = StagedFiles
         /\ \A k : GroupExamples(k)' = GroupExamples(k)
         /\ \A a, b : Examples(a, b)' = Examples(a, b)
<1>1. job' = job /\ stream' = stream
  BY DEF loopSetup
<1>2. IsQuic' = IsQuic
  BY <1>1 DEF IsQuic
<1>3. HostEvidence' = HostEvidence
  BY <1>1, <1>2 DEF HostEvidence
<1>4. Prepared' = Prepared
  BY <1>2, <1>3 DEF Prepared
<1>5. StagedFiles' = StagedFiles
  BY <1>1, <1>2 DEF StagedFiles
<1>6. \A a, b : Examples(a, b)' = Examples(a, b)
  BY <1>1, ExamplesAreSums, ExamplesAreSumsNext
<1>7. \A k : GroupExamples(k)' = GroupExamples(k)
  BY <1>1, ExamplesAreSums, ExamplesAreSumsNext DEF GroupExamples
<1> QED BY <1>2, <1>3, <1>4, <1>5, <1>6, <1>7

\* A way to say that what is pending is right after a step.
LEMMA AccumulatedNext ==
  ASSUME UNCHANGED loopSetup, NEW n, NEW d, NEW b, Len(metrics') = n, drawn' = d,
         b = n * job.accumulation, d = b + pending'.microbatches,
         pending'.examples = Examples(b + 1, d), n < job.maxSteps
  PROVE  Accumulated'
BY ExamplesAreSums, ExamplesAreSumsNext DEF Accumulated, loopSetup

LEMMA LinesKept ==
  ASSUME UNCHANGED loopSetup, metrics' = metrics, LinesFit
  PROVE  LinesFit'
BY SetupKept DEF LinesFit

LEMMA BeginKeeps == AccountInv /\ BeginTraining => AccountInv'
<1> SUFFICES ASSUME AccountInv, BeginTraining PROVE AccountInv'
  OBVIOUS
<1>1. drawn = 0 /\ pending = Nothing /\ metrics = <<>>
  BY DEF AccountInv, GroupsFit, BeginTraining, LoopAt
<1>2. stream' \in Seq(Nat) /\ job' \in Jobs
  BY TrainingLoopAssumption DEF BeginTraining
<1>3. drawn' = 0 /\ pending' = Nothing /\ metrics' = <<>> /\ trainAt' = "prepare"
  BY <1>1 DEF BeginTraining, LoopAt
<1>4. LoopTypeOK'
  BY <1>2, <1>3 DEF LoopTypeOK, Nothing, Stages
<1>5. LinesFit' /\ GroupsFit' /\ EvidenceFits'
  BY <1>3 DEF LinesFit, GroupsFit, EvidenceFits
<1> QED BY <1>4, <1>5 DEF AccountInv

LEMMA PrepareKeeps == AccountInv /\ (PrepareTraining \/ PrepareQuic) => AccountInv'
<1> SUFFICES ASSUME AccountInv, PrepareTraining \/ PrepareQuic PROVE AccountInv'
  OBVIOUS
<1>1. /\ trainAt = "prepare" /\ trainAt' = "draw" /\ UNCHANGED loopSetup
      /\ drawn' = drawn /\ pending' = pending /\ metrics' = metrics
      /\ Prepared \subseteq evidence'
  BY DEF PrepareTraining, PrepareQuic, LoopAt, Leave, Prepared
<1>2. drawn = 0 /\ pending = Nothing /\ metrics = <<>>
  BY <1>1 DEF AccountInv, GroupsFit
<1>3. job.accumulation \in Nat \ {0} /\ job.maxSteps \in Nat \ {0} /\ job' = job
  BY <1>1, TrainingLoopAssumption DEF AccountInv, LoopTypeOK, loopSetup
<1>4. LoopTypeOK'
  BY <1>1 DEF AccountInv, LoopTypeOK, Stages, loopSetup
<1>5. GroupsFit'
  <2>1. Len(metrics) = 0 /\ Len(metrics) * job.accumulation = 0
    BY <1>2, <1>3
  <2>2. Examples(1, 0) = 0
    BY ExamplesGrow DEF AccountInv, LoopTypeOK
  <2>3. Accumulated
    BY <1>2, <1>3, <2>1, <2>2 DEF Accumulated, Nothing
  <2>4. Accumulated'
    BY <1>1, <1>3, <2>3, SetupKept DEF Accumulated
  <2> QED BY <1>1, <1>2, <1>3, <2>4 DEF GroupsFit, Nothing
<1>6. EvidenceFits'
  BY <1>1, SetupKept DEF EvidenceFits
<1> QED BY <1>1, <1>4, <1>5, <1>6, LinesKept DEF AccountInv

LEMMA DrawKeeps == AccountInv /\ DrawBatch => AccountInv'
<1> SUFFICES ASSUME AccountInv, DrawBatch PROVE AccountInv'
  OBVIOUS
<1>1. job.accumulation \in Nat \ {0} /\ UNCHANGED loopSetup /\ metrics' = metrics
  BY TrainingLoopAssumption DEF AccountInv, LoopTypeOK, DrawBatch
<1>n. PICK n, a : n = Len(metrics) /\ a = job.accumulation
  OBVIOUS
<1>k. PICK k, e, b : k = pending.microbatches /\ e = pending.examples /\ b = n * a
  OBVIOUS
<1>2. n \in Nat /\ a \in Nat \ {0} /\ k \in Nat /\ k < a /\ b \in Nat
  BY <1>1, <1>n, <1>k DEF AccountInv, LoopTypeOK, GroupsFit, DrawBatch
<1>3. Accumulated /\ drawn < Len(stream) /\ drawn \in Nat /\ stream \in Seq(Nat) /\ trainAt = "draw"
  BY DEF AccountInv, LoopTypeOK, GroupsFit, DrawBatch
<1>4. drawn = b + k /\ e = Examples(b + 1, drawn) /\ n < job.maxSteps
  BY <1>3, <1>n, <1>k DEF Accumulated
<1>5. /\ Examples(b + 1, drawn + 1) = Examples(b + 1, drawn) + stream[drawn + 1]
      /\ Examples(b + 1, drawn) \in Nat
  <2> PICK s : s = b + 1
    OBVIOUS
  <2>1. s \in Nat /\ drawn \in Nat /\ s <= drawn + 1 /\ 0 < s /\ drawn <= Len(stream)
    BY <1>2, <1>3, <1>4
  <2> QED BY <1>3, <2>1, ExamplesGrow
<1>6. stream[drawn + 1] \in Nat
  BY <1>3
<1>7. /\ drawn' = drawn + 1
      /\ pending' = [examples |-> e + stream[drawn + 1], microbatches |-> k + 1]
  BY <1>k DEF DrawBatch
<1>8. pending'.microbatches = k + 1 /\ pending'.examples = e + stream[drawn + 1]
  BY <1>7
<1>9. Due(drawn', pending'.microbatches) <=> k + 1 = a
  <2>1. drawn' = b + (k + 1) /\ k + 1 \in 1..a
    BY <1>2, <1>4, <1>7
  <2>2. (n * a + (k + 1)) % a = 0 <=> k + 1 = a
    BY <1>2, <2>1, GroupsEndTogether
  <2> QED BY <1>8, <1>n, <1>k, <2>1, <2>2 DEF Due
<1>10. LoopTypeOK'
  <2>1. pending' \in [examples : Nat, microbatches : Nat]
    BY <1>2, <1>4, <1>5, <1>6, <1>7
  <2>2. drawn' \in 0..Len(stream)
    BY <1>3, <1>7
  <2>3. trainAt' \in Stages
    BY DEF DrawBatch, Stages
  <2> QED BY <1>1, <2>1, <2>2, <2>3 DEF AccountInv, LoopTypeOK, loopSetup
<1>11. GroupsFit'
  <2>1. drawn' = b + pending'.microbatches /\ pending'.examples = Examples(b + 1, drawn')
    BY <1>2, <1>4, <1>5, <1>7, <1>8
  <2>2. Len(metrics)' = n /\ job'.accumulation = a /\ n < job'.maxSteps
    BY <1>1, <1>4, <1>n DEF loopSetup
  <2>3. Accumulated'
    BY <1>1, <1>4, <1>n, <1>k, <2>1, <2>2, AccumulatedNext
  <2>4. trainAt' = IF k + 1 = a THEN "step" ELSE "draw"
    BY <1>9 DEF DrawBatch
  <2>5. k + 1 = a \/ k + 1 < a
    BY <1>2
  <2> QED BY <1>8, <2>2, <2>3, <2>4, <2>5 DEF GroupsFit
<1>12. EvidenceFits'
  <2>1. evidence \subseteq evidence' /\ Prepared \subseteq evidence /\ trainAt' \in {"step", "draw"}
    BY <1>3 DEF DrawBatch, Leave, AccountInv, EvidenceFits
  <2> QED BY <1>1, <2>1, SetupKept DEF EvidenceFits
<1>13. LinesFit'
  BY <1>1, LinesKept DEF AccountInv
<1> QED BY <1>10, <1>11, <1>12, <1>13 DEF AccountInv

LEMMA StepKeeps == AccountInv /\ OptimizerStep => AccountInv'
<1> SUFFICES ASSUME AccountInv, OptimizerStep PROVE AccountInv'
  OBVIOUS
<1>1. job.accumulation \in Nat \ {0} /\ job.maxSteps \in Nat /\ UNCHANGED loopSetup /\ drawn' = drawn
  BY TrainingLoopAssumption DEF AccountInv, LoopTypeOK, OptimizerStep
<1>n. PICK n, a : n = Len(metrics) /\ a = job.accumulation
  OBVIOUS
<1>e. PICK e, b, c : e = pending.examples /\ b = n * a /\ c = (n + 1) * a
  OBVIOUS
<1>2. n \in Nat /\ a \in Nat \ {0} /\ e \in Nat /\ b \in Nat
  BY <1>1, <1>n, <1>e DEF AccountInv, LoopTypeOK
<1>3. /\ trainAt = "step" /\ drawn = b + a /\ e = Examples(b + 1, drawn) /\ n < job.maxSteps
      /\ stream \in Seq(Nat) /\ drawn \in 0..Len(stream)
  BY <1>n, <1>e DEF AccountInv, LoopTypeOK, GroupsFit, Accumulated, OptimizerStep
<1>4. drawn = c
  <2>1. (n + 1) * a = n * a + a
    BY <1>2
  <2> QED BY <1>3, <1>e, <2>1
<1> DEFINE line == [step |-> n + 1, examples |-> e]
<1>5. metrics' = Append(metrics, line) /\ pending' = Nothing
  BY <1>n, <1>e DEF OptimizerStep, MetricLine, AccumulatorsReset
<1>6. line \in [step : Nat, examples : Nat]
  BY <1>2
<1>7. metrics \in Seq([step : Nat, examples : Nat])
  BY DEF AccountInv, LoopTypeOK
<1>8. line.step = n + 1 /\ line.examples = e
  OBVIOUS
<1> HIDE DEF line
<1>9. /\ metrics' \in Seq([step : Nat, examples : Nat]) /\ Len(metrics') = n + 1
      /\ \A k \in 1..n : metrics'[k] = metrics[k]
      /\ metrics'[n + 1] = line
  BY <1>5, <1>6, <1>7, <1>n
<1>10. trainAt' = IF n + 1 < job.maxSteps THEN "draw" ELSE IF IsQuic THEN "changed" ELSE "validate"
  BY <1>9 DEF OptimizerStep
<1>11. LoopTypeOK'
  <2>1. pending' \in [examples : Nat, microbatches : Nat]
    BY <1>5 DEF Nothing
  <2>2. trainAt' \in Stages
    BY <1>10 DEF Stages
  <2> QED BY <1>1, <1>9, <2>1, <2>2 DEF AccountInv, LoopTypeOK, loopSetup
<1>12. LinesFit'
  <2>1. GroupExamples(n + 1) = e
    <3>1. (n + 1) - 1 = n
      BY <1>2
    <3> QED BY <1>3, <1>4, <1>n, <1>e, <3>1 DEF GroupExamples
  <2>2. \A k \in 1..n : metrics[k].step = k /\ metrics[k].examples = GroupExamples(k)
    BY <1>7, <1>n DEF AccountInv, LinesFit
  <2>3. \A k \in 1..(n + 1) : metrics'[k].step = k /\ metrics'[k].examples = GroupExamples(k)
    <3> SUFFICES ASSUME NEW k \in 1..(n + 1)
                 PROVE  metrics'[k].step = k /\ metrics'[k].examples = GroupExamples(k)
      OBVIOUS
    <3>1. CASE k = n + 1
      BY <1>8, <1>9, <2>1, <3>1
    <3>2. CASE k \in 1..n
      BY <1>9, <2>2, <3>2
    <3> QED BY <1>2, <3>1, <3>2
  <2>4. DOMAIN metrics' = 1..(n + 1)
    BY <1>9
  <2> QED BY <1>1, <2>3, <2>4, SetupKept DEF LinesFit
<1>13. GroupsFit'
  <2>1. pending'.microbatches = 0 /\ pending'.examples = 0 /\ 0 < a
    BY <1>2, <1>5 DEF Nothing
  <2>2. Examples(c + 1, drawn) = 0
    <3> PICK s : s = drawn + 1
      OBVIOUS
    <3>1. s \in Nat /\ s <= drawn + 1 /\ 0 < s /\ drawn \in Nat /\ drawn <= Len(stream) /\ drawn < s
      BY <1>3
    <3>2. Examples(s, drawn) = 0
      BY <1>3, <3>1, ExamplesGrow
    <3> QED BY <1>4, <3>2
  <2>3. ASSUME n + 1 < job.maxSteps PROVE Accumulated'
    <3>1. Len(metrics') = n + 1 /\ drawn' = drawn
      BY <1>1, <1>9
    <3>2. drawn = c + pending'.microbatches /\ pending'.examples = Examples(c + 1, drawn)
      BY <1>3, <1>4, <2>1, <2>2
    <3>3. c = (n + 1) * job.accumulation
      BY <1>n, <1>e
    <3> PICK m : m = n + 1
      OBVIOUS
    <3> QED BY <1>1, <2>3, <3>1, <3>2, <3>3, AccumulatedNext
  <2>4. ~(n + 1 < job.maxSteps) => n + 1 = job.maxSteps
    BY <1>1, <1>2, <1>3
  <2>5. job' = job
    BY <1>1 DEF loopSetup
  <2> QED BY <1>5, <1>9, <1>10, <1>n, <2>1, <2>3, <2>4, <2>5 DEF GroupsFit
<1>14. EvidenceFits'
  <2>1. evidence' = evidence /\ Prepared \subseteq evidence
    BY <1>3 DEF OptimizerStep, AccountInv, EvidenceFits
  <2>2. trainAt' \in {"draw", "validate"} \/ (trainAt' = "changed" /\ IsQuic)
    BY <1>10
  <2> QED BY <1>1, <2>1, <2>2, SetupKept DEF EvidenceFits
<1> QED BY <1>11, <1>12, <1>13, <1>14 DEF AccountInv

\* The steps that draw nothing and account for nothing.
LEMMA RestKeeps ==
  AccountInv /\ (\/ DatasetExhausted \/ Validate \/ SaveCheckpoint \/ CheckChanged \/ CheckReload
                 \/ ReportTrained \/ TrainingRaises \/ UNCHANGED loopVars)
  => AccountInv'
<1> SUFFICES ASSUME AccountInv,
                    \/ DatasetExhausted \/ Validate \/ SaveCheckpoint \/ CheckChanged \/ CheckReload
                    \/ ReportTrained \/ TrainingRaises \/ UNCHANGED loopVars
             PROVE  AccountInv'
  OBVIOUS
<1>1. /\ UNCHANGED loopSetup /\ drawn' = drawn /\ pending' = pending /\ metrics' = metrics
      /\ evidence \subseteq evidence'
  BY DEF DatasetExhausted, Validate, SaveCheckpoint, CheckChanged, CheckReload, ReportTrained,
         TrainingRaises, loopVars, loopSetup, Leave
<1> DEFINE Finished == {"changed", "validate", "save", "reload", "report", "trained"}
<1>2. trainAt' = trainAt \/ trainAt' = "failed" \/ (trainAt \in Finished /\ trainAt' \in Finished)
  BY DEF DatasetExhausted, Validate, SaveCheckpoint, CheckChanged, CheckReload, ReportTrained,
         TrainingRaises, loopVars, LoopAt
<1>3. LoopTypeOK'
  BY <1>1, <1>2 DEF AccountInv, LoopTypeOK, loopSetup, Stages
<1>4. GroupsFit'
  <2>1. Accumulated => Accumulated'
    BY <1>1, SetupKept DEF Accumulated, loopSetup
  <2>2. Nothing' = Nothing /\ job' = job
    BY <1>1 DEF Nothing, loopSetup
  <2> QED BY <1>1, <1>2, <2>1, <2>2 DEF AccountInv, GroupsFit
<1>5. EvidenceFits'
  <2>1. trainAt' \notin {"idle", "prepare", "failed"} => Prepared \subseteq evidence'
    BY <1>1, <1>2 DEF AccountInv, EvidenceFits
  <2>2. trainAt' \in {"reload", "report", "trained"} \/ (trainAt' = "changed" /\ ~IsQuic) =>
          StagedFiles \subseteq evidence'
    <3>1. CASE SaveCheckpoint
      BY <3>1 DEF SaveCheckpoint, Leave
    <3>2. CASE ~SaveCheckpoint
      <4>1. \/ trainAt' = "failed" \/ trainAt' = "save" \/ trainAt' = trainAt
            \/ trainAt \in {"reload", "report"}
            \/ trainAt = "changed" /\ (IF IsQuic THEN trainAt' = "validate" ELSE trainAt' = "report")
        BY <3>2 DEF DatasetExhausted, Validate, CheckChanged, CheckReload, ReportTrained,
                    TrainingRaises, loopVars, LoopAt
      <4> QED BY <1>1, <4>1 DEF AccountInv, EvidenceFits
    <3> QED BY <3>1, <3>2
  <2> QED BY <1>1, <2>1, <2>2, SetupKept DEF EvidenceFits
<1>6. LinesFit'
  BY <1>1, LinesKept DEF AccountInv
<1> QED BY <1>3, <1>4, <1>5, <1>6 DEF AccountInv

\* Whatever the plan, the batches and the point at which a training fails:
\* every line of metrics.jsonl accounts for its own group of microbatches, and a
\* training that says "checkpointing" took all its steps and left the files the
\* finalizer asks for (training_runs.py, training_quic.py).
THEOREM TrainingAccounts == LoopSpec => []TrainingIsAccountedFor
<1>1. AccountInv /\ [LoopNext]_loopVars => AccountInv'
  BY BeginKeeps, PrepareKeeps, DrawKeeps, StepKeeps, RestKeeps DEF LoopNext, LoopProgress
<1>2. AccountInv => TrainingIsAccountedFor
  <2> SUFFICES ASSUME AccountInv PROVE MetricsAccountForBatches /\ TrainedIsFinalizable
    BY DEF TrainingIsAccountedFor
  <2>1. MetricsAccountForBatches
    BY DEF AccountInv, LinesFit, GroupsFit, Accumulated, GroupExamples, MetricsAccountForBatches
  <2>2. ASSUME trainAt = "trained" PROVE FinalizerDemands \subseteq evidence
    <3>1. Prepared \subseteq evidence /\ StagedFiles \subseteq evidence
      BY <2>2 DEF AccountInv, EvidenceFits
    <3>2. FinalizerDemands \subseteq Prepared \union StagedFiles
      BY DEF FinalizerDemands, Prepared, HostEvidence, StagedFiles
    <3> QED BY <3>1, <3>2
  <2>3. TrainedIsFinalizable
    BY <2>2 DEF AccountInv, GroupsFit, TrainedIsFinalizable
  <2> QED BY <2>1, <2>3
<1> QED BY <1>1, <1>2, AccountInitially, PTL DEF LoopSpec

-----------------------------------------------------------------------------
(* The partition of a dataset, for every source, ranking and setting.        *)

\* A one-to-one map onto a set counts it.
LEMMA SameSize ==
  ASSUME NEW S, NEW T, IsFiniteSet(T), NEW f \in [S -> T],
         \A a, b \in S : f[a] = f[b] => a = b, \A t \in T : \E s \in S : f[s] = t
  PROVE  IsFiniteSet(S) /\ Cardinality(S) = Cardinality(T)
<1>1. f \in Injection(S, T) /\ f \in Surjection(S, T)
  BY DEF Injection, IsInjective, Surjection
<1> QED BY <1>1, FS_Injection

\* The first n of a finite set, by a rank that has no ties, are n or all.
LEMMA FirstOfCounts ==
  ASSUME NEW S, S \subseteq Episodes, NEW rank \in Ranks, NEW n \in Nat
  PROVE  /\ FirstOf(S, rank, n) \subseteq S
         /\ Cardinality(FirstOf(S, rank, n)) = Smaller(n, Cardinality(S))
         /\ IsFiniteSet(FirstOf(S, rank, n)) /\ IsFiniteSet(S) /\ Cardinality(S) \in Nat
<1>1. rank \in [Episodes -> Nat] /\ \A a, b \in Episodes : rank[a] = rank[b] => a = b
  BY PartitionAssumption
<1>2. IsFiniteSet(S) /\ Cardinality(S) \in Nat
  BY PartitionAssumption, FS_Subset, FS_CardinalityType
<1> DEFINE ahead(e) == {d \in S : Before(rank, d, e)}
           pos == [e \in S |-> Cardinality(ahead(e))]
           F == FirstOf(S, rank, n)
<1>n. PICK N : N = Cardinality(S)
  OBVIOUS
<1>3. ASSUME NEW e \in S PROVE pos[e] \in 0..(N - 1)
  <2>1. IsFiniteSet(S \ {e}) /\ Cardinality(S \ {e}) = N - 1
    BY <1>2, <1>n, FS_RemoveElement
  <2>2. e \notin ahead(e)
    BY <1>1 DEF Before
  <2>3. ahead(e) \in SUBSET (S \ {e})
    BY <2>2
  <2> PICK A, B : A = ahead(e) /\ B = S \ {e}
    OBVIOUS
  <2>4. IsFiniteSet(A) /\ Cardinality(A) <= Cardinality(B)
    BY <2>1, <2>3, FS_Subset
  <2>5. Cardinality(A) \in Nat
    BY <2>4, FS_CardinalityType
  <2>6. pos[e] = Cardinality(A)
    OBVIOUS
  <2> HIDE DEF pos, ahead
  <2> QED BY <1>2, <1>n, <2>1, <2>4, <2>5, <2>6
<1>4. ASSUME NEW a \in S, NEW b \in S, rank[a] < rank[b] PROVE pos[a] < pos[b]
  <2>1. a \in ahead(b) /\ a \notin ahead(a) /\ ahead(a) \subseteq ahead(b)
    BY <1>1, <1>4 DEF Before
  <2> PICK A, B : A = ahead(a) /\ B = ahead(b)
    OBVIOUS
  <2>2. IsFiniteSet(B)
    BY <1>2, FS_Subset
  <2>3. A \in SUBSET B /\ A # B
    BY <2>1
  <2>4. Cardinality(A) <= Cardinality(B) /\ Cardinality(A) # Cardinality(B)
    BY <2>2, <2>3, FS_Subset
  <2>5. pos[a] \in Int /\ pos[b] \in Int
    BY <1>3
  <2>6. pos[a] = Cardinality(A) /\ pos[b] = Cardinality(B)
    OBVIOUS
  <2> HIDE DEF pos, ahead
  <2> QED BY <2>4, <2>5, <2>6
<1>5. \A a, b \in S : pos[a] = pos[b] => a = b
  <2> SUFFICES ASSUME NEW a \in S, NEW b \in S, a # b PROVE pos[a] # pos[b]
    OBVIOUS
  <2>1. rank[a] < rank[b] \/ rank[b] < rank[a]
    BY <1>1
  <2>2. pos[a] \in Int /\ pos[b] \in Int
    BY <1>3
  <2> HIDE DEF pos
  <2> QED BY <1>4, <2>1, <2>2
<1>6. pos \in Surjection(S, 0..(N - 1))
  <2>1. pos \in Injection(S, 0..(N - 1))
    <3>1. pos \in [S -> 0..(N - 1)]
      BY <1>3
    <3> HIDE DEF pos
    <3> QED BY <1>5, <3>1 DEF Injection, IsInjective
  <2> HIDE DEF pos, ahead, F
  <2>2. IsFiniteSet(0..(N - 1)) /\ Cardinality(0..(N - 1)) = N
    <3>1. N \in Nat /\ N - 1 \in Int /\ 0 \in Int
      BY <1>2, <1>n
    <3> QED BY <3>1, FS_Interval
  <2> QED BY <1>n, <2>1, <2>2, FS_Injection
<1>m. PICK m : m = Smaller(n, N)
  OBVIOUS
<1>7. m \in Nat /\ \A i \in 0..(N - 1) : i < n <=> i \in 0..(m - 1)
  BY <1>2, <1>n, <1>m DEF Smaller
<1>8. F = {e \in S : pos[e] < n}
  BY DEF FirstOf
<1> HIDE DEF pos, F
<1>9. IsFiniteSet(0..(m - 1)) /\ Cardinality(0..(m - 1)) = m
  BY <1>7, FS_Interval
<1> DEFINE q == [e \in F |-> pos[e]]
<1>10. q \in [F -> 0..(m - 1)]
  BY <1>3, <1>7, <1>8
<1>11. \A a, b \in F : q[a] = q[b] => a = b
  BY <1>5, <1>8
<1>12. \A i \in 0..(m - 1) : \E e \in F : q[e] = i
  <2> SUFFICES ASSUME NEW i \in 0..(m - 1) PROVE \E e \in F : q[e] = i
    OBVIOUS
  <2>1. i \in 0..(N - 1) /\ i < n
    BY <1>2, <1>n, <1>m DEF Smaller
  <2>2. PICK e \in S : pos[e] = i
    BY <1>6, <2>1 DEF Surjection
  <2> QED BY <1>8, <2>1, <2>2
<1> HIDE DEF q
<1>13. IsFiniteSet(F) /\ Cardinality(F) = m
  BY <1>9, <1>10, <1>11, <1>12, SameSize
<1> QED BY <1>2, <1>8, <1>13, <1>n, <1>m DEF F

\* Rounded up.
LEMMA CeilRounds ==
  ASSUME NEW x \in Nat, NEW w \in Nat \ {0}
  PROVE  /\ Ceil(x, w) \in Nat /\ x <= Ceil(x, w) * w /\ (Ceil(x, w) - 1) * w < x
         /\ 0 < x => 0 < Ceil(x, w)
<1>1. PICK c : c = (x + w - 1) \div w
  OBVIOUS
<1>2. c \in Int /\ w * c <= x + w - 1 /\ x + w - 1 < w * (c + 1)
  BY <1>1
<1>3. w * (c + 1) = w * c + w /\ c * w = w * c /\ (c - 1) * w = w * c - w
  BY <1>2
<1>4. c \in Nat
  BY <1>1
<1>5. 0 < x => 0 < c
  BY <1>2, <1>4
<1> QED BY <1>1, <1>2, <1>3, <1>4, <1>5 DEF Ceil

LEMMA TimesGrows ==
  ASSUME NEW a \in Int, NEW b \in Int, a <= b, NEW w \in Nat
  PROVE  a * w <= b * w
OBVIOUS

\* What is held out of n: some, not all, the fraction but for the rounding.
LEMMA HeldOutIsAFraction ==
  ASSUME NEW n \in Nat, 2 <= n, NEW p \in Nat \ {0}, NEW w \in Nat, p < w,
         NEW c \in {Ceil(n * p, w), (n * p) \div w + 1},
         NEW v, v = Smaller(n - 1, Larger(1, c))
  PROVE  /\ v \in 1..(n - 1) /\ (v - 1) * w <= n * p
         /\ v * w >= n * p \/ v = n - 1
<1>1. PICK x : x = n * p
  OBVIOUS
<1>2. x \in Nat /\ 0 < x
  BY <1>1
<1>3. c \in Nat /\ x <= c * w /\ (c - 1) * w <= x /\ 0 < c
  <2>1. w \in Nat \ {0}
    OBVIOUS
  <2>2. CASE c = Ceil(x, w)
    <3>1. c \in Nat /\ x <= c * w /\ (c - 1) * w < x /\ 0 < c
      BY <1>2, <2>1, <2>2, CeilRounds
    <3>2. (c - 1) * w \in Int
      BY <3>1
    <3> QED BY <1>2, <3>1, <3>2
  <2>3. CASE c = x \div w + 1
    <3>1. PICK q, m : q = x \div w /\ m = x % w
      OBVIOUS
    <3>2. q \in Nat /\ m \in 0..(w - 1) /\ x = q * w + m
      BY <1>2, <2>1, <3>1
    <3>3. c = q + 1 /\ c * w = q * w + w /\ (c - 1) * w = q * w
      BY <2>3, <3>1, <3>2
    <3>4. q * w \in Nat
      BY <3>2
    <3> QED BY <3>2, <3>3, <3>4
  <2> QED BY <1>1, <2>2, <2>3
<1>4. v \in 1..(n - 1) /\ v <= c /\ (v = c \/ v = n - 1)
  BY <1>1, <1>3 DEF Smaller, Larger
<1>5. (v - 1) * w <= (c - 1) * w
  BY <1>3, <1>4, TimesGrows
<1>6. (v - 1) * w <= x
  <2>1. (v - 1) * w \in Int /\ (c - 1) * w \in Int
    BY <1>3, <1>4
  <2> QED BY <1>2, <1>3, <1>5, <2>1
<1> QED BY <1>1, <1>3, <1>4, <1>6

\* The frames of some rows, as the sum of a function.
FramesUp(k, S) ==
  k = [s \in SUBSET S |-> IF s = {} THEN 0 ELSE AnyOf(s).frames + k[s \ {AnyOf(s)}]]
FramesOf(S) == MapThenSumSet(LAMBDA row : row.frames, S)

LEMMA FramesOfIsASum ==
  ASSUME NEW S, IsFiniteSet(S), NEW g, \A row \in S : g[row] = row.frames
  PROVE  FramesOf(S) = SumOf(g, S)
<1>1. PICK h : SumsUp(h, g, S) /\ SumOf(g, S) = h[S]
  BY SumOfSumsUp
<1>2. ASSUME NEW k PROVE FramesUp(k, S) <=> SumsUp(k, g, S)
  <2>1. \A s \in SUBSET S : s # {} => g[AnyOf(s)] = AnyOf(s).frames
    BY AnyOfIsIn
  <2>2. [s \in SUBSET S |-> IF s = {} THEN 0 ELSE AnyOf(s).frames + k[s \ {AnyOf(s)}]] =
        [s \in SUBSET S |-> IF s = {} THEN 0 ELSE g[AnyOf(s)] + k[s \ {AnyOf(s)}]]
    BY <2>1
  <2> QED BY <2>2 DEF FramesUp, SumsUp
<1> DEFINE it == CHOOSE k : FramesUp(k, S)
<1>3. FramesUp(it, S)
  BY <1>1, <1>2
<1>4. FramesOf(S) = it[S]
  BY DEF FramesOf, MapThenSumSet, MapThenFoldSet, FramesUp, AnyOf
<1> HIDE DEF it
<1>5. SumsUp(it, g, S)
  BY <1>2, <1>3
<1>6. it[S] = h[S]
  BY <1>1, <1>5, SumsAgree
<1> QED BY <1>1, <1>4, <1>6

LEMMA FramesOfRows ==
  ASSUME NEW S, IsFiniteSet(S), \A row \in S : row.frames \in Nat
  PROVE  /\ FramesOf(S) \in Nat /\ (S = {} => FramesOf(S) = 0)
         /\ \A row \in S : FramesOf(S) = row.frames + FramesOf(S \ {row})
<1> DEFINE g == [row \in S |-> row.frames]
<1>g. \A row \in S : g[row] = row.frames
  OBVIOUS
<1> HIDE DEF g
<1>1. FramesOf(S) = SumOf(g, S)
  BY <1>g, FramesOfIsASum
<1>2. \A row \in S : g[row] \in Nat
  BY <1>g
<1>3. SumOf(g, S) \in Nat
  BY <1>2, SumOfIsNumber
<1>4. S = {} => SumOf(g, S) = 0
  BY SumOfAtAny
<1>5. ASSUME NEW row \in S PROVE FramesOf(S) = row.frames + FramesOf(S \ {row})
  <2> PICK R : R = S \ {row}
    OBVIOUS
  <2>1. IsFiniteSet(R) /\ \A r \in R : g[r] = r.frames
    BY <1>g, FS_Subset
  <2>2. FramesOf(R) = SumOf(g, R)
    BY <2>1, FramesOfIsASum
  <2>3. \A r \in S : g[r] \in Int
    BY <1>2
  <2>4. SumOf(g, S) = g[row] + SumOf(g, S \ {row})
    BY <2>3, SumOfWithout
  <2> QED BY <1>1, <1>g, <2>2, <2>4
<1> QED BY <1>1, <1>3, <1>4, <1>5

-----------------------------------------------------------------------------
\* The inductive invariant: the manifest is the split of the catalog, and a pass
\* has yielded, of the rows it is through with, all frames but those of records
\* that are gone.
ChosenOK ==
  /\ settings.limit \in Nat /\ settings.cap \in Nat /\ settings.stride \in Nat \ {0}
  /\ settings.part \in Nat \ {0} /\ settings.whole \in Nat /\ settings.part < settings.whole
  /\ settings.select \in Ranks /\ settings.split \in Ranks /\ settings.over \subseteq Nat

PartitionTypeOK ==
  /\ frames \in [Episodes -> 0..Gone]
  /\ catalog \in [Episodes -> 0..MaxFrames]
  /\ partitionAt \in {"open", "catalog", "split", "ready", "reading", "refused"}
  /\ partitionAt # "open" => ChosenOK
  /\ partitionAt = "catalog" => frames \in [Episodes -> 0..MaxFrames]
  /\ reader \in [split : {"train", "validation"}, left : SUBSET manifest, yielded : Nat, passes : Nat]

ManifestFits ==
  /\ partitionAt \in {"open", "catalog", "split"} => manifest = {}
  /\ manifest # {} => Splittable /\ manifest = Manifest

RowsOf(split) == {row \in manifest : row.split = split}
Accounted == reader.yielded + FramesOf(reader.left)
SomeoneGone == \E row \in manifest : frames[row.id] = Gone
PassFits ==
  partitionAt = "reading" =>
    /\ reader.left \subseteq RowsOf(reader.split)
    /\ \/ Accounted = FramesOf(RowsOf(reader.split))
       \/ SomeoneGone /\ Accounted < FramesOf(RowsOf(reader.split))

PartitionInv == PartitionTypeOK /\ ManifestFits /\ PassFits

LEMMA CountedIsPositive ==
  ASSUME ChosenOK, NEW n \in Nat \ {0}
  PROVE  CountedFrames(n) \in Nat \ {0}
<1>1. Ceil(n, settings.stride) \in Nat \ {0}
  BY SMTT(30), CeilRounds DEF ChosenOK
<1> QED BY <1>1 DEF CountedFrames, Smaller, ChosenOK

\* The rows of the manifest are the selected episodes, each once.
LEMMA ManifestRows ==
  ASSUME ManifestFits, PartitionTypeOK
  PROVE  /\ \A row \in manifest :
              /\ row.id \in Catalogued /\ row.id \in Episodes /\ row.id \in SelectedOf(GroupOf[row.id])
              /\ row.frames \in Nat \ {0}
              /\ row.split = IF row.id \in HeldOut(GroupOf[row.id]) THEN "validation" ELSE "train"
         /\ \A a, b \in manifest : a.id = b.id => a = b
         /\ manifest # {} => \A e \in Catalogued : e \in SelectedOf(GroupOf[e]) =>
                               \E row \in manifest : row.id = e
         /\ IsFiniteSet(manifest)
<1>1. CASE manifest = {}
  BY <1>1, FS_EmptySet
<1>2. CASE manifest # {}
  <2>1. manifest = Manifest /\ ChosenOK
    BY <1>2 DEF ManifestFits, PartitionTypeOK
  <2> DEFINE splitOf(e) == IF e \in HeldOut(GroupOf[e]) THEN "validation" ELSE "train"
             rowOf(e) == [id |-> e, frames |-> CountedFrames(catalog[e]), split |-> splitOf(e)]
  <2>2. manifest = {rowOf(e) : e \in {d \in Catalogued : d \in SelectedOf(GroupOf[d])}}
    BY <2>1 DEF Manifest
  <2>3. \A e \in Catalogued : e \in Episodes /\ catalog[e] \in Nat \ {0}
    BY PartitionAssumption DEF Catalogued, PartitionTypeOK
  <2>4. \A e \in Catalogued : CountedFrames(catalog[e]) \in Nat \ {0}
    BY <2>1, <2>3, CountedIsPositive
  <2>5. \A e : rowOf(e).id = e /\ rowOf(e).frames = CountedFrames(catalog[e])
               /\ rowOf(e).split = splitOf(e)
    OBVIOUS
  <2> HIDE DEF rowOf
  <2>6. \A row \in manifest : \E e \in Catalogued : row = rowOf(e) /\ e \in SelectedOf(GroupOf[e])
    BY <2>2
  <2>7. \A a, b \in manifest : a.id = b.id => a = b
    BY <2>5, <2>6
  <2>8. \A row \in manifest :
          /\ row.id \in Catalogued /\ row.id \in Episodes /\ row.id \in SelectedOf(GroupOf[row.id])
          /\ row.frames \in Nat \ {0}
          /\ row.split = splitOf(row.id)
    BY <2>3, <2>4, <2>5, <2>6
  <2>9. \A e \in Catalogued : e \in SelectedOf(GroupOf[e]) => \E row \in manifest : row.id = e
    BY <2>2, <2>5
  <2>10. IsFiniteSet(manifest)
    <3> DEFINE f == [row \in manifest |-> row.id]
    <3>1. f \in Injection(manifest, Episodes)
      BY <2>7, <2>8 DEF Injection, IsInjective
    <3> HIDE DEF f
    <3> QED BY <3>1, PartitionAssumption, FS_Injection
  <2> QED BY <2>7, <2>8, <2>9, <2>10
<1> QED BY <1>1, <1>2

LEMMA SplitsFit == PartitionTypeOK /\ ManifestFits => SplitsAreSound
<1> SUFFICES ASSUME PartitionTypeOK, ManifestFits, manifest # {} PROVE SplitsAreSound
  BY DEF SplitsAreSound
<1>1. manifest = Manifest /\ Splittable /\ ChosenOK
  BY DEF ManifestFits, PartitionTypeOK
<1> DEFINE rows(g, split) == {row \in manifest : GroupOf[row.id] = g /\ row.split = split}
<1>2. ASSUME NEW g \in {GroupOf[e] : e \in Catalogued}
      PROVE  LET n == Cardinality(rows(g, "train")) + Cardinality(rows(g, "validation"))
                 held == Cardinality(rows(g, "validation"))
             IN /\ rows(g, "train") # {} /\ rows(g, "validation") # {}
                /\ settings.limit > 0 => n <= settings.limit
                /\ (held - 1) * settings.whole <= n * settings.part
                /\ held * settings.whole >= n * settings.part \/ held = n - 1
  <2> DEFINE S == SelectedOf(g)
             members == {e \in Catalogued : GroupOf[e] = g}
             H == HeldOut(g)
  <2>n. PICK n : n = Cardinality(S)
    OBVIOUS
  <2>v. PICK v : v = ValidationCount(n)
    OBVIOUS
  <2>1. members \subseteq Episodes
    BY DEF Catalogued
  <2>2. IsFiniteSet(members) /\ Cardinality(members) \in Nat
    BY <2>1, PartitionAssumption, FS_Subset, FS_CardinalityType
  <2>3. S \subseteq members /\ (settings.limit > 0 => n <= settings.limit)
    <3>1. CASE settings.limit = 0
      BY <3>1 DEF SelectedOf
    <3>2. CASE settings.limit # 0
      <4>1. S = FirstOf(members, settings.select, settings.limit)
        BY <3>2 DEF SelectedOf
      <4>2. settings.select \in Ranks /\ settings.limit \in Nat
        BY <1>1 DEF ChosenOK
      <4> HIDE DEF S, members
      <4>3. S \subseteq members /\ n = Smaller(settings.limit, Cardinality(members))
        BY <2>1, <2>n, <4>1, <4>2, FirstOfCounts
      <4> QED BY <2>2, <4>2, <4>3 DEF Smaller
    <3> QED BY <3>1, <3>2
  <2>4. S \subseteq Episodes /\ IsFiniteSet(S) /\ n \in Nat /\ 2 <= n
    <3>1. IsFiniteSet(S)
      BY <2>2, <2>3, FS_Subset
    <3>2. n \in Nat
      BY <2>n, <3>1, FS_CardinalityType
    <3>3. Cardinality(SelectedOf(g)) >= 2
      BY <1>1 DEF Splittable
    <3> HIDE DEF S
    <3> QED BY <2>1, <2>3, <2>n, <3>1, <3>2, <3>3 DEF S
  <2>5. /\ v \in 1..(n - 1) /\ (v - 1) * settings.whole <= n * settings.part
        /\ v * settings.whole >= n * settings.part \/ v = n - 1
    <3>1. PICK c : c = FloatCeil(n)
      OBVIOUS
    <3>2. c \in {Ceil(n * settings.part, settings.whole),
                 (n * settings.part) \div settings.whole + 1}
      BY <3>1 DEF FloatCeil
    <3>3. v = Smaller(n - 1, Larger(1, c))
      BY <2>v, <3>1 DEF ValidationCount
    <3> QED BY <1>1, <2>4, <3>2, <3>3, HeldOutIsAFraction DEF ChosenOK
  <2>6. H \subseteq S /\ Cardinality(H) = v /\ IsFiniteSet(H)
    <3>1. H = FirstOf(S, settings.split, v)
      BY <2>n, <2>v DEF HeldOut
    <3>2. settings.split \in Ranks /\ v \in Nat /\ Smaller(v, n) = v
      BY <1>1, <2>4, <2>5 DEF ChosenOK, Smaller
    <3> HIDE DEF H, S
    <3> QED BY <2>4, <2>n, <3>1, <3>2, FirstOfCounts
  <2>7. IsFiniteSet(S \ H) /\ Cardinality(S \ H) = n - v
    <3> PICK A, B : A = S /\ B = H
      OBVIOUS
    <3>1. A \cap B = B /\ Cardinality(B) = v
      BY <2>6
    <3>2. IsFiniteSet(A) /\ Cardinality(A) = n
      BY <2>4, <2>n
    <3> HIDE DEF S, H
    <3>3. IsFiniteSet(A)
      BY <3>2
    <3>4. IsFiniteSet(A \ B) /\ Cardinality(A \ B) = Cardinality(A) - Cardinality(A \cap B)
      BY <3>3, FS_Difference
    <3>5. Cardinality(A \cap B) = v
      BY <3>1
    <3> QED BY <3>2, <3>4, <3>5
  <2> DEFINE V == rows(g, "validation")
             T == rows(g, "train")
             idOf(R) == [row \in R |-> row.id]
  <2>8. \A row \in manifest : GroupOf[row.id] = g =>
          row.id \in S /\ row.split = (IF row.id \in H THEN "validation" ELSE "train")
    BY ManifestRows
  <2>9. \A e \in S : \E row \in manifest : row.id = e /\ GroupOf[row.id] = g
    <3>1. \A e \in S : e \in Catalogued /\ GroupOf[e] = g
      BY <2>3
    <3> QED BY <3>1, ManifestRows
  <2>10. Cardinality(V) = v
    <3>1. idOf(V) \in [V -> H]
      BY <2>8
    <3>2. \A a, b \in V : idOf(V)[a] = idOf(V)[b] => a = b
      BY ManifestRows
    <3>3. \A e \in H : \E row \in V : idOf(V)[row] = e
      BY <2>6, <2>8, <2>9
    <3> HIDE DEF idOf, V, H
    <3> QED BY <2>6, <3>1, <3>2, <3>3, SameSize
  <2>11. Cardinality(T) = n - v
    <3>1. idOf(T) \in [T -> S \ H]
      BY <2>8
    <3>2. \A a, b \in T : idOf(T)[a] = idOf(T)[b] => a = b
      BY ManifestRows
    <3>3. \A e \in S \ H : \E row \in T : idOf(T)[row] = e
      BY <2>6, <2>8, <2>9
    <3> HIDE DEF idOf, T, H, S
    <3> QED BY <2>7, <3>1, <3>2, <3>3, SameSize
  <2>12. V # {} /\ T # {}
    <3> HIDE DEF V, T
    <3>1. Cardinality(V) # 0 /\ Cardinality(T) # 0
      BY <2>4, <2>5, <2>10, <2>11
    <3>2. Cardinality({}) = 0
      BY FS_EmptySet
    <3> QED BY <3>1, <3>2
  <2>13. Cardinality(T) + Cardinality(V) = n
    <3> HIDE DEF V, T
    <3> QED BY <2>4, <2>5, <2>10, <2>11
  <2> HIDE DEF V, T
  <2>14. /\ settings.limit > 0 => Cardinality(T) + Cardinality(V) <= settings.limit
         /\ (Cardinality(V) - 1) * settings.whole <= (Cardinality(T) + Cardinality(V)) * settings.part
         /\ \/ Cardinality(V) * settings.whole >= (Cardinality(T) + Cardinality(V)) * settings.part
            \/ Cardinality(V) = (Cardinality(T) + Cardinality(V)) - 1
    BY <2>3, <2>5, <2>10, <2>13
  <2> QED BY <2>12, <2>14 DEF V, T
<1>3. \A row \in manifest : row.frames > 0
  BY ManifestRows
<1> HIDE DEF rows
<1>4. \A a, b \in manifest : a.id = b.id => a = b
  BY ManifestRows
<1> QED BY <1>2, <1>3, <1>4 DEF SplitsAreSound, rows

LEMMA SplitKept ==
  ASSUME UNCHANGED <<settings, catalog>>
  PROVE  (Splittable' <=> Splittable) /\ Manifest' = Manifest
<1>1. settings' = settings /\ catalog' = catalog
  OBVIOUS
<1>2. Catalogued' = Catalogued
  BY <1>1 DEF Catalogued
<1>3. \A g : SelectedOf(g)' = SelectedOf(g)
  BY <1>1, <1>2 DEF SelectedOf
<1>4. \A n : ValidationCount(n)' = ValidationCount(n)
  BY <1>1 DEF ValidationCount, FloatCeil
<1>5. \A g : HeldOut(g)' = HeldOut(g)
  BY <1>1, <1>3, <1>4 DEF HeldOut
<1>6. \A n : CountedFrames(n)' = CountedFrames(n)
  BY <1>1 DEF CountedFrames
<1>7. Splittable' <=> Splittable
  BY <1>2, <1>3 DEF Splittable
<1>8. Manifest' = Manifest
  BY <1>1, <1>2, <1>3, <1>5, <1>6 DEF Manifest
<1> QED BY <1>7, <1>8

LEMMA ManifestKept ==
  ASSUME ManifestFits, UNCHANGED <<settings, catalog, manifest>>,
         partitionAt' \in {"open", "catalog", "split"} => partitionAt' = partitionAt
  PROVE  ManifestFits'
BY SplitKept DEF ManifestFits

LEMMA RowsFrames ==
  ASSUME ManifestFits, PartitionTypeOK, NEW split
  PROVE  /\ IsFiniteSet(RowsOf(split)) /\ FramesOf(RowsOf(split)) \in Nat
         /\ \A row \in RowsOf(split) : row.frames \in Nat \ {0}
<1>1. IsFiniteSet(RowsOf(split)) /\ \A row \in RowsOf(split) : row.frames \in Nat \ {0}
  BY ManifestRows, FS_Subset DEF RowsOf
<1>2. FramesOf(RowsOf(split)) \in Nat
  BY <1>1, FramesOfRows
<1> QED BY <1>1, <1>2

LEMMA YieldsSome ==
  ASSUME NEW n \in Nat
  PROVE  Cardinality(Yielded(n)) \in Nat
<1>1. IsFiniteSet(0..n - 1) /\ Yielded(n) \in SUBSET (0..n - 1)
  BY FS_Interval DEF Yielded
<1> QED BY <1>1, FS_Subset, FS_CardinalityType

LEMMA BeginPassKeeps ==
  ASSUME PartitionInv, NEW split \in {"train", "validation"}, BeginPass(split)
  PROVE  PartitionInv'
<1> DEFINE r == [split |-> split, left |-> RowsOf(split), yielded |-> 0, passes |-> reader.passes + 1]
<1>1. /\ UNCHANGED <<frames, settings, catalog, manifest>> /\ partitionAt = "ready"
      /\ partitionAt' = "reading" /\ reader' = r
  BY DEF BeginPass, RowsOf
<1>2. PartitionTypeOK'
  <2>1. reader.passes \in Nat
    BY DEF PartitionInv, PartitionTypeOK
  <2>2. RowsOf(split) \subseteq manifest
    BY DEF RowsOf
  <2>3. reader' \in [split : {"train", "validation"}, left : SUBSET manifest, yielded : Nat,
                     passes : Nat]
    BY <1>1, <2>1, <2>2
  <2> QED BY <1>1, <2>3 DEF PartitionInv, PartitionTypeOK, ChosenOK
<1>3. ManifestFits'
  BY <1>1, ManifestKept DEF PartitionInv
<1>4. FramesOf(RowsOf(split)) \in Nat
  BY RowsFrames DEF PartitionInv
<1>5. reader'.left = RowsOf(split) /\ reader'.yielded = 0 /\ reader'.split = split
  BY <1>1
<1>6. PassFits'
  <2> PICK t : t = FramesOf(RowsOf(split))
    OBVIOUS
  <2>1. Accounted' = 0 + t
    BY <1>5 DEF Accounted
  <2>2. RowsOf(reader.split)' = RowsOf(split)
    BY <1>1, <1>5 DEF RowsOf
  <2>3. FramesOf(RowsOf(reader.split))' = t
    BY <2>2
  <2>4. 0 + t = t
    BY <1>4
  <2> QED BY <1>1, <1>5, <2>1, <2>2, <2>3, <2>4 DEF PassFits
<1> QED BY <1>2, <1>3, <1>6 DEF PartitionInv

LEMMA ReadKeeps ==
  ASSUME PartitionInv, ReadEpisode
  PROVE  PartitionInv'
<1> DEFINE yields(row) == IF frames[row.id] = Gone THEN 0 ELSE Cardinality(Yielded(frames[row.id]))
<1>1. PICK row \in reader.left :
        /\ reader' = [reader EXCEPT !.left = @ \ {row}, !.yielded = @ + yields(row)]
        /\ partitionAt' =
             IF frames[row.id] = Gone \/ (frames[row.id] > 0 /\ yields(row) = row.frames)
             THEN "reading" ELSE "refused"
  BY DEF ReadEpisode
<1>2. UNCHANGED <<frames, settings, catalog, manifest>> /\ partitionAt = "reading"
  BY DEF ReadEpisode
<1>3. partitionAt' \in {"reading", "refused"}
  BY <1>1
<1>4. /\ reader \in [split : {"train", "validation"}, left : SUBSET manifest, yielded : Nat, passes : Nat]
      /\ reader.left \subseteq RowsOf(reader.split)
      /\ row \in manifest /\ row.frames \in Nat \ {0}
  <2>1. reader.left \subseteq RowsOf(reader.split)
    BY <1>2 DEF PartitionInv, PassFits
  <2> QED BY <2>1, RowsFrames DEF PartitionInv, PartitionTypeOK, RowsOf
<1>k. PICK k : k = yields(row)
  OBVIOUS
<1>5. k \in Nat
  <2>1. frames[row.id] \in 0..Gone
    BY <1>4, ManifestRows DEF PartitionInv, PartitionTypeOK
  <2>2. frames[row.id] \in Nat
    BY <2>1, PartitionAssumption DEF Gone
  <2> QED BY <1>k, <2>2, YieldsSome
<1> DEFINE y == reader.yielded
           left == reader.left \ {row}
           r == [split |-> reader.split, left |-> left, yielded |-> y + k, passes |-> reader.passes]
<1>6. reader' = r
  BY <1>1, <1>4, <1>k
<1>7. PartitionTypeOK'
  <2>1. y + k \in Nat /\ left \in SUBSET manifest
    BY <1>4, <1>5
  <2>2. r \in [split : {"train", "validation"}, left : SUBSET manifest, yielded : Nat, passes : Nat]
    <3> HIDE DEF y, left
    <3> QED BY <1>4, <2>1
  <2>3. reader' \in [split : {"train", "validation"}, left : SUBSET manifest, yielded : Nat,
                     passes : Nat]
    BY <1>6, <2>2
  <2> QED BY <1>2, <1>3, <2>3 DEF PartitionInv, PartitionTypeOK, ChosenOK
<1>8. ManifestFits'
  BY <1>2, <1>3, ManifestKept DEF PartitionInv
<1>9. ASSUME partitionAt' = "reading" PROVE PassFits'
  <2> PICK f, t, u : f = FramesOf(reader.left) /\ t = FramesOf(RowsOf(reader.split))
                     /\ u = FramesOf(left)
    OBVIOUS
  <2>1. f = row.frames + u /\ u \in Nat /\ t \in Nat
    <3>1. IsFiniteSet(reader.left) /\ \A x \in reader.left : x.frames \in Nat
      BY <1>4, RowsFrames, FS_Subset DEF PartitionInv
    <3>2. IsFiniteSet(left) /\ \A x \in left : x.frames \in Nat
      BY <3>1, FS_Subset
    <3>3. u \in Nat
      BY <3>2, FramesOfRows
    <3>4. f = row.frames + u
      BY <3>1, FramesOfRows
    <3> QED BY <3>3, <3>4, RowsFrames DEF PartitionInv
  <2>2. y + f = t \/ (SomeoneGone /\ y + f < t)
    BY <1>2 DEF PartitionInv, PassFits, Accounted
  <2>3. (SomeoneGone /\ k = 0) \/ k = row.frames
    BY <1>1, <1>4, <1>9, <1>k DEF SomeoneGone
  <2>4. (y + k) + u = t \/ (SomeoneGone /\ (y + k) + u < t)
    <3>1. y \in Nat
      BY <1>4
    <3> HIDE DEF y
    <3> QED BY <1>4, <1>5, <2>1, <2>2, <2>3, <3>1
  <2>5. r.split = reader.split /\ r.left = left /\ r.yielded = y + k
    OBVIOUS
  <2> HIDE DEF r
  <2>6. Accounted' = (y + k) + u
    BY <1>6, <2>5 DEF Accounted
  <2>7. RowsOf(reader.split)' = RowsOf(reader.split)
    BY <1>2, <1>6, <2>5 DEF RowsOf
  <2>8. FramesOf(RowsOf(reader.split))' = t
    BY <2>7
  <2>9. SomeoneGone' <=> SomeoneGone
    BY <1>2 DEF SomeoneGone
  <2>10. (reader.left \subseteq RowsOf(reader.split))'
    BY <1>4, <1>6, <2>5, <2>7
  <2> QED BY <2>4, <2>6, <2>8, <2>9, <2>10 DEF PassFits
<1>10. ASSUME partitionAt' = "refused" PROVE PassFits'
  BY <1>10 DEF PassFits
<1> QED BY <1>3, <1>7, <1>8, <1>9, <1>10 DEF PartitionInv

LEMMA PartitionRestKeeps ==
  ASSUME PartitionInv,
         \/ OpenSource \/ CatalogAndSplit \/ Split \/ SourceChanges \/ EndPass
         \/ UNCHANGED partitionVars
  PROVE  PartitionInv'
<1>1. CASE OpenSource
  <2>1. frames' \in [Episodes -> 0..MaxFrames] /\ partitionAt' = "catalog" /\ partitionAt = "open"
        /\ UNCHANGED <<catalog, manifest, reader>>
    BY <1>1 DEF OpenSource
  <2>2. frames' \in [Episodes -> 0..Gone]
    BY <2>1, PartitionAssumption DEF Gone
  <2>3. ChosenOK'
    BY <1>1, PartitionAssumption DEF OpenSource, ChosenOK
  <2>4. PartitionTypeOK'
    BY <2>1, <2>2, <2>3 DEF PartitionInv, PartitionTypeOK
  <2> QED BY <2>1, <2>4 DEF PartitionInv, ManifestFits, PassFits
<1>2. CASE CatalogAndSplit
  <2>1. UNCHANGED <<frames, settings, manifest, reader>> /\ partitionAt = "catalog"
        /\ partitionAt' = "split" /\ catalog' = frames
    BY <1>2 DEF CatalogAndSplit
  <2>2. PartitionTypeOK'
    BY <2>1 DEF PartitionInv, PartitionTypeOK, ChosenOK
  <2> QED BY <2>1, <2>2 DEF PartitionInv, ManifestFits, PassFits
<1>3. CASE Split
  <2>1. UNCHANGED <<frames, settings, catalog, reader>> /\ partitionAt = "split"
        /\ partitionAt' \in {"ready", "refused"} /\ manifest = {}
    BY <1>3 DEF Split, PartitionInv, ManifestFits
  <2>2. reader.left \subseteq manifest'
    BY <2>1 DEF PartitionInv, PartitionTypeOK
  <2>3. reader' \in [split : {"train", "validation"}, left : SUBSET manifest', yielded : Nat,
                     passes : Nat]
    BY <2>1, <2>2 DEF PartitionInv, PartitionTypeOK
  <2>4. PartitionTypeOK'
    BY <2>1, <2>3 DEF PartitionInv, PartitionTypeOK, ChosenOK
  <2>5. manifest' = {} \/ (Splittable /\ manifest' = Manifest)
    BY <1>3, <2>1 DEF Split
  <2>6. ManifestFits'
    BY <2>1, <2>5, SplitKept DEF ManifestFits
  <2> QED BY <2>1, <2>4, <2>6 DEF PartitionInv, PassFits
<1>4. CASE SourceChanges
  <2>1. UNCHANGED <<settings, catalog, manifest, reader, partitionAt>> /\ partitionAt = "ready"
        /\ frames' \in [Episodes -> 0..Gone]
    BY <1>4 DEF SourceChanges, PartitionInv, PartitionTypeOK
  <2>2. PartitionTypeOK'
    BY <2>1 DEF PartitionInv, PartitionTypeOK, ChosenOK
  <2>3. ManifestFits'
    BY <2>1, ManifestKept DEF PartitionInv
  <2> QED BY <2>1, <2>2, <2>3 DEF PartitionInv, PassFits
<1>5. CASE EndPass \/ UNCHANGED partitionVars
  <2>1. UNCHANGED <<frames, settings, catalog, manifest, reader>>
        /\ (partitionAt' = partitionAt \/ (partitionAt = "reading" /\ partitionAt' = "ready"))
    BY <1>5 DEF EndPass, partitionVars
  <2>2. PartitionTypeOK'
    BY <2>1 DEF PartitionInv, PartitionTypeOK, ChosenOK
  <2>3. ManifestFits'
    BY <2>1, ManifestKept DEF PartitionInv
  <2>4. PassFits'
    BY <2>1 DEF PartitionInv, PassFits, Accounted, SomeoneGone, RowsOf
  <2> QED BY <2>2, <2>3, <2>4 DEF PartitionInv
<1> QED BY <1>1, <1>2, <1>3, <1>4, <1>5

\* Whatever the source, its changes, the ranks and the settings: no episode
\* trains and validates, no group exceeds its limit or has only one side, the
\* fraction held out is the requested one but for the rounding, and a pass
\* yields the length its dataset announces unless a record is gone
\* (training_data.py).
THEOREM PartitionAlwaysHolds == PartitionSpec => []PartitionHolds
<1>1. PartitionInit => PartitionInv
  <2> SUFFICES ASSUME PartitionInit PROVE PartitionInv
    OBVIOUS
  <2>1. PartitionTypeOK
    BY PartitionAssumption DEF PartitionInit, PartitionTypeOK, NoReader, Gone
  <2> QED BY <2>1 DEF PartitionInit, PartitionInv, ManifestFits, PassFits
<1>2. PartitionInv /\ [PartitionNext]_partitionVars => PartitionInv'
  BY BeginPassKeeps, ReadKeeps, PartitionRestKeeps DEF PartitionNext
<1>3. PartitionInv => PartitionHolds
  <2> SUFFICES ASSUME PartitionInv PROVE PartitionHolds
    OBVIOUS
  <2>1. SplitsAreSound
    BY SplitsFit DEF PartitionInv
  <2>2. ASSUME partitionAt = "reading", reader.left = {}
        PROVE  \/ reader.yielded = Counts(reader.split)
               \/ SomeoneGone /\ reader.yielded < Counts(reader.split)
    <3>1. FramesOf(reader.left) = 0
      BY <2>2, FS_EmptySet, FramesOfRows
    <3>2. reader.yielded \in Nat
      BY DEF PartitionInv, PartitionTypeOK
    <3>3. Accounted = reader.yielded
      BY <3>1, <3>2 DEF Accounted
    <3>4. Counts(reader.split) = FramesOf(RowsOf(reader.split))
      BY DEF Counts, FramesOf, RowsOf
    <3> QED BY <2>2, <3>3, <3>4 DEF PartitionInv, PassFits
  <2>3. PassesYieldTheirLength
    BY <2>2 DEF PassesYieldTheirLength, SomeoneGone
  <2> QED BY <2>1, <2>3 DEF PartitionHolds
<1> QED BY <1>1, <1>2, <1>3, PTL DEF PartitionSpec

-----------------------------------------------------------------------------
(* The results of a task, for every plan, every kind of action and any       *)
(* number of episodes and steps.                                             *)

Traces ==
  [reset : BOOLEAN, predicted : BOOLEAN, actions : Seq(ActionKinds),
   ending : {"none", "success", "failure", "time_limit"}]
Terminals == {"success", "failure", "time_limit", "policy_error", "benchmark_error", "aborted"}
Statuses == {"available", "unavailable", "insufficient_data", "not_applicable", "error"}

\* What FinishEpisode appends, and how the end of an episode and its trace agree.
RecordOf(t, terminal) ==
  [terminal |-> terminal, results |-> EpisodeResults(t, terminal), trace |-> TraceFacts(t)]
EndsAs(t, terminal) ==
  terminal \in {"success", "failure", "time_limit"} => terminal = t.ending
EpisodeFits(e) ==
  \E t \in Traces, terminal \in Terminals : e = RecordOf(t, terminal) /\ EndsAs(t, terminal)

MetricsTypeOK ==
  /\ metricPlan \in MetricPlans
  /\ metricPhase \in {"connecting", "running", "refused", "stopped", "aggregating", "aggregated",
                      "raised"}
  /\ trace \in Traces
  /\ Len(evaluated) \in Nat /\ DOMAIN evaluated = 1..Len(evaluated)

MetricsInv ==
  /\ MetricsTypeOK
  /\ \A i \in 1..Len(evaluated) : EpisodeFits(evaluated[i])
  /\ metricPhase # "stopped" => \A i \in 1..Len(evaluated) : evaluated[i].terminal # "aborted"
  /\ metricPhase # "aggregated" => taskResults = <<>>
  /\ metricPhase = "aggregated" =>
       /\ ~AggregateTaskRaises
       /\ taskResults = [m \in {m \in metricPlan.enabled : ~Drops(m)} |-> TaskAggregate(m)]
  /\ metricPhase = "raised" => AggregateTaskRaises

LEMMA MetricsInitially == MetricsInit => MetricsInv
<1> SUFFICES ASSUME MetricsInit PROVE MetricsInv
  OBVIOUS
<1>1. EmptyTrace \in Traces
  BY DEF EmptyTrace, Traces
<1>2. Len(evaluated) = 0 /\ DOMAIN evaluated = 1..Len(evaluated)
  BY DEF MetricsInit
<1> QED BY <1>1, <1>2 DEF MetricsInit, MetricsInv, MetricsTypeOK

\* What the success rate is computed from, as operators of their arguments.
ValuesOf(results, S) == MapThenSumSet(LAMBDA i : results[i].value, S)
Kept(results) == {i \in DOMAIN results : ~SuccessExcluded(results[i])}
Eligible(results) == {i \in Kept(results) : results[i].status = "available"}

LEMMA SuccessRateIs ==
  \A rs : SuccessRate(rs) =
    [valid |-> Cardinality(Eligible(rs)), unavailable |-> Cardinality(Kept(rs) \ Eligible(rs)),
     excluded |-> Len(rs) - Cardinality(Kept(rs)), numerator |-> ValuesOf(rs, Eligible(rs))]
BY DEF SuccessRate, Kept, Eligible, ValuesOf

LEMMA SuccessRateIsNext ==
  (\A rs : SuccessRate(rs) =
    [valid |-> Cardinality(Eligible(rs)), unavailable |-> Cardinality(Kept(rs) \ Eligible(rs)),
     excluded |-> Len(rs) - Cardinality(Kept(rs)), numerator |-> ValuesOf(rs, Eligible(rs))])'
BY SuccessRateIs, PTL

\* Plan and episodes make the results: where they stay, so do these.
LEMMA RecordOfKept ==
  ASSUME metricPlan' = metricPlan
  PROVE  \A t, x : RecordOf(t, x)' = RecordOf(t, x)
<1>1. \A t : SignalsShown(t)' = SignalsShown(t)
  BY DEF SignalsShown
<1>2. \A m, t : MissingEvidence(m, t)' <=> MissingEvidence(m, t)
  BY <1>1 DEF MissingEvidence
<1>3. \A v, c : GripperState(v, c)' = GripperState(v, c)
  BY DEF GripperState
<1>4. \A v, c : KnownSteps(v, c)' = KnownSteps(v, c)
  BY <1>3 DEF KnownSteps
<1>5. \A t : FlickerResult(t)' = FlickerResult(t) /\ FrequencyResult(t)' = FrequencyResult(t)
  BY <1>4 DEF FlickerResult, FrequencyResult
<1>6. NoOpResult' = NoOpResult
  BY DEF NoOpResult
<1>7. \A m, t, x : MetricValue(m, t, x)' = MetricValue(m, t, x)
  BY <1>5, <1>6 DEF MetricValue
<1>8. \A m, t, x : Evaluate(m, t, x)' = Evaluate(m, t, x)
  BY <1>2, <1>7 DEF Evaluate
<1>9. EvaluatedMetrics' = EvaluatedMetrics
  BY DEF EvaluatedMetrics
<1>10. \A t, x : EpisodeResults(t, x)' = EpisodeResults(t, x)
  BY <1>8, <1>9 DEF EpisodeResults
<1>11. \A t : TraceFacts(t)' = TraceFacts(t)
  BY <1>1, <1>4 DEF TraceFacts
<1> QED BY <1>10, <1>11 DEF RecordOf

LEMMA AggregationKept ==
  ASSUME metricPlan' = metricPlan, evaluated' = evaluated
  PROVE  /\ AggregateTaskRaises' <=> AggregateTaskRaises
         /\ \A m : TaskAggregate(m)' = TaskAggregate(m)
         /\ \A m : Drops(m)' <=> Drops(m)
<1>1. \A m : ResultsOf(m)' = ResultsOf(m)
  BY DEF ResultsOf
<1>2. \A r : SuccessExcluded(r)' <=> SuccessExcluded(r)
  BY DEF SuccessExcluded
<1>3. \A rs : SuccessRate(rs)' = SuccessRate(rs)
  <2>1. \A rs : Kept(rs)' = Kept(rs) /\ Eligible(rs)' = Eligible(rs)
    BY <1>2 DEF Kept, Eligible
  <2> QED BY <2>1, SuccessRateIs, SuccessRateIsNext
<1>4. \A m : TaskAggregate(m)' = TaskAggregate(m)
  BY <1>1, <1>3 DEF TaskAggregate
<1>5. \A m : Drops(m)' <=> Drops(m)
  BY <1>1 DEF Drops
<1>6. AggregateTaskRaises' <=> AggregateTaskRaises
  BY <1>1, <1>5 DEF AggregateTaskRaises
<1> QED BY <1>4, <1>5, <1>6

\* The steps that finish no episode.
LEMMA TracingKeeps ==
  ASSUME MetricsInv,
         \/ Connect \/ RecordReset \/ RecordPrediction \/ (\E kind \in ActionKinds : Act(kind))
         \/ UNCHANGED metricVars
  PROVE  MetricsInv'
<1>1. /\ metricPlan' = metricPlan /\ evaluated' = evaluated /\ taskResults' = taskResults
      /\ \/ metricPhase' = metricPhase
         \/ metricPhase = "connecting" /\ metricPhase' \in {"refused", "running"}
  BY DEF Connect, RecordReset, RecordPrediction, Act, metricVars
<1>2. trace' \in Traces
  <2>1. CASE trace' = trace
    BY <2>1 DEF MetricsInv, MetricsTypeOK
  <2>2. CASE RecordReset \/ RecordPrediction
    BY <2>2 DEF MetricsInv, MetricsTypeOK, Traces, RecordReset, RecordPrediction
  <2>3. ASSUME NEW kind \in ActionKinds, Act(kind) PROVE trace' \in Traces
    <3>1. PICK ending \in {"none", "success", "failure", "time_limit"} :
            trace' = [trace EXCEPT !.actions = Append(@, kind), !.ending = ending]
      BY <2>3 DEF Act
    <3>2. trace \in Traces
      BY DEF MetricsInv, MetricsTypeOK
    <3>3. Append(trace.actions, kind) \in Seq(ActionKinds)
      BY <3>2 DEF Traces
    <3> QED BY <3>1, <3>2, <3>3 DEF Traces
  <2> QED BY <2>1, <2>2, <2>3 DEF Connect, metricVars
<1>3. MetricsTypeOK'
  BY <1>1, <1>2 DEF MetricsInv, MetricsTypeOK
<1>4. \A e : EpisodeFits(e)' <=> EpisodeFits(e)
  BY <1>1, RecordOfKept DEF EpisodeFits
<1>5. metricPhase' = metricPhase => (AggregateTaskRaises' <=> AggregateTaskRaises)
  BY <1>1, AggregationKept
<1>6. /\ \A m : TaskAggregate(m)' = TaskAggregate(m)
      /\ \A m : Drops(m)' <=> Drops(m)
  BY <1>1, AggregationKept
<1> QED BY <1>1, <1>3, <1>4, <1>5, <1>6 DEF MetricsInv

LEMMA FinishKeeps ==
  ASSUME MetricsInv, EpisodeEnds \/ EpisodeFails \/ EpisodeInterrupted
  PROVE  MetricsInv'
<1>1. PICK terminal \in Terminals, failed \in BOOLEAN :
        /\ FinishEpisode(terminal, failed) /\ EndsAs(trace, terminal) /\ metricPhase = "running"
  <2>1. CASE EpisodeEnds
    BY <2>1 DEF EpisodeEnds, EndsAs, MetricsInv, MetricsTypeOK, Traces, Terminals
  <2>2. CASE EpisodeFails
    BY <2>2 DEF EpisodeFails, EndsAs, Terminals
  <2>3. CASE EpisodeInterrupted
    BY <2>3 DEF EpisodeInterrupted, EndsAs, Terminals
  <2> QED BY <2>1, <2>2, <2>3
<1> DEFINE e == RecordOf(trace, terminal)
<1>2. /\ evaluated' = Append(evaluated, e) /\ trace' = EmptyTrace
      /\ metricPlan' = metricPlan /\ taskResults' = taskResults
      /\ metricPhase' \in {"stopped", "aggregating", "running"}
      /\ terminal = "aborted" => metricPhase' = "stopped"
  <2>1. /\ evaluated' = Append(evaluated, e) /\ trace' = EmptyTrace
        /\ metricPlan' = metricPlan /\ taskResults' = taskResults
    BY <1>1 DEF FinishEpisode, RecordOf
  <2>2. CASE terminal = "aborted"
    <3>1. metricPhase' = "stopped"
      BY <1>1, <2>2 DEF FinishEpisode
    <3> QED BY <2>1, <3>1
  <2>3. CASE terminal # "aborted"
    <3>1. metricPhase' \in {"stopped", "aggregating", "running"}
      BY <1>1, <2>3 DEF FinishEpisode
    <3> QED BY <2>1, <2>3, <3>1
  <2> QED BY <2>2, <2>3
<1>3. EpisodeFits(e) /\ e.terminal = terminal
  BY <1>1 DEF EpisodeFits, MetricsInv, MetricsTypeOK, RecordOf
<1> HIDE DEF e
<1>4. PICK n \in Nat : n = Len(evaluated) /\ DOMAIN evaluated = 1..n
  BY DEF MetricsInv, MetricsTypeOK
<1>5. /\ Len(evaluated') = n + 1 /\ DOMAIN evaluated' = 1..(n + 1)
      /\ \A i \in 1..n : evaluated'[i] = evaluated[i]
      /\ evaluated'[n + 1] = e
  BY <1>2, <1>4 DEF MetricsInv, MetricsTypeOK
<1>6. MetricsTypeOK'
  <2>1. EmptyTrace \in Traces
    BY DEF EmptyTrace, Traces
  <2>2. n + 1 \in Nat
    BY <1>4
  <2> QED BY <1>2, <1>5, <2>1, <2>2 DEF MetricsInv, MetricsTypeOK
<1>7. \A x : EpisodeFits(x)' <=> EpisodeFits(x)
  BY <1>2, RecordOfKept DEF EpisodeFits
<1>8. ASSUME NEW i \in 1..(n + 1)
      PROVE  /\ EpisodeFits(evaluated'[i])
             /\ metricPhase' # "stopped" => evaluated'[i].terminal # "aborted"
  <2>1. CASE i = n + 1
    BY <1>2, <1>3, <1>5, <2>1
  <2>2. CASE i # n + 1
    <3>1. i \in 1..n
      BY <1>4, <2>2
    <3> QED BY <1>1, <1>4, <1>5, <3>1 DEF MetricsInv
  <2> QED BY <2>1, <2>2
<1>9. \A i \in 1..(n + 1) : EpisodeFits(evaluated[i])'
  BY <1>7, <1>8
<1> QED BY <1>1, <1>2, <1>5, <1>6, <1>8, <1>9 DEF MetricsInv

LEMMA AggregateKeeps ==
  ASSUME MetricsInv, AggregateTask
  PROVE  MetricsInv'
<1>1. /\ metricPlan' = metricPlan /\ trace' = trace /\ evaluated' = evaluated
      /\ metricPhase = "aggregating" /\ taskResults = <<>>
      /\ \/ metricPhase' = "raised" /\ taskResults' = taskResults /\ AggregateTaskRaises
         \/ /\ metricPhase' = "aggregated" /\ ~AggregateTaskRaises
            /\ taskResults' = [m \in {m \in metricPlan.enabled : ~Drops(m)} |-> TaskAggregate(m)]
  BY DEF AggregateTask, MetricsInv
<1>2. MetricsTypeOK'
  BY <1>1 DEF MetricsInv, MetricsTypeOK
<1>3. \A e : EpisodeFits(e)' <=> EpisodeFits(e)
  BY <1>1, RecordOfKept DEF EpisodeFits
<1>4. /\ AggregateTaskRaises' <=> AggregateTaskRaises
      /\ \A m : TaskAggregate(m)' = TaskAggregate(m)
      /\ \A m : Drops(m)' <=> Drops(m)
  BY <1>1, AggregationKept
<1> QED BY <1>1, <1>2, <1>3, <1>4 DEF MetricsInv

-----------------------------------------------------------------------------
\* What the evaluation of one metric says of a trace.
LEMMA SignalsAre ==
  ASSUME NEW t
  PROVE  \/ SignalsShown(t) = {}
         \/ "benchmark.task_success" \in SignalsShown(t)
BY DEF SignalsShown

LEMMA EvaluationIs ==
  ASSUME MetricsTypeOK, NEW t \in Traces, NEW x \in Terminals, EndsAs(t, x),
         NEW m \in MetricIds \ {"task.success_rate"}
  PROVE  LET e == RecordOf(t, x)
             r == Evaluate(m, t, x)
         IN /\ r.status \in Statuses
            /\ r.status = "error" <=> m = "task.success" /\ Contradicts(e)
            /\ r.described <=> Describable(m, e)
            /\ m = "task.success" /\ e.trace.shown /\ ~Contradicts(e) =>
                 /\ r.status = "available" /\ r.terminal = x
                 /\ r.value = IF x = "success" THEN 1 ELSE 0
            /\ m = "task.success" /\ ~e.trace.shown => r.status = "unavailable"
            /\ r.described \in BOOLEAN
<1> DEFINE f == TraceFacts(t)
<1> SUFFICES ASSUME NEW e, e = RecordOf(t, x), NEW r, r = Evaluate(m, t, x)
             PROVE  /\ r.status \in Statuses
                    /\ r.status = "error" <=> m = "task.success" /\ Contradicts(e)
                    /\ r.described <=> Describable(m, e)
                    /\ m = "task.success" /\ e.trace.shown /\ ~Contradicts(e) =>
                         /\ r.status = "available" /\ r.terminal = x
                         /\ r.value = IF x = "success" THEN 1 ELSE 0
                    /\ m = "task.success" /\ ~e.trace.shown => r.status = "unavailable"
                    /\ r.described \in BOOLEAN
  BY DEF Contradicts, Describable
<1>1. /\ e.trace = f /\ e.terminal = x
      /\ (f.shown <=> SignalsShown(t) # {}) /\ (f.solved <=> t.ending = "success")
      /\ f.acted = Len(t.actions)
      /\ f.grips = Cardinality(KnownSteps(Grippers(t), metricPlan.convention))
  BY DEF RecordOf, TraceFacts
<1> HIDE DEF f
<1>2. Len(t.actions) \in Nat /\ (t.actions = <<>> <=> Len(t.actions) = 0)
  BY DEF Traces
<1>3. \A s : /\ Result(s).status = s /\ Result(s).described = FALSE
             /\ Result(s).terminal = "unknown" /\ Result(s).value = 0
  BY DEF Result
<1>4. DescribedResult.status = "available" /\ DescribedResult.described = TRUE
  BY DEF DescribedResult, Result
<1>5. CASE m = "task.success"
  <2>1. MissingEvidence(m, t) <=> ~f.shown
    BY <1>1, <1>5, SignalsAre DEF MissingEvidence, NeedsActions, NeedsPredictions, ActionMetrics, RequiredSignals
  <2>2. ~Insufficient(m, t)
    BY <1>2, <1>5 DEF Insufficient, MinimumSamples, ActionMetrics
  <2>3. ~Describable(m, e)
    BY <1>5 DEF Describable, ActionMetrics
  <2>4. Contradicts(e) <=> f.shown /\ ~(t.ending = "success" <=> x = "success")
    BY <1>1 DEF Contradicts, EndsAs
  <2>5. MetricValue(m, t, x) = SuccessResult(t, x)
    BY <1>5 DEF MetricValue, ActionMetrics
  <2>6. /\ SuccessResult(t, x).status =
             IF ~(t.ending = "success" <=> x = "success") THEN "error" ELSE "available"
        /\ SuccessResult(t, x).described = FALSE /\ SuccessResult(t, x).terminal = x
        /\ (t.ending = "success" <=> x = "success") =>
             SuccessResult(t, x).value = IF x = "success" THEN 1 ELSE 0
    BY DEF SuccessResult, Result
  <2>7. r = IF f.shown THEN SuccessResult(t, x) ELSE Result("unavailable")
    BY <2>1, <2>2, <2>5 DEF Evaluate
  <2>8. CASE f.shown
    BY <1>1, <1>5, <2>3, <2>4, <2>6, <2>7, <2>8 DEF Statuses
  <2>9. CASE ~f.shown
    <3>1. r = Result("unavailable")
      BY <2>7, <2>9
    <3>2. r.status = "unavailable" /\ r.described = FALSE /\ ~r.described
      BY <1>3, <3>1
    <3>3. ~e.trace.shown /\ ~Contradicts(e)
      BY <1>1, <2>4, <2>9
    <3> QED BY <1>5, <2>3, <3>2, <3>3 DEF Statuses
  <2> QED BY <2>8, <2>9
<1>6. CASE m \in ActionMetrics
  <2>1. MinimumSamples(m) \in {2, 3} /\ m # "task.success"
    BY <1>6 DEF MinimumSamples, ActionMetrics
  <2>2. Describable(m, e) <=> f.acted >= MinimumSamples(m)
    BY <1>1, <1>6 DEF Describable, ActionMetrics
  <2>3. MissingEvidence(m, t) <=> t.actions = <<>>
    BY <1>6 DEF MissingEvidence, NeedsActions, NeedsPredictions, ActionMetrics, RequiredSignals
  <2>4. MetricValue(m, t, x) = DescribedResult
    BY <1>6 DEF MetricValue, ActionMetrics
  <2>5. Insufficient(m, t) <=> Len(t.actions) < MinimumSamples(m)
    BY DEF Insufficient
  <2>6. r = IF t.actions = <<>> THEN Result("unavailable")
            ELSE IF Len(t.actions) < MinimumSamples(m) THEN Result("insufficient_data")
            ELSE DescribedResult
    BY <2>3, <2>4, <2>5 DEF Evaluate
  <2>7. CASE t.actions = <<>>
    <3>1. r = Result("unavailable") /\ ~(f.acted >= MinimumSamples(m))
      BY <1>1, <1>2, <2>1, <2>6, <2>7
    <3>2. r.status = "unavailable" /\ r.described = FALSE /\ ~r.described
      BY <1>3, <3>1
    <3> QED BY <2>1, <2>2, <3>1, <3>2 DEF Statuses
  <2>8. CASE t.actions # <<>> /\ Len(t.actions) < MinimumSamples(m)
    <3>1. r = Result("insufficient_data") /\ ~(f.acted >= MinimumSamples(m))
      BY <1>1, <1>2, <2>1, <2>6, <2>8
    <3>2. r.status = "insufficient_data" /\ r.described = FALSE /\ ~r.described
      BY <1>3, <3>1
    <3> QED BY <2>1, <2>2, <3>1, <3>2 DEF Statuses
  <2>9. CASE t.actions # <<>> /\ ~(Len(t.actions) < MinimumSamples(m))
    <3>1. r = DescribedResult /\ f.acted >= MinimumSamples(m)
      BY <1>1, <1>2, <2>1, <2>6, <2>9
    <3>2. r.status = "available" /\ r.described
      BY <1>4, <3>1
    <3> QED BY <2>1, <2>2, <3>1, <3>2, <1>4 DEF Statuses
  <2> QED BY <2>7, <2>8, <2>9
<1>7. CASE m = "failure.repeated_no_op_rate"
  <2>1. Describable(m, e) <=> f.acted > 0 /\ metricPlan.eligible
    BY <1>1, <1>7 DEF Describable, ActionMetrics
  <2>2. MissingEvidence(m, t) <=> t.actions = <<>>
    BY <1>7 DEF MissingEvidence, NeedsActions, NeedsPredictions, ActionMetrics, RequiredSignals
  <2>3. MetricValue(m, t, x) = NoOpResult
    BY <1>7 DEF MetricValue, ActionMetrics
  <2>4. ~Insufficient(m, t)
    BY <1>2, <1>7 DEF Insufficient, MinimumSamples, ActionMetrics
  <2>5. r = IF t.actions = <<>> THEN Result("unavailable")
            ELSE IF metricPlan.eligible THEN DescribedResult ELSE Result("not_applicable")
    BY <2>2, <2>3, <2>4 DEF Evaluate, NoOpResult
  <2>6. metricPlan.eligible \in BOOLEAN
    BY MetricsAssumption DEF MetricsTypeOK
  <2>7. CASE t.actions = <<>>
    <3>1. r = Result("unavailable") /\ ~(f.acted > 0)
      BY <1>1, <1>2, <2>5, <2>7
    <3>2. r.status = "unavailable" /\ r.described = FALSE /\ ~r.described
      BY <1>3, <3>1
    <3> QED BY <1>7, <2>1, <3>1, <3>2 DEF Statuses
  <2>8. CASE t.actions # <<>> /\ ~metricPlan.eligible
    <3>1. r = Result("not_applicable")
      BY <2>5, <2>8
    <3>2. r.status = "not_applicable" /\ r.described = FALSE /\ ~r.described
      BY <1>3, <3>1
    <3> QED BY <1>7, <2>1, <2>8, <3>1, <3>2 DEF Statuses
  <2>9. CASE t.actions # <<>> /\ metricPlan.eligible
    <3>1. r = DescribedResult /\ f.acted > 0
      BY <1>1, <1>2, <2>5, <2>9
    <3>2. r.status = "available" /\ r.described
      BY <1>4, <3>1
    <3> QED BY <1>4, <1>7, <2>1, <2>9, <3>1, <3>2 DEF Statuses
  <2> QED BY <2>7, <2>8, <2>9
<1>8. CASE m = "failure.gripper_flicker_rate"
  <2>1. Describable(m, e) <=> f.acted > 0 /\ f.grips > 1 /\ metricPlan.convention \notin {"none", "no_gripper"}
    BY <1>1, <1>8 DEF Describable, ActionMetrics
  <2>2. MissingEvidence(m, t) <=> t.actions = <<>>
    BY <1>8 DEF MissingEvidence, NeedsActions, NeedsPredictions, ActionMetrics, RequiredSignals
  <2>3. MetricValue(m, t, x) = FlickerResult(t)
    BY <1>8 DEF MetricValue, ActionMetrics
  <2>4. ~Insufficient(m, t)
    BY <1>2, <1>8 DEF Insufficient, MinimumSamples, ActionMetrics
  <2>5. /\ FlickerResult(t).status \in {"not_applicable", "unavailable", "available"}
        /\ FlickerResult(t).described <=>
             metricPlan.convention \notin {"none", "no_gripper"} /\ f.grips > 1
        /\ FlickerResult(t).described \in BOOLEAN
    <3>1. FlickerResult(t) =
            CASE metricPlan.convention = "no_gripper" -> Result("not_applicable")
              [] metricPlan.convention = "none" -> Result("unavailable")
              [] OTHER -> [Result("available") EXCEPT !.described = f.grips > 1]
      BY <1>1 DEF FlickerResult
    <3>2. \A b \in BOOLEAN :
            LET told == [Result("available") EXCEPT !.described = b]
            IN told.status = "available" /\ (told.described <=> b) /\ told.described \in BOOLEAN
      BY DEF Result
    <3>6. (f.grips > 1) \in BOOLEAN
      OBVIOUS
    <3>3. CASE metricPlan.convention = "no_gripper"
      BY <1>3, <3>1, <3>3
    <3>4. CASE metricPlan.convention = "none"
      BY <1>3, <3>1, <3>4
    <3>5. CASE metricPlan.convention \notin {"none", "no_gripper"}
      <4>2. FlickerResult(t) = [Result("available") EXCEPT !.described = f.grips > 1]
        BY <3>1, <3>5
      <4>3. /\ FlickerResult(t).status = "available"
            /\ FlickerResult(t).described <=> f.grips > 1
            /\ FlickerResult(t).described \in BOOLEAN
        BY <3>2, <3>6, <4>2
      <4> QED BY <3>5, <4>3
    <3> QED BY <3>3, <3>4, <3>5
  <2>6. r = IF t.actions = <<>> THEN Result("unavailable") ELSE FlickerResult(t)
    BY <2>2, <2>3, <2>4 DEF Evaluate
  <2>7. CASE t.actions = <<>>
    <3>1. r = Result("unavailable") /\ ~(f.acted > 0)
      BY <1>1, <1>2, <2>6, <2>7
    <3>2. r.status = "unavailable" /\ r.described = FALSE /\ ~r.described
      BY <1>3, <3>1
    <3> QED BY <1>8, <2>1, <3>1, <3>2 DEF Statuses
  <2>8. CASE t.actions # <<>>
    <3>1. f.acted > 0
      BY <1>1, <1>2, <2>8
    <3>2. r = FlickerResult(t)
      BY <2>6, <2>8
    <3> QED BY <1>8, <2>1, <2>5, <3>1, <3>2 DEF Statuses
  <2> QED BY <2>7, <2>8
<1>9. CASE m \notin ActionMetrics /\ m \notin {"task.success", "failure.repeated_no_op_rate",
                                               "failure.gripper_flicker_rate"}
  <2>1. ~Describable(m, e)
    BY <1>9 DEF Describable
  <2>2. MetricValue(m, t, x) = FrequencyResult(t) \/ MetricValue(m, t, x) = Result("available")
    BY <1>9 DEF MetricValue
  <2>3. /\ MetricValue(m, t, x).status \in {"available", "unavailable"}
        /\ MetricValue(m, t, x).described = FALSE
    BY <1>3, <2>2 DEF FrequencyResult
  <2> QED BY <1>3, <1>9, <2>1, <2>3 DEF Evaluate, Statuses
<1> QED BY <1>5, <1>6, <1>7, <1>8, <1>9

\* Every episode of a task, by what its trace and its end were.
LEMMA EvaluatedAre == MetricsTypeOK => EvaluatedMetrics \subseteq MetricIds \ {"task.success_rate"}
<1> SUFFICES ASSUME MetricsTypeOK PROVE EvaluatedMetrics \subseteq MetricIds \ {"task.success_rate"}
  OBVIOUS
<1>1. metricPlan.enabled \subseteq MetricIds
  BY MetricsAssumption DEF MetricsTypeOK
<1> QED BY <1>1 DEF EvaluatedMetrics, MetricIds

LEMMA EpisodeResultIs ==
  ASSUME MetricsInv, NEW i \in DOMAIN evaluated, NEW m \in EvaluatedMetrics
  PROVE  LET e == evaluated[i]
             r == e.results[m]
         IN /\ r.status \in Statuses
            /\ r.status = "error" <=> m = "task.success" /\ Contradicts(e)
            /\ r.described <=> Describable(m, e)
            /\ m = "task.success" /\ e.trace.shown /\ ~Contradicts(e) =>
                 /\ r.status = "available" /\ r.terminal = e.terminal
                 /\ r.value = IF e.terminal = "success" THEN 1 ELSE 0
            /\ m = "task.success" /\ ~e.trace.shown => r.status = "unavailable"
            /\ r.described \in BOOLEAN
<1>1. PICK t \in Traces, x \in Terminals : evaluated[i] = RecordOf(t, x) /\ EndsAs(t, x)
  BY DEF MetricsInv, MetricsTypeOK, EpisodeFits
<1>2. /\ RecordOf(t, x).terminal = x
      /\ RecordOf(t, x).results[m] = Evaluate(m, t, x)
  BY DEF RecordOf, EpisodeResults
<1>3. MetricsTypeOK /\ m \in MetricIds \ {"task.success_rate"}
  BY EvaluatedAre DEF MetricsInv
<1> QED BY <1>1, <1>2, <1>3, EvaluationIs

\* The results the aggregation of one metric is given.
LEMMA ResultsAre ==
  ASSUME MetricsInv, NEW m \in metricPlan.enabled
  PROVE  LET k == IF m = "task.success_rate" THEN "task.success" ELSE m
         IN /\ k \in EvaluatedMetrics
            /\ ResultsOf(m) = [i \in DOMAIN evaluated |-> evaluated[i].results[k]]
            /\ Len(evaluated) \in Nat /\ DOMAIN evaluated = 1..Len(evaluated)
            /\ DOMAIN ResultsOf(m) = 1..Len(evaluated) /\ Len(ResultsOf(m)) = Len(evaluated)
<1>1. Len(evaluated) \in Nat /\ DOMAIN evaluated = 1..Len(evaluated)
  BY DEF MetricsInv, MetricsTypeOK
<1>2. (IF m = "task.success_rate" THEN "task.success" ELSE m) \in EvaluatedMetrics
  BY DEF EvaluatedMetrics
<1>3. ResultsOf(m) =
        [i \in DOMAIN evaluated |->
           evaluated[i].results[IF m = "task.success_rate" THEN "task.success" ELSE m]]
  BY DEF ResultsOf
<1>4. DOMAIN ResultsOf(m) = 1..Len(evaluated)
  BY <1>1, <1>3
<1>5. Len(ResultsOf(m)) = Len(evaluated)
  BY <1>1, <1>4
<1> QED BY <1>1, <1>2, <1>3, <1>4, <1>5

-----------------------------------------------------------------------------
\* Denominators.
LEMMA PartOfIndexes ==
  ASSUME NEW n \in Nat, NEW S, S \subseteq 1..n
  PROVE  /\ IsFiniteSet(S) /\ Cardinality(S) \in Nat
         /\ Cardinality(S) = 0 <=> S = {}
         /\ Cardinality(S) = n <=> S = 1..n
<1>1. IsFiniteSet(1..n) /\ Cardinality(1..n) = n
  BY FS_Interval
<1>2. IsFiniteSet(S)
  BY <1>1, FS_Subset
<1>3. Cardinality(S) \in Nat /\ (Cardinality(S) = 0 <=> S = {})
  BY <1>2, FS_CardinalityType, FS_EmptySet
<1> PICK N : N = 1..n
  OBVIOUS
<1>4. Cardinality(N) = Cardinality(S) => N = S
  BY <1>1, FS_Subset
<1>5. Cardinality(N) = n
  BY <1>1
<1> QED BY <1>2, <1>3, <1>4, <1>5

LEMMA DisjointAdds ==
  ASSUME NEW S, IsFiniteSet(S), NEW T, IsFiniteSet(T), S \cap T = {}, NEW W, W = S \cup T
  PROVE  IsFiniteSet(W) /\ Cardinality(W) = Cardinality(S) + Cardinality(T)
<1>1. PICK c : c = Cardinality(S)
  OBVIOUS
<1>2. PICK d : d = Cardinality(T)
  OBVIOUS
<1>3. c \in Nat /\ d \in Nat
  BY <1>1, <1>2, FS_CardinalityType
<1>4. PICK I : I = S \cap T
  OBVIOUS
<1>5. Cardinality(I) = 0
  BY <1>4, FS_EmptySet
<1>6. IsFiniteSet(W) /\ Cardinality(W) = c + d - Cardinality(I)
  BY <1>1, <1>2, <1>4, FS_Union
<1> QED BY <1>1, <1>2, <1>3, <1>5, <1>6

LEMMA PartsAddUp ==
  ASSUME NEW n \in Nat, NEW A, NEW B, NEW C,
         A \cup B \cup C = 1..n, A \cap B = {}, A \cap C = {}, B \cap C = {}
  PROVE  Cardinality(A) + Cardinality(B) + Cardinality(C) = n
<1>1. A \subseteq 1..n /\ B \subseteq 1..n /\ C \subseteq 1..n
  OBVIOUS
<1>2. /\ IsFiniteSet(A) /\ Cardinality(A) \in Nat
      /\ IsFiniteSet(B) /\ Cardinality(B) \in Nat
      /\ IsFiniteSet(C) /\ Cardinality(C) \in Nat
  BY <1>1, PartOfIndexes
<1>3. PICK D : D = A \cup B
  OBVIOUS
<1>4. IsFiniteSet(D) /\ Cardinality(D) = Cardinality(A) + Cardinality(B)
  BY <1>2, <1>3, DisjointAdds
<1>5. PICK N : N = 1..n
  OBVIOUS
<1>6. D \cap C = {} /\ N = D \cup C
  BY <1>3, <1>5
<1>7. Cardinality(N) = Cardinality(D) + Cardinality(C)
  BY <1>2, <1>4, <1>6, DisjointAdds
<1>8. Cardinality(N) = n
  BY <1>5, FS_Interval
<1> QED BY <1>4, <1>7, <1>8

LEMMA AllCounted ==
  ASSUME NEW n \in Nat, NEW rs, DOMAIN rs = 1..n,
         \A i \in 1..n : rs[i].status \in Statuses \ {"error"}
  PROVE  Aggregate(rs).valid + Aggregate(rs).unavailable + Aggregate(rs).excluded = n
<1>1. PICK A : A = {i \in 1..n : rs[i].status \in {"available"}}
  OBVIOUS
<1>2. PICK B : B = {i \in 1..n : rs[i].status \in {"unavailable", "insufficient_data"}}
  OBVIOUS
<1>3. PICK C : C = {i \in 1..n : rs[i].status \in {"not_applicable"}}
  OBVIOUS
<1>4. A \cup B \cup C = 1..n
  BY <1>1, <1>2, <1>3 DEF Statuses
<1>5. A \cap B = {} /\ A \cap C = {} /\ B \cap C = {}
  BY <1>1, <1>2, <1>3
<1>6. Cardinality(A) + Cardinality(B) + Cardinality(C) = n
  BY <1>4, <1>5, PartsAddUp
<1>7. /\ Aggregate(rs).valid = Cardinality(A) /\ Aggregate(rs).unavailable = Cardinality(B)
      /\ Aggregate(rs).excluded = Cardinality(C)
  BY <1>1, <1>2, <1>3 DEF Aggregate, Counted
<1> QED BY <1>6, <1>7

LEMMA AllRated ==
  ASSUME NEW n \in Nat, NEW rs, DOMAIN rs = 1..n, Len(rs) = n
  PROVE  SuccessRate(rs).valid + SuccessRate(rs).unavailable + SuccessRate(rs).excluded = n
<1>1. PICK K : K = Kept(rs)
  OBVIOUS
<1>2. PICK E : E = Eligible(rs)
  OBVIOUS
<1>3. PICK U : U = K \ E
  OBVIOUS
<1>4. E \subseteq K /\ K \subseteq 1..n /\ U \subseteq 1..n /\ E \subseteq 1..n
  BY <1>1, <1>2, <1>3 DEF Kept, Eligible
<1>5. /\ IsFiniteSet(E) /\ Cardinality(E) \in Nat
      /\ IsFiniteSet(U) /\ Cardinality(U) \in Nat
      /\ IsFiniteSet(K) /\ Cardinality(K) \in Nat
  BY <1>4, PartOfIndexes
<1>6. E \cap U = {} /\ K = E \cup U
  BY <1>3, <1>4
<1>7. Cardinality(K) = Cardinality(E) + Cardinality(U)
  BY <1>5, <1>6, DisjointAdds
<1>8. /\ SuccessRate(rs).valid = Cardinality(E) /\ SuccessRate(rs).unavailable = Cardinality(U)
      /\ SuccessRate(rs).excluded = n - Cardinality(K)
  BY <1>1, <1>2, <1>3, SuccessRateIs
<1> QED BY <1>5, <1>6, <1>7, <1>8

\* A sum of zeroes and ones counts the ones.
LEMMA SumOfMarks ==
  ASSUME NEW T, IsFiniteSet(T), NEW g, \A i \in T : g[i] \in {0, 1}
  PROVE  SumOf(g, T) = Cardinality({i \in T : g[i] = 1})
<1> DEFINE Ones(s) == {i \in s : g[i] = 1}
           Wrong == {s \in SUBSET T : SumOf(g, s) # Cardinality(Ones(s))}
<1> SUFFICES ASSUME Wrong # {} PROVE FALSE
  OBVIOUS
<1>1. Wrong \subseteq SUBSET T
  OBVIOUS
<1> HIDE DEF Wrong
<1>2. PICK s \in Wrong : \A q \in Wrong : q \subseteq s => q = s
  BY <1>1, LeastSubset
<1>3. s \subseteq T /\ SumOf(g, s) # Cardinality(Ones(s)) /\ IsFiniteSet(s)
  BY <1>1, <1>2, FS_Subset DEF Wrong
<1>4. CASE s = {}
  <2>1. Ones(s) = {}
    BY <1>4
  <2> QED BY <1>3, <1>4, <2>1, SumOfAtAny, FS_EmptySet
<1>5. CASE s # {}
  <2>1. PICK x : x \in s
    BY <1>5
  <2>2. PICK q : q = s \ {x}
    OBVIOUS
  <2>3. q \subseteq s /\ q # s /\ q \subseteq T /\ IsFiniteSet(q) /\ x \in T
    BY <1>3, <2>1, <2>2, FS_Subset
  <2>4. SumOf(g, q) = Cardinality(Ones(q))
    BY <1>2, <2>3 DEF Wrong
  <2>5. \A i \in s : g[i] \in Int
    BY <1>3
  <2>6. SumOf(g, s) = g[x] + SumOf(g, q)
    BY <1>3, <2>1, <2>2, <2>5, SumOfWithout
  <2>7. IsFiniteSet(Ones(q)) /\ Cardinality(Ones(q)) \in Nat
    BY <2>3, FS_Subset, FS_CardinalityType
  <2>8. CASE g[x] = 1
    <3>1. Ones(s) = Ones(q) \cup {x} /\ x \notin Ones(q)
      BY <2>1, <2>2, <2>8
    <3>2. Cardinality(Ones(s)) = Cardinality(Ones(q)) + 1
      BY <2>7, <3>1, FS_AddElement
    <3> QED BY <1>3, <2>4, <2>6, <2>7, <2>8, <3>2
  <2>9. CASE g[x] = 0
    <3>1. Ones(s) = Ones(q)
      BY <2>1, <2>2, <2>9
    <3>2. SumOf(g, s) = SumOf(g, q)
      BY <2>4, <2>6, <2>7, <2>9
    <3> QED BY <1>3, <2>4, <3>1, <3>2
  <2> QED BY <1>3, <2>1, <2>8, <2>9
<1> QED BY <1>4, <1>5

ValuesUp(h, rs, T) ==
  h = [s \in SUBSET T |-> IF s = {} THEN 0 ELSE rs[AnyOf(s)].value + h[s \ {AnyOf(s)}]]

LEMMA ValuesOfIsASum ==
  ASSUME NEW S, IsFiniteSet(S), NEW rs, NEW g, \A i \in S : g[i] = rs[i].value
  PROVE  ValuesOf(rs, S) = SumOf(g, S)
<1>1. PICK h : SumsUp(h, g, S) /\ SumOf(g, S) = h[S]
  BY SumOfSumsUp
<1>2. ASSUME NEW k PROVE ValuesUp(k, rs, S) <=> SumsUp(k, g, S)
  <2>1. \A s \in SUBSET S : s # {} => g[AnyOf(s)] = rs[AnyOf(s)].value
    BY AnyOfIsIn
  <2>2. [s \in SUBSET S |-> IF s = {} THEN 0 ELSE rs[AnyOf(s)].value + k[s \ {AnyOf(s)}]] =
        [s \in SUBSET S |-> IF s = {} THEN 0 ELSE g[AnyOf(s)] + k[s \ {AnyOf(s)}]]
    BY <2>1
  <2> QED BY <2>2 DEF ValuesUp, SumsUp
<1> DEFINE it == CHOOSE k : ValuesUp(k, rs, S)
<1>3. ValuesUp(it, rs, S)
  BY <1>1, <1>2
<1>4. ValuesOf(rs, S) = it[S]
  BY DEF ValuesOf, MapThenSumSet, MapThenFoldSet, ValuesUp, AnyOf
<1> HIDE DEF it
<1>5. SumsUp(it, g, S)
  BY <1>2, <1>3
<1>6. it[S] = h[S]
  BY <1>1, <1>5, SumsAgree
<1> QED BY <1>1, <1>4, <1>6

-----------------------------------------------------------------------------
\* What a task reports.
LEMMA TroubleIsAnError ==
  ASSUME MetricsInv, NEW m \in metricPlan.enabled
  PROVE  LET rs == ResultsOf(m)
             success == m \in {"task.success", "task.success_rate"}
         IN (\E i \in DOMAIN rs : rs[i].status = "error") <=> success /\ Holding(Contradicts) > 0
<1> DEFINE k == IF m = "task.success_rate" THEN "task.success" ELSE m
           n == Len(evaluated)
<1>1. /\ k \in EvaluatedMetrics /\ n \in Nat /\ DOMAIN evaluated = 1..n
      /\ ResultsOf(m) = [i \in DOMAIN evaluated |-> evaluated[i].results[k]]
  BY ResultsAre
<1>2. PICK C : C = {i \in DOMAIN evaluated : Contradicts(evaluated[i])}
  OBVIOUS
<1>3. C \subseteq 1..n
  BY <1>1, <1>2
<1>4. Cardinality(C) \in Nat /\ (Cardinality(C) = 0 <=> C = {})
  BY <1>1, <1>3, PartOfIndexes
<1>5. Holding(Contradicts) = Cardinality(C)
  BY <1>2 DEF Holding
<1>6. Holding(Contradicts) > 0 <=> \E i \in DOMAIN evaluated : Contradicts(evaluated[i])
  BY <1>2, <1>4, <1>5
<1>7. \A i \in DOMAIN evaluated :
        ResultsOf(m)[i].status = "error" <=> k = "task.success" /\ Contradicts(evaluated[i])
  BY <1>1, EpisodeResultIs
<1>8. DOMAIN ResultsOf(m) = DOMAIN evaluated
  BY <1>1
<1> HIDE DEF n
<1> QED BY <1>6, <1>7, <1>8

LEMMA DropsAre ==
  ASSUME MetricsInv, NEW m \in metricPlan.enabled, m # "task.success_rate"
  PROVE  Drops(m) <=> Incomparable(m)
<1> DEFINE n == Len(evaluated)
<1>1. /\ m \in EvaluatedMetrics /\ n \in Nat /\ DOMAIN evaluated = 1..n
      /\ ResultsOf(m) = [i \in DOMAIN evaluated |-> evaluated[i].results[m]]
  BY ResultsAre
<1> HIDE DEF n
<1>2. PICK rs : rs = ResultsOf(m)
  OBVIOUS
<1>3. DOMAIN rs = 1..n
  BY <1>1, <1>2
<1>4. \A i \in 1..n : /\ rs[i].described <=> Describable(m, evaluated[i])
                      /\ rs[i].described \in BOOLEAN
  BY <1>1, <1>2, EpisodeResultIs
<1>5. PICK D : D = {i \in DOMAIN evaluated : Describable(m, evaluated[i])}
  OBVIOUS
<1>6. D \subseteq 1..n /\ \A i \in 1..n : i \in D <=> rs[i].described
  BY <1>1, <1>4, <1>5
<1>7. /\ Cardinality(D) = 0 <=> D = {}
      /\ Cardinality(D) = n <=> D = 1..n
  BY <1>1, <1>6, PartOfIndexes
<1>8. (\E i \in 1..n : rs[i].described # rs[1].described) <=> D # {} /\ D # 1..n
  <2>1. CASE n = 0
    <3>1. 1..n = {}
      BY <2>1
    <3> QED BY <1>6, <3>1
  <2>2. CASE n # 0
    <3>1. 1 \in 1..n
      BY <1>1, <2>2
    <3>2. \A i \in 1..n : rs[i].described # rs[1].described <=> ~(i \in D <=> 1 \in D)
      BY <1>4, <1>6, <3>1
    <3> QED BY <1>6, <3>1, <3>2
  <2> QED BY <2>1, <2>2
<1>9. Holding(LAMBDA e : Describable(m, e)) = Cardinality(D)
  BY <1>5 DEF Holding
<1>10. (\E i \in DOMAIN rs : rs[i].status = "error") <=>
         m = "task.success" /\ Holding(Contradicts) > 0
  BY <1>2, TroubleIsAnError
<1>11. Len(evaluated) = n
  BY DEF n
<1>12. Holding(LAMBDA e : Describable(m, e)) \notin {0, Len(evaluated)} <=> D # {} /\ D # 1..n
  BY <1>7, <1>9, <1>11
<1>13. Drops(m) <=> \/ \E i \in 1..n : rs[i].described # rs[1].described
                    \/ \E i \in DOMAIN rs : rs[i].status = "error"
  BY <1>2, <1>3 DEF Drops, AggregationRaises
<1> QED BY <1>8, <1>10, <1>12, <1>13 DEF Incomparable

LEMMA RateRaises ==
  ASSUME MetricsInv, "task.success_rate" \in metricPlan.enabled
  PROVE  SuccessRateRaises(ResultsOf("task.success_rate")) <=> Holding(Contradicts) > 0
<1> PICK rs : rs = ResultsOf("task.success_rate")
  OBVIOUS
<1>1. PICK n \in Nat : DOMAIN rs = 1..n
  BY ResultsAre
<1>2. PICK E : E = {i \in DOMAIN rs : rs[i].status \in {"error"}}
  OBVIOUS
<1>3. E \subseteq 1..n
  BY <1>1, <1>2
<1>4. Cardinality(E) \in Nat /\ (Cardinality(E) = 0 <=> E = {})
  BY <1>3, PartOfIndexes
<1>5. SuccessRateRaises(rs) <=> Cardinality(E) > 0
  BY <1>2 DEF SuccessRateRaises, Counted
<1>6. (\E i \in DOMAIN rs : rs[i].status = "error") <=> Holding(Contradicts) > 0
  BY TroubleIsAnError
<1> QED BY <1>2, <1>4, <1>5, <1>6

-----------------------------------------------------------------------------
(* Repeated no-ops: the scan over the flags counts the steps of the long     *)
(* enough stretches, for flags of any length.                                *)
LEMMA LeastNumber ==
  ASSUME NEW N \in Nat, NEW B, B \subseteq 0..N, B # {}
  PROVE  \E m \in B : \A k \in B : m <= k
<1>1. PICK S : S = 0..N
  OBVIOUS
<1>2. PICK Subs : Subs = {0..k : k \in B}
  OBVIOUS
<1>3. PICK s \in Subs : \A q \in Subs : q \subseteq s => q = s
  <2>1. IsFiniteSet(S)
    BY <1>1, FS_Interval
  <2>2. \A k \in B : 0..k \subseteq S
    BY <1>1
  <2>3. Subs \subseteq SUBSET S /\ Subs # {}
    BY <1>2, <2>2
  <2> QED BY <2>1, <2>3, LeastSubset
<1>4. PICK m \in B : s = 0..m
  BY <1>2
<1>5. ASSUME NEW k \in B, k < m PROVE FALSE
  <2>1. 0..k \in Subs
    BY <1>2
  <2>2. 0..k \subseteq s /\ m \in s /\ m \notin 0..k
    BY <1>4, <1>5
  <2> QED BY <1>3, <2>1, <2>2
<1> QED BY <1>5

Flag(flags, i) == i <= Len(flags) /\ flags[i]
Unscanned == [start |-> 0, steps |-> 0]
ScansUp(h, flags, n, T) ==
  h = [i \in 0..T |-> IF i = 0 THEN Unscanned ELSE Scan(h[i - 1], i, Flag(flags, i), n)]

LEMMA ScansExist ==
  ASSUME NEW N \in Nat, NEW flags, NEW n
  PROVE  \E h : ScansUp(h, flags, n, N)
<1> DEFINE Bad == {T \in 0..N : ~\E h : ScansUp(h, flags, n, T)}
<1> SUFFICES ASSUME Bad # {} PROVE FALSE
  OBVIOUS
<1>1. Bad \subseteq 0..N
  OBVIOUS
<1> HIDE DEF Bad
<1>2. PICK m \in Bad : \A k \in Bad : m <= k
  BY <1>1, LeastNumber
<1>3. m \in 0..N /\ ~\E h : ScansUp(h, flags, n, m)
  BY DEF Bad
<1>4. CASE m = 0
  <2> DEFINE g == [i \in 0..0 |-> Unscanned]
  <2>1. g = [i \in 0..0 |-> IF i = 0 THEN Unscanned ELSE Scan(g[i - 1], i, Flag(flags, i), n)]
    OBVIOUS
  <2>2. ScansUp(g, flags, n, m)
    BY <1>4, <2>1 DEF ScansUp
  <2> QED BY <1>3, <2>2
<1>5. CASE m # 0
  <2>1. PICK p \in 0..N : m = p + 1
    BY <1>3, <1>5
  <2>2. p \notin Bad
    BY <1>2, <2>1
  <2>3. PICK h : ScansUp(h, flags, n, p)
    BY <2>2 DEF Bad
  <2>4. \A i \in 0..p : h[i] = IF i = 0 THEN Unscanned ELSE Scan(h[i - 1], i, Flag(flags, i), n)
    BY <2>3 DEF ScansUp
  <2> DEFINE g == [i \in 0..m |-> IF i = 0 THEN Unscanned ELSE Scan(h[i - 1], i, Flag(flags, i), n)]
  <2>5. \A i \in 0..p : g[i] = h[i]
    BY <2>1, <2>4
  <2>6. \A i \in 0..m : i # 0 => i - 1 \in 0..p
    BY <2>1
  <2>7. g = [i \in 0..m |-> IF i = 0 THEN Unscanned ELSE Scan(g[i - 1], i, Flag(flags, i), n)]
    BY <2>5, <2>6
  <2>8. ScansUp(g, flags, n, m)
    BY <2>7 DEF ScansUp
  <2> QED BY <1>3, <2>8
<1> QED BY <1>4, <1>5

LEMMA RepeatedStepsScan ==
  ASSUME NEW flags, Len(flags) \in Nat, NEW n
  PROVE  \E h : /\ ScansUp(h, flags, n, Len(flags) + 1)
                /\ RepeatedSteps(flags, n) = h[Len(flags) + 1].steps
<1>1. \E h : ScansUp(h, flags, n, Len(flags) + 1)
  BY ScansExist
<1> DEFINE it == CHOOSE h : ScansUp(h, flags, n, Len(flags) + 1)
<1>2. ScansUp(it, flags, n, Len(flags) + 1)
  BY <1>1
<1>3. RepeatedSteps(flags, n) = it[Len(flags) + 1].steps
  BY DEF RepeatedSteps, ScansUp, Flag, Unscanned
<1> QED BY <1>2, <1>3

\* The steps of long stretches, and those of them up to one step.
InStretch(flags, n, i) ==
  \E first \in 1 .. i : \E final \in i .. Len(flags) :
    final - first + 1 >= n /\ \A k \in first .. final : flags[k]
LongUpTo(flags, n, j) == {i \in 1..j : i <= Len(flags) /\ InStretch(flags, n, i)}

\* After step i: the stretch being scanned, and what was counted before it.
Scanned(s, flags, n, i) ==
  /\ s.start \in 0..i /\ s.steps \in Nat
  /\ s.start # 0 =>
       /\ i <= Len(flags) /\ \A k \in s.start..i : flags[k]
       /\ s.start # 1 => ~flags[s.start - 1]
       /\ s.steps = Cardinality(LongUpTo(flags, n, s.start - 1))
  /\ s.start = 0 =>
       /\ i # 0 => ~Flag(flags, i)
       /\ s.steps = Cardinality(LongUpTo(flags, n, i))

LEMMA LongSteps ==
  ASSUME NEW flags, Len(flags) \in Nat, NEW n \in Nat, NEW j \in Nat
  PROVE  IsFiniteSet(LongUpTo(flags, n, j)) /\ Cardinality(LongUpTo(flags, n, j)) \in Nat
<1>1. LongUpTo(flags, n, j) \subseteq 1..j
  BY DEF LongUpTo
<1> QED BY <1>1, PartOfIndexes

LEMMA StretchEnds ==
  ASSUME NEW flags, Len(flags) \in Nat, NEW n \in Nat, NEW i \in Nat, NEW b \in 1..i,
         i <= Len(flags), \A k \in b..i : flags[k], b # 1 => ~flags[b - 1],
         ~Flag(flags, i + 1)
  PROVE  Cardinality(LongUpTo(flags, n, i + 1)) =
           Cardinality(LongUpTo(flags, n, b - 1)) + (IF i + 1 - b >= n THEN i + 1 - b ELSE 0)
<1>1. PICK L \in Nat : L = Len(flags)
  OBVIOUS
<1>2. ASSUME NEW k \in 1..(i + 1)
      PROVE  k \in LongUpTo(flags, n, i + 1) <=>
               \/ k \in LongUpTo(flags, n, b - 1)
               \/ k \in b..i /\ i + 1 - b >= n
  <2>1. CASE k < b
    BY <1>2, <2>1 DEF LongUpTo
  <2>2. CASE k = i + 1
    <3>1. ~(k <= L /\ InStretch(flags, n, k))
      <4> SUFFICES ASSUME k <= L, InStretch(flags, n, k) PROVE FALSE
        OBVIOUS
      <4>1. flags[k]
        BY <1>1 DEF InStretch
      <4> QED BY <1>1, <2>2, <4>1 DEF Flag
    <3> QED BY <1>1, <2>2, <3>1 DEF LongUpTo
  <2>3. CASE k \in b..i
    <3>1. k <= L
      BY <1>1, <2>3
    <3>2. k \notin LongUpTo(flags, n, b - 1)
      BY <2>3 DEF LongUpTo
    <3>3. ASSUME i + 1 - b >= n PROVE InStretch(flags, n, k)
      <4>1. b \in 1..k /\ i \in k..L /\ i - b + 1 >= n
        BY <1>1, <2>3, <3>3
      <4> QED BY <1>1, <4>1 DEF InStretch
    <3>4. ASSUME InStretch(flags, n, k) PROVE i + 1 - b >= n
      <4>1. PICK first \in 1..k, final \in k..L :
              final - first + 1 >= n /\ \A q \in first..final : flags[q]
        BY <1>1, <3>4 DEF InStretch
      <4>2. first >= b
        <5> SUFFICES ASSUME first < b PROVE FALSE
          OBVIOUS
        <5>1. b - 1 \in first..final /\ b # 1
          BY <1>1, <2>3, <4>1
        <5> QED BY <4>1, <5>1
      <4>3. final <= i
        <5> SUFFICES ASSUME i < final PROVE FALSE
          OBVIOUS
        <5>1. i + 1 \in first..final /\ i + 1 <= L
          BY <1>1, <2>3, <4>1
        <5> QED BY <1>1, <4>1, <5>1 DEF Flag
      <4> QED BY <1>1, <4>1, <4>2, <4>3
    <3> QED BY <1>1, <1>2, <2>3, <3>1, <3>2, <3>3, <3>4 DEF LongUpTo
  <2> QED BY <2>1, <2>2, <2>3
<1>3. PICK A : A = LongUpTo(flags, n, b - 1)
  OBVIOUS
<1>4. PICK W : W = LongUpTo(flags, n, i + 1)
  OBVIOUS
<1>5. A \subseteq 1..(b - 1) /\ W \subseteq 1..(i + 1) /\ A \subseteq 1..(i + 1)
  BY <1>3, <1>4 DEF LongUpTo
<1>6. IsFiniteSet(A) /\ Cardinality(A) \in Nat
  BY <1>3, LongSteps
<1>7. CASE i + 1 - b >= n
  <2>1. PICK B : B = b..i
    OBVIOUS
  <2>2. IsFiniteSet(B) /\ Cardinality(B) = i - b + 1
    BY <2>1, FS_Interval
  <2>3. A \cap B = {} /\ W = A \cup B
    BY <1>2, <1>3, <1>4, <1>5, <1>7, <2>1
  <2>4. Cardinality(W) = Cardinality(A) + Cardinality(B)
    BY <1>6, <2>2, <2>3, DisjointAdds
  <2> QED BY <1>3, <1>4, <1>6, <1>7, <2>2, <2>4
<1>8. CASE ~(i + 1 - b >= n)
  <2>1. W = A
    BY <1>2, <1>3, <1>4, <1>5, <1>8
  <2> QED BY <1>3, <1>4, <1>6, <1>8, <2>1
<1> QED BY <1>7, <1>8

LEMMA ScanBreaks ==
  ASSUME NEW s, NEW b \in Int, s.start = b, NEW c \in Int, s.steps = c, NEW n \in Int,
         NEW i \in Int, NEW flags, ~Flag(flags, i), NEW r, r = Scan(s, i, Flag(flags, i), n)
  PROVE  /\ r.start = 0
         /\ r.steps = c + (IF b # 0 /\ i - b >= n THEN i - b ELSE 0)
BY DEF Scan

LEMMA ScanKeeps ==
  ASSUME NEW flags, Len(flags) \in Nat, \A k \in 1..Len(flags) : flags[k] \in BOOLEAN,
         NEW n \in Nat, NEW i \in 0..Len(flags), NEW s, Scanned(s, flags, n, i)
  PROVE  Scanned(Scan(s, i + 1, Flag(flags, i + 1), n), flags, n, i + 1)
<1>1. PICK L \in Nat : L = Len(flags)
  OBVIOUS
<1>2. PICK b \in 0..i : b = s.start
  BY DEF Scanned
<1>3. PICK c \in Nat : c = s.steps
  BY DEF Scanned
<1>4. PICK r : r = Scan(s, i + 1, Flag(flags, i + 1), n)
  OBVIOUS
<1>5. CASE Flag(flags, i + 1)
  <2>1. r.start = (IF b = 0 THEN i + 1 ELSE b) /\ r.steps = c
    BY <1>2, <1>3, <1>4, <1>5 DEF Scan
  <2>2. i + 1 <= L /\ flags[i + 1]
    BY <1>1, <1>5 DEF Flag
  <2>3. CASE b = 0
    <3>1. (i # 0 => ~Flag(flags, i)) /\ c = Cardinality(LongUpTo(flags, n, i))
      BY <1>2, <1>3, <2>3 DEF Scanned
    <3>2. i # 0 => ~flags[i]
      BY <1>1, <2>2, <3>1 DEF Flag
    <3>3. r.start = i + 1 /\ r.steps = c
      BY <2>1, <2>3
    <3>4. \A k \in (i + 1)..(i + 1) : flags[k]
      BY <2>2
    <3>5. (i + 1) - 1 = i
      OBVIOUS
    <3> QED BY <1>1, <1>3, <1>4, <2>2, <3>1, <3>2, <3>3, <3>4, <3>5 DEF Scanned
  <2>4. CASE b # 0
    <3>1. /\ \A k \in b..i : flags[k]
          /\ b # 1 => ~flags[b - 1]
          /\ c = Cardinality(LongUpTo(flags, n, b - 1))
      BY <1>2, <1>3, <2>4 DEF Scanned
    <3>2. \A k \in b..(i + 1) : flags[k]
      BY <2>2, <3>1
    <3>3. r.start = b /\ r.steps = c /\ b \in 0..(i + 1)
      BY <2>1, <2>4
    <3> QED BY <1>1, <1>3, <1>4, <2>2, <2>4, <3>1, <3>2, <3>3 DEF Scanned
  <2> QED BY <2>3, <2>4
<1>6. CASE ~Flag(flags, i + 1)
  <2>1. r.start = 0 /\ r.steps = c + (IF b # 0 /\ i + 1 - b >= n THEN i + 1 - b ELSE 0)
    <3>1. b \in Int /\ c \in Int /\ n \in Int
      BY <1>2, <1>3
    <3>2. PICK k \in Int : k = i + 1
      OBVIOUS
    <3>3. ~Flag(flags, k) /\ r = Scan(s, k, Flag(flags, k), n)
      BY <1>4, <1>6, <3>2
    <3>4. r.start = 0 /\ r.steps = c + (IF b # 0 /\ k - b >= n THEN k - b ELSE 0)
      BY <1>2, <1>3, <3>1, <3>3, ScanBreaks
    <3> QED BY <3>2, <3>4
  <2>2. r.steps = Cardinality(LongUpTo(flags, n, i + 1))
    <3>1. CASE b = 0
      <4>1. c = Cardinality(LongUpTo(flags, n, i))
        BY <1>2, <1>3, <3>1 DEF Scanned
      <4>2. ~(i + 1 <= L /\ InStretch(flags, n, i + 1))
        <5> SUFFICES ASSUME i + 1 <= L, InStretch(flags, n, i + 1) PROVE FALSE
          OBVIOUS
        <5>1. flags[i + 1]
          BY <1>1 DEF InStretch
        <5> QED BY <1>1, <1>6, <5>1 DEF Flag
      <4>3. LongUpTo(flags, n, i + 1) = LongUpTo(flags, n, i)
        BY <1>1, <4>2 DEF LongUpTo
      <4> QED BY <1>3, <2>1, <3>1, <4>1, <4>3
    <3>2. CASE b # 0
      <4>1. /\ i <= L /\ \A k \in b..i : flags[k]
            /\ b # 1 => ~flags[b - 1]
            /\ c = Cardinality(LongUpTo(flags, n, b - 1))
        BY <1>1, <1>2, <1>3, <3>2 DEF Scanned
      <4>2. b \in 1..i
        BY <3>2
      <4>3. Cardinality(LongUpTo(flags, n, i + 1)) = c + (IF i + 1 - b >= n THEN i + 1 - b ELSE 0)
        BY <1>1, <1>6, <4>1, <4>2, StretchEnds
      <4> QED BY <2>1, <3>2, <4>3
    <3> QED BY <3>1, <3>2
  <2>3. r.steps \in Nat
    BY <2>2, LongSteps
  <2> QED BY <1>4, <1>6, <2>1, <2>2, <2>3 DEF Scanned
<1> QED BY <1>5, <1>6

LEMMA NoOpsAreCounted ==
  ASSUME NEW flags, Len(flags) \in Nat, DOMAIN flags = 1..Len(flags),
         \A k \in 1..Len(flags) : flags[k] \in BOOLEAN, NEW n \in Nat
  PROVE  RepeatedSteps(flags, n) = Cardinality({i \in DOMAIN flags : InStretch(flags, n, i)})
<1>1. PICK L \in Nat : L = Len(flags)
  OBVIOUS
<1>2. PICK h : /\ ScansUp(h, flags, n, Len(flags) + 1)
               /\ RepeatedSteps(flags, n) = h[Len(flags) + 1].steps
  BY RepeatedStepsScan
<1>3. \A i \in 0..(L + 1) : h[i] = IF i = 0 THEN Unscanned ELSE Scan(h[i - 1], i, Flag(flags, i), n)
  BY <1>1, <1>2 DEF ScansUp
<1> DEFINE Bad == {i \in 0..(L + 1) : ~Scanned(h[i], flags, n, i)}
<1>4. Bad = {}
  <2> SUFFICES ASSUME Bad # {} PROVE FALSE
    OBVIOUS
  <2>1. Bad \subseteq 0..(L + 1) /\ L + 1 \in Nat
    OBVIOUS
  <2> HIDE DEF Bad
  <2>2. PICK m \in Bad : \A k \in Bad : m <= k
    BY <2>1, LeastNumber
  <2>3. m \in 0..(L + 1) /\ ~Scanned(h[m], flags, n, m)
    BY DEF Bad
  <2>4. CASE m = 0
    <3>1. h[m].start = 0 /\ h[m].steps = 0
      <4>1. h[0] = Unscanned
        BY <1>3, <2>3, <2>4
      <4> QED BY <2>4, <4>1 DEF Unscanned
    <3>2. LongUpTo(flags, n, m) = {}
      BY <2>4 DEF LongUpTo
    <3>3. Cardinality(LongUpTo(flags, n, m)) = 0
      BY <3>2, FS_EmptySet
    <3> QED BY <2>3, <2>4, <3>1, <3>3 DEF Scanned
  <2>5. CASE m # 0
    <3>1. PICK p \in 0..L : m = p + 1
      BY <2>3, <2>5
    <3>2. p \in 0..(L + 1) /\ p \notin Bad
      BY <2>2, <3>1
    <3>3. Scanned(h[p], flags, n, p)
      BY <3>2 DEF Bad
    <3>4. h[m] = Scan(h[p], p + 1, Flag(flags, p + 1), n)
      BY <1>3, <2>3, <2>5, <3>1
    <3>5. Scanned(h[m], flags, n, m)
      BY <1>1, <3>1, <3>3, <3>4, ScanKeeps
    <3> QED BY <2>3, <3>5
  <2> QED BY <2>4, <2>5
<1>5. Scanned(h[L + 1], flags, n, L + 1)
  BY <1>4
<1>6. h[L + 1].start = 0
  BY <1>1, <1>5 DEF Scanned
<1>7. h[L + 1].steps = Cardinality(LongUpTo(flags, n, L + 1))
  BY <1>5, <1>6 DEF Scanned
<1>8. LongUpTo(flags, n, L + 1) = {i \in DOMAIN flags : InStretch(flags, n, i)}
  BY <1>1 DEF LongUpTo
<1> QED BY <1>1, <1>2, <1>7, <1>8

LEMMA NoOpsHold == MetricsTypeOK => NoOpsAreStretches
<1> SUFFICES ASSUME MetricsTypeOK PROVE NoOpsAreStretches
  OBVIOUS
<1>1. PICK flags : flags = Stills(trace)
  OBVIOUS
<1>2. /\ trace.actions \in Seq(ActionKinds)
      /\ \A a \in ActionKinds : a.still \in BOOLEAN
  BY MetricsAssumption DEF MetricsTypeOK, Traces
<1>3. Len(trace.actions) \in Nat /\ DOMAIN trace.actions = 1..Len(trace.actions)
  BY <1>2
<1>4. Len(flags) \in Nat /\ DOMAIN flags = 1..Len(flags)
  BY <1>1, <1>3 DEF Stills
<1>5. \A k \in 1..Len(flags) : flags[k] \in BOOLEAN
  BY <1>1, <1>2, <1>3, <1>4 DEF Stills
<1>6. metricPlan.minimumRun \in Nat
  BY MetricsAssumption DEF MetricsTypeOK
<1>7. RepeatedSteps(flags, metricPlan.minimumRun) =
        Cardinality({i \in DOMAIN flags : InStretch(flags, metricPlan.minimumRun, i)})
  BY <1>4, <1>5, <1>6, NoOpsAreCounted
<1> QED BY <1>1, <1>7 DEF NoOpsAreStretches, InStretch

-----------------------------------------------------------------------------
(* Flicker.                                                                  *)
Flip(s) == IF s = "open" THEN "closed" ELSE IF s = "closed" THEN "open" ELSE s
Conventions == GripperConventions \ {"no_gripper", "none"}

LEMMA FlipIs ==
  \A s, t \in {"open", "closed", "unknown"} :
    (Flip(s) = "unknown" <=> s = "unknown") /\ (Flip(s) = Flip(t) <=> s = t)
BY DEF Flip

LEMMA StateIs ==
  ASSUME NEW v, NEW c PROVE GripperState(v, c) \in {"open", "closed", "unknown"}
BY DEF GripperState

\* Where every state is the other one, the flickers are the same steps.
LEMMA SameFlickers ==
  ASSUME NEW v, NEW w, NEW c, NEW d, DOMAIN v = DOMAIN w,
         \A i \in DOMAIN v : GripperState(w[i], d) = Flip(GripperState(v[i], c))
  PROVE  Flickers(v, c) = Flickers(w, d)
<1>1. \A i \in DOMAIN v : GripperState(w[i], d) = "unknown" <=> GripperState(v[i], c) = "unknown"
  BY FlipIs, StateIs
<1>2. \A i, j \in DOMAIN v : Changes(v, c, i, j) <=> Changes(w, d, i, j)
  BY FlipIs, StateIs DEF Changes
<1>3. PICK K : K = KnownSteps(v, c)
  OBVIOUS
<1>4. KnownSteps(w, d) = K /\ K \subseteq DOMAIN v
  BY <1>1, <1>3 DEF KnownSteps
<1>5. PICK M : M = Transitions(v, c)
  OBVIOUS
<1>6. Transitions(w, d) = M /\ M \subseteq DOMAIN v
  BY <1>2, <1>3, <1>4, <1>5 DEF Transitions
<1>7. FlickerSteps(v, c) = FlickerSteps(w, d)
  BY <1>2, <1>5, <1>6 DEF FlickerSteps
<1> QED BY <1>7 DEF Flickers

LEMMA OppositeFlips ==
  ASSUME NEW c \in Conventions, NEW v
  PROVE  GripperState(v, Opposite(c)) = Flip(GripperState(v, c))
<1>1. /\ Opposite(c) \in Conventions
      /\ PositiveClosed(Opposite(c)) <=> ~PositiveClosed(c)
      /\ Binary(Opposite(c)) <=> Binary(c)
  BY DEF Opposite, PositiveClosed, Binary, Conventions, GripperConventions
<1> QED BY <1>1 DEF GripperState, Flip

LEMMA MirrorFlips ==
  ASSUME MetricsTypeOK, KeepsApart, metricPlan.convention \in Conventions, NEW v \in Int
  PROVE  GripperState((IF Binary(metricPlan.convention) THEN 2 * metricPlan.threshold ELSE 0) - v,
                      metricPlan.convention)
           = Flip(GripperState(v, metricPlan.convention))
<1>1. PICK t \in Nat : t = metricPlan.threshold
  BY MetricsAssumption DEF MetricsTypeOK
<1>2. PICK d \in Nat : d = metricPlan.deadband
  BY MetricsAssumption DEF MetricsTypeOK
<1>3. PICK c : c = metricPlan.convention
  OBVIOUS
<1>4. CASE Binary(c)
  <2>1. d > 0
    BY <1>2, <1>3, <1>4 DEF KeepsApart
  <2>2. /\ 2 * t - v >= t + d <=> v <= t - d
        /\ 2 * t - v <= t - d <=> v >= t + d
        /\ ~(v >= t + d /\ v <= t - d)
    BY <2>1
  <2>3. \A x : GripperState(x, c) =
          IF x >= t + d THEN (IF PositiveClosed(c) THEN "closed" ELSE "open")
          ELSE IF x <= t - d THEN (IF PositiveClosed(c) THEN "open" ELSE "closed")
          ELSE "unknown"
    BY <1>1, <1>2, <1>4 DEF GripperState
  <2>4. GripperState(2 * t - v, c) = Flip(GripperState(v, c))
    BY <2>2, <2>3 DEF Flip
  <2> QED BY <1>1, <1>3, <1>4, <2>4
<1>5. CASE ~Binary(c)
  <2>1. t > 0
    BY <1>1, <1>3, <1>5 DEF KeepsApart
  <2>2. /\ 0 - v >= t <=> v <= 0 - t
        /\ 0 - v <= 0 - t <=> v >= t
        /\ ~(v >= t /\ v <= 0 - t)
    BY <2>1
  <2>3. \A x : GripperState(x, c) =
          IF x >= t THEN (IF PositiveClosed(c) THEN "closed" ELSE "open")
          ELSE IF x <= 0 - t THEN (IF PositiveClosed(c) THEN "open" ELSE "closed")
          ELSE "unknown"
    BY <1>1, <1>5 DEF GripperState
  <2>4. GripperState(0 - v, c) = Flip(GripperState(v, c))
    BY <2>2, <2>3 DEF Flip
  <2> QED BY <1>3, <1>5, <2>4
<1> QED BY <1>4, <1>5

\* The first known step is no flicker.
LEMMA FlickersAreFew ==
  ASSUME NEW n \in Nat, NEW v, DOMAIN v = 1..n, NEW c
  PROVE  Flickers(v, c) <= IF Cardinality(KnownSteps(v, c)) = 0 THEN 0
                           ELSE Cardinality(KnownSteps(v, c)) - 1
<1>1. PICK K : K = KnownSteps(v, c)
  OBVIOUS
<1>2. PICK F : F = FlickerSteps(v, c)
  OBVIOUS
<1>3. F \subseteq K /\ \A j \in F : \E i \in K : i < j
  BY <1>1, <1>2 DEF FlickerSteps, Transitions, Successive
<1>4. K \subseteq 1..n
  BY <1>1 DEF KnownSteps
<1>5. IsFiniteSet(K) /\ Cardinality(K) \in Nat /\ (Cardinality(K) = 0 <=> K = {})
  BY <1>4, PartOfIndexes
<1>6. Flickers(v, c) = Cardinality(F)
  BY <1>2 DEF Flickers
<1>7. CASE K = {}
  <2>1. Cardinality(F) = 0
    BY <1>3, <1>7, FS_EmptySet
  <2> QED BY <1>1, <1>5, <1>6, <1>7, <2>1
<1>8. CASE K # {}
  <2>1. K \subseteq 0..n
    BY <1>4
  <2>2. PICK m \in K : \A k \in K : m <= k
    BY <1>8, <2>1, LeastNumber
  <2>3. PICK R : R = K \ {m}
    OBVIOUS
  <2>4. F \subseteq R
    BY <1>3, <1>4, <2>2, <2>3
  <2>5. IsFiniteSet(R) /\ Cardinality(R) = Cardinality(K) - 1
    BY <1>5, <2>2, <2>3, FS_RemoveElement
  <2>6. Cardinality(F) <= Cardinality(R)
    BY <2>4, <2>5, FS_Subset
  <2> QED BY <1>1, <1>5, <1>6, <1>8, <2>5, <2>6
<1> QED BY <1>7, <1>8

LEMMA FlickerHolds == MetricsTypeOK => FlickerIsARate
<1> SUFFICES ASSUME MetricsTypeOK, metricPlan.convention \notin {"no_gripper", "none"}
             PROVE  LET values == Grippers(trace)
                        c == metricPlan.convention
                        known == Cardinality(KnownSteps(values, c))
                    IN /\ KeepsApart => Flickers(values, c) = Flickers(Mirrored(values), c)
                       /\ Flickers(values, c) = Flickers(values, Opposite(c))
                       /\ Flickers(values, c) <= IF known = 0 THEN 0 ELSE known - 1
  BY DEF FlickerIsARate
<1>1. PICK v : v = Grippers(trace)
  OBVIOUS
<1>2. PICK c : c = metricPlan.convention
  OBVIOUS
<1>3. c \in Conventions
  BY <1>2, MetricsAssumption DEF MetricsTypeOK, Conventions
<1>4. /\ trace.actions \in Seq(ActionKinds)
      /\ \A a \in ActionKinds : a.gripper \in Int
  BY MetricsAssumption DEF MetricsTypeOK, Traces
<1>5. PICK n \in Nat : DOMAIN trace.actions = 1..n
  BY <1>4
<1>6. DOMAIN v = 1..n /\ \A i \in 1..n : v[i] \in Int
  BY <1>1, <1>4, <1>5 DEF Grippers
<1>7. KeepsApart => Flickers(v, c) = Flickers(Mirrored(v), c)
  <2> SUFFICES ASSUME KeepsApart PROVE Flickers(v, c) = Flickers(Mirrored(v), c)
    OBVIOUS
  <2>1. PICK w : w = Mirrored(v)
    OBVIOUS
  <2>2. /\ DOMAIN w = DOMAIN v
        /\ \A i \in DOMAIN v :
             w[i] = (IF Binary(metricPlan.convention) THEN 2 * metricPlan.threshold ELSE 0) - v[i]
    BY <2>1 DEF Mirrored
  <2>3. \A i \in DOMAIN v : GripperState(w[i], c) = Flip(GripperState(v[i], c))
    BY <1>2, <1>3, <1>6, <2>2, MirrorFlips
  <2> QED BY <2>1, <2>2, <2>3, SameFlickers
<1>8. Flickers(v, c) = Flickers(v, Opposite(c))
  <2>1. \A i \in DOMAIN v : GripperState(v[i], Opposite(c)) = Flip(GripperState(v[i], c))
    BY <1>3, OppositeFlips
  <2> QED BY <2>1, SameFlickers
<1>9. Flickers(v, c) <= IF Cardinality(KnownSteps(v, c)) = 0 THEN 0
                         ELSE Cardinality(KnownSteps(v, c)) - 1
  BY <1>6, FlickersAreFew
<1> QED BY <1>1, <1>2, <1>7, <1>8, <1>9

\* The rate counts successes over the episodes that showed the signal and were
\* not the benchmark's fault, when no episode contradicts itself.
LEMMA RateCounts ==
  ASSUME MetricsInv, metricPhase # "stopped", "task.success_rate" \in metricPlan.enabled,
         Holding(Contradicts) = 0
  PROVE  LET r == SuccessRate(ResultsOf("task.success_rate"))
         IN /\ r.valid = Holding(LAMBDA e : e.trace.shown /\ e.terminal # "benchmark_error")
            /\ r.numerator = Holding(LAMBDA e : e.trace.shown /\ e.terminal = "success")
<1> PICK rs : rs = ResultsOf("task.success_rate")
  OBVIOUS
<1>1. PICK n \in Nat : n = Len(evaluated)
  BY ResultsAre
<1>2. /\ "task.success" \in EvaluatedMetrics /\ DOMAIN evaluated = 1..n /\ DOMAIN rs = 1..n
      /\ \A i \in 1..n : rs[i] = evaluated[i].results["task.success"]
  BY <1>1, ResultsAre
<1>3. \A i \in 1..n : ~Contradicts(evaluated[i])
  <2>1. PICK C : C = {i \in DOMAIN evaluated : Contradicts(evaluated[i])}
    OBVIOUS
  <2>2. C \subseteq 1..n
    BY <1>2, <2>1
  <2>3. Cardinality(C) = 0 <=> C = {}
    BY <2>2, PartOfIndexes
  <2>4. Holding(Contradicts) = Cardinality(C)
    BY <2>1 DEF Holding
  <2> QED BY <1>2, <2>1, <2>3, <2>4
<1>4. ASSUME NEW i \in 1..n
      PROVE  /\ evaluated[i].trace.shown =>
                  /\ rs[i].status = "available" /\ rs[i].terminal = evaluated[i].terminal
                  /\ rs[i].value = IF evaluated[i].terminal = "success" THEN 1 ELSE 0
             /\ ~evaluated[i].trace.shown => rs[i].status = "unavailable"
             /\ evaluated[i].terminal # "aborted"
  <2>1. evaluated[i].terminal # "aborted"
    BY <1>1 DEF MetricsInv
  <2> QED BY <1>2, <1>3, <2>1, EpisodeResultIs
<1>5. PICK E : E = {i \in DOMAIN evaluated :
                      evaluated[i].trace.shown /\ evaluated[i].terminal # "benchmark_error"}
  OBVIOUS
<1>6. PICK W : W = {i \in DOMAIN evaluated :
                      evaluated[i].trace.shown /\ evaluated[i].terminal = "success"}
  OBVIOUS
<1>7. Eligible(rs) = E
  <2>1. ASSUME NEW i \in 1..n PROVE i \in Eligible(rs) <=> i \in E
    <3>1. i \in Eligible(rs) <=> ~SuccessExcluded(rs[i]) /\ rs[i].status = "available"
      BY <1>2, <2>1 DEF Eligible, Kept
    <3>2. i \in E <=> evaluated[i].trace.shown /\ evaluated[i].terminal # "benchmark_error"
      BY <1>2, <1>5, <2>1
    <3>3. CASE evaluated[i].trace.shown
      BY <1>4, <2>1, <3>1, <3>2, <3>3 DEF SuccessExcluded
    <3>4. CASE ~evaluated[i].trace.shown
      BY <1>4, <2>1, <3>1, <3>2, <3>4
    <3> QED BY <3>3, <3>4
  <2>2. Eligible(rs) \subseteq 1..n /\ E \subseteq 1..n
    BY <1>2, <1>5 DEF Eligible, Kept
  <2> QED BY <2>1, <2>2
<1>8. E \subseteq 1..n /\ IsFiniteSet(E)
  <2>1. E \subseteq 1..n
    BY <1>2, <1>5
  <2> QED BY <2>1, PartOfIndexes
<1>9. PICK g : g = [i \in E |-> rs[i].value]
  OBVIOUS
<1>10. \A i \in E : g[i] = rs[i].value /\ g[i] \in {0, 1} /\ (g[i] = 1 <=> i \in W)
  <2> SUFFICES ASSUME NEW i \in E
               PROVE  g[i] = rs[i].value /\ g[i] \in {0, 1} /\ (g[i] = 1 <=> i \in W)
    OBVIOUS
  <2>1. g[i] = rs[i].value /\ i \in 1..n
    BY <1>8, <1>9
  <2>2. evaluated[i].trace.shown
    BY <1>5
  <2>3. rs[i].value = IF evaluated[i].terminal = "success" THEN 1 ELSE 0
    BY <1>4, <2>1, <2>2
  <2>4. i \in W <=> evaluated[i].terminal = "success"
    BY <1>2, <1>6, <2>1, <2>2
  <2> QED BY <2>1, <2>3, <2>4
<1>11. ValuesOf(rs, E) = SumOf(g, E)
  BY <1>8, <1>10, ValuesOfIsASum
<1>12. SumOf(g, E) = Cardinality({i \in E : g[i] = 1})
  <2>1. IsFiniteSet(E)
    BY <1>8
  <2>2. \A i \in E : g[i] \in {0, 1}
    BY <1>10
  <2> HIDE <1>8, <1>10
  <2> QED BY <2>1, <2>2, SumOfMarks
<1>13. {i \in E : g[i] = 1} = W
  <2>1. W \subseteq E
    BY <1>5, <1>6
  <2> QED BY <1>10, <2>1
<1>14. /\ SuccessRate(rs).valid = Cardinality(E)
       /\ SuccessRate(rs).numerator = ValuesOf(rs, E)
  BY <1>7, SuccessRateIs
<1>15. Holding(LAMBDA e : e.trace.shown /\ e.terminal # "benchmark_error") = Cardinality(E)
  BY <1>5 DEF Holding
<1>16. Holding(LAMBDA e : e.trace.shown /\ e.terminal = "success") = Cardinality(W)
  BY <1>6 DEF Holding
<1> QED BY <1>11, <1>12, <1>13, <1>14, <1>15, <1>16

LEMMA ReportedAre ==
  ASSUME MetricsInv
  PROVE  EveryEpisodeAccounted /\ SuccessRateCounts /\ OnlyIncomparableDropped /\ RaisedOverEvidence
<1>1. metricPlan.required \subseteq metricPlan.enabled
  BY MetricsAssumption DEF MetricsInv, MetricsTypeOK
<1>2. CASE metricPhase \notin {"aggregated", "raised"}
  <2>1. taskResults = <<>>
    BY <1>2 DEF MetricsInv
  <2>2. DOMAIN taskResults = {}
    BY <2>1
  <2> QED BY <1>2, <2>2
        DEF EveryEpisodeAccounted, SuccessRateCounts, OnlyIncomparableDropped, RaisedOverEvidence
<1>3. CASE metricPhase = "raised"
  <2>1. taskResults = <<>> /\ AggregateTaskRaises
    BY <1>3 DEF MetricsInv
  <2>2. DOMAIN taskResults = {}
    BY <2>1
  <2>3. \/ "task.success_rate" \in metricPlan.enabled /\ Holding(Contradicts) > 0
        \/ \E m \in metricPlan.required : Incomparable(m)
    <3>1. PICK m \in metricPlan.enabled :
            \/ m = "task.success_rate" /\ SuccessRateRaises(ResultsOf(m))
            \/ m \in metricPlan.required /\ Drops(m)
      BY <2>1 DEF AggregateTaskRaises
    <3>2. CASE m = "task.success_rate"
      <4>1. ~Drops(m)
        BY <3>2 DEF Drops
      <4> QED BY <3>1, <3>2, <4>1, RateRaises
    <3>3. CASE m # "task.success_rate"
      BY <3>1, <3>3, DropsAre
    <3> QED BY <3>2, <3>3
  <2> QED BY <1>3, <2>2, <2>3
        DEF EveryEpisodeAccounted, SuccessRateCounts, OnlyIncomparableDropped, RaisedOverEvidence
<1>4. CASE metricPhase = "aggregated"
  <2>1. /\ ~AggregateTaskRaises
        /\ taskResults = [m \in {m \in metricPlan.enabled : ~Drops(m)} |-> TaskAggregate(m)]
    BY <1>4 DEF MetricsInv
  <2>2. /\ DOMAIN taskResults = {m \in metricPlan.enabled : ~Drops(m)}
        /\ \A m \in DOMAIN taskResults : taskResults[m] = TaskAggregate(m)
    BY <2>1
  <2>3. OnlyIncomparableDropped
    <3> SUFFICES ASSUME NEW m \in metricPlan.enabled
                 PROVE  (m \notin DOMAIN taskResults) <=> (m # "task.success_rate" /\ Incomparable(m))
      BY DEF OnlyIncomparableDropped
    <3>1. m \notin DOMAIN taskResults <=> Drops(m)
      BY <2>2
    <3>2. CASE m = "task.success_rate"
      BY <3>1, <3>2 DEF Drops
    <3>3. CASE m # "task.success_rate"
      BY <3>1, <3>3, DropsAre
    <3> QED BY <3>2, <3>3
  <2>4. "task.success_rate" \in metricPlan.enabled => Holding(Contradicts) = 0
    <3> SUFFICES ASSUME "task.success_rate" \in metricPlan.enabled
                 PROVE  Holding(Contradicts) = 0
      OBVIOUS
    <3>1. ~(Holding(Contradicts) > 0)
      BY <2>1, RateRaises DEF AggregateTaskRaises
    <3>2. PICK C : C = {i \in DOMAIN evaluated : Contradicts(evaluated[i])}
      OBVIOUS
    <3>3. PICK n \in Nat : DOMAIN evaluated = 1..n
      BY DEF MetricsInv, MetricsTypeOK
    <3>4. C \subseteq 1..n
      BY <3>2, <3>3
    <3>5. Cardinality(C) \in Nat
      BY <3>4, PartOfIndexes
    <3>6. Holding(Contradicts) = Cardinality(C)
      BY <3>2 DEF Holding
    <3> QED BY <3>1, <3>5, <3>6
  <2>5. RaisedOverEvidence
    BY <1>4, <2>2, <2>4 DEF RaisedOverEvidence
  <2>6. SuccessRateCounts
    <3> SUFFICES ASSUME "task.success_rate" \in DOMAIN taskResults
                 PROVE  LET r == taskResults["task.success_rate"]
                        IN /\ r.valid = Holding(LAMBDA e : e.trace.shown /\ e.terminal # "benchmark_error")
                           /\ r.numerator = Holding(LAMBDA e : e.trace.shown /\ e.terminal = "success")
      BY DEF SuccessRateCounts
    <3>1. taskResults["task.success_rate"] = SuccessRate(ResultsOf("task.success_rate"))
      BY <2>2 DEF TaskAggregate
    <3>2. "task.success_rate" \in metricPlan.enabled
      BY <2>2
    <3> QED BY <1>4, <2>4, <3>1, <3>2, RateCounts
  <2>7. EveryEpisodeAccounted
    <3> SUFFICES ASSUME NEW m \in DOMAIN taskResults
                 PROVE  taskResults[m].valid + taskResults[m].unavailable + taskResults[m].excluded =
                          Len(evaluated)
      BY DEF EveryEpisodeAccounted
    <3>1. m \in metricPlan.enabled /\ ~Drops(m) /\ taskResults[m] = TaskAggregate(m)
      BY <2>2
    <3> PICK rs : rs = ResultsOf(m)
      OBVIOUS
    <3>2. PICK n \in Nat : n = Len(evaluated)
      BY <3>1, ResultsAre
    <3>3. DOMAIN rs = 1..n /\ Len(rs) = n
      BY <3>1, <3>2, ResultsAre
    <3>4. CASE m = "task.success_rate"
      <4>1. taskResults[m] = SuccessRate(rs)
        BY <3>1, <3>4 DEF TaskAggregate
      <4> QED BY <3>2, <3>3, <4>1, AllRated
    <3>5. CASE m # "task.success_rate"
      <4>1. taskResults[m] = Aggregate(rs)
        BY <3>1, <3>5 DEF TaskAggregate
      <4>2. /\ m \in EvaluatedMetrics /\ DOMAIN evaluated = 1..n
            /\ \A i \in 1..n : rs[i] = evaluated[i].results[m]
        BY <3>1, <3>2, <3>5, ResultsAre
      <4>3. \A i \in DOMAIN rs : rs[i].status # "error"
        BY <3>1, <3>5 DEF Drops, AggregationRaises
      <4>4. \A i \in 1..n : rs[i].status \in Statuses
        BY <4>2, EpisodeResultIs
      <4>5. \A i \in 1..n : rs[i].status \in Statuses \ {"error"}
        BY <3>3, <4>3, <4>4
      <4> QED BY <3>2, <3>3, <4>1, <4>5, AllCounted
    <3> QED BY <3>4, <3>5
  <2> QED BY <2>3, <2>5, <2>6, <2>7
<1> QED BY <1>2, <1>3, <1>4

(* What a task reports of its episodes: every result accounts for each of    *)
(* them, the success rate counts the successes over the episodes that showed *)
(* their signal and were not the benchmark's fault, a metric is left out     *)
(* only over incomparable episodes, aggregation raises only over evidence,   *)
(* repeated no-ops are the steps of long stretches and flicker is a rate     *)
(* that does not depend on the gripper's convention.                         *)
THEOREM TaskResultsAreSound == MetricsSpec => []MetricsAreSound
<1>1. MetricsInit => MetricsInv
  BY MetricsInitially
<1>2. MetricsInv /\ [MetricsNext]_metricVars => MetricsInv'
  <2> SUFFICES ASSUME MetricsInv, [MetricsNext]_metricVars PROVE MetricsInv'
    OBVIOUS
  <2>1. CASE \/ Connect \/ RecordReset \/ RecordPrediction \/ (\E kind \in ActionKinds : Act(kind))
             \/ UNCHANGED metricVars
    BY <2>1, TracingKeeps
  <2>2. CASE EpisodeEnds \/ EpisodeFails \/ EpisodeInterrupted
    BY <2>2, FinishKeeps
  <2>3. CASE AggregateTask
    BY <2>3, AggregateKeeps
  <2> QED BY <2>1, <2>2, <2>3 DEF MetricsNext
<1>3. MetricsInv => MetricsAreSound
  BY ReportedAre, NoOpsHold, FlickerHolds DEF MetricsAreSound, MetricsInv
<1> QED BY <1>1, <1>2, <1>3, PTL DEF MetricsSpec

-----------------------------------------------------------------------------
(* What a report counts and draws, for every number of tasks, rollouts and   *)
(* samples.                                                                  *)

LEMMA TotalIs == \A f : Total(f) = SumOf(f, DOMAIN f)
BY DEF Total, SumOf

\* Sums of natural numbers, by what they are sums of.
LEMMA SumsAgreeOn ==
  ASSUME NEW S, IsFiniteSet(S), NEW f, NEW g, \A x \in S : f[x] = g[x] /\ f[x] \in Int
  PROVE  SumOf(f, S) = SumOf(g, S)
<1> DEFINE Bad == {w \in SUBSET S : SumOf(f, w) # SumOf(g, w)}
<1> SUFFICES ASSUME Bad # {} PROVE FALSE
  OBVIOUS
<1>1. Bad \subseteq SUBSET S
  OBVIOUS
<1> HIDE DEF Bad
<1>2. PICK m \in Bad : \A w \in Bad : w \subseteq m => w = m
  BY <1>1, LeastSubset
<1>3. m \subseteq S /\ SumOf(f, m) # SumOf(g, m) /\ IsFiniteSet(m)
  BY <1>1, <1>2, FS_Subset DEF Bad
<1>4. m # {}
  BY <1>3, SumOfAtAny
<1>5. PICK x : x \in m
  BY <1>4
<1>6. PICK q : q = m \ {x}
  OBVIOUS
<1>7. q \subseteq m /\ q # m /\ q \subseteq S
  BY <1>3, <1>5, <1>6
<1>8. SumOf(f, q) = SumOf(g, q)
  BY <1>2, <1>7 DEF Bad
<1>9. \A y \in m : f[y] \in Int /\ g[y] \in Int
  BY <1>3
<1>10. SumOf(f, m) = f[x] + SumOf(f, q) /\ SumOf(g, m) = g[x] + SumOf(g, q)
  BY <1>3, <1>5, <1>6, <1>9, SumOfWithout
<1>11. f[x] = g[x]
  BY <1>3, <1>5
<1> QED BY <1>3, <1>8, <1>10, <1>11

LEMMA SumsAdd ==
  ASSUME NEW S, IsFiniteSet(S), NEW f, NEW g, NEW h,
         \A x \in S : f[x] \in Int /\ g[x] \in Int /\ h[x] \in Int /\ h[x] = f[x] + g[x]
  PROVE  SumOf(h, S) = SumOf(f, S) + SumOf(g, S)
<1> DEFINE Bad == {w \in SUBSET S : SumOf(h, w) # SumOf(f, w) + SumOf(g, w)}
<1> SUFFICES ASSUME Bad # {} PROVE FALSE
  OBVIOUS
<1>1. Bad \subseteq SUBSET S
  OBVIOUS
<1> HIDE DEF Bad
<1>2. PICK m \in Bad : \A w \in Bad : w \subseteq m => w = m
  BY <1>1, LeastSubset
<1>3. m \subseteq S /\ SumOf(h, m) # SumOf(f, m) + SumOf(g, m) /\ IsFiniteSet(m)
  BY <1>1, <1>2, FS_Subset DEF Bad
<1>4. m # {}
  <2> SUFFICES ASSUME m = {} PROVE FALSE
    OBVIOUS
  <2>1. SumOf(f, m) = 0 /\ SumOf(g, m) = 0 /\ SumOf(h, m) = 0
    BY <1>3, SumOfAtAny
  <2> QED BY <1>3, <2>1
<1>5. PICK x : x \in m
  BY <1>4
<1>6. PICK q : q = m \ {x}
  OBVIOUS
<1>7. q \subseteq m /\ q # m /\ q \subseteq S /\ IsFiniteSet(q)
  BY <1>3, <1>5, <1>6, FS_Subset
<1>8. SumOf(h, q) = SumOf(f, q) + SumOf(g, q)
  BY <1>2, <1>7 DEF Bad
<1>9. \A y \in m : f[y] \in Int /\ g[y] \in Int /\ h[y] \in Int
  BY <1>3
<1>10. /\ SumOf(f, m) = f[x] + SumOf(f, q) /\ SumOf(g, m) = g[x] + SumOf(g, q)
       /\ SumOf(h, m) = h[x] + SumOf(h, q)
  BY <1>3, <1>5, <1>6, <1>9, SumOfWithout
<1>11. SumOf(f, q) \in Int /\ SumOf(g, q) \in Int
  BY <1>7, <1>9, SumOfIsNumber
<1>12. h[x] = f[x] + g[x] /\ f[x] \in Int /\ g[x] \in Int
  BY <1>3, <1>5
<1>13. PICK a, b, c, d : a = f[x] /\ b = g[x] /\ c = SumOf(f, q) /\ d = SumOf(g, q)
  OBVIOUS
<1>14. SumOf(h, m) = (a + b) + (c + d) /\ SumOf(f, m) = a + c /\ SumOf(g, m) = b + d
  BY <1>8, <1>10, <1>12, <1>13
<1>15. (a + b) + (c + d) = (a + c) + (b + d)
  BY <1>11, <1>12, <1>13
<1> QED BY <1>3, <1>14, <1>15

LEMMA SumOfConstant ==
  ASSUME NEW S, IsFiniteSet(S), NEW g, NEW c \in Nat, \A x \in S : g[x] = c
  PROVE  SumOf(g, S) = Cardinality(S) * c
<1> DEFINE Bad == {w \in SUBSET S : SumOf(g, w) # Cardinality(w) * c}
<1> SUFFICES ASSUME Bad # {} PROVE FALSE
  OBVIOUS
<1>1. Bad \subseteq SUBSET S
  OBVIOUS
<1> HIDE DEF Bad
<1>2. PICK m \in Bad : \A w \in Bad : w \subseteq m => w = m
  BY <1>1, LeastSubset
<1>3. m \subseteq S /\ SumOf(g, m) # Cardinality(m) * c /\ IsFiniteSet(m)
  BY <1>1, <1>2, FS_Subset DEF Bad
<1>4. m # {}
  <2> SUFFICES ASSUME m = {} PROVE FALSE
    OBVIOUS
  <2>1. SumOf(g, m) = 0
    BY <1>3, SumOfAtAny
  <2>2. Cardinality(m) = 0
    BY FS_EmptySet
  <2>3. 0 * c = 0
    OBVIOUS
  <2> QED BY <1>3, <2>1, <2>2, <2>3
<1>5. PICK x : x \in m
  BY <1>4
<1>6. PICK q : q = m \ {x}
  OBVIOUS
<1>7. q \subseteq m /\ q # m /\ q \subseteq S /\ IsFiniteSet(q)
  BY <1>3, <1>5, <1>6, FS_Subset
<1>8. SumOf(g, q) = Cardinality(q) * c
  BY <1>2, <1>7 DEF Bad
<1>9. \A y \in m : g[y] \in Int
  BY <1>3
<1>10. SumOf(g, m) = g[x] + SumOf(g, q)
  BY <1>3, <1>5, <1>6, <1>9, SumOfWithout
<1>11. PICK k \in Nat : k = Cardinality(q)
  BY <1>7, FS_CardinalityType
<1>12. m = q \cup {x} /\ x \notin q
  BY <1>5, <1>6
<1>13. Cardinality(m) = k + 1
  BY <1>7, <1>11, <1>12, FS_AddElement
<1>14. (k + 1) * c = c + k * c
  BY <1>11
<1>15. g[x] = c
  BY <1>3, <1>5
<1> QED BY <1>3, <1>8, <1>10, <1>11, <1>13, <1>14, <1>15

LEMMA SumOverParts ==
  ASSUME NEW A, IsFiniteSet(A), NEW B, IsFiniteSet(B), A \cap B = {}, NEW W, W = A \cup B,
         NEW g, \A x \in W : g[x] \in Nat
  PROVE  /\ SumOf(g, W) = SumOf(g, A) + SumOf(g, B)
         /\ SumOf(g, W) \in Nat /\ SumOf(g, A) \in Nat /\ SumOf(g, B) \in Nat
<1>1. IsFiniteSet(W)
  BY FS_Union
<1>2. \A T \in {A, B, W} : SumOf(g, T) \in Nat
  <2>1. \A T \in {A, B, W} : IsFiniteSet(T) /\ \A x \in T : g[x] \in Nat
    BY <1>1
  <2> QED BY <2>1, SumOfIsNumber
<1> DEFINE Bad == {w \in SUBSET B : SumOf(g, A \cup w) # SumOf(g, A) + SumOf(g, w)}
<1>3. Bad = {}
  <2> SUFFICES ASSUME Bad # {} PROVE FALSE
    OBVIOUS
  <2>1. Bad \subseteq SUBSET B
    OBVIOUS
  <2> HIDE DEF Bad
  <2>2. PICK m \in Bad : \A w \in Bad : w \subseteq m => w = m
    BY <2>1, LeastSubset
  <2>3. m \subseteq B /\ SumOf(g, A \cup m) # SumOf(g, A) + SumOf(g, m) /\ IsFiniteSet(m)
    BY <2>1, <2>2, FS_Subset DEF Bad
  <2>4. m # {}
    <3> SUFFICES ASSUME m = {} PROVE FALSE
      OBVIOUS
    <3>1. SumOf(g, m) = 0
      BY <2>3, SumOfAtAny
    <3>2. A \cup m = A
      OBVIOUS
    <3> QED BY <1>2, <2>3, <3>1, <3>2
  <2>5. PICK x : x \in m
    BY <2>4
  <2>6. PICK q : q = m \ {x}
    OBVIOUS
  <2>7. q \subseteq m /\ q # m /\ q \subseteq B /\ IsFiniteSet(q)
    BY <2>3, <2>5, <2>6, FS_Subset
  <2>8. SumOf(g, A \cup q) = SumOf(g, A) + SumOf(g, q)
    BY <2>2, <2>7 DEF Bad
  <2>9. PICK M : M = A \cup m
    OBVIOUS
  <2>10. IsFiniteSet(M) /\ x \in M /\ M \ {x} = A \cup q
    BY <2>3, <2>5, <2>6, <2>9, FS_Union
  <2>11. (\A y \in M : g[y] \in Int) /\ (\A y \in m : g[y] \in Int)
    BY <2>3, <2>9
  <2>12. SumOf(g, M) = g[x] + SumOf(g, A \cup q)
    BY <2>10, <2>11, SumOfWithout
  <2>13. SumOf(g, m) = g[x] + SumOf(g, q)
    BY <2>3, <2>5, <2>6, <2>11, SumOfWithout
  <2>14. SumOf(g, q) \in Int /\ g[x] \in Int
    BY <2>5, <2>7, <2>11, SumOfIsNumber
  <2>15. PICK a, b, c : a = g[x] /\ b = SumOf(g, A) /\ c = SumOf(g, q)
    OBVIOUS
  <2>16. SumOf(g, M) = a + (b + c) /\ SumOf(g, A) + SumOf(g, m) = b + (a + c)
    BY <2>8, <2>12, <2>13, <2>15
  <2>17. a + (b + c) = b + (a + c)
    BY <1>2, <2>14, <2>15
  <2> QED BY <2>3, <2>9, <2>16, <2>17
<1>4. SumOf(g, A \cup B) = SumOf(g, A) + SumOf(g, B)
  BY <1>3
<1> QED BY <1>2, <1>4

-----------------------------------------------------------------------------
(* Outcomes.                                                                 *)

\* How many episodes of one task ended in one of some ways.
CountOf(r, t, E) == SumOf(r[t], E \cap Endings)
CountsOf(r, T, E) == SumOf([t \in T |-> CountOf(r, t, E)], T)
Records == [ReportTasks -> [Endings -> Nat]]

ReportModelInv ==
  /\ recorded \in Records
  /\ \A t \in ReportTasks : CountOf(recorded, t, Endings) <= Rollouts
  /\ samples \in Seq(Samples \cup {NonFinite})
  /\ finalStatus \in {"none", "completed", "failed", "aborted"}

LEMMA CountIs ==
  ASSUME NEW r \in Records, NEW t \in ReportTasks, NEW E
  PROVE  /\ CountOf(r, t, E) \in Nat
         /\ Total([s \in E \cap Endings |-> r[t][s]]) = CountOf(r, t, E)
<1>1. PICK S : S = E \cap Endings
  OBVIOUS
<1>2. IsFiniteSet(S) /\ S \subseteq Endings
  BY <1>1, ReportModelAssumption, FS_Subset
<1>3. r[t] \in [Endings -> Nat]
  BY DEF Records
<1>4. PICK row : row = r[t]
  OBVIOUS
<1>5. \A s \in S : row[s] \in Nat
  BY <1>2, <1>3, <1>4
<1>6. PICK f : f = [s \in S |-> row[s]]
  OBVIOUS
<1>7. DOMAIN f = S /\ \A s \in S : f[s] = row[s]
  BY <1>6
<1>8. SumOf(f, S) = SumOf(row, S)
  BY <1>2, <1>5, <1>7, SumsAgreeOn
<1>9. SumOf(row, S) \in Nat
  BY <1>2, <1>5, SumOfIsNumber
<1>10. Total(f) = SumOf(f, S)
  BY <1>7, TotalIs
<1> QED BY <1>1, <1>4, <1>6, <1>8, <1>9, <1>10 DEF CountOf

LEMMA EndedIs ==
  ASSUME recorded \in Records, NEW T, T \subseteq ReportTasks, NEW E
  PROVE  /\ IsFiniteSet(T)
         /\ Ended(T, E) = CountsOf(recorded, T, E)
         /\ Ended(T, E) \in Nat
<1>1. IsFiniteSet(T)
  BY ReportModelAssumption, FS_Subset
<1>2. PICK f : f = [t \in T |-> Total([s \in E \cap Endings |-> recorded[t][s]])]
  OBVIOUS
<1>3. PICK g : g = [t \in T |-> CountOf(recorded, t, E)]
  OBVIOUS
<1>4. \A t \in T : f[t] = g[t] /\ g[t] \in Nat
  BY <1>2, <1>3, CountIs
<1>5. SumOf(f, T) = SumOf(g, T) /\ SumOf(g, T) \in Nat
  <2>1. \A t \in T : f[t] = g[t] /\ f[t] \in Int
    BY <1>4
  <2> QED BY <1>1, <1>4, <2>1, SumsAgreeOn, SumOfIsNumber
<1>6. Total(f) = SumOf(f, T)
  BY <1>2, TotalIs
<1>7. Ended(T, E) = Total(f)
  BY <1>2 DEF Ended
<1>8. CountsOf(recorded, T, E) = SumOf(g, T)
  BY <1>3 DEF CountsOf
<1> QED BY <1>1, <1>5, <1>6, <1>7, <1>8

LEMMA EndedOfOne ==
  ASSUME recorded \in Records, NEW t \in ReportTasks, NEW E
  PROVE  Ended({t}, E) = CountOf(recorded, t, E)
<1>1. PICK g : g = [u \in {t} |-> CountOf(recorded, u, E)]
  OBVIOUS
<1>2. PICK W : W = {t}
  OBVIOUS
<1>3. IsFiniteSet({}) /\ W = {} \cup {t}
  BY <1>2, FS_EmptySet
<1>4. g[t] = CountOf(recorded, t, E) /\ g[t] \in Nat
  BY <1>1, CountIs
<1>5. \A y \in W : g[y] \in Int
  BY <1>2, <1>4
<1>6. SumOf(g, W) = SumOf(g, {}) + g[t]
  BY <1>3, <1>5, SumOfAdds
<1>7. SumOf(g, {}) = 0
  BY <1>3, SumOfAtAny
<1>8. Ended({t}, E) = SumOf(g, W)
  BY <1>1, <1>2, EndedIs DEF CountsOf
<1> QED BY <1>4, <1>6, <1>7, <1>8

LEMMA EndedOfAny ==
  recorded \in Records => \A t \in ReportTasks : \A E : Ended({t}, E) = CountOf(recorded, t, E)
BY EndedOfOne

LEMMA EndedNext ==
  (recorded \in Records => \A t \in ReportTasks : \A E : Ended({t}, E) = CountOf(recorded, t, E))'
BY EndedOfAny, PTL

\* Ways to end that exclude each other.
LEMMA CountsAdd ==
  ASSUME NEW r \in Records, NEW t \in ReportTasks, NEW E, NEW F, E \cap F = {}
  PROVE  CountOf(r, t, E \cup F) = CountOf(r, t, E) + CountOf(r, t, F)
<1>1. PICK A : A = E \cap Endings
  OBVIOUS
<1>2. PICK B : B = F \cap Endings
  OBVIOUS
<1>3. PICK W : W = (E \cup F) \cap Endings
  OBVIOUS
<1>4. IsFiniteSet(A) /\ IsFiniteSet(B) /\ A \cap B = {} /\ W = A \cup B
  BY <1>1, <1>2, <1>3, ReportModelAssumption, FS_Subset
<1>5. PICK row : row = r[t]
  OBVIOUS
<1>6. \A s \in W : row[s] \in Nat
  BY <1>3, <1>5 DEF Records
<1>7. SumOf(row, W) = SumOf(row, A) + SumOf(row, B)
  BY <1>4, <1>6, SumOverParts
<1> QED BY <1>1, <1>2, <1>3, <1>5, <1>7 DEF CountOf

LEMMA CountsGrow ==
  ASSUME NEW r \in Records, NEW t \in ReportTasks, NEW E, NEW F, E \subseteq F
  PROVE  CountOf(r, t, E) <= CountOf(r, t, F)
<1>1. PICK R : R = F \ E
  OBVIOUS
<1>2. E \cap R = {} /\ E \cup R = F
  BY <1>1
<1>3. CountOf(r, t, F) = CountOf(r, t, E) + CountOf(r, t, R)
  BY <1>2, CountsAdd
<1>4. PICK a \in Nat : a = CountOf(r, t, E)
  BY CountIs
<1>5. PICK b \in Nat : b = CountOf(r, t, R)
  BY CountIs
<1> QED BY <1>3, <1>4, <1>5

\* The same over tasks.
LEMMA AllCountsAdd ==
  ASSUME NEW r \in Records, NEW T, T \subseteq ReportTasks, NEW E, NEW F, E \cap F = {}
  PROVE  /\ CountsOf(r, T, E \cup F) = CountsOf(r, T, E) + CountsOf(r, T, F)
         /\ CountsOf(r, T, E) \in Nat /\ CountsOf(r, T, F) \in Nat
<1>1. IsFiniteSet(T)
  BY ReportModelAssumption, FS_Subset
<1>2. PICK f : f = [t \in T |-> CountOf(r, t, E)]
  OBVIOUS
<1>3. PICK g : g = [t \in T |-> CountOf(r, t, F)]
  OBVIOUS
<1>4. PICK h : h = [t \in T |-> CountOf(r, t, E \cup F)]
  OBVIOUS
<1>5. \A t \in T : f[t] \in Nat /\ g[t] \in Nat
  BY <1>2, <1>3, CountIs
<1>6. \A t \in T : h[t] = f[t] + g[t]
  BY <1>2, <1>3, <1>4, CountsAdd
<1>7. \A t \in T : f[t] \in Int /\ g[t] \in Int /\ h[t] \in Int /\ h[t] = f[t] + g[t]
  BY <1>5, <1>6
<1>8. SumOf(h, T) = SumOf(f, T) + SumOf(g, T)
  BY <1>1, <1>7, SumsAdd
<1>9. SumOf(f, T) \in Nat /\ SumOf(g, T) \in Nat
  BY <1>1, <1>5, SumOfIsNumber
<1> QED BY <1>2, <1>3, <1>4, <1>8, <1>9 DEF CountsOf

LEMMA AllCountsGrow ==
  ASSUME NEW r \in Records, NEW T, T \subseteq ReportTasks, NEW E, NEW F, E \subseteq F
  PROVE  CountsOf(r, T, E) <= CountsOf(r, T, F)
<1>1. PICK R : R = F \ E
  OBVIOUS
<1>2. E \cap R = {} /\ E \cup R = F
  BY <1>1
<1>3. CountsOf(r, T, E \cup R) = CountsOf(r, T, E) + CountsOf(r, T, R)
  BY <1>2, AllCountsAdd
<1>4. PICK c \in Nat : c = CountsOf(r, T, E)
  BY <1>2, AllCountsAdd
<1>5. PICK d \in Nat : d = CountsOf(r, T, R)
  BY <1>2, AllCountsAdd
<1>6. CountsOf(r, T, F) = c + d
  BY <1>2, <1>3, <1>4, <1>5
<1> QED BY <1>4, <1>5, <1>6

\* The numbers of an outcome.
OutcomeIsFit(o) ==
  /\ o.eligible = o.successful + o.nonSuccess
  /\ o.failed + o.interrupted <= o.nonSuccess
  /\ o.presentation = "success_rate" <=> o.eligible > 1

LEMMA OutcomeFits ==
  ASSUME recorded \in Records, NEW T, T \subseteq ReportTasks, NEW expected
  PROVE  OutcomeIsFit(Outcome(T, expected))
<1>1. PICK n \in Nat : n = Ended(T, Endings)
  BY EndedIs
<1>2. PICK a \in Nat : a = Ended(T, {"success"})
  BY EndedIs
<1>3. PICK f \in Nat : f = Ended(T, {"failure"})
  BY EndedIs
<1>4. PICK i \in Nat : i = Ended(T, Interrupting)
  BY EndedIs
<1>5. a + f + i <= n
  <2>1. PICK E : E = {"failure"} \cup Interrupting
    OBVIOUS
  <2>2. CountsOf(recorded, T, E) = f + i
    <3>1. {"failure"} \cap Interrupting = {}
      BY DEF Interrupting
    <3> QED BY <1>3, <1>4, <2>1, <3>1, AllCountsAdd, EndedIs
  <2>3. PICK W : W = {"success"} \cup E
    OBVIOUS
  <2>4. CountsOf(recorded, T, W) = a + (f + i)
    <3>1. {"success"} \cap E = {}
      BY <2>1 DEF Interrupting
    <3>2. CountsOf(recorded, T, {"success"}) = a
      BY <1>2, EndedIs
    <3>3. CountsOf(recorded, T, {"success"} \cup E) =
            CountsOf(recorded, T, {"success"}) + CountsOf(recorded, T, E)
      BY <3>1, AllCountsAdd
    <3> QED BY <2>2, <2>3, <3>2, <3>3
  <2>5. CountsOf(recorded, T, W) <= CountsOf(recorded, T, W \cup Endings)
    BY AllCountsGrow
  <2>6. CountsOf(recorded, T, W \cup Endings) = n
    <3>1. (W \cup Endings) \cap Endings = Endings \cap Endings
      OBVIOUS
    <3>2. \A t : CountOf(recorded, t, W \cup Endings) = CountOf(recorded, t, Endings)
      BY <3>1 DEF CountOf
    <3> QED BY <1>1, <3>2, EndedIs DEF CountsOf
  <2> QED BY <2>4, <2>5, <2>6
<1>6. PICK o : o = Outcome(T, expected)
  OBVIOUS
<1>7. /\ o.eligible = n /\ o.successful = a /\ o.nonSuccess = n - a /\ o.failed = f
      /\ o.interrupted = i
      /\ o.presentation = IF n = 0 THEN "unavailable"
                          ELSE IF n = 1 THEN "binary_success" ELSE "success_rate"
  BY <1>1, <1>2, <1>3, <1>4, <1>6 DEF Outcome
<1>8. o.eligible = o.successful + o.nonSuccess /\ o.failed + o.interrupted <= o.nonSuccess
  BY <1>5, <1>7
<1>9. o.presentation = "success_rate" <=> o.eligible > 1
  BY <1>7
<1> QED BY <1>6, <1>8, <1>9 DEF OutcomeIsFit

LEMMA TaskOutcomeIs ==
  ASSUME ReportModelInv, NEW t \in ReportTasks
  PROVE  /\ TaskOutcome(t).eligible = CountOf(recorded, t, Endings)
         /\ TaskOutcome(t).missing = Rollouts - CountOf(recorded, t, Endings)
         /\ TaskOutcome(t).failed = CountOf(recorded, t, {"failure"})
         /\ TaskOutcome(t).interrupted = CountOf(recorded, t, Interrupting)
<1>1. recorded \in Records /\ {t} \subseteq ReportTasks
  BY DEF ReportModelInv
<1>2. PICK n \in Nat : n = CountOf(recorded, t, Endings) /\ n <= Rollouts
  BY <1>1, CountIs DEF ReportModelInv
<1>3. Ended({t}, Endings) = n /\ Rollouts \in Nat
  BY <1>1, <1>2, EndedOfOne, ReportModelAssumption
<1>4. Ended({t}, {"failure"}) = CountOf(recorded, t, {"failure"})
  BY <1>1, EndedOfOne
<1>5. Ended({t}, Interrupting) = CountOf(recorded, t, Interrupting)
  BY <1>1, EndedOfOne
<1>6. (IF Rollouts > n THEN Rollouts - n ELSE 0) = Rollouts - n
  BY <1>2, <1>3
<1> QED BY <1>2, <1>3, <1>4, <1>5, <1>6 DEF TaskOutcome, Outcome

LEMMA OutcomesHold == ReportModelInv => OutcomesAddUp
<1> SUFFICES ASSUME ReportModelInv PROVE OutcomesAddUp
  OBVIOUS
<1>1. recorded \in Records /\ Viewed \subseteq ReportTasks /\ Rollouts \in Nat
  BY ReportModelAssumption DEF ReportModelInv, Viewed
<1>2. \A o \in {TaskOutcome(t) : t \in Viewed} \cup {RunOutcome} :
        /\ o.eligible = o.successful + o.nonSuccess
        /\ o.failed + o.interrupted <= o.nonSuccess
        /\ o.presentation = "success_rate" <=> o.eligible > 1
  <2>1. ASSUME NEW t \in Viewed PROVE OutcomeIsFit(TaskOutcome(t))
    <3>1. {t} \subseteq ReportTasks
      BY <1>1
    <3> QED BY <1>1, <3>1, OutcomeFits DEF TaskOutcome
  <2>2. OutcomeIsFit(RunOutcome)
    BY <1>1, OutcomeFits DEF RunOutcome
  <2> QED BY <2>1, <2>2 DEF OutcomeIsFit
<1>3. PICK V : V = Viewed
  OBVIOUS
<1>4. V \subseteq ReportTasks /\ IsFiniteSet(V)
  BY <1>1, <1>3, EndedIs
<1>5. PICK g : g = [t \in V |-> CountOf(recorded, t, Endings)]
  OBVIOUS
<1>6. PICK h : h = [t \in V |-> Rollouts - CountOf(recorded, t, Endings)]
  OBVIOUS
<1>7. \A t \in V : g[t] \in Nat /\ h[t] \in Nat /\ g[t] + h[t] = Rollouts
  <2> SUFFICES ASSUME NEW t \in V PROVE g[t] \in Nat /\ h[t] \in Nat /\ g[t] + h[t] = Rollouts
    OBVIOUS
  <2>1. PICK n \in Nat : n = CountOf(recorded, t, Endings) /\ n <= Rollouts
    BY <1>1, <1>4, CountIs DEF ReportModelInv
  <2>2. g[t] = n /\ h[t] = Rollouts - n
    BY <1>5, <1>6, <2>1
  <2> QED BY <1>1, <2>1, <2>2
<1>8. Ended(V, Endings) = SumOf(g, V)
  BY <1>1, <1>4, <1>5, EndedIs DEF CountsOf
<1>9. PICK a \in Nat : a = SumOf(g, V)
  BY <1>4, <1>7, SumOfIsNumber
<1>10. PICK b \in Nat : b = SumOf(h, V)
  BY <1>4, <1>7, SumOfIsNumber
<1>11. Cardinality(V) * Rollouts = a + b
  <2>1. PICK k : k = [t \in V |-> Rollouts]
    OBVIOUS
  <2>2. \A t \in V : k[t] = Rollouts
    BY <2>1
  <2>3. SumOf(k, V) = Cardinality(V) * Rollouts
    BY <1>1, <1>4, <2>2, SumOfConstant
  <2>4. \A t \in V : g[t] \in Int /\ h[t] \in Int /\ k[t] \in Int /\ k[t] = g[t] + h[t]
    BY <1>1, <1>7, <2>2
  <2>5. SumOf(k, V) = SumOf(g, V) + SumOf(h, V)
    BY <1>4, <2>4, SumsAdd
  <2> QED BY <1>9, <1>10, <2>3, <2>5
<1>12. RunOutcome.eligible = a /\ RunOutcome.missing = b
  <2>1. PICK e : e = Cardinality(V) * Rollouts
    OBVIOUS
  <2>2. Ended(V, Endings) = a
    BY <1>8, <1>9
  <2>3. RunOutcome = Outcome(V, e)
    BY <1>3, <2>1 DEF RunOutcome
  <2>4. Outcome(V, e).eligible = a /\ Outcome(V, e).missing = IF e > a THEN e - a ELSE 0
    BY <2>2 DEF Outcome
  <2>5. (IF e > a THEN e - a ELSE 0) = b
    BY <1>11, <2>1
  <2> QED BY <2>3, <2>4, <2>5
<1>13. Total([t \in Viewed |-> TaskOutcome(t).eligible]) = a
  <2>1. [t \in Viewed |-> TaskOutcome(t).eligible] = g
    BY <1>3, <1>4, <1>5, TaskOutcomeIs
  <2>2. Total(g) = SumOf(g, V)
    BY <1>5, TotalIs
  <2> QED BY <1>9, <2>1, <2>2
<1>14. Total([t \in Viewed |-> TaskOutcome(t).missing]) = b
  <2>1. [t \in Viewed |-> TaskOutcome(t).missing] = h
    BY <1>3, <1>4, <1>6, TaskOutcomeIs
  <2>2. Total(h) = SumOf(h, V)
    BY <1>6, TotalIs
  <2> QED BY <1>10, <2>1, <2>2
<1>15. ASSUME NEW t \in Viewed
       PROVE  /\ TaskOutcome(t).eligible + TaskOutcome(t).missing = Rollouts
              /\ TaskStatus(t) = "completed" =>
                   TaskOutcome(t).missing = 0 /\ TaskOutcome(t).interrupted + TaskOutcome(t).failed = 0
              /\ finalStatus = "completed" => TaskStatus(t) \in {"completed", "failed", "partial"}
  <2>1. t \in ReportTasks
    BY <1>1
  <2>2. PICK n \in Nat : n = CountOf(recorded, t, Endings) /\ n <= Rollouts
    BY <1>1, <2>1, CountIs DEF ReportModelInv
  <2>3. TaskOutcome(t).eligible = n /\ TaskOutcome(t).missing = Rollouts - n
    BY <2>1, <2>2, TaskOutcomeIs
  <2>4. TaskOutcome(t).eligible + TaskOutcome(t).missing = Rollouts
    BY <1>1, <2>2, <2>3
  <2>5. ASSUME TaskStatus(t) = "completed"
        PROVE  TaskOutcome(t).missing = 0 /\ TaskOutcome(t).interrupted + TaskOutcome(t).failed = 0
    <3>1. /\ ~(Ended({t}, FailedEndings) > 0) /\ ~(Ended({t}, {"aborted"}) > 0)
          /\ ~(Ended({t}, Endings) < Rollouts)
      BY <2>5 DEF TaskStatus
    <3>2. /\ CountOf(recorded, t, FailedEndings) = 0 /\ CountOf(recorded, t, {"aborted"}) = 0
          /\ n = Rollouts
      <4>1. PICK f \in Nat : f = CountOf(recorded, t, FailedEndings)
        BY <1>1, <2>1, CountIs
      <4>2. PICK q \in Nat : q = CountOf(recorded, t, {"aborted"})
        BY <1>1, <2>1, CountIs
      <4>3. Ended({t}, FailedEndings) = f /\ Ended({t}, {"aborted"}) = q /\ Ended({t}, Endings) = n
        BY <1>1, <2>1, <2>2, <4>1, <4>2, EndedOfOne
      <4> QED BY <1>1, <2>2, <3>1, <4>1, <4>2, <4>3
    <3>3. PICK E : E = FailedEndings \cup {"aborted"}
      OBVIOUS
    <3>4. CountOf(recorded, t, E) = 0
      <4>1. FailedEndings \cap {"aborted"} = {}
        BY DEF FailedEndings
      <4>2. CountOf(recorded, t, E) = CountOf(recorded, t, FailedEndings) + CountOf(recorded, t, {"aborted"})
        BY <1>1, <2>1, <3>3, <4>1, CountsAdd
      <4> QED BY <3>2, <4>2
    <3>5. Interrupting \subseteq E /\ {"failure"} \subseteq E
      BY <3>3 DEF Interrupting, FailedEndings
    <3>6. CountOf(recorded, t, Interrupting) = 0
      <4>1. PICK q \in Nat : q = CountOf(recorded, t, Interrupting)
        BY <1>1, <2>1, CountIs
      <4>2. q <= CountOf(recorded, t, E)
        BY <1>1, <2>1, <3>5, <4>1, CountsGrow
      <4> QED BY <3>4, <4>1, <4>2
    <3>7. CountOf(recorded, t, {"failure"}) = 0
      <4>1. PICK q \in Nat : q = CountOf(recorded, t, {"failure"})
        BY <1>1, <2>1, CountIs
      <4>2. q <= CountOf(recorded, t, E)
        BY <1>1, <2>1, <3>5, <4>1, CountsGrow
      <4> QED BY <3>4, <4>1, <4>2
    <3> QED BY <2>1, <2>3, <3>2, <3>6, <3>7, TaskOutcomeIs
  <2>6. finalStatus = "completed" => TaskStatus(t) \in {"completed", "failed", "partial"}
    BY DEF TaskStatus
  <2> QED BY <2>4, <2>5, <2>6
<1> QED BY <1>2, <1>12, <1>13, <1>14, <1>15 DEF OutcomesAddUp

LEMMA ReportModelInitially == ReportModelInit => ReportModelInv
<1> SUFFICES ASSUME ReportModelInit PROVE ReportModelInv
  OBVIOUS
<1>1. recorded \in Records
  BY DEF ReportModelInit, Records
<1>2. ASSUME NEW t \in ReportTasks PROVE CountOf(recorded, t, Endings) <= Rollouts
  <2>1. PICK row : row = recorded[t]
    OBVIOUS
  <2>2. \A s \in Endings : row[s] = 0
    BY <2>1 DEF ReportModelInit
  <2>3. PICK k \in Nat : k = Cardinality(Endings)
    BY ReportModelAssumption, FS_CardinalityType
  <2>4. SumOf(row, Endings) = k * 0
    BY <2>2, <2>3, ReportModelAssumption, SumOfConstant
  <2>5. CountOf(recorded, t, Endings) = SumOf(row, Endings)
    BY <2>1 DEF CountOf
  <2>6. k * 0 = 0
    BY <2>3
  <2> QED BY <2>4, <2>5, <2>6, ReportModelAssumption
<1> QED BY <1>1, <1>2 DEF ReportModelInit, ReportModelInv

LEMMA RecordingKeeps ==
  ASSUME ReportModelInv, NEW t \in ReportTasks, NEW s \in Endings, EpisodeRecorded(t, s)
  PROVE  ReportModelInv'
<1>1. recorded \in Records
  BY DEF ReportModelInv
<1>2. PICK row : row = recorded[t]
  OBVIOUS
<1>3. row \in [Endings -> Nat]
  BY <1>1, <1>2 DEF Records
<1>4. PICK more : more = [row EXCEPT ![s] = @ + 1]
  OBVIOUS
<1>5. more \in [Endings -> Nat] /\ more[s] = row[s] + 1 /\ \A q \in Endings \ {s} : more[q] = row[q]
  BY <1>3, <1>4
<1>6. recorded' = [recorded EXCEPT ![t] = more]
  BY <1>2, <1>4 DEF EpisodeRecorded
<1>7. /\ recorded' \in Records /\ recorded'[t] = more
      /\ \A u \in ReportTasks \ {t} : recorded'[u] = recorded[u]
  BY <1>1, <1>5, <1>6 DEF Records
<1>8. SumOf(more, Endings) = SumOf(row, Endings) + 1
  <2>1. PICK R : R = Endings \ {s}
    OBVIOUS
  <2>2. IsFiniteSet(Endings) /\ IsFiniteSet(R)
    BY <2>1, ReportModelAssumption, FS_Subset
  <2>3. \A q \in Endings : more[q] \in Int /\ row[q] \in Int
    BY <1>3, <1>5
  <2>4. SumOf(more, Endings) = more[s] + SumOf(more, R)
    BY <2>1, <2>2, <2>3, SumOfWithout
  <2>5. SumOf(row, Endings) = row[s] + SumOf(row, R)
    BY <2>1, <2>2, <2>3, SumOfWithout
  <2>6. SumOf(more, R) = SumOf(row, R) /\ SumOf(row, R) \in Int
    <3>1. \A q \in R : more[q] = row[q] /\ more[q] \in Int
      BY <1>5, <2>1, <2>3
    <3>2. \A q \in R : row[q] \in Int
      BY <2>1, <2>3
    <3> QED BY <2>2, <3>1, <3>2, SumsAgreeOn, SumOfIsNumber
  <2>7. row[s] \in Int
    BY <2>3
  <2> QED BY <1>5, <2>4, <2>5, <2>6, <2>7
<1>9. CountOf(recorded, t, Endings) = SumOf(row, Endings)
  BY <1>2 DEF CountOf
<1>10. CountOf(recorded', t, Endings) = SumOf(more, Endings)
  BY <1>7 DEF CountOf
<1>11. Ended({t}, Endings) < Rollouts
  BY DEF EpisodeRecorded
<1>12. PICK n \in Nat : n = CountOf(recorded, t, Endings)
  BY <1>1, CountIs
<1>13. n < Rollouts /\ Rollouts \in Nat
  BY <1>1, <1>11, <1>12, EndedOfOne, ReportModelAssumption
<1>14. CountOf(recorded', t, Endings) <= Rollouts
  BY <1>8, <1>9, <1>10, <1>12, <1>13
<1>15. \A u \in ReportTasks \ {t} : CountOf(recorded', u, Endings) = CountOf(recorded, u, Endings)
  BY <1>7 DEF CountOf
<1>16. \A u \in ReportTasks : CountOf(recorded', u, Endings) <= Rollouts
  BY <1>14, <1>15 DEF ReportModelInv
<1>17. \A u : CountOf(recorded, u, Endings)' = CountOf(recorded', u, Endings)
  BY DEF CountOf
<1> QED BY <1>7, <1>16, <1>17 DEF ReportModelInv, EpisodeRecorded

LEMMA ReportRestKeeps ==
  ASSUME ReportModelInv,
         \/ \E s \in {"completed", "failed", "aborted"} : RunEnded(s)
         \/ \E x \in Samples \cup {NonFinite} : SampleRecorded(x)
         \/ UNCHANGED reportModelVars
  PROVE  ReportModelInv'
<1>1. recorded' = recorded
  BY DEF RunEnded, SampleRecorded, reportModelVars
<1>2. \A t : CountOf(recorded, t, Endings)' = CountOf(recorded, t, Endings)
  BY <1>1 DEF CountOf
<1>3. finalStatus' \in {"none", "completed", "failed", "aborted"}
  BY DEF ReportModelInv, RunEnded, SampleRecorded, reportModelVars
<1>4. samples' \in Seq(Samples \cup {NonFinite})
  <2>1. samples \in Seq(Samples \cup {NonFinite})
    BY DEF ReportModelInv
  <2>2. CASE samples' = samples
    BY <2>1, <2>2
  <2>3. ASSUME NEW x \in Samples \cup {NonFinite}, SampleRecorded(x)
        PROVE  samples' \in Seq(Samples \cup {NonFinite})
    BY <2>1, <2>3 DEF SampleRecorded
  <2> QED BY <2>2, <2>3 DEF RunEnded, reportModelVars
<1> QED BY <1>1, <1>2, <1>3, <1>4 DEF ReportModelInv

-----------------------------------------------------------------------------
(* Series.                                                                   *)
LEMMA LeastOfFinite ==
  ASSUME NEW S, IsFiniteSet(S), S # {}
  PROVE  S \subseteq Int => \E m \in S : \A y \in S : m <= y
<1>1. PICK Cuts : Cuts = {{y \in S : y <= x} : x \in S}
  OBVIOUS
<1>2. Cuts \subseteq SUBSET S /\ Cuts # {}
  BY <1>1
<1>3. PICK w \in Cuts : \A v \in Cuts : v \subseteq w => v = w
  BY <1>2, LeastSubset
<1>4. PICK m \in S : w = {y \in S : y <= m}
  BY <1>1
<1>5. ASSUME S \subseteq Int, NEW y \in S, y < m PROVE FALSE
  <2>1. PICK v : v = {z \in S : z <= y}
    OBVIOUS
  <2>2. v \in Cuts
    BY <1>1, <2>1
  <2>3. m \in w /\ m \notin v
    BY <1>4, <1>5, <2>1
  <2>4. \A z \in S : z \in v => z \in w
    BY <1>4, <1>5, <2>1
  <2>5. v \subseteq w
    BY <2>1, <2>4
  <2> QED BY <1>3, <2>2, <2>3, <2>5
<1> QED BY <1>5

LEMMA GreatestOfFinite ==
  ASSUME NEW S, IsFiniteSet(S), S # {}
  PROVE  S \subseteq Int => \E m \in S : \A y \in S : y <= m
<1>1. PICK Cuts : Cuts = {{y \in S : x <= y} : x \in S}
  OBVIOUS
<1>2. Cuts \subseteq SUBSET S /\ Cuts # {}
  BY <1>1
<1>3. PICK w \in Cuts : \A v \in Cuts : v \subseteq w => v = w
  BY <1>2, LeastSubset
<1>4. PICK m \in S : w = {y \in S : m <= y}
  BY <1>1
<1>5. ASSUME S \subseteq Int, NEW y \in S, m < y PROVE FALSE
  <2>1. PICK v : v = {z \in S : y <= z}
    OBVIOUS
  <2>2. v \in Cuts
    BY <1>1, <2>1
  <2>3. m \in w /\ m \notin v
    BY <1>4, <1>5, <2>1
  <2>4. \A z \in S : z \in v => z \in w
    BY <1>4, <1>5, <2>1
  <2>5. v \subseteq w
    BY <2>1, <2>4
  <2> QED BY <1>3, <2>2, <2>3, <2>5
<1> QED BY <1>5

LEMMA MinIs ==
  ASSUME NEW S, IsFiniteSet(S), S \subseteq Int, S # {}
  PROVE  /\ Min(S) \in S /\ \A y \in S : Min(S) <= y
         /\ Max(S) \in S /\ \A y \in S : y <= Max(S)
<1>1. \E m \in S : \A y \in S : m <= y
  BY LeastOfFinite
<1>2. \E m \in S : \A y \in S : y <= m
  BY GreatestOfFinite
<1>3. \A x, y \in S : (x >= y <=> y <= x) /\ (x =< y <=> x <= y)
  OBVIOUS
<1> QED BY <1>1, <1>2, <1>3 DEF Min, Max

LEMMA FinitesAre ==
  ASSUME NEW s \in Seq(Int)
  PROVE  /\ IsFiniteSet(FiniteAt(s)) /\ FiniteAt(s) \subseteq 1..Len(s)
         /\ Cardinality(FiniteAt(s)) \in Nat /\ (Cardinality(FiniteAt(s)) = 0 <=> FiniteAt(s) = {})
         /\ IsFiniteSet(FiniteValues(s)) /\ FiniteValues(s) \subseteq Int
         /\ FiniteAt(s) # {} => FiniteValues(s) # {}
<1>1. DOMAIN s = 1..Len(s) /\ Len(s) \in Nat /\ \A i \in 1..Len(s) : s[i] \in Int
  OBVIOUS
<1>2. PICK F : F = FiniteAt(s)
  OBVIOUS
<1>3. F \subseteq 1..Len(s)
  BY <1>1, <1>2 DEF FiniteAt
<1>4. IsFiniteSet(F) /\ Cardinality(F) \in Nat /\ (Cardinality(F) = 0 <=> F = {})
  BY <1>1, <1>3, PartOfIndexes
<1>5. PICK V : V = FiniteValues(s)
  OBVIOUS
<1>6. V = {s[i] : i \in F}
  BY <1>2, <1>5 DEF FiniteValues
<1>7. IsFiniteSet(V)
  <2>1. PICK g : g = [i \in F |-> s[i]]
    OBVIOUS
  <2>2. V = {g[i] : i \in F}
    BY <1>6, <2>1
  <2>3. g \in Surjection(F, V)
    BY <2>1, <2>2 DEF Surjection
  <2> QED BY <1>4, <2>3, FS_Surjection
<1>8. V \subseteq Int /\ (F # {} => V # {})
  BY <1>1, <1>3, <1>6
<1> QED BY <1>2, <1>3, <1>4, <1>5, <1>7, <1>8

\* What the rank of a sample is.
LEMMA RankedIs ==
  ASSUME NEW s \in Seq(Int), NEW k \in 1..Cardinality(FiniteAt(s))
  PROVE  /\ Ranked(s, k) \in FiniteValues(s) /\ Ranked(s, k) \in Int
         /\ NotAbove(s, Ranked(s, k)) >= k
         /\ \A x \in FiniteValues(s) : NotAbove(s, x) >= k => Ranked(s, k) <= x
<1>1. PICK F : F = FiniteAt(s)
  OBVIOUS
<1>2. PICK V : V = FiniteValues(s)
  OBVIOUS
<1>3. PICK n \in Nat : n = Cardinality(F) /\ k \in 1..n
  BY <1>1, FinitesAre
<1>4. IsFiniteSet(F) /\ F # {} /\ IsFiniteSet(V) /\ V \subseteq Int /\ V # {}
  <2>1. F # {}
    BY <1>1, <1>3, FinitesAre
  <2> QED BY <1>1, <1>2, <2>1, FinitesAre
<1>5. PICK top \in V : \A y \in V : y <= top
  BY <1>4, GreatestOfFinite
<1>6. NotAbove(s, top) = n
  <2>1. \A i \in F : s[i] \in V
    BY <1>1, <1>2 DEF FiniteValues
  <2>2. {i \in FiniteAt(s) : s[i] <= top} = F
    BY <1>1, <1>5, <2>1
  <2> QED BY <1>3, <2>2 DEF NotAbove
<1>7. PICK R : R = {x \in V : NotAbove(s, x) >= k}
  OBVIOUS
<1>8. IsFiniteSet(R) /\ R \subseteq Int /\ R # {}
  <2>1. top \in R
    BY <1>3, <1>5, <1>6, <1>7
  <2>2. R \subseteq V
    BY <1>7
  <2> QED BY <1>4, <2>1, <2>2, FS_Subset
<1>9. Ranked(s, k) = Min(R)
  BY <1>2, <1>7 DEF Ranked
<1>10. Min(R) \in R /\ \A y \in R : Min(R) <= y
  BY <1>8, MinIs
<1> QED BY <1>2, <1>4, <1>7, <1>9, <1>10

LEMMA RanksGrow ==
  ASSUME NEW s \in Seq(Int), NEW n \in Nat, n = Cardinality(FiniteAt(s)),
         NEW j \in 1..n, NEW k \in 1..n, j <= k
  PROVE  Ranked(s, j) <= Ranked(s, k)
<1>1. NotAbove(s, Ranked(s, k)) >= k /\ Ranked(s, k) \in FiniteValues(s)
  BY RankedIs
<1>2. NotAbove(s, Ranked(s, k)) \in Int
  <2>1. PICK T : T = {i \in FiniteAt(s) : s[i] <= Ranked(s, k)}
    OBVIOUS
  <2>2. IsFiniteSet(T)
    BY <2>1, FinitesAre, FS_Subset
  <2> QED BY <2>1, <2>2, FS_CardinalityType DEF NotAbove
<1>3. NotAbove(s, Ranked(s, k)) >= j
  BY <1>1, <1>2
<1> QED BY <1>1, <1>3, RankedIs

\* Between two samples.
LEMMA Interpolates ==
  ASSUME NEW a \in Int, NEW b \in Int, a <= b, NEW r \in 0..20, NEW q \in 0..20, r <= q
  PROVE  /\ a * (20 - r) + b * r \in Int
         /\ 20 * a <= a * (20 - r) + b * r /\ a * (20 - r) + b * r <= 20 * b
         /\ a * (20 - r) + b * r <= a * (20 - q) + b * q
<1>1. PICK d \in Nat : b = a + d
  BY b - a \in Nat
<1>2. ASSUME NEW k \in 0..20
      PROVE  /\ d * k \in Nat /\ a * (20 - k) + b * k = 20 * a + d * k /\ d * k <= 20 * d
  <2>1. a * (20 - k) = 20 * a - a * k
    BY <1>2
  <2>2. b * k = a * k + d * k
    BY <1>1, <1>2
  <2>3. a * k \in Int /\ d * k \in Nat
    BY <1>1, <1>2
  <2>4. PICK m \in Nat : k + m = 20
    BY <1>2
  <2>5. d * 20 = d * k + d * m /\ d * m \in Nat
    BY <1>1, <1>2, <2>4
  <2> QED BY <2>1, <2>2, <2>3, <2>5
<1>3. d * r <= d * q
  <2>1. PICK m \in Nat : q = r + m
    OBVIOUS
  <2>2. d * q = d * r + d * m /\ d * m \in Nat /\ d * r \in Nat
    BY <1>1, <2>1
  <2> QED BY <2>2
<1>4. PICK x \in Nat : x = d * r
  BY <1>2
<1>5. PICK y \in Nat : y = d * q
  BY <1>2
<1>6. a * (20 - r) + b * r = 20 * a + x /\ x <= 20 * d
  BY <1>2, <1>4
<1>7. a * (20 - q) + b * q = 20 * a + y
  BY <1>2, <1>5
<1>8. x <= y /\ 20 * b = 20 * a + 20 * d
  BY <1>1, <1>3, <1>4, <1>5
<1> QED BY <1>6, <1>7, <1>8

\* Where a quantile falls: at a sample, or between it and the next.
QuantileAt(s, n, p, i, r) ==
  /\ i \in 0..(n - 1) /\ r \in 0..19 /\ 20 * i + r = p * (n - 1)
  /\ r # 0 => i + 2 <= n
  /\ Quantile(s, p) = IF r = 0 THEN 20 * Ranked(s, i + 1)
                      ELSE Ranked(s, i + 1) * (20 - r) + Ranked(s, i + 2) * r

LEMMA Twentieths ==
  ASSUME NEW a \in Nat
  PROVE  /\ a \div 20 \in Int /\ a % 20 \in 0..19
         /\ 20 * (a \div 20) + (a % 20) = a
<1>1. a \div 20 \in Int
  OBVIOUS
<1>2. a % 20 \in 0..19
  OBVIOUS
<1>3. 20 * (a \div 20) + (a % 20) = a
  OBVIOUS
<1> QED BY <1>1, <1>2, <1>3

LEMMA QuantileIs ==
  ASSUME NEW s \in Seq(Int), NEW n \in Nat \ {0}, n = Cardinality(FiniteAt(s)), NEW p \in {1, 10, 19}
  PROVE  \E i, r : QuantileAt(s, n, p, i, r)
<1>1. PICK at \in Nat : at = p * (n - 1)
  OBVIOUS
<1>2. PICK i \in Int : i = at \div 20
  BY <1>1
<1>3. PICK r \in Int : r = at % 20
  BY <1>1
<1>4. 20 * i + r = at /\ r \in 0..19
  BY <1>1, <1>2, <1>3, Twentieths
<1>5. i \in 0..(n - 1) /\ (r # 0 => i + 2 <= n)
  <2>1. at <= 19 * (n - 1)
    BY <1>1
  <2> QED BY <1>4, <2>1
<1>6. Quantile(s, p) = IF r = 0 THEN 20 * Ranked(s, i + 1)
                       ELSE Ranked(s, i + 1) * (20 - r) + Ranked(s, i + 2) * r
  BY <1>1, <1>2, <1>3 DEF Quantile
<1>7. 20 * i + r = p * (n - 1)
  BY <1>1, <1>4
<1>8. QuantileAt(s, n, p, i, r)
  BY <1>4, <1>5, <1>6, <1>7 DEF QuantileAt
<1> QED BY <1>8

LEMMA QuantileBetween ==
  ASSUME NEW s \in Seq(Int), NEW n \in Nat \ {0}, n = Cardinality(FiniteAt(s)),
         NEW p, NEW i, NEW r, QuantileAt(s, n, p, i, r)
  PROVE  /\ Quantile(s, p) \in Int
         /\ 20 * Ranked(s, i + 1) <= Quantile(s, p)
         /\ r # 0 => Quantile(s, p) <= 20 * Ranked(s, i + 2)
         /\ r = 0 => Quantile(s, p) <= 20 * Ranked(s, i + 1)
<1>1. i + 1 \in 1..n /\ r \in 0..19 /\ (r # 0 => i + 2 \in 1..n)
  BY DEF QuantileAt
<1>2. PICK a \in Int : a = Ranked(s, i + 1)
  BY <1>1, RankedIs
<1>3. CASE r = 0
  <2>1. Quantile(s, p) = 20 * a
    BY <1>2, <1>3 DEF QuantileAt
  <2> QED BY <1>2, <1>3, <2>1
<1>4. CASE r # 0
  <2>1. PICK b \in Int : b = Ranked(s, i + 2)
    BY <1>1, <1>4, RankedIs
  <2>2. a <= b
    <3>1. i + 1 \in 1..n /\ i + 2 \in 1..n /\ i + 1 <= i + 2
      <4>1. i \in Int
        BY DEF QuantileAt
      <4> QED BY <1>1, <1>4, <4>1
    <3>2. Ranked(s, i + 1) <= Ranked(s, i + 2)
      BY <3>1, RanksGrow
    <3> QED BY <1>2, <2>1, <3>2
  <2>3. Quantile(s, p) = a * (20 - r) + b * r
    BY <1>2, <1>4, <2>1 DEF QuantileAt
  <2>4. r \in 0..20 /\ r <= r
    BY <1>1
  <2>5. /\ a * (20 - r) + b * r \in Int
        /\ 20 * a <= a * (20 - r) + b * r /\ a * (20 - r) + b * r <= 20 * b
    BY <2>2, <2>4, Interpolates
  <2> QED BY <1>2, <1>4, <2>1, <2>3, <2>5
<1> QED BY <1>3, <1>4

LEMMA QuantilesGrow ==
  ASSUME NEW s \in Seq(Int), NEW n \in Nat \ {0}, n = Cardinality(FiniteAt(s)),
         NEW p \in {1, 10, 19}, NEW q \in {1, 10, 19}, p <= q
  PROVE  /\ Quantile(s, p) <= Quantile(s, q)
         /\ Quantile(s, p) \in Int /\ Quantile(s, q) \in Int
<1>1. PICK i, r : QuantileAt(s, n, p, i, r)
  BY QuantileIs
<1>2. PICK j, t : QuantileAt(s, n, q, j, t)
  BY QuantileIs
<1>3. /\ i \in 0..(n - 1) /\ r \in 0..19 /\ 20 * i + r = p * (n - 1)
      /\ j \in 0..(n - 1) /\ t \in 0..19 /\ 20 * j + t = q * (n - 1)
      /\ (r # 0 => i + 2 <= n) /\ (t # 0 => j + 2 <= n)
  BY <1>1, <1>2 DEF QuantileAt
<1>4. 20 * i + r <= 20 * j + t
  <2>1. p * (n - 1) <= q * (n - 1)
    OBVIOUS
  <2> QED BY <1>3, <2>1
<1>5. PICK x \in Int : x = Quantile(s, p)
  BY <1>1, QuantileBetween
<1>6. PICK y \in Int : y = Quantile(s, q)
  BY <1>2, QuantileBetween
<1>7. PICK b \in Int : b = Ranked(s, j + 1)
  <2>1. j + 1 \in 1..n
    BY <1>3
  <2> QED BY <2>1, RankedIs
<1>8. 20 * b <= y
  BY <1>2, <1>6, <1>7, QuantileBetween
<1>9. CASE i < j
  <2>1. PICK k \in 1..n : /\ k = (IF r = 0 THEN i + 1 ELSE i + 2)
                          /\ k <= j + 1
    BY <1>3, <1>9
  <2>2. PICK a \in Int : a = Ranked(s, k)
    BY RankedIs
  <2>3. x <= 20 * a
    BY <1>1, <1>5, <2>1, <2>2, QuantileBetween
  <2>4. a <= b
    <3>1. j + 1 \in 1..n
      BY <1>3
    <3> QED BY <1>7, <2>1, <2>2, <3>1, RanksGrow
  <2> QED BY <1>5, <1>6, <1>8, <2>3, <2>4
<1>10. CASE i = j
  <2>1. CASE r = 0
    <3>1. x <= 20 * b
      BY <1>1, <1>5, <1>7, <1>10, <2>1, QuantileBetween
    <3> QED BY <1>5, <1>6, <1>8, <3>1
  <2>2. CASE r # 0
    <3>1. r <= t /\ t # 0 /\ r \in 0..20 /\ t \in 0..20
      BY SMTT(30), <1>3, <1>4, <1>10, <2>2
    <3>2. i + 1 \in 1..n /\ i + 2 \in 1..n /\ i + 1 <= i + 2
      BY <1>3, <2>2
    <3>3. PICK c \in Int : c = Ranked(s, i + 2)
      BY <3>2, RankedIs
    <3>4. b <= c
      BY <1>7, <1>10, <3>2, <3>3, RanksGrow
    <3>5. x = b * (20 - r) + c * r
      BY <1>1, <1>5, <1>7, <1>10, <2>2, <3>3 DEF QuantileAt
    <3>6. y = b * (20 - t) + c * t
      BY <1>2, <1>6, <1>7, <1>10, <3>1, <3>3 DEF QuantileAt
    <3>7. b * (20 - r) + c * r <= b * (20 - t) + c * t
      BY <3>1, <3>4, Interpolates
    <3> QED BY <1>5, <1>6, <3>5, <3>6, <3>7
  <2> QED BY <2>1, <2>2
<1>11. i <= j
  <2>1. i \in Int /\ j \in Int /\ r \in Int /\ t \in Int /\ 0 <= r /\ t <= 19
    BY <1>3
  <2>2. 20 * i + r <= 20 * j + t
    BY <1>4
  <2> QED BY <2>1, <2>2
<1>12. i < j \/ i = j
  <2>1. i \in Int /\ j \in Int
    BY <1>3
  <2> QED BY <1>11, <2>1
<1> QED BY <1>5, <1>6, <1>9, <1>10, <1>12

LEMMA StatisticsHold ==
  ASSUME NEW s \in Seq(Int)
  PROVE  LET stats == Statistics(s)
         IN /\ stats.n + stats.nonFinite = Len(s)
            /\ \A k \in 1..Len(stats.values) - 1 : stats.values[k] <= stats.values[k + 1]
            /\ stats.deviation => stats.values # <<>>
<1>1. PICK n \in Nat : n = Cardinality(FiniteAt(s))
  BY FinitesAre
<1>2. PICK stats : stats = Statistics(s)
  OBVIOUS
<1>3. stats.n = n /\ stats.nonFinite = Len(s) - n /\ (stats.deviation <=> n >= 2)
  BY <1>1, <1>2 DEF Statistics
<1>4. stats.n + stats.nonFinite = Len(s)
  BY <1>3
<1>5. CASE n = 0
  <2>1. stats.values = <<>>
    BY <1>1, <1>2, <1>5 DEF Statistics
  <2>2. Len(stats.values) = 0
    BY <2>1
  <2> QED BY <1>2, <1>3, <1>4, <1>5, <2>2
<1>6. CASE n # 0
  <2>1. PICK V : V = FiniteValues(s)
    OBVIOUS
  <2>2. IsFiniteSet(V) /\ V \subseteq Int /\ V # {}
    BY <1>1, <1>6, <2>1, FinitesAre
  <2>3. PICK low \in Int : low = Min(V) /\ \A x \in V : low <= x
    BY <2>2, MinIs
  <2>4. PICK high \in Int : high = Max(V) /\ \A x \in V : x <= high
    BY <2>2, MinIs
  <2>5. PICK a \in Int : a = Quantile(s, 1)
    BY <1>1, <1>6, QuantilesGrow
  <2>6. PICK b \in Int : b = Quantile(s, 10)
    BY <1>1, <1>6, QuantilesGrow
  <2>7. PICK c \in Int : c = Quantile(s, 19)
    BY <1>1, <1>6, QuantilesGrow
  <2>8. a <= b /\ b <= c
    BY <1>1, <1>6, <2>5, <2>6, <2>7, QuantilesGrow
  <2>9. 20 * low <= a
    <3>1. PICK i, r : QuantileAt(s, n, 1, i, r)
      BY <1>1, <1>6, QuantileIs
    <3>2. i + 1 \in 1..n
      BY <3>1 DEF QuantileAt
    <3>3. PICK x \in Int : x = Ranked(s, i + 1) /\ x \in V
      BY <1>1, <2>1, <3>2, RankedIs
    <3>4. 20 * x <= a
      BY <1>1, <1>6, <2>5, <3>1, <3>3, QuantileBetween
    <3>5. low <= x
      BY <2>3, <3>3
    <3> QED BY <3>4, <3>5
  <2>10. c <= 20 * high
    <3>1. PICK i, r : QuantileAt(s, n, 19, i, r)
      BY <1>1, <1>6, QuantileIs
    <3>2. PICK k \in 1..n : k = IF r = 0 THEN i + 1 ELSE i + 2
      BY <3>1 DEF QuantileAt
    <3>3. PICK x \in Int : x = Ranked(s, k) /\ x \in V
      BY <1>1, <2>1, RankedIs
    <3>4. c <= 20 * x
      BY <1>1, <1>6, <2>7, <3>1, <3>2, <3>3, QuantileBetween
    <3>5. x <= high
      BY <2>4, <3>3
    <3> QED BY <3>4, <3>5
  <2>11. stats.values = <<20 * low, a, b, c, 20 * high>>
    BY <1>1, <1>2, <1>6, <2>1, <2>3, <2>4, <2>5, <2>6, <2>7 DEF Statistics
  <2>12. PICK w : w = stats.values
    OBVIOUS
  <2>13. /\ Len(w) = 5 /\ w[1] = 20 * low /\ w[2] = a /\ w[3] = b /\ w[4] = c /\ w[5] = 20 * high
         /\ w # <<>>
    BY <2>11, <2>12
  <2>14. \A k \in 1..Len(w) - 1 : w[k] <= w[k + 1]
    <3> SUFFICES ASSUME NEW k \in 1..Len(w) - 1 PROVE w[k] <= w[k + 1]
      OBVIOUS
    <3>1. k \in {1, 2, 3, 4}
      BY <2>13
    <3> QED BY <2>8, <2>9, <2>10, <2>13, <3>1
  <2> QED BY <1>2, <1>4, <2>12, <2>13, <2>14
<1> QED BY <1>5, <1>6

\* Integer division, by its defining bounds.
LEMMA DivisionIs ==
  ASSUME NEW x \in Nat, NEW w \in Nat \ {0}
  PROVE  x \div w \in Nat /\ w * (x \div w) <= x /\ x < w * (x \div w) + w
<1>1. PICK d : d = x \div w
  OBVIOUS
<1>2. d \in Int /\ w * d <= x /\ x < w * (d + 1)
  BY <1>1
<1>3. w * (d + 1) = w * d + w
  BY <1>2
<1>4. d \in Nat
  BY <1>1
<1> QED BY <1>1, <1>2, <1>3, <1>4

LEMMA FactorsOrder ==
  ASSUME NEW a \in Int, NEW b \in Int, NEW w \in Nat \ {0}, w * a < w * b
  PROVE  a < b
<1>1. b <= a => b * w <= a * w
  BY TimesGrows
<1>2. PICK x \in Int : x = a * w
  OBVIOUS
<1>3. PICK y \in Int : y = b * w
  OBVIOUS
<1>4. x = w * a /\ y = w * b
  BY <1>2, <1>3
<1> QED BY <1>1, <1>2, <1>3, <1>4

\* Spreading w + 1 points over m + 1 places, one of them the first and one the last.
LEMMA PointsSpread ==
  ASSUME NEW m \in Nat, NEW w \in Nat \ {0}, w < m
  PROVE  /\ (0 * m) \div w = 0 /\ (w * m) \div w = m
         /\ \A k \in 0..w : (k * m) \div w \in 0..m
         /\ \A k \in 0..(w - 1) : (k * m) \div w < ((k + 1) * m) \div w
<1>1. ASSUME NEW k \in 0..w
      PROVE  /\ (k * m) \div w \in Nat
             /\ w * ((k * m) \div w) <= k * m /\ k * m < w * ((k * m) \div w) + w
  <2>1. PICK x \in Nat : x = k * m
    <3>1. k \in Nat
      OBVIOUS
    <3> QED BY <3>1
  <2> QED BY <2>1, DivisionIs
<1>2. (0 * m) \div w = 0
  <2>1. PICK d \in Nat : d = (0 * m) \div w
    BY <1>1
  <2>2. w * d <= 0
    <3>1. 0 \in 0..w /\ 0 * m = 0
      OBVIOUS
    <3> QED BY <1>1, <2>1, <3>1
  <2>3. d >= 1 => 1 * w <= d * w
    BY <2>1, TimesGrows
  <2>4. d * w = w * d
    BY <2>1
  <2> QED BY <2>1, <2>2, <2>3, <2>4
<1>3. (w * m) \div w = m
  <2>1. w \in 0..w
    OBVIOUS
  <2>2. PICK d \in Nat : d = (w * m) \div w
    BY <1>1, <2>1
  <2>3. w * d <= w * m /\ w * m < w * d + w
    BY <1>1, <2>1, <2>2
  <2>4. w * d + w = w * (d + 1) /\ w * (m + 1) = w * m + w
    BY <2>2
  <2>5. m < d + 1
    <3>1. w * m < w * (d + 1)
      BY <2>3, <2>4
    <3> QED BY <2>2, <3>1, FactorsOrder
  <2>6. d < m + 1
    <3>1. PICK y \in Int : y = w * m
      OBVIOUS
    <3>2. PICK z \in Int : z = w * d
      BY <2>2
    <3>3. w * d < w * (m + 1)
      BY <2>3, <2>4, <3>1, <3>2
    <3> QED BY <2>2, <3>3, FactorsOrder
  <2> QED BY <2>2, <2>5, <2>6
<1>4. ASSUME NEW k \in 0..(w - 1)
      PROVE  (k * m) \div w < ((k + 1) * m) \div w
  <2>1. k \in 0..w /\ k + 1 \in 0..w /\ k \in Nat
    OBVIOUS
  <2>2. PICK d \in Nat : d = (k * m) \div w
    BY <1>1, <2>1
  <2>3. PICK e \in Nat : e = ((k + 1) * m) \div w
    BY <1>1, <2>1
  <2>4. PICK x \in Nat : x = k * m
    BY <2>1
  <2>5. (k + 1) * m = x + m
    BY <2>1, <2>4
  <2>6. PICK y \in Nat : y = w * d
    BY <2>2
  <2>7. PICK z \in Nat : z = w * e
    BY <2>3
  <2>8. y <= x
    BY <1>1, <2>1, <2>2, <2>4, <2>6
  <2>9. x + m < z + w
    BY <1>1, <2>1, <2>3, <2>5, <2>7
  <2>10. y < z
    BY <2>8, <2>9
  <2> QED BY <2>2, <2>3, <2>6, <2>7, <2>10, FactorsOrder
<1>5. ASSUME NEW k \in 0..w PROVE (k * m) \div w \in 0..m
  <2>1. PICK d \in Nat : d = (k * m) \div w
    BY <1>1
  <2>2. PICK x \in Nat : x = k * m
    <3>1. k \in Nat
      OBVIOUS
    <3> QED BY <3>1
  <2>3. w * d <= x
    BY <1>1, <2>1, <2>2
  <2>4. k * m <= w * m
    BY TimesGrows
  <2>5. PICK y \in Nat : y = w * m
    OBVIOUS
  <2>6. w * (m + 1) = y + w
    BY <2>5
  <2>7. PICK z \in Nat : z = w * d
    BY <2>1
  <2>8. z < y + w
    BY <2>2, <2>3, <2>4, <2>5, <2>7
  <2>9. w * d < w * (m + 1)
    BY <2>6, <2>7, <2>8
  <2>10. d < m + 1
    BY <2>1, <2>9, FactorsOrder
  <2> QED BY <2>1, <2>10
<1> QED BY <1>2, <1>3, <1>4, <1>5

\* What a chart shows of a series: an increasing choice of its samples, with both ends.
LEMMA ShownIs ==
  ASSUME NEW s \in Seq(Int)
  PROVE  /\ DOMAIN Shown(s) = 1..Len(Shown(s)) /\ Len(Shown(s)) \in Nat
         /\ Len(Shown(s)) <= ShownSamples \/ Len(Shown(s)) = Len(s)
         /\ \A k \in 1..Len(Shown(s)) : Shown(s)[k] \in 1..Len(s)
         /\ s # <<>> => Shown(s)[1] = 1 /\ Shown(s)[Len(Shown(s))] = Len(s)
         /\ \A k \in 1..Len(Shown(s)) - 1 : Shown(s)[k] < Shown(s)[k + 1]
<1>1. PICK n \in Nat : n = Len(s)
  OBVIOUS
<1>2. PICK h : h = Shown(s)
  OBVIOUS
<1>3. CASE n <= ShownSamples
  <2>1. h = [k \in 1..n |-> k]
    BY <1>1, <1>2, <1>3 DEF Shown
  <2>2. Len(h) = n /\ DOMAIN h = 1..n
    BY <2>1
  <2>3. s # <<>> => n # 0
    BY <1>1
  <2>4. \A k \in 1..n : h[k] = k
    BY <2>1
  <2>5. n # 0 => h[1] = 1 /\ h[n] = n
    BY <2>4
  <2>6. \A k \in 1..(n - 1) : h[k] < h[k + 1]
    BY <2>4
  <2> QED BY <1>1, <1>2, <2>2, <2>3, <2>4, <2>5, <2>6
<1>4. CASE ~(n <= ShownSamples)
  <2>1. PICK w \in Nat \ {0} : w = ShownSamples - 1
    BY ReportModelAssumption
  <2>2. PICK m \in Nat : m = n - 1
    BY <1>4, ReportModelAssumption
  <2>3. w < m /\ ShownSamples = w + 1 /\ n = m + 1
    BY <1>4, <2>1, <2>2, ReportModelAssumption
  <2>4. h = [k \in 1..(w + 1) |-> 1 + ((k - 1) * m) \div w]
    BY <1>1, <1>2, <1>4, <2>1, <2>2, <2>3 DEF Shown
  <2>5. Len(h) = w + 1 /\ DOMAIN h = 1..(w + 1)
    BY <2>4
  <2>6. \A k \in 0..w : h[k + 1] = 1 + (k * m) \div w
    <3> SUFFICES ASSUME NEW k \in 0..w PROVE h[k + 1] = 1 + (k * m) \div w
      OBVIOUS
    <3>1. k + 1 \in 1..(w + 1) /\ (k + 1) - 1 = k
      OBVIOUS
    <3> QED BY <2>4, <3>1
  <2>7. /\ (0 * m) \div w = 0 /\ (w * m) \div w = m
        /\ \A k \in 0..w : (k * m) \div w \in 0..m
        /\ \A k \in 0..(w - 1) : (k * m) \div w < ((k + 1) * m) \div w
    BY <2>3, PointsSpread
  <2>8. h[1] = 1 /\ h[w + 1] = n
    <3>1. 0 \in 0..w /\ w \in 0..w /\ 0 + 1 = 1
      OBVIOUS
    <3> QED BY <2>3, <2>6, <2>7, <3>1
  <2>9. \A k \in 1..(w + 1) : h[k] \in 1..n
    <3> SUFFICES ASSUME NEW k \in 1..(w + 1) PROVE h[k] \in 1..n
      OBVIOUS
    <3>1. PICK j \in 0..w : k = j + 1
      <4>1. k - 1 \in 0..w /\ k = (k - 1) + 1
        OBVIOUS
      <4> QED BY <4>1
    <3>2. PICK d \in 0..m : d = (j * m) \div w
      BY <2>7
    <3>3. h[k] = 1 + d
      BY <2>6, <3>1, <3>2
    <3> QED BY <2>3, <3>3
  <2>10. \A k \in 1..w : h[k] < h[k + 1]
    <3> SUFFICES ASSUME NEW k \in 1..w PROVE h[k] < h[k + 1]
      OBVIOUS
    <3>1. PICK j \in 0..(w - 1) : k = j + 1
      <4>1. k - 1 \in 0..(w - 1) /\ k = (k - 1) + 1
        OBVIOUS
      <4> QED BY <4>1
    <3>2. j \in 0..w /\ j + 1 \in 0..w
      OBVIOUS
    <3>3. PICK d \in 0..m : d = (j * m) \div w
      BY <2>7, <3>2
    <3>4. PICK e \in 0..m : e = ((j + 1) * m) \div w
      BY <2>7, <3>2
    <3>5. h[k] = 1 + d
      BY <2>6, <3>1, <3>2, <3>3
    <3>6. h[k + 1] = 1 + e
      BY <2>6, <3>1, <3>2, <3>4
    <3>7. d < e
      BY <2>7, <3>3, <3>4
    <3> QED BY <3>5, <3>6, <3>7
  <2>11. (w + 1) - 1 = w
    OBVIOUS
  <2> QED BY <1>1, <1>2, <2>3, <2>5, <2>8, <2>9, <2>10, <2>11
<1> QED BY <1>3, <1>4

\* What is drawn lies strictly inside the axis.
LEMMA AxisHolds ==
  ASSUME NEW s \in Seq(Int)
  PROVE  /\ YRange(s)[1] < YRange(s)[2]
         /\ \A k \in DOMAIN Shown(s) : s[Shown(s)[k]] # NonFinite =>
              YRange(s)[1] < 20 * s[Shown(s)[k]] /\ 20 * s[Shown(s)[k]] < YRange(s)[2]
<1>1. PICK h : h = Shown(s)
  OBVIOUS
<1>2. PICK D : D = {s[Shown(s)[k]] : k \in DOMAIN Shown(s)} \ {NonFinite}
  OBVIOUS
<1>3. \A k \in DOMAIN h : h[k] \in DOMAIN s
  BY <1>1, ShownIs
<1>4. D \subseteq FiniteValues(s)
  BY <1>1, <1>2, <1>3 DEF FiniteValues, FiniteAt
<1>5. IsFiniteSet(D) /\ D \subseteq Int
  BY <1>4, FinitesAre, FS_Subset
<1>6. PICK low : low = IF D = {} THEN 0 ELSE Min(D)
  OBVIOUS
<1>7. PICK high : high = IF D = {} THEN 1 ELSE Max(D)
  OBVIOUS
<1>8. /\ low \in Int /\ high \in Int /\ low <= high
      /\ \A x \in D : low <= x /\ x <= high
  <2>1. CASE D = {}
    BY <1>6, <1>7, <2>1
  <2>2. CASE D # {}
    <3>1. /\ Min(D) \in D /\ \A y \in D : Min(D) <= y
          /\ Max(D) \in D /\ \A y \in D : y <= Max(D)
      BY <1>5, <2>2, MinIs
    <3>2. low = Min(D) /\ high = Max(D)
      BY <1>6, <1>7, <2>2
    <3> QED BY <1>5, <3>1, <3>2
  <2> QED BY <2>1, <2>2
<1>9. PICK margin : margin = IF low # high THEN high - low
                             ELSE IF low \in -10..10 THEN 10 ELSE IF low > 0 THEN low ELSE -low
  OBVIOUS
<1>10. margin \in Int /\ 0 < margin
  <2>1. CASE low # high
    BY <1>8, <1>9, <2>1
  <2>2. CASE low = high /\ low \in -10..10
    BY <1>9, <2>2
  <2>3. CASE low = high /\ low \notin -10..10
    <3>1. low \in Int /\ low # 0 /\ (0 <= low \/ low < 0)
      BY <1>8, <2>3
    <3>2. margin = IF low > 0 THEN low ELSE -low
      BY <1>9, <2>3
    <3> QED BY <3>1, <3>2
  <2> QED BY <2>1, <2>2, <2>3
<1>11. YRange(s) = <<20 * low - margin, 20 * high + margin>>
  BY <1>2, <1>6, <1>7, <1>9 DEF YRange
<1>12. PICK bottom \in Int : bottom = 20 * low - margin
  <2>1. low \in Int
    BY <1>8
  <2>2. margin \in Int
    BY <1>10
  <2>3. 20 * low - margin \in Int
    BY <2>1, <2>2
  <2> QED BY <2>3
<1>13. PICK top \in Int : top = 20 * high + margin
  BY <1>8, <1>10
<1>14. YRange(s)[1] = bottom /\ YRange(s)[2] = top
  BY <1>11, <1>12, <1>13
<1>15. bottom < top
  BY <1>8, <1>10, <1>12, <1>13
<1>16. \A x \in D : bottom < 20 * x /\ 20 * x < top
  <2> SUFFICES ASSUME NEW x \in D PROVE bottom < 20 * x /\ 20 * x < top
    OBVIOUS
  <2>1. x \in Int /\ low <= x /\ x <= high
    BY <1>5, <1>8
  <2> QED BY <1>8, <1>10, <1>12, <1>13, <2>1
<1>17. \A k \in DOMAIN Shown(s) : s[Shown(s)[k]] # NonFinite => s[Shown(s)[k]] \in D
  BY <1>2
<1> QED BY <1>14, <1>15, <1>16, <1>17

LEMMA SeriesHold ==
  ASSUME ReportModelInv
  PROVE  SeriesAreSound
<1>1. samples \in Seq(Int)
  <2>1. Samples \cup {NonFinite} \subseteq Int
    BY ReportModelAssumption
  <2>2. samples \in Seq(Samples \cup {NonFinite})
    BY DEF ReportModelInv
  <2> QED BY <2>1, <2>2
<1>2. PICK stats : stats = Statistics(samples)
  OBVIOUS
<1>3. /\ stats.n + stats.nonFinite = Len(samples)
      /\ \A k \in 1..Len(stats.values) - 1 : stats.values[k] <= stats.values[k + 1]
      /\ stats.deviation => stats.values # <<>>
  BY <1>1, <1>2, StatisticsHold
<1>4. PICK shown : shown = Shown(samples)
  OBVIOUS
<1>5. /\ Len(shown) <= ShownSamples \/ Len(shown) = Len(samples)
      /\ samples # <<>> => shown[1] = 1 /\ shown[Len(shown)] = Len(samples)
      /\ \A k \in 1..Len(shown) - 1 : shown[k] < shown[k + 1]
  BY <1>1, <1>4, ShownIs
<1>6. PICK range : range = YRange(samples)
  OBVIOUS
<1>7. /\ range[1] < range[2]
      /\ \A k \in DOMAIN shown : samples[shown[k]] # NonFinite =>
           range[1] < 20 * samples[shown[k]] /\ 20 * samples[shown[k]] < range[2]
  BY <1>1, <1>4, <1>6, AxisHolds
<1> QED BY <1>2, <1>3, <1>4, <1>5, <1>6, <1>7 DEF SeriesAreSound

\* At any moment of any run, for any number of tasks, rollouts and samples, a
\* report's denominators add up, its statistics are ordered and count every sample,
\* and a chart keeps the ends of a series and draws inside its axis (derived.py,
\* _success_summary, _descriptive_statistics, _downsample and the chart's range).
THEOREM ReportsStayFaithful == ReportModelSpec => []ReportsAreFaithful
<1>1. ReportModelInit => ReportModelInv
  BY ReportModelInitially
<1>2. ReportModelInv /\ [ReportModelNext]_reportModelVars => ReportModelInv'
  <2> SUFFICES ASSUME ReportModelInv, [ReportModelNext]_reportModelVars
               PROVE  ReportModelInv'
    OBVIOUS
  <2>1. ASSUME NEW t \in ReportTasks, NEW s \in Endings, EpisodeRecorded(t, s)
        PROVE  ReportModelInv'
    BY <2>1, RecordingKeeps
  <2>2. CASE \E s \in {"completed", "failed", "aborted"} : samples = <<>> /\ RunEnded(s)
    BY <2>2, ReportRestKeeps
  <2>3. CASE \E x \in Samples \cup {NonFinite} : SampleRecorded(x)
    BY <2>3, ReportRestKeeps
  <2>4. CASE UNCHANGED reportModelVars
    BY <2>4, ReportRestKeeps
  <2> QED BY <2>1, <2>2, <2>3, <2>4 DEF ReportModelNext
<1>3. ReportModelInv => ReportsAreFaithful
  BY OutcomesHold, SeriesHold DEF ReportsAreFaithful
<1> QED BY <1>1, <1>2, <1>3, PTL DEF ReportModelSpec
=============================================================================
