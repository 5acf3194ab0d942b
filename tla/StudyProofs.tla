----------------------------- MODULE StudyProofs -----------------------------
(***************************************************************************)
(* The safety of a historical study, for any market, schedule, baseline    *)
(* and assumptions: how the events of a scenario are assembled and         *)
(* ordered, what funding they settle and on which position, what exposure  *)
(* and valuation say of that position, and that nothing of it rests on     *)
(* what the market did later.  How amounts round is no part of it.         *)
(***************************************************************************)
EXTENDS Study, OrderProofs, SequenceTheorems

-----------------------------------------------------------------------------
(* Events in accounting order. *)

\* Events of some time, kind and number, of which no two agree in all three.
Distinguished(s) ==
    /\ \A i \in DOMAIN s : /\ s[i].time \in Int /\ s[i].seq \in Int
                           /\ s[i].kind \in {"funding", "fill", "mark"}
    /\ \A i, j \in DOMAIN s : Key(s[i]) = Key(s[j]) => i = j

LEMMA PriorityNatural ==
    ASSUME NEW e, e.kind \in {"funding", "fill", "mark"}
    PROVE  Priority(e) \in {0, 1, 2}
BY DEF Priority

\* Ordering them loses none, repeats none and sorts them.
Reorders(run, s, m, places) ==
    /\ run = [k \in 1..m |-> s[places[k]]]
    /\ \A k \in 1..m : places[k] \in 1..m
    /\ \A i \in 1..m : \E k \in 1..m : places[k] = i
    /\ \A j, k \in 1..m : places[j] = places[k] => j = k
    /\ \A j, k \in 1..m : j < k => Before(s[places[j]], s[places[k]])

LEMMA OrderedSorts ==
    ASSUME NEW s, NEW m \in Nat, DOMAIN s = 1..m, Distinguished(s)
    PROVE  \E places : Reorders(Ordered(s), s, m, places)
<1>. DEFINE S == 1..m
            R == {q \in S \X S : Before(s[q[1]], s[q[2]])}
            places == [k \in 1..Cardinality(S) |->
                         CHOOSE x \in S : Cardinality({y \in S : Before(s[y], s[x])}) = k - 1]
<1>1. IsFiniteSet(S) /\ Cardinality(S) = m
  BY FS_Interval
<1>2. \A i \in S : s[i].time \in Int /\ s[i].seq \in Int /\ Priority(s[i]) \in {0, 1, 2}
  BY PriorityNatural DEF Distinguished
<1>3. \A i, j \in S : <<i, j>> \in R <=> Before(s[i], s[j])
  OBVIOUS
<1>4. IsStrictOrder(R, S)
  <2>. HIDE DEF R
  <2>1. \A x \in S : <<x, x>> \notin R
    BY <1>2, <1>3 DEF Before
  <2>2. \A x, y, z \in S : <<x, y>> \in R /\ <<y, z>> \in R => <<x, z>> \in R
    <3>1. ASSUME NEW x \in S, NEW y \in S, NEW z \in S,
                 Before(s[x], s[y]), Before(s[y], s[z])
          PROVE  Before(s[x], s[z])
      BY <1>2, <3>1 DEF Before
    <3>. QED  BY <1>3, <3>1
  <2>3. ASSUME NEW x \in S, NEW y \in S PROVE x = y \/ <<x, y>> \in R \/ <<y, x>> \in R
    <3>1. \/ Key(s[x]) = Key(s[y]) \/ Before(s[x], s[y]) \/ Before(s[y], s[x])
      BY <1>2 DEF Before, Key
    <3>. QED  BY <1>3, <3>1 DEF Distinguished
  <2>. QED  BY <2>1, <2>2, <2>3 DEF IsStrictOrder
<1>5. ASSUME NEW k \in 1..Cardinality(S), \E x \in S : Cardinality(Prior(R, S, x)) = k - 1
      PROVE  places[k] \in S /\ Cardinality(Prior(R, S, places[k])) = k - 1
  <2>1. \A x \in S : {y \in S : Before(s[y], s[x])} = Prior(R, S, x)
    BY <1>3 DEF Prior
  <2>. HIDE DEF R
  <2>2. \E x \in S : Cardinality({y \in S : Before(s[y], s[x])}) = k - 1
    BY <1>5, <2>1
  <2>3. places[k] \in S /\ Cardinality({y \in S : Before(s[y], s[places[k]])}) = k - 1
    BY <2>2
  <2>. QED  BY <2>1, <2>3
<1>6. Ordered(s) = [k \in 1..m |-> s[places[k]]]
  BY DEF Ordered, InOrder
<1>. HIDE DEF R, places
<1>7. IsRanking(places, R, S)
  BY <1>5 DEF IsRanking
<1>8. Arranges(places, R, S)
  BY <1>1, <1>4, <1>7, Sorts
<1>9. /\ \A k \in 1..m : places[k] \in 1..m
      /\ \A i \in 1..m : \E k \in 1..m : places[k] = i
      /\ \A j, k \in 1..m : j < k => <<places[j], places[k]>> \in R
      /\ \A j, k \in 1..m : places[j] = places[k] => j = k
  BY <1>1, <1>8 DEF Arranges
<1>10. \A j, k \in 1..m : j < k => Before(s[places[j]], s[places[k]])
  BY <1>3, <1>9
<1>. QED  BY <1>6, <1>9, <1>10 DEF Reorders

-----------------------------------------------------------------------------
(* Requests. *)

\* What the types of a request say of its parts.
LEMMA RequestFacts ==
    ASSUME NEW r, IsRequest(r)
    PROVE  /\ IsFiniteSet(r.market.funding) /\ IsFiniteSet(r.market.oracles)
           /\ \A f \in r.market.funding : f \in FundingRow /\ f.time \in Int
           /\ \A o \in r.market.oracles : o \in OracleRow /\ o.time \in Int
           /\ \A c \in r.market.candles : c \in CandleRow /\ c.time \in Int /\ c.interval \in Nat \ {0}
           /\ r.market \in Market /\ r.plan \in Plan /\ r.terms \in Terms
           /\ r.terms.latency \in Int /\ r.terms.execution \in Nat \ {0}
           /\ r.terms.marking \in Nat \ {0}
<1>1. /\ r.market \in Market /\ r.plan \in Plan /\ r.terms \in Terms
      /\ IsFiniteSet(r.market.funding) /\ IsFiniteSet(r.market.oracles)
  BY DEF IsRequest
<1>2. /\ r.terms.latency \in Int /\ r.terms.execution \in Nat \ {0}
      /\ r.terms.marking \in Nat \ {0}
  BY <1>1 DEF Terms
<1>3. /\ r.market.funding \in SUBSET FundingRow /\ r.market.oracles \in SUBSET OracleRow
      /\ r.market.candles \in SUBSET CandleRow
  BY <1>1 DEF Market
<1>4. /\ \A f \in FundingRow : f.time \in Int
      /\ \A o \in OracleRow : o.time \in Int
      /\ \A c \in CandleRow : c.time \in Int /\ c.interval \in Nat \ {0}
  BY DEF FundingRow, OracleRow, CandleRow
<1>. QED  BY <1>1, <1>2, <1>3, <1>4

\* A plan is a schedule or a specification.
LEMMA PlanFacts ==
    ASSUME NEW plan \in Plan
    PROVE  /\ plan.kind = "supplied" => plan.schedule \in Seq([time : Int, target : Int])
           /\ plan.kind # "supplied" => plan.spec.interval \in Nat \ {0} /\ plan.spec.quantity \in Int
BY DEF Plan

-----------------------------------------------------------------------------
(* Fills. *)

\* n intents, each of a time and a target.
IsIntents(schedule, n) ==
    /\ n \in Nat /\ DOMAIN schedule = 1..n
    /\ \A i \in 1..n : schedule[i].time \in Int /\ schedule[i].target \in Int

\* Fills one after the other, numbered, each of the change that its target makes.
Chained(fills) ==
    /\ \A i \in 1..Len(fills) :
          /\ fills[i].seq = i - 1
          /\ fills[i].delta = fills[i].target - (IF i = 1 THEN 0 ELSE fills[i - 1].target)
    /\ \A i, j \in 1..Len(fills) : i < j => fills[i].time < fills[j].time

FillOf(candles) ==
    [time : Start..(End - 1), target : Int, delta : Int, seq : Nat, reference : {c.first : c \in candles}]

Filled(candles) == {fills \in Seq(FillOf(candles)) : Chained(fills)}

\* What comes after some fills keeps them and adds none before a time.
Grown(fills, next, t) ==
    /\ fills # Refused /\ Len(fills) <= Len(next)
    /\ \A i \in 1..Len(fills) : next[i] = fills[i]
    /\ \A i \in 1..Len(next) : i > Len(fills) => next[i].time >= t

LEMMA FilledFacts ==
    ASSUME NEW candles, NEW fills \in Filled(candles)
    PROVE  /\ Len(fills) \in Nat /\ DOMAIN fills = 1..Len(fills) /\ Chained(fills)
           /\ \A i \in 1..Len(fills) :
                 /\ fills[i] \in FillOf(candles) /\ fills[i].time \in Start..(End - 1)
                 /\ fills[i].time \in Int /\ fills[i].target \in Int /\ fills[i].delta \in Int
           /\ Position(fills) = IF Len(fills) = 0 THEN 0 ELSE fills[Len(fills)].target
           /\ Position(fills) \in Int
<1>1. fills \in Seq(FillOf(candles)) /\ Chained(fills)
  BY DEF Filled
<1>2. /\ Len(fills) \in Nat /\ DOMAIN fills = 1..Len(fills)
      /\ \A i \in 1..Len(fills) : fills[i] \in FillOf(candles)
  BY <1>1, LenProperties, ElementOfSeq
<1>3. \A f \in FillOf(candles) : f.time \in Start..(End - 1) /\ f.target \in Int /\ f.delta \in Int
  BY DEF FillOf
<1>4. fills = <<>> <=> Len(fills) = 0
  BY <1>1, EmptySeq
<1>5. Position(fills) = IF Len(fills) = 0 THEN 0 ELSE fills[Len(fills)].target
  BY <1>4 DEF Position, Last
<1>6. \A i \in 1..Len(fills) :
         /\ fills[i].time \in Start..(End - 1) /\ fills[i].time \in Int
         /\ fills[i].target \in Int /\ fills[i].delta \in Int
  BY <1>2, <1>3, AlignmentAssumption
<1>. QED  BY <1>1, <1>2, <1>5, <1>6

LEMMA ExecuteFills ==
    ASSUME NEW intent, intent.time \in Int, intent.target \in Int, NEW candles, NEW terms,
           \A c \in candles : c.time \in Start..(End - 1), terms.latency \in Nat,
           NEW fills \in Filled(candles) \cup {Refused},
           NEW next, next = Execute(fills, intent, candles, terms)
    PROVE  /\ next \in Filled(candles) \cup {Refused}
           /\ next # Refused => Grown(fills, next, intent.time)
<1>. DEFINE delta == intent.target - Position(fills)
            eligible == Eligible(candles, intent.time + terms.latency)
            candle == CHOOSE c \in eligible : TRUE
            fill == [time |-> candle.time, target |-> intent.target, delta |-> delta,
                     seq |-> Len(fills), reference |-> candle.first]
<1>1. CASE next = Refused
  BY <1>1
<1>2. CASE next = fills /\ fills # Refused
  <2>1. Len(fills) \in Nat
    BY <1>2, FilledFacts
  <2>. QED  BY <1>2, <2>1 DEF Grown
<1>3. CASE /\ fills # Refused /\ eligible # {} /\ next = Append(fills, fill)
           /\ fills # <<>> => ~(intent.time <= Last(fills).time)
  <2>1. /\ fills \in Seq(FillOf(candles)) /\ Chained(fills)
        /\ Len(fills) \in Nat
        /\ \A i \in 1..Len(fills) : fills[i].time \in Int
        /\ Position(fills) = IF Len(fills) = 0 THEN 0 ELSE fills[Len(fills)].target
        /\ Position(fills) \in Int
    BY <1>3, FilledFacts DEF Filled
  <2>2. candle \in candles /\ candle.time >= intent.time + terms.latency
    BY <1>3 DEF Eligible
  <2>3. candle.time \in Start..(End - 1) /\ candle.time \in Int /\ candle.time >= intent.time
    BY <2>2, AlignmentAssumption
  <2>4. delta \in Int
    BY <2>1
  <2>. HIDE DEF candle
  <2>5. fill \in FillOf(candles)
    BY <2>1, <2>2, <2>3, <2>4 DEF FillOf
  <2>6. /\ fill.time = candle.time /\ fill.seq = Len(fills) /\ fill.target = intent.target
        /\ fill.delta = intent.target - Position(fills)
    OBVIOUS
  <2>. HIDE DEF fill, eligible, delta
  <2>7. /\ next \in Seq(FillOf(candles)) /\ Len(next) = Len(fills) + 1
        /\ next[Len(fills) + 1] = fill
        /\ \A i \in 1..Len(fills) : next[i] = fills[i]
    BY <1>3, <2>1, <2>5, AppendProperties
  <2>8. \A i \in 1..Len(fills) : fills[i].time < fill.time
    <3>1. CASE Len(fills) = 0
      BY <3>1
    <3>2. CASE Len(fills) # 0
      <4>1. fills # <<>> /\ Len(fills) \in 1..Len(fills)
        BY <2>1, <3>2, EmptySeq
      <4>2. fills[Len(fills)].time < fill.time
        BY <1>3, <2>1, <2>3, <2>6, <4>1 DEF Last
      <4>3. \A i \in 1..Len(fills) : i = Len(fills) \/ fills[i].time < fills[Len(fills)].time
        BY <2>1, <4>1 DEF Chained
      <4>. QED  BY <2>1, <2>3, <2>6, <4>1, <4>2, <4>3
    <3>. QED  BY <3>1, <3>2
  <2>9. Chained(next)
    <3>1. ASSUME NEW i \in 1..Len(next)
          PROVE  /\ next[i].seq = i - 1
                 /\ next[i].delta = next[i].target - (IF i = 1 THEN 0 ELSE next[i - 1].target)
      <4>1. CASE i \in 1..Len(fills)
        <5>1. next[i] = fills[i] /\ (i # 1 => next[i - 1] = fills[i - 1])
          BY <2>1, <2>7, <4>1
        <5>2. /\ fills[i].seq = i - 1
              /\ fills[i].delta = fills[i].target - (IF i = 1 THEN 0 ELSE fills[i - 1].target)
          BY <2>1, <4>1 DEF Chained
        <5>. QED  BY <5>1, <5>2
      <4>2. CASE i = Len(fills) + 1
        <5>1. next[i] = fill /\ (i # 1 => next[i - 1] = fills[Len(fills)])
          BY <2>1, <2>7, <4>2
        <5>2. Position(fills) = IF i = 1 THEN 0 ELSE next[i - 1].target
          BY <2>1, <4>2, <5>1
        <5>. QED  BY <2>1, <2>6, <4>2, <5>1, <5>2
      <4>. QED  BY <2>1, <2>7, <4>1, <4>2
    <3>2. ASSUME NEW i \in 1..Len(next), NEW j \in 1..Len(next), i < j
          PROVE  next[i].time < next[j].time
      <4>1. i \in 1..Len(fills) /\ next[i] = fills[i]
        BY <2>1, <2>7, <3>2
      <4>2. CASE j \in 1..Len(fills)
        BY <2>1, <2>7, <3>2, <4>1, <4>2 DEF Chained
      <4>3. CASE j = Len(fills) + 1
        BY <2>7, <2>8, <4>1, <4>3
      <4>. QED  BY <2>1, <2>7, <4>2, <4>3
    <3>. QED  BY <3>1, <3>2 DEF Chained
  <2>10. Grown(fills, next, intent.time)
    <3>1. \A i \in 1..Len(next) : i > Len(fills) => next[i].time >= intent.time
      BY <2>1, <2>3, <2>6, <2>7
    <3>2. Len(fills) <= Len(next)
      BY <2>1, <2>7
    <3>. QED  BY <1>3, <2>7, <3>1, <3>2 DEF Grown
  <2>. QED  BY <2>7, <2>9, <2>10 DEF Filled
<1>4. \/ next = Refused
      \/ next = fills /\ fills # Refused
      \/ /\ fills # Refused /\ eligible # {} /\ next = Append(fills, fill)
         /\ fills # <<>> => ~(intent.time <= Last(fills).time)
  BY DEF Execute, NextFill
<1>. QED  BY <1>1, <1>2, <1>3, <1>4

\* The fills after each of the first n intents.
FillsBy(it, schedule, n, candles, terms) ==
    /\ it[0] = <<>>
    /\ \A k \in 1..n : it[k] = Execute(it[k - 1], schedule[k], candles, terms)
    /\ \A k \in 0..n : it[k] \in Filled(candles) \cup {Refused}

LEMMA FillsRun ==
    ASSUME NEW schedule, NEW n, IsIntents(schedule, n), NEW candles, NEW terms,
           \A c \in candles : c.time \in Start..(End - 1), terms.latency \in Nat
    PROVE  \E it : FillsBy(it, schedule, n, candles, terms) /\ Fills(schedule, candles, terms) = it[n]
<1>1. n \in Nat /\ DOMAIN schedule = 1..n
  BY DEF IsIntents
<1>. DEFINE A == Filled(candles) \cup {Refused}
            G == [q \in (1..n) \X A |-> Execute(q[2], schedule[q[1]], candles, terms)]
            Obeys(it) == it = [s \in SUBSET DOMAIN schedule |->
                                  IF s = {} THEN <<>>
                                  ELSE Execute(it[s \ {Max(s)}], schedule[Max(s)], candles, terms)]
<1>2. <<>> \in A
  BY EmptySeq DEF Filled, Chained
<1>3. Accumulates(n, A, <<>>, G)
  <2>1. \A i \in 1..n, acc \in A : Execute(acc, schedule[i], candles, terms) \in A
    BY ExecuteFills DEF IsIntents
  <2>. QED  BY <1>1, <1>2, <2>1 DEF Accumulates
<1>. HIDE DEF A
<1>4. \E it : Obeys(it)
  <2>1. PICK it \in [SUBSET (1..n) -> A] : Folds(it, n, <<>>, G)
    <3>. HIDE DEF G
    <3>. QED  BY <1>3, FoldDefined
  <2>2. ASSUME NEW s \in SUBSET (1..n), s # {}
        PROVE  it[s] = Execute(it[s \ {Max(s)}], schedule[Max(s)], candles, terms)
    <3>1. Max(s) \in 1..n /\ it[s \ {Max(s)}] \in A
      BY <1>1, <2>2, LargestIn
    <3>. QED  BY <2>1, <2>2, <3>1 DEF Folds
  <2>3. Obeys(it)
    BY <1>1, <2>1, <2>2 DEF Folds
  <2>. QED  BY <2>3
<1>. DEFINE it == CHOOSE it : Obeys(it)
<1>5. Obeys(it) /\ Fills(schedule, candles, terms) = it[1..n]
  BY <1>1, <1>4 DEF Fills, FoldLeft, MapThenFoldSet
<1>. HIDE DEF it
<1>6. IsFold(it, n, A, <<>>, G)
  <2>1. it[{}] = <<>>
    BY <1>1, <1>5
  <2>2. ASSUME NEW s \in SUBSET (1..n), s # {}, it[s \ {Max(s)}] \in A
        PROVE  it[s] = G[<<Max(s), it[s \ {Max(s)}]>>]
    <3>1. Max(s) \in 1..n
      BY <1>1, <2>2, LargestIn
    <3>2. it[s] = Execute(it[s \ {Max(s)}], schedule[Max(s)], candles, terms)
      BY <1>1, <1>5, <2>2
    <3>. QED  BY <2>2, <3>1, <3>2
  <2>. QED  BY <2>1, <2>2 DEF IsFold
<1>7. /\ \A k \in 0..n : it[1..k] \in A
      /\ it[1..0] = <<>>
      /\ \A k \in 1..n : it[1..k] = G[<<k, it[1..(k - 1)]>>]
  <2>. HIDE DEF G
  <2>1. \A k \in 0..n : /\ it[1..k] \in A
                        /\ k = 0 => it[1..k] = <<>>
                        /\ k > 0 => it[1..k] = G[<<k, it[1..(k - 1)]>>]
    BY <1>3, <1>6, FoldRuns
  <2>2. 0 \in 0..n /\ \A k \in 1..n : k \in 0..n /\ k > 0
    BY <1>1
  <2>. QED  BY <2>1, <2>2, Zenon
<1>. DEFINE run == [k \in 0..n |-> it[1..k]]
<1>8. FillsBy(run, schedule, n, candles, terms)
  <2>1. run[0] = <<>>
    BY <1>1, <1>7
  <2>2. ASSUME NEW k \in 1..n PROVE run[k] = Execute(run[k - 1], schedule[k], candles, terms)
    <3>1. k \in 0..n /\ k - 1 \in 0..n
      BY <1>1
    <3>2. it[1..(k - 1)] \in A
      BY <1>7, <3>1
    <3>3. it[1..k] = Execute(it[1..(k - 1)], schedule[k], candles, terms)
      BY <1>7, <3>2
    <3>. QED  BY <3>1, <3>3
  <2>3. \A k \in 0..n : run[k] \in Filled(candles) \cup {Refused}
    BY <1>7 DEF A
  <2>. HIDE DEF run
  <2>. QED  BY <2>1, <2>2, <2>3 DEF FillsBy
<1>9. run[n] = it[1..n]
  BY <1>1
<1>. QED  BY <1>5, <1>8, <1>9

-----------------------------------------------------------------------------
(* Schedules. *)

\* The evidence of a baseline in the order of its hours.
Evident(rows, n, evidence) ==
    /\ n \in Nat /\ DOMAIN rows = 1..n
    /\ \A i \in 1..n : /\ rows[i] \in evidence
                       /\ FundingSlot(rows[i].time) \in Slots /\ FundingSlot(rows[i].time) # Absent
    /\ \A f \in evidence : \E i \in 1..n : rows[i] = f
    /\ \A s \in Slots : \E i \in 1..n : FundingSlot(rows[i].time) = s
    /\ \A i, j \in 1..n : i < j => FundingSlot(rows[i].time) < FundingSlot(rows[j].time)

LEMMA SlotsAreTimes ==
    /\ \A s \in Slots : s \in Int /\ s \in Start..(End - 1)
    /\ \A t : FundingSlot(t) # Absent => FundingSlot(t) \in Slots /\ t \in Start..(End - 1)
    /\ Start \in Slots
BY AlignmentAssumption DEF Slots, FundingSlot, Hour

LEMMA EvidenceSorts ==
    ASSUME NEW evidence, IsFiniteSet(evidence), EvidenceBySlot(evidence) # Refused
    PROVE  \E n : Evident(EvidenceBySlot(evidence), n, evidence)
<1>. DEFINE rows == EvidenceBySlot(evidence)
            R == {q \in evidence \X evidence : FundingSlot(q[1].time) < FundingSlot(q[2].time)}
            n == Cardinality(evidence)
<1>1. /\ \A f \in evidence : FundingSlot(f.time) # Absent
      /\ \A s \in Slots : Cardinality({f \in evidence : FundingSlot(f.time) = s}) = 1
      /\ rows = InOrder(evidence, LAMBDA f, g : FundingSlot(f.time) < FundingSlot(g.time))
  BY DEF EvidenceBySlot
<1>2. \A f \in evidence : FundingSlot(f.time) \in Slots /\ FundingSlot(f.time) \in Int
  BY <1>1, SlotsAreTimes
<1>. HIDE DEF rows
<1>3. ASSUME NEW s \in Slots PROVE \E f : {g \in evidence : FundingSlot(g.time) = s} = {f}
  <2>1. IsFiniteSet({g \in evidence : FundingSlot(g.time) = s})
    BY FS_Subset
  <2>. QED  BY <1>1, <2>1, FS_Singleton
<1>4. \A f, g \in evidence : FundingSlot(f.time) = FundingSlot(g.time) => f = g
  BY <1>2, <1>3
<1>5. \A f, g \in evidence : <<f, g>> \in R <=> FundingSlot(f.time) < FundingSlot(g.time)
  OBVIOUS
<1>. HIDE DEF R
<1>6. IsStrictOrder(R, evidence)
  BY <1>2, <1>4, <1>5 DEF IsStrictOrder
<1>7. DOMAIN rows = 1..n /\ IsRanking(rows, R, evidence)
  <2>1. \A x \in evidence : {y \in evidence : FundingSlot(y.time) < FundingSlot(x.time)} = Prior(R, evidence, x)
    BY <1>5 DEF Prior
  <2>2. rows = [k \in 1..Cardinality(evidence) |->
                CHOOSE x \in evidence :
                   Cardinality({y \in evidence : FundingSlot(y.time) < FundingSlot(x.time)}) = k - 1]
    BY <1>1 DEF InOrder
  <2>3. ASSUME NEW k \in 1..Cardinality(evidence),
               \E x \in evidence : Cardinality(Prior(R, evidence, x)) = k - 1
        PROVE  rows[k] \in evidence /\ Cardinality(Prior(R, evidence, rows[k])) = k - 1
    <3>1. \E x \in evidence : Cardinality({y \in evidence : FundingSlot(y.time) < FundingSlot(x.time)}) = k - 1
      BY <2>1, <2>3
    <3>2. /\ rows[k] \in evidence
          /\ Cardinality({y \in evidence : FundingSlot(y.time) < FundingSlot(rows[k].time)}) = k - 1
      BY <2>2, <3>1
    <3>. QED  BY <2>1, <3>2
  <2>. QED  BY <2>2, <2>3 DEF IsRanking
<1>8. Arranges(rows, R, evidence)
  BY <1>6, <1>7, Sorts
<1>9. \A s \in Slots : \E i \in 1..n : FundingSlot(rows[i].time) = s
  BY <1>3, <1>8 DEF Arranges
<1>10. /\ n \in Nat
       /\ \A i \in 1..n : rows[i] \in evidence
       /\ \A f \in evidence : \E i \in 1..n : rows[i] = f
       /\ \A i, j \in 1..n : i < j => <<rows[i], rows[j]>> \in R
  BY <1>8 DEF Arranges
<1>11. \A i, j \in 1..n : i < j => FundingSlot(rows[i].time) < FundingSlot(rows[j].time)
  BY <1>5, <1>10
<1>12. Evident(rows, n, evidence)
  BY <1>1, <1>2, <1>7, <1>9, <1>10, <1>11 DEF Evident
<1>. QED  BY <1>12 DEF rows

\* A decision is made no earlier than what it rests on.
LEMMA DecisionsFollow ==
    ASSUME NEW t \in Int, NEW interval \in Nat \ {0}
    PROVE  /\ CeilDecision(t, interval) \in Int
           /\ CeilDecision(t, interval) >= t /\ CeilDecision(t, interval) >= Start
<1>. DEFINE d == t - Start + interval - 1
            q == d \div interval
<1>1. Start \in Int
  BY AlignmentAssumption
<1>2. CASE t <= Start
  BY <1>1, <1>2 DEF CeilDecision
<1>3. CASE t > Start
  <2>1. d \in Nat
    BY <1>1, <1>3
  <2>2. q \in Int /\ d = interval * q + (d % interval) /\ d % interval \in 0..(interval - 1)
    <3>. HIDE DEF d
    <3>. QED  BY <2>1
  <2>3. q >= 0
    <3>. HIDE DEF d
    <3>. QED  BY <2>1
  <2>4. interval * q >= t - Start
    BY <1>1, <2>2
  <2>5. CeilDecision(t, interval) = Start + interval * q
    BY <1>1, <1>3 DEF CeilDecision
  <2>6. interval * q \in Int
    BY <2>2
  <2>. HIDE DEF q
  <2>. QED  BY <1>1, <1>3, <2>4, <2>5, <2>6
<1>. QED  BY <1>1, <1>2, <1>3

Decided == [time : Int, target : Int]

LEMMA ObserveDecides ==
    ASSUME NEW f, f.time \in Int, NEW spec, spec.interval \in Nat \ {0}, spec.quantity \in Int,
           NEW targets \in Seq(Decided) \cup {Refused},
           NEW next, next = Observe(targets, f, spec)
    PROVE  /\ next \in Seq(Decided) \cup {Refused}
           /\ next # Refused => Grown(targets, next, f.time) /\ Grown(targets, next, Start)
<1>. DEFINE decision == [time |-> CeilDecision(f.time, spec.interval), target |-> Receive(f, spec.quantity)]
<1>1. /\ decision \in Decided
      /\ decision.time >= f.time /\ decision.time >= Start
  <2>1. /\ CeilDecision(f.time, spec.interval) \in Int
        /\ CeilDecision(f.time, spec.interval) >= f.time /\ CeilDecision(f.time, spec.interval) >= Start
    BY DecisionsFollow
  <2>2. Receive(f, spec.quantity) \in {-spec.quantity, spec.quantity, 0}
    BY DEF Receive
  <2>3. Receive(f, spec.quantity) \in Int
    BY <2>2
  <2>. QED  BY <2>1, <2>3 DEF Decided
<1>2. CASE next = Refused
  BY <1>2
<1>3. CASE next = targets /\ targets # Refused
  <2>1. Len(targets) \in Nat
    BY <1>3, LenProperties
  <2>. QED  BY <1>3, <2>1 DEF Grown
<1>4. CASE next = Append(targets, decision) /\ targets # Refused
  <2>. HIDE DEF decision
  <2>1. targets \in Seq(Decided) /\ Len(targets) \in Nat
    BY <1>4, LenProperties
  <2>2. /\ next \in Seq(Decided) /\ Len(next) = Len(targets) + 1
        /\ next[Len(targets) + 1] = decision
        /\ \A i \in 1..Len(targets) : next[i] = targets[i]
    BY <1>1, <1>4, <2>1, AppendProperties
  <2>3. \A i \in 1..Len(next) : i > Len(targets) => next[i] = decision
    BY <2>1, <2>2
  <2>4. Len(targets) <= Len(next)
    BY <2>1, <2>2
  <2>. QED  BY <1>1, <1>4, <2>2, <2>3, <2>4 DEF Grown
<1>5. \/ next = Refused
      \/ next = targets /\ targets # Refused
      \/ next = Append(targets, decision) /\ targets # Refused
  BY DEF Observe
<1>. QED  BY <1>2, <1>3, <1>4, <1>5

\* The decisions after each of the first n observations.
DecidedBy(it, rows, n, spec) ==
    /\ it[0] = <<>>
    /\ \A k \in 1..n : it[k] = Observe(it[k - 1], rows[k], spec)
    /\ \A k \in 0..n : it[k] \in Seq(Decided) \cup {Refused}

LEMMA TargetsRun ==
    ASSUME NEW rows, NEW n \in Nat, DOMAIN rows = 1..n, \A i \in 1..n : rows[i].time \in Int,
           NEW spec, spec.interval \in Nat \ {0}, spec.quantity \in Int
    PROVE  \E it : DecidedBy(it, rows, n, spec) /\ Observations(rows, spec) = it[n]
<1>. DEFINE A == Seq(Decided) \cup {Refused}
            G == [q \in (1..n) \X A |-> Observe(q[2], rows[q[1]], spec)]
            Obeys(it) == it = [s \in SUBSET DOMAIN rows |->
                                  IF s = {} THEN <<>>
                                  ELSE Observe(it[s \ {Max(s)}], rows[Max(s)], spec)]
<1>1. <<>> \in A
  BY EmptySeq
<1>2. Accumulates(n, A, <<>>, G)
  <2>1. \A i \in 1..n, acc \in A : Observe(acc, rows[i], spec) \in A
    BY ObserveDecides
  <2>. QED  BY <1>1, <2>1 DEF Accumulates
<1>. HIDE DEF A
<1>3. \E it : Obeys(it)
  <2>1. PICK it \in [SUBSET (1..n) -> A] : Folds(it, n, <<>>, G)
    <3>. HIDE DEF G
    <3>. QED  BY <1>2, FoldDefined
  <2>2. ASSUME NEW s \in SUBSET (1..n), s # {}
        PROVE  it[s] = Observe(it[s \ {Max(s)}], rows[Max(s)], spec)
    <3>1. Max(s) \in 1..n /\ it[s \ {Max(s)}] \in A
      BY <2>2, LargestIn
    <3>. QED  BY <2>1, <2>2, <3>1 DEF Folds
  <2>3. Obeys(it)
    BY <2>1, <2>2 DEF Folds
  <2>. QED  BY <2>3
<1>. DEFINE it == CHOOSE it : Obeys(it)
<1>4. Obeys(it) /\ Observations(rows, spec) = it[1..n]
  BY <1>3 DEF Observations, FoldLeft, MapThenFoldSet
<1>. HIDE DEF it
<1>5. IsFold(it, n, A, <<>>, G)
  <2>1. it[{}] = <<>>
    BY <1>4
  <2>2. ASSUME NEW s \in SUBSET (1..n), s # {}, it[s \ {Max(s)}] \in A
        PROVE  it[s] = G[<<Max(s), it[s \ {Max(s)}]>>]
    <3>1. Max(s) \in 1..n
      BY <2>2, LargestIn
    <3>2. it[s] = Observe(it[s \ {Max(s)}], rows[Max(s)], spec)
      BY <1>4, <2>2
    <3>. QED  BY <2>2, <3>1, <3>2
  <2>. QED  BY <2>1, <2>2 DEF IsFold
<1>6. /\ \A k \in 0..n : it[1..k] \in A
      /\ it[1..0] = <<>>
      /\ \A k \in 1..n : it[1..k] = G[<<k, it[1..(k - 1)]>>]
  <2>. HIDE DEF G
  <2>1. \A k \in 0..n : /\ it[1..k] \in A
                        /\ k = 0 => it[1..k] = <<>>
                        /\ k > 0 => it[1..k] = G[<<k, it[1..(k - 1)]>>]
    BY <1>2, <1>5, FoldRuns
  <2>2. 0 \in 0..n /\ \A k \in 1..n : k \in 0..n /\ k > 0
    OBVIOUS
  <2>. QED  BY <2>1, <2>2, Zenon
<1>. DEFINE run == [k \in 0..n |-> it[1..k]]
<1>7. DecidedBy(run, rows, n, spec)
  <2>1. run[0] = <<>>
    BY <1>6
  <2>2. ASSUME NEW k \in 1..n PROVE run[k] = Observe(run[k - 1], rows[k], spec)
    <3>1. k \in 0..n /\ k - 1 \in 0..n
      OBVIOUS
    <3>2. it[1..(k - 1)] \in A
      BY <1>6, <3>1
    <3>3. it[1..k] = Observe(it[1..(k - 1)], rows[k], spec)
      BY <1>6, <3>2
    <3>. QED  BY <3>1, <3>3
  <2>3. \A k \in 0..n : run[k] \in Seq(Decided) \cup {Refused}
    BY <1>6 DEF A
  <2>. HIDE DEF run
  <2>. QED  BY <2>1, <2>2, <2>3 DEF DecidedBy
<1>8. run[n] = it[1..n]
  OBVIOUS
<1>. QED  BY <1>4, <1>7, <1>8

\* What a plan decides by itself or from the funding of a market.
EvidenceAsked(r) == EvidenceFor(r.plan.spec, r.market)

LEMMA EvidenceFacts ==
    ASSUME NEW r, IsRequest(r)
    PROVE  IsFiniteSet(EvidenceAsked(r)) /\ \A f \in EvidenceAsked(r) : f.time \in Int
<1>1. EvidenceAsked(r) \in SUBSET r.market.funding
  BY DEF EvidenceAsked, EvidenceFor, SourceEvidence
<1>2. IsFiniteSet(r.market.funding) /\ \A f \in r.market.funding : f.time \in Int
  BY RequestFacts
<1>. QED  BY <1>1, <1>2, FS_Subset

\* A receiver's decisions are preceded by one to be flat, unless the first is at the start.
LeadBy(schedule, targets) ==
    IF targets = <<>> \/ Head(targets).time > Start
    THEN schedule = <<[time |-> Start, target |-> 0]>> \o targets
    ELSE schedule = targets

Received(schedule, r, it, n) ==
    /\ Evident(EvidenceBySlot(EvidenceAsked(r)), n, EvidenceAsked(r))
    /\ DecidedBy(it, EvidenceBySlot(EvidenceAsked(r)), n, r.plan.spec)
    /\ it[n] # Refused /\ LeadBy(schedule, it[n])

\* A schedule is supplied, or the one decision of a control, or a receiver's.
LEMMA SchedulesMade ==
    ASSUME NEW r, IsRequest(r), ScheduleOf(r.market, r.plan) # Refused
    PROVE  LET schedule == ScheduleOf(r.market, r.plan)
           IN  \/ r.plan.kind = "supplied" /\ schedule = r.plan.schedule
               \/ /\ r.plan.kind # "supplied"
                  /\ \/ /\ r.plan.spec.name # "lagged_funding_receiver"
                        /\ schedule = Generate(r.plan.spec, {})
                        /\ \E target \in Int : schedule = <<[time |-> Start, target |-> target]>>
                     \/ /\ r.plan.spec.name = "lagged_funding_receiver"
                        /\ \E it, n : Received(schedule, r, it, n)
<1>. DEFINE schedule == ScheduleOf(r.market, r.plan)
            spec == r.plan.spec
            evidence == EvidenceAsked(r)
            rows == EvidenceBySlot(evidence)
            targets == Observations(rows, spec)
            flat == [time |-> Start, target |-> 0]
<1>1. CASE r.plan.kind = "supplied"
  BY <1>1 DEF ScheduleOf
<1>2. CASE r.plan.kind # "supplied"
  <2>1. schedule = Generate(spec, evidence)
    BY <1>2 DEF ScheduleOf, Bundle, EvidenceAsked
  <2>2. spec.interval \in Nat \ {0} /\ spec.quantity \in Int /\ -spec.quantity \in Int
    BY <1>2, PlanFacts, RequestFacts
  <2>3. spec.name \in {"flat_control", "static_long", "static_short", "lagged_funding_receiver"}
    <3>1. r.plan \in Plan
      BY RequestFacts
    <3>. QED  BY <1>2, <3>1 DEF Plan
  <2>4. CASE spec.name # "lagged_funding_receiver"
    <3>1. evidence = {}
      BY <2>4 DEF EvidenceAsked, EvidenceFor
    <3>2. schedule = Generate(spec, {})
      BY <2>1, <3>1
    <3>. HIDE DEF schedule, spec, evidence, rows, targets
    <3>3. \E target \in {0, spec.quantity, -spec.quantity} :
             Generate(spec, {}) = <<[time |-> Start, target |-> target]>>
      BY <2>3, <2>4 DEF Generate
    <3>4. \E target \in Int : Generate(spec, {}) = <<[time |-> Start, target |-> target]>>
      BY <2>2, <3>3
    <3>. QED  BY <1>2, <2>4, <3>2, <3>4 DEF schedule, spec
  <2>5. CASE spec.name = "lagged_funding_receiver"
    <3>1. Generate(spec, evidence) = FundingReceiver(spec, evidence)
      <4>. HIDE DEF spec, evidence
      <4>. QED  BY <2>5 DEF Generate
    <3>2. rows # Refused /\ targets # Refused /\ LeadBy(schedule, targets)
      <4>1. schedule # Refused /\ schedule = FundingReceiver(spec, evidence)
        BY <2>1, <3>1
      <4>. HIDE DEF schedule, spec, evidence
      <4>. QED  BY <4>1 DEF FundingReceiver, LeadBy
    <3>3. IsFiniteSet(evidence) /\ \A f \in evidence : f.time \in Int
      BY EvidenceFacts
    <3>. HIDE DEF evidence, targets
    <3>4. PICK n : Evident(rows, n, evidence)
      BY <3>2, <3>3, EvidenceSorts
    <3>. HIDE DEF rows
    <3>5. n \in Nat /\ DOMAIN rows = 1..n /\ \A i \in 1..n : rows[i].time \in Int
      BY <3>3, <3>4 DEF Evident
    <3>6. PICK it : DecidedBy(it, rows, n, spec) /\ targets = it[n]
      <4>. HIDE DEF spec
      <4>. QED  BY <2>2, <3>5, TargetsRun DEF targets
    <3>7. Received(schedule, r, it, n)
      BY <3>2, <3>4, <3>6 DEF Received, rows, evidence
    <3>. QED  BY <1>2, <2>5, <3>7
  <2>. QED  BY <2>4, <2>5
<1>. QED  BY <1>1, <1>2

\* A schedule that is not refused is a sequence of intents, whoever made it.
LEMMA SchedulesAreIntents ==
    ASSUME NEW r, IsRequest(r), ScheduleOf(r.market, r.plan) # Refused
    PROVE  ScheduleOf(r.market, r.plan) \in Seq(Decided)
<1>. DEFINE schedule == ScheduleOf(r.market, r.plan)
<1>1. CASE r.plan.kind = "supplied" /\ schedule = r.plan.schedule
  BY <1>1, PlanFacts, RequestFacts DEF Decided
<1>2. ASSUME NEW target \in Int, schedule = <<[time |-> Start, target |-> target]>>
      PROVE  schedule \in Seq(Decided)
  <2>1. [time |-> Start, target |-> target] \in Decided
    BY AlignmentAssumption DEF Decided
  <2>. QED  BY <1>2, <2>1
<1>3. ASSUME NEW it, NEW n, Received(schedule, r, it, n) PROVE schedule \in Seq(Decided)
  <2>1. it[n] \in Seq(Decided)
    <3>1. n \in 0..n
      BY <1>3 DEF Received, Evident
    <3>. QED  BY <1>3, <3>1 DEF Received, DecidedBy
  <2>2. <<[time |-> Start, target |-> 0]>> \in Seq(Decided)
    BY AlignmentAssumption DEF Decided
  <2>3. <<[time |-> Start, target |-> 0]>> \o it[n] \in Seq(Decided)
    BY <2>1, <2>2, ConcatProperties
  <2>. QED  BY <1>3, <2>1, <2>3 DEF Received, LeadBy
<1>. HIDE DEF schedule
<1>. QED  BY <1>1, <1>2, <1>3, SchedulesMade DEF schedule

-----------------------------------------------------------------------------
(* Alignments and marks in order. *)

Alignments(market) == Dataset(market).alignments

\* The alignments of a market that has one for every hour.
Complete(market, terms) ==
    /\ \A a \in Alignments(market) : IsAligned(a, terms)
    /\ \A s \in Slots : \E a : {b \in Alignments(market) : FundingSlot(b.funding.time) = s} = {a}

LEMMA AlignmentsFinite ==
    ASSUME NEW r, IsRequest(r)
    PROVE  IsFiniteSet(Alignments(r.market))
<1>. DEFINE rows == FundingRows(r.market)
            observations == OracleRows(r.market)
            f == [x \in rows |-> Alignment(x, observations)]
<1>1. IsFiniteSet(rows)
  <2>1. rows \in SUBSET r.market.funding
    BY DEF FundingRows
  <2>. QED  BY <2>1, FS_Subset, RequestFacts
<1>2. Alignments(r.market) = {Alignment(x, observations) : x \in rows}
  BY DEF Alignments, Dataset
<1>. HIDE DEF rows, observations
<1>3. f \in Surjection(rows, Alignments(r.market))
  BY <1>2 DEF Surjection
<1>. HIDE DEF f
<1>. QED  BY <1>1, <1>3, FS_Surjection

LEMMA AlignmentTimes ==
    ASSUME NEW market, NEW a \in Alignments(market)
    PROVE  /\ a.funding \in FundingRows(market) /\ a = Alignment(a.funding, OracleRows(market))
           /\ a.funding.time \in Start..(End - 1)
<1>1. PICK f \in FundingRows(market) : a = Alignment(f, OracleRows(market))
  BY DEF Alignments, Dataset
<1>2. Alignment(f, OracleRows(market)).funding = f
  BY DEF Alignment
<1>. QED  BY <1>1, <1>2 DEF FundingRows

\* Funding that is validated is in order, with one alignment for every hour.
LEMMA FundingValid ==
    ASSUME NEW r, IsRequest(r), NEW terms, ValidatedFunding(r.market, terms) # Refused
    PROVE  LET al == ValidatedFunding(r.market, terms)
           IN  /\ Complete(r.market, terms)
               /\ \E n \in Nat :
                     /\ DOMAIN al = 1..n
                     /\ \A k \in 1..n : al[k] \in Alignments(r.market)
                     /\ \A a \in Alignments(r.market) : \E k \in 1..n : al[k] = a
                     /\ \A j, k \in 1..n : al[j] = al[k] => j = k
                     /\ \A j, k \in 1..n : j < k => al[j].funding.time < al[k].funding.time
<1>. DEFINE D == Alignments(r.market)
            al == ValidatedFunding(r.market, terms)
            R == {q \in D \X D : q[1].funding.time < q[2].funding.time}
<1>1. /\ \A a \in D : IsAligned(a, terms)
      /\ \A s \in Slots : Cardinality({a \in D : FundingSlot(a.funding.time) = s}) = 1
      /\ al = InOrder(D, LAMBDA a, b : a.funding.time < b.funding.time)
  BY DEF ValidatedFunding, Alignments
<1>2. IsFiniteSet(D)
  BY AlignmentsFinite
<1>. HIDE DEF D, al
<1>3. ASSUME NEW s \in Slots PROVE \E a : {b \in D : FundingSlot(b.funding.time) = s} = {a}
  <2>1. IsFiniteSet({b \in D : FundingSlot(b.funding.time) = s})
    BY <1>2, FS_Subset
  <2>. QED  BY <1>1, <2>1, FS_Singleton
<1>4. Complete(r.market, terms)
  BY <1>1, <1>3 DEF Complete, D
<1>5. \A a \in D : a.funding.time \in Int /\ FundingSlot(a.funding.time) \in Slots
  <2>1. ASSUME NEW a \in D PROVE FundingSlot(a.funding.time) \in Slots
    <3>1. FundingSlot(a.funding.time) # Absent
      BY <1>1 DEF IsAligned
    <3>. QED  BY <3>1 DEF FundingSlot
  <2>. QED  BY <2>1, AlignmentTimes, AlignmentAssumption DEF D
<1>6. \A a, b \in D : a.funding.time = b.funding.time => a = b
  BY <1>3, <1>5
<1>7. \A a, b \in D : <<a, b>> \in R <=> a.funding.time < b.funding.time
  OBVIOUS
<1>. HIDE DEF R
<1>8. IsStrictOrder(R, D)
  BY <1>5, <1>6, <1>7 DEF IsStrictOrder
<1>9. DOMAIN al = 1..Cardinality(D) /\ IsRanking(al, R, D)
  <2>1. \A x \in D : {y \in D : y.funding.time < x.funding.time} = Prior(R, D, x)
    BY <1>7 DEF Prior
  <2>2. al = [k \in 1..Cardinality(D) |->
                CHOOSE x \in D : Cardinality({y \in D : y.funding.time < x.funding.time}) = k - 1]
    BY <1>1 DEF InOrder
  <2>3. ASSUME NEW k \in 1..Cardinality(D), \E x \in D : Cardinality(Prior(R, D, x)) = k - 1
        PROVE  al[k] \in D /\ Cardinality(Prior(R, D, al[k])) = k - 1
    <3>1. \E x \in D : Cardinality({y \in D : y.funding.time < x.funding.time}) = k - 1
      BY <2>1, <2>3
    <3>2. /\ al[k] \in D
          /\ Cardinality({y \in D : y.funding.time < al[k].funding.time}) = k - 1
      BY <2>2, <3>1
    <3>. QED  BY <2>1, <3>2
  <2>. QED  BY <2>2, <2>3 DEF IsRanking
<1>10. Arranges(al, R, D)
  BY <1>2, <1>8, <1>9, Sorts
<1>11. \A j, k \in 1..Cardinality(D) : j < k => al[j].funding.time < al[k].funding.time
  BY <1>7, <1>10 DEF Arranges
<1>. QED  BY <1>4, <1>9, <1>10, <1>11 DEF Arranges, D, al

\* l marks, one for each open that is required, in order.
Marked(marks, opens, l, required, candles, interval) ==
    /\ l \in Nat /\ DOMAIN marks = 1..l
    /\ \A k \in 1..l : /\ opens[k] \in required /\ opens[k] \in Int
                       /\ marks[k] = [kind |-> "mark", time |-> opens[k] + interval, seq |-> k - 1,
                                      price |-> CandleAt(candles, opens[k]).last]
    /\ \A s \in required : \E k \in 1..l : opens[k] = s
    /\ \A j, k \in 1..l : j < k => opens[j] < opens[k]

LEMMA MarksOrdered ==
    ASSUME NEW candles, NEW fills, NEW interval \in Int
    PROVE  \E opens, l : Marked(MarkEvents(candles, RequiredMarks(fills, interval), interval), opens, l,
                               RequiredMarks(fills, interval), candles, interval)
<1>. DEFINE S == RequiredMarks(fills, interval)
            R == {q \in S \X S : q[1] < q[2]}
            opens == InOrder(S, LAMBDA s, t : s < t)
            marks == MarkEvents(candles, S, interval)
<1>1. S \in SUBSET (Start..(End - 1)) /\ S \in SUBSET Int /\ IsFiniteSet(S)
  <2>1. S \in SUBSET (Start..(End - 1)) /\ Start \in Int /\ End - 1 \in Int
    BY AlignmentAssumption DEF RequiredMarks, ExpectedOpens
  <2>. HIDE DEF S
  <2>2. IsFiniteSet(Start..(End - 1))
    BY <2>1, FS_Interval
  <2>3. IsFiniteSet(S)
    BY <2>1, <2>2, FS_Subset
  <2>4. S \in SUBSET Int
    BY <2>1
  <2>. QED  BY <2>1, <2>3, <2>4
<1>. HIDE DEF S
<1>2. \A s, t \in S : <<s, t>> \in R <=> s < t
  OBVIOUS
<1>. HIDE DEF R
<1>3. IsStrictOrder(R, S)
  BY <1>1, <1>2 DEF IsStrictOrder
<1>4. DOMAIN opens = 1..Cardinality(S) /\ IsRanking(opens, R, S)
  <2>1. \A x \in S : {y \in S : y < x} = Prior(R, S, x)
    BY <1>2 DEF Prior
  <2>2. opens = [k \in 1..Cardinality(S) |-> CHOOSE x \in S : Cardinality({y \in S : y < x}) = k - 1]
    BY DEF InOrder
  <2>. HIDE DEF opens
  <2>3. ASSUME NEW k \in 1..Cardinality(S), \E x \in S : Cardinality(Prior(R, S, x)) = k - 1
        PROVE  opens[k] \in S /\ Cardinality(Prior(R, S, opens[k])) = k - 1
    <3>1. \E x \in S : Cardinality({y \in S : y < x}) = k - 1
      BY <2>1, <2>3
    <3>2. opens[k] \in S /\ Cardinality({y \in S : y < opens[k]}) = k - 1
      BY <2>2, <3>1
    <3>. QED  BY <2>1, <3>2
  <2>. QED  BY <2>2, <2>3 DEF IsRanking
<1>5. marks = [i \in DOMAIN opens |->
                  [kind |-> "mark", time |-> opens[i] + interval, seq |-> i - 1,
                   price |-> CandleAt(candles, opens[i]).last]]
  BY DEF MarkEvents
<1>. HIDE DEF opens, marks
<1>6. Arranges(opens, R, S)
  BY <1>1, <1>3, <1>4, Sorts
<1>7. /\ Cardinality(S) \in Nat
      /\ \A k \in 1..Cardinality(S) : opens[k] \in S /\ opens[k] \in Int
      /\ \A s \in S : \E k \in 1..Cardinality(S) : opens[k] = s
      /\ \A j, k \in 1..Cardinality(S) : j < k => opens[j] < opens[k]
  BY <1>1, <1>2, <1>6 DEF Arranges
<1>8. /\ DOMAIN marks = 1..Cardinality(S)
      /\ \A k \in 1..Cardinality(S) :
            marks[k] = [kind |-> "mark", time |-> opens[k] + interval, seq |-> k - 1,
                        price |-> CandleAt(candles, opens[k]).last]
  BY <1>4, <1>5
<1>9. Marked(marks, opens, Cardinality(S), S, candles, interval)
  BY <1>7, <1>8 DEF Marked
<1>. QED  BY <1>9 DEF marks, S

-----------------------------------------------------------------------------
(* The events of a scenario. *)

\* The first n of the events are the funding of the alignments al.
Assembles(scenario, m, al, n) ==
    /\ m \in Nat /\ n \in 0..m /\ DOMAIN scenario = 1..m /\ DOMAIN al = 1..n
    /\ Distinguished(scenario)
    /\ \A i \in 1..m : scenario[i].kind = "funding" <=> i <= n
    /\ \A i \in 1..n : /\ scenario[i].time = al[i].funding.time
                       /\ scenario[i].price = al[i].price
                       /\ scenario[i].rate = al[i].funding.rate

HasLength(F, n) == n \in Nat /\ F = [i \in 1..n |-> F[i]]

\* F of length n and then G of length k.
Joins(s, F, n, G, k) ==
    /\ HasLength(s, n + k)
    /\ \A i \in 1..n : s[i] = F[i]
    /\ \A i \in 1..k : s[n + i] = G[i]

\* n events of a kind, numbered from nought.
Numbered(F, n, kind) ==
    /\ HasLength(F, n)
    /\ \A i \in 1..n : F[i].kind = kind /\ F[i].seq = i - 1 /\ F[i].time \in Int

\* m events, the first n of them those of F and the only funding.
Led(s, F, n, m) ==
    /\ n \in Nat /\ m \in Nat /\ n <= m
    /\ DOMAIN s = 1..m /\ Distinguished(s)
    /\ \A i \in 1..m : s[i].kind = "funding" <=> i <= n
    /\ \A i \in 1..n : s[i] = F[i]

\* n events, then k, then l.
Composed(s, F, n, G, k, H, l) ==
    /\ n \in Nat /\ k \in Nat /\ l \in Nat /\ DOMAIN s = 1..(n + k + l)
    /\ \A i \in 1..n : s[i] = F[i]
    /\ \A i \in 1..k : s[n + i] = G[i]
    /\ \A i \in 1..l : s[n + k + i] = H[i]

LEMMA Joined ==
    ASSUME NEW F, NEW n, NEW G, NEW k, HasLength(F, n), HasLength(G, k)
    PROVE  Joins(F \o G, F, n, G, k)
<1>. USE DEF HasLength
<1>. DEFINE S == {F[i] : i \in 1..n} \cup {G[i] : i \in 1..k}
            s == F \o G
<1>1. F \in Seq(S) /\ G \in Seq(S)
  <2>1. F \in [1..n -> S] /\ G \in [1..k -> S]
    OBVIOUS
  <2>. HIDE DEF S
  <2>. QED  BY <2>1
<1>2. Len(F) = n /\ Len(G) = k
  <2>. HIDE DEF S
  <2>. QED  BY LenProperties, <1>1
<1>. HIDE DEF S
<1>3. /\ s \in Seq(S) /\ Len(s) = Len(F) + Len(G)
      /\ \A i \in 1..Len(F) + Len(G) : s[i] = IF i <= Len(F) THEN F[i] ELSE G[i - Len(F)]
  BY <1>1, ConcatProperties
<1>. HIDE DEF s
<1>4. s \in [1..(n + k) -> S]
  BY <1>2, <1>3, LenProperties
<1>5. ASSUME NEW i \in 1..n PROVE s[i] = F[i]
  <2>1. i \in 1..(n + k) /\ i <= n
    OBVIOUS
  <2>. QED  BY <1>2, <1>3, <2>1
<1>6. ASSUME NEW i \in 1..k PROVE s[n + i] = G[i]
  <2>1. n + i \in 1..(n + k) /\ ~(n + i <= n) /\ (n + i) - n = i
    OBVIOUS
  <2>. QED  BY <1>2, <1>3, <2>1
<1>. QED  BY <1>4, <1>5, <1>6 DEF s, Joins

\* Numbered funding, fills and marks, one after the other.
LEMMA ThreeKinds ==
    ASSUME NEW F, NEW G, NEW H, NEW n, NEW k, NEW l,
           Numbered(F, n, "funding"), Numbered(G, k, "fill"), Numbered(H, l, "mark")
    PROVE  Led(F \o G \o H, F, n, n + k + l) /\ Composed(F \o G \o H, F, n, G, k, H, l)
<1>. DEFINE t == F \o G
            s == t \o H
            m == n + k + l
<1>1. /\ HasLength(F, n) /\ HasLength(G, k) /\ HasLength(H, l)
      /\ n \in Nat /\ k \in Nat /\ l \in Nat
      /\ \A i \in 1..n : F[i].kind = "funding" /\ F[i].seq = i - 1 /\ F[i].time \in Int
      /\ \A i \in 1..k : G[i].kind = "fill" /\ G[i].seq = i - 1 /\ G[i].time \in Int
      /\ \A i \in 1..l : H[i].kind = "mark" /\ H[i].seq = i - 1 /\ H[i].time \in Int
  BY DEF Numbered, HasLength
<1>. USE <1>1
<1>2. Joins(t, F, n, G, k)
  BY <1>1, Joined, Zenon
<1>3. /\ HasLength(t, n + k)
      /\ \A i \in 1..n : t[i] = F[i]
      /\ \A i \in 1..k : t[n + i] = G[i]
  BY <1>2, Zenon DEF Joins
<1>. HIDE DEF t
<1>4. Joins(s, t, n + k, H, l)
  BY <1>1, <1>3, Joined, Zenon
<1>5. /\ HasLength(s, n + k + l)
      /\ \A i \in 1..(n + k) : s[i] = t[i]
      /\ \A i \in 1..l : s[n + k + i] = H[i]
  BY <1>4, Zenon DEF Joins
<1>. HIDE DEF s
<1>6. ASSUME NEW i \in 1..n
      PROVE  /\ s[i] = F[i] /\ s[i].kind = "funding" /\ s[i].seq = i - 1 /\ s[i].time \in Int
  <2>1. i \in 1..(n + k)
    OBVIOUS
  <2>. QED  BY <1>3, <1>5, <2>1
<1>7. ASSUME NEW i \in 1..m, n < i, i <= n + k
      PROVE  /\ s[i].kind = "fill" /\ s[i].seq = i - n - 1 /\ s[i].time \in Int
  <2>1. i - n \in 1..k /\ n + (i - n) = i /\ i \in 1..(n + k)
    BY <1>7
  <2>2. s[i] = t[i] /\ t[n + (i - n)] = G[i - n]
    BY <1>3, <1>5, <2>1
  <2>. QED  BY <2>1, <2>2
<1>8. ASSUME NEW i \in 1..m, n + k < i
      PROVE  /\ s[i].kind = "mark" /\ s[i].seq = i - n - k - 1 /\ s[i].time \in Int
  <2>1. i - n - k \in 1..l /\ n + k + (i - n - k) = i
    BY <1>8
  <2>2. s[i] = H[i - n - k]
    BY <1>5, <2>1
  <2>. QED  BY <2>1, <2>2
<1>9. ASSUME NEW i \in 1..m PROVE i \in 1..n \/ (n < i /\ i <= n + k) \/ n + k < i
  OBVIOUS
<1>10. Distinguished(s)
  <2>1. ASSUME NEW i \in 1..m PROVE s[i].time \in Int /\ s[i].seq \in Int
                                    /\ s[i].kind \in {"funding", "fill", "mark"}
    <3>1. CASE i \in 1..n
      BY <1>6, <3>1
    <3>2. CASE n < i /\ i <= n + k
      BY <1>7, <3>2
    <3>3. CASE n + k < i
      BY <1>8, <3>3
    <3>. QED  BY <1>9, <3>1, <3>2, <3>3
  <2>2. ASSUME NEW i \in 1..m, NEW j \in 1..m, Key(s[i]) = Key(s[j]) PROVE i = j
    <3>1. s[i].seq = s[j].seq /\ Priority(s[i]) = Priority(s[j])
      BY <2>2 DEF Key
    <3>2. s[i].kind = s[j].kind
      BY <2>1, <3>1 DEF Priority
    <3>3. CASE i \in 1..n
      <4>1. j \in 1..n
        BY <1>6, <1>7, <1>8, <1>9, <3>2, <3>3
      <4>. QED  BY <1>6, <3>1, <3>3, <4>1
    <3>4. CASE n < i /\ i <= n + k
      <4>1. n < j /\ j <= n + k
        BY <1>6, <1>7, <1>8, <1>9, <3>2, <3>4
      <4>. QED  BY <1>7, <3>1, <3>4, <4>1
    <3>5. CASE n + k < i
      <4>1. n + k < j
        BY <1>6, <1>7, <1>8, <1>9, <3>2, <3>5
      <4>2. s[i].seq = i - n - k - 1 /\ s[j].seq = j - n - k - 1
        BY <1>8, <3>5, <4>1
      <4>3. i - n - k - 1 = j - n - k - 1
        BY <3>1, <4>2, Zenon
      <4>. HIDE <1>1
      <4>4. n \in Nat /\ k \in Nat /\ i \in Int /\ j \in Int
        BY <1>1
      <4>. QED  BY <4>3, <4>4
    <3>. QED  BY <1>9, <3>3, <3>4, <3>5
  <2>3. DOMAIN s = 1..m
    BY <1>5 DEF HasLength
  <2>. QED  BY <2>1, <2>2, <2>3 DEF Distinguished
<1>11. ASSUME NEW i \in 1..m PROVE s[i].kind = "funding" <=> i <= n
  <2>1. CASE i \in 1..n
    BY <1>6, <2>1
  <2>2. CASE n < i /\ i <= n + k
    BY <1>7, <2>2
  <2>3. CASE n + k < i
    BY <1>8, <2>3
  <2>. QED  BY <1>9, <2>1, <2>2, <2>3
<1>12. DOMAIN s = 1..m
  BY <1>5 DEF HasLength
<1>13. Composed(s, F, n, G, k, H, l)
  <2>1. ASSUME NEW i \in 1..k PROVE s[n + i] = G[i]
    <3>1. n + i \in 1..(n + k)
      OBVIOUS
    <3>. QED  BY <1>3, <1>5, <3>1
  <2>. QED  BY <1>5, <1>6, <1>12, <2>1 DEF Composed
<1>. QED  BY <1>6, <1>10, <1>11, <1>12, <1>13 DEF s, t, Led

Asked(r) == ScenarioOf(r.market, r.plan, r.terms)

ScheduleAsked(r) == ScheduleOf(r.market, r.plan)

Execution(r) == CandlesOf(r.market, r.terms.execution)

Marking(r) == CandlesOf(r.market, r.terms.marking)

FundingAsked(r) == ValidatedFunding(r.market, r.terms)

FillsAsked(r) == Fills(ScheduleAsked(r), Execution(r), r.terms)

RequiredAsked(r) == RequiredMarks(FillsAsked(r), r.terms.marking)

MarksAsked(r) == MarkEvents(Marking(r), RequiredAsked(r), r.terms.marking)

\* What the assembly has found sound when it does not refuse.
LEMMA Accepted ==
    ASSUME NEW r, IsRequest(r), Asked(r) # Refused
    PROVE  /\ ScheduleAsked(r) # Refused /\ FundingAsked(r) # Refused /\ FillsAsked(r) # Refused
           /\ ScheduleAsked(r) \in Seq(Decided)
           /\ \A i, j \in DOMAIN ScheduleAsked(r) :
                 i < j => ScheduleAsked(r)[i].time < ScheduleAsked(r)[j].time
           /\ IsTerms(r.terms) /\ r.terms.latency \in Nat
           /\ HasGrid(r.terms.marking)
           /\ AreValid(Execution(r), r.terms.execution, ExpectedOpens(r.terms.execution))
           /\ AreValid(Marking(r), r.terms.marking, RequiredAsked(r))
           /\ Asked(r) = FundingEvents(FundingAsked(r)) \o FillEvents(FillsAsked(r), r.terms)
                            \o MarksAsked(r)
<1>1. ScheduleAsked(r) # Refused /\ Asked(r) = Assembled(r.market, ScheduleAsked(r), r.terms)
  BY DEF Asked, ScenarioOf, ScheduleAsked
<1>2. /\ FundingAsked(r) # Refused /\ FillsAsked(r) # Refused
      /\ IsSchedule(ScheduleAsked(r), r.terms.decision)
      /\ IsTerms(r.terms) /\ HasGrid(r.terms.marking)
      /\ AreValid(Execution(r), r.terms.execution, ExpectedOpens(r.terms.execution))
      /\ AreValid(Marking(r), r.terms.marking, RequiredAsked(r))
      /\ Asked(r) = FundingEvents(FundingAsked(r)) \o FillEvents(FillsAsked(r), r.terms)
                      \o MarksAsked(r)
  BY <1>1 DEF Assembled, Execution, Marking, FundingAsked, FillsAsked, RequiredAsked, MarksAsked
<1>3. ScheduleAsked(r) \in Seq(Decided)
  BY <1>1, SchedulesAreIntents DEF ScheduleAsked
<1>4. \A i, j \in DOMAIN ScheduleAsked(r) :
         i < j => ScheduleAsked(r)[i].time < ScheduleAsked(r)[j].time
  BY <1>2 DEF IsSchedule
<1>5. r.terms.latency \in Nat
  <2>1. r.terms.latency >= 0 /\ r.terms.latency \in Int
    BY <1>2, RequestFacts DEF IsTerms
  <2>. QED  BY <2>1
<1>. QED  BY <1>1, <1>2, <1>3, <1>4, <1>5

\* Decisions are intents.
LEMMA DecidedIntents ==
    ASSUME NEW s \in Seq(Decided)
    PROVE  /\ IsIntents(s, Len(s)) /\ Len(s) \in Nat /\ DOMAIN s = 1..Len(s)
           /\ \A i \in 1..Len(s) : s[i] \in Decided /\ s[i].time \in Int /\ s[i].target \in Int
<1>1. /\ Len(s) \in Nat /\ DOMAIN s = 1..Len(s)
      /\ \A i \in 1..Len(s) : s[i] \in Decided
  BY LenProperties, ElementOfSeq
<1>2. \A d \in Decided : d.time \in Int /\ d.target \in Int
  BY DEF Decided
<1>. QED  BY <1>1, <1>2 DEF IsIntents

\* The run that ends with the fills of a request.
LEMMA FillsMade ==
    ASSUME NEW r, IsRequest(r), Asked(r) # Refused
    PROVE  /\ \E it : /\ FillsBy(it, ScheduleAsked(r), Len(ScheduleAsked(r)), Execution(r), r.terms)
                      /\ FillsAsked(r) = it[Len(ScheduleAsked(r))]
           /\ FillsAsked(r) \in Filled(Execution(r))
           /\ \A c \in Execution(r) : c.time \in Start..(End - 1)
<1>1. ScheduleAsked(r) \in Seq(Decided) /\ r.terms.latency \in Nat /\ FillsAsked(r) # Refused
  BY Accepted
<1>2. \A c \in Execution(r) : c.time \in Start..(End - 1)
  BY DEF CandlesOf, Execution
<1>3. IsIntents(ScheduleAsked(r), Len(ScheduleAsked(r))) /\ Len(ScheduleAsked(r)) \in Nat
  BY <1>1, DecidedIntents
<1>4. PICK it : /\ FillsBy(it, ScheduleAsked(r), Len(ScheduleAsked(r)), Execution(r), r.terms)
                /\ FillsAsked(r) = it[Len(ScheduleAsked(r))]
  BY <1>1, <1>2, <1>3, FillsRun DEF FillsAsked
<1>5. FillsAsked(r) \in Filled(Execution(r))
  <2>1. Len(ScheduleAsked(r)) \in 0..Len(ScheduleAsked(r))
    BY <1>3
  <2>. QED  BY <1>1, <1>4, <2>1 DEF FillsBy
<1>. QED  BY <1>2, <1>4, <1>5

\* The scenario of a request: funding in the order of its hours, fills, marks.
LEMMA ScenariosCompose ==
    ASSUME NEW r, IsRequest(r), Asked(r) # Refused
    PROVE  \E n, k, opens, l :
              /\ Composed(Asked(r), FundingEvents(FundingAsked(r)), n,
                          FillEvents(FillsAsked(r), r.terms), k, MarksAsked(r), l)
              /\ Led(Asked(r), FundingEvents(FundingAsked(r)), n, n + k + l)
              /\ DOMAIN FundingAsked(r) = 1..n /\ k = Len(FillsAsked(r))
              /\ Marked(MarksAsked(r), opens, l, RequiredAsked(r), Marking(r), r.terms.marking)
<1>. DEFINE al == FundingAsked(r)
            fills == FillsAsked(r)
            k == Len(fills)
            F == FundingEvents(al)
            G == FillEvents(fills, r.terms)
            H == MarksAsked(r)
<1>1. al # Refused /\ Asked(r) = F \o G \o H
  BY Accepted
<1>2. PICK n \in Nat : /\ DOMAIN al = 1..n
                       /\ \A i \in 1..n : al[i].funding.time \in Int
  <2>1. PICK n \in Nat : DOMAIN al = 1..n /\ \A i \in 1..n : al[i] \in Alignments(r.market)
    BY <1>1, FundingValid DEF FundingAsked
  <2>. HIDE DEF al
  <2>2. \A i \in 1..n : al[i].funding.time \in Int
    BY <2>1, AlignmentTimes, AlignmentAssumption
  <2>. QED  BY <2>1, <2>2
<1>3. /\ k \in Nat /\ DOMAIN fills = 1..k
      /\ \A i \in 1..k : fills[i].time \in Int /\ fills[i].seq = i - 1
  BY FillsMade, FilledFacts DEF Chained
<1>4. PICK opens, l : Marked(H, opens, l, RequiredAsked(r), Marking(r), r.terms.marking)
  <2>1. r.terms.marking \in Int
    BY RequestFacts
  <2>. QED  BY <2>1, MarksOrdered DEF MarksAsked, RequiredAsked
<1>5. H = [i \in DOMAIN H |-> H[i]] /\ r.terms.marking \in Int
  BY RequestFacts DEF MarksAsked, MarkEvents
<1>. HIDE DEF al, fills, H
<1>6. /\ F = [i \in 1..n |-> F[i]]
      /\ \A i \in 1..n : F[i].kind = "funding" /\ F[i].seq = i - 1 /\ F[i].time = al[i].funding.time
  BY <1>2 DEF FundingEvents
<1>7. /\ G = [i \in 1..k |-> G[i]]
      /\ \A i \in 1..k : G[i].kind = "fill" /\ G[i].seq = i - 1 /\ G[i].time \in Int
  BY <1>3 DEF FillEvents
<1>8. /\ H = [i \in 1..l |-> H[i]] /\ l \in Nat
      /\ \A i \in 1..l : H[i].kind = "mark" /\ H[i].seq = i - 1 /\ H[i].time \in Int
  BY <1>4, <1>5 DEF Marked
<1>. HIDE DEF F, G, k
<1>9. Led(F \o G \o H, F, n, n + k + l) /\ Composed(F \o G \o H, F, n, G, k, H, l)
  <2>1. Numbered(F, n, "funding")
    BY <1>2, <1>6 DEF Numbered, HasLength
  <2>2. Numbered(G, k, "fill")
    BY <1>3, <1>7 DEF Numbered, HasLength
  <2>3. Numbered(H, l, "mark")
    BY <1>8 DEF Numbered, HasLength
  <2>. QED  BY <2>1, <2>2, <2>3, ThreeKinds, Zenon
<1>. QED  BY <1>1, <1>2, <1>4, <1>9 DEF F, G, H, al, fills, k

LEMMA ScenariosAssemble ==
    ASSUME NEW r, IsRequest(r), Asked(r) # Refused
    PROVE  FundingAsked(r) # Refused /\ \E m, n : Assembles(Asked(r), m, FundingAsked(r), n)
<1>. DEFINE al == FundingAsked(r)
            F == FundingEvents(al)
            s == Asked(r)
<1>1. al # Refused
  BY Accepted
<1>2. PICK n, m : Led(s, F, n, m) /\ DOMAIN al = 1..n
  BY ScenariosCompose
<1>. HIDE DEF al, s
<1>3. /\ n \in Nat /\ m \in Nat /\ n <= m
      /\ DOMAIN s = 1..m /\ Distinguished(s)
      /\ \A i \in 1..m : s[i].kind = "funding" <=> i <= n
      /\ \A i \in 1..n : s[i] = F[i]
  BY <1>2, Zenon DEF Led
<1>4. \A i \in 1..n : /\ F[i].time = al[i].funding.time /\ F[i].price = al[i].price
                      /\ F[i].rate = al[i].funding.rate
  BY <1>2 DEF FundingEvents
<1>. HIDE DEF F
<1>5. Assembles(s, m, al, n)
  BY <1>2, <1>3, <1>4 DEF Assembles
<1>. QED  BY <1>1, <1>5 DEF al, s

LEMMA ScenarioDeltas ==
    ASSUME NEW r, IsRequest(r), Asked(r) # Refused
    PROVE  \E m \in Nat : /\ DOMAIN Asked(r) = 1..m /\ Distinguished(Asked(r))
                         /\ \A i \in 1..m : Asked(r)[i].kind = "fill" => Asked(r)[i].delta \in Int
<1>. DEFINE s == Asked(r)
            fills == FillsAsked(r)
            F == FundingEvents(FundingAsked(r))
            G == FillEvents(fills, r.terms)
            H == MarksAsked(r)
<1>1. PICK n, k, opens, l : /\ Composed(s, F, n, G, k, H, l) /\ Led(s, F, n, n + k + l)
                            /\ k = Len(fills)
                            /\ Marked(H, opens, l, RequiredAsked(r), Marking(r), r.terms.marking)
  BY ScenariosCompose
<1>2. fills \in Filled(Execution(r))
  BY FillsMade
<1>. HIDE DEF s, fills
<1>3. \A i \in 1..k : G[i].delta \in Int
  BY <1>1, <1>2, FilledFacts DEF FillEvents
<1>4. \A i \in 1..l : H[i].kind = "mark"
  <2>. HIDE DEF H
  <2>. QED  BY <1>1 DEF Marked
<1>. HIDE DEF F, G, H
<1>5. /\ n \in Nat /\ k \in Nat /\ l \in Nat /\ DOMAIN s = 1..(n + k + l) /\ Distinguished(s)
      /\ \A i \in 1..(n + k + l) : s[i].kind = "funding" <=> i <= n
      /\ \A i \in 1..k : s[n + i] = G[i]
      /\ \A i \in 1..l : s[n + k + i] = H[i]
  BY <1>1 DEF Composed, Led
<1>6. ASSUME NEW i \in 1..(n + k + l), s[i].kind = "fill" PROVE s[i].delta \in Int
  <2>1. CASE i <= n
    BY <1>5, <1>6, <2>1
  <2>2. CASE n < i /\ i <= n + k
    <3>1. i - n \in 1..k /\ n + (i - n) = i
      BY <1>5, <2>2
    <3>. QED  BY <1>3, <1>5, <3>1
  <2>3. CASE n + k < i
    <3>1. i - n - k \in 1..l /\ n + k + (i - n - k) = i
      BY <1>5, <2>3
    <3>. QED  BY <1>4, <1>5, <1>6, <3>1
  <2>. QED  BY <1>5, <2>1, <2>2, <2>3
<1>7. n + k + l \in Nat
  BY <1>5
<1>. QED  BY <1>5, <1>6, <1>7 DEF s

-----------------------------------------------------------------------------
(* The hours and the prices of funding. *)

\* Near an hour is the hour that the funding belongs to.
LEMMA NearOneHour ==
    ASSUME NEW t \in Start..(End - 1), FundingSlot(t) # Absent, NEW s \in Slots
    PROVE  Distance(t, s) <= Tolerance <=> FundingSlot(t) = s
<1>. DEFINE nearest == Start + Hour * ((t - Start + Hour \div 2) \div Hour)
<1>1. FundingSlot(t) = nearest /\ nearest \in Slots /\ Distance(t, nearest) <= Tolerance
  BY DEF FundingSlot
<1>. HIDE DEF nearest
<1>2. /\ t \in Int /\ Start \in Int /\ s \in Int /\ nearest \in Int
      /\ (s - Start) % 4 = 0 /\ (nearest - Start) % 4 = 0
  BY <1>1, AlignmentAssumption DEF Slots, Hour
<1>3. ASSUME Distance(t, s) <= Tolerance PROVE nearest = s
  <2>1. s - nearest <= 2 /\ nearest - s <= 2
    BY <1>1, <1>2, <1>3 DEF Distance, Tolerance
  <2>. QED  BY <1>2, <2>1
<1>. QED  BY <1>1, <1>3

\* An aligned price is the last that the market knows by then.
LEMMA PricedByTheLast ==
    ASSUME NEW r, IsRequest(r), NEW a \in Alignments(r.market), a.reason = Absent
    PROVE  \E o \in r.market.oracles :
              /\ o.time <= a.funding.time
              /\ o.price = a.price /\ a.funding.time - o.time <= MaxAge
              /\ \A p \in r.market.oracles : p.time <= a.funding.time => p.time <= o.time
              /\ \A p \in r.market.oracles : p.time = o.time => p.price = a.price
<1>. DEFINE f == a.funding
            rows == OracleRows(r.market)
            candidates == LastObservation(rows, f.time)
            o == CHOOSE o \in candidates : TRUE
            disputed == Cardinality({c.price : c \in candidates}) # 1
                            \/ \E c \in candidates : c.conflicting
            reason == CASE candidates = {} -> "missing_oracle"
                        [] candidates # {} /\ disputed -> "conflicting_oracle"
                        [] candidates # {} /\ ~disputed /\ f.time - o.time > MaxAge -> "stale_oracle"
                        [] OTHER -> Absent
<1>1. f.time \in Start..(End - 1) /\ a = Alignment(f, rows)
  BY AlignmentTimes
<1>2. /\ a.reason = reason
      /\ a.price = IF reason \in {Absent, "stale_oracle"} THEN o.price ELSE Absent
  <2>1. a = [funding |-> f, reason |-> reason,
             price |-> IF reason \in {Absent, "stale_oracle"} THEN o.price ELSE Absent,
             age |-> IF candidates = {} THEN Absent ELSE f.time - o.time]
    BY <1>1 DEF Alignment
  <2>. HIDE DEF f, rows, candidates, o, disputed, reason
  <2>. QED  BY <2>1
<1>3. candidates # {} /\ ~disputed /\ ~(f.time - o.time > MaxAge) /\ a.price = o.price
  <2>. HIDE DEF f, rows, candidates, o, disputed
  <2>. QED  BY <1>2, AlignmentAssumption
<1>4. o \in candidates
  BY <1>3
<1>. HIDE DEF o
<1>5. o \in rows /\ o.time <= f.time /\ \A p \in rows : p.time <= f.time => p.time <= o.time
  BY <1>4 DEF LastObservation, Latest, AtOrBefore
<1>. DEFINE Same == \A p \in rows : p.time = o.time => p.price = o.price
<1>10. Same
  <2>. DEFINE prices == {c.price : c \in candidates}
              price == [c \in candidates |-> c.price]
  <2>1. Cardinality(prices) = 1
    BY <1>3
  <2>2. IsFiniteSet(candidates)
    <3>1. candidates \in SUBSET r.market.oracles
      BY DEF LastObservation, Latest, AtOrBefore, OracleRows
    <3>. QED  BY <3>1, FS_Subset, RequestFacts
  <2>. HIDE DEF candidates
  <2>3. price \in Surjection(candidates, prices)
    BY DEF Surjection
  <2>. HIDE DEF prices, price
  <2>4. IsFiniteSet(prices)
    BY <2>2, <2>3, FS_Surjection
  <2>5. \E p : prices = {p}
    BY <2>1, <2>4, FS_Singleton
  <2>6. \A c \in candidates : c.price \in prices
    BY DEF prices
  <2>7. ASSUME NEW p \in rows, p.time = o.time PROVE p \in candidates
    BY <1>4, <2>7 DEF candidates, LastObservation, Latest, AtOrBefore
  <2>. QED  BY <1>4, <2>5, <2>6, <2>7
<1>. HIDE DEF candidates, disputed, reason
<1>6. \A p \in r.market.oracles : p.time \in Int
  BY RequestFacts
<1>7. o \in r.market.oracles
  BY <1>5 DEF OracleRows, Latest
<1>8. ASSUME NEW p \in r.market.oracles, p.time <= f.time PROVE p.time <= o.time
  <2>. DEFINE older == {x \in r.market.oracles : x.time < Start - MaxAge}
  <2>1. Start \in Int /\ End \in Int /\ MaxAge \in Int /\ f.time \in Int /\ f.time < End
    BY <1>1, AlignmentAssumption
  <2>2. CASE Start - MaxAge <= p.time
    <3>1. p \in rows
      BY <1>6, <1>8, <2>1, <2>2 DEF OracleRows
    <3>. QED  BY <1>5, <1>8, <3>1
  <2>3. CASE p.time < Start - MaxAge /\ Start - MaxAge <= o.time
    BY <1>6, <1>7, <2>1, <2>3
  <2>4. CASE p.time < Start - MaxAge /\ o.time < Start - MaxAge
    <3>1. o \in Latest(older)
      BY <1>5, <1>6, <1>7, <2>1, <2>4 DEF OracleRows
    <3>. QED  BY <2>4, <3>1 DEF Latest
  <2>. QED  BY <1>6, <1>7, <2>1, <2>2, <2>3, <2>4
<1>9. f.time - o.time <= MaxAge
  BY <1>1, <1>3, <1>6, <1>7, AlignmentAssumption
<1>11. ASSUME NEW p \in r.market.oracles, p.time = o.time PROVE p.price = a.price
  <2>1. p \in rows
    BY <1>5, <1>6, <1>7, <1>11, AlignmentAssumption DEF OracleRows, Latest
  <2>. QED  BY <1>3, <1>10, <1>11, <2>1
<1>. QED  BY <1>3, <1>5, <1>7, <1>8, <1>9, <1>11

-----------------------------------------------------------------------------
(* Every hour is settled. *)

\* What settles an hour: one event alone, from an alignment of the market.
SettledBy(run, m, s, j, a) ==
    /\ {i \in 1..m : run[i].kind = "funding" /\ Distance(run[i].time, s) <= Tolerance} = {j}
    /\ run[j].time = a.funding.time /\ run[j].price = a.price
    /\ run[j].rate = a.funding.rate

LEMMA HourSettled ==
    ASSUME NEW r, IsRequest(r), NEW scenario, NEW m, NEW n,
           ValidatedFunding(r.market, r.terms) # Refused,
           Assembles(scenario, m, ValidatedFunding(r.market, r.terms), n),
           NEW s \in Slots
    PROVE  \E j : \E a \in Alignments(r.market) :
              IsAligned(a, r.terms) /\ SettledBy(Ordered(scenario), m, s, j, a)
<1>. DEFINE al == ValidatedFunding(r.market, r.terms)
            D == Alignments(r.market)
            run == Ordered(scenario)
            settled == {i \in 1..m : run[i].kind = "funding"
                                     /\ Distance(run[i].time, s) <= Tolerance}
<1>1. /\ m \in Nat /\ n \in 0..m /\ DOMAIN scenario = 1..m /\ DOMAIN al = 1..n
      /\ Distinguished(scenario)
      /\ \A i \in 1..m : scenario[i].kind = "funding" <=> i <= n
      /\ \A i \in 1..n : /\ scenario[i].time = al[i].funding.time
                         /\ scenario[i].price = al[i].price
                         /\ scenario[i].rate = al[i].funding.rate
  BY DEF Assembles
<1>2. PICK l \in Nat : /\ DOMAIN al = 1..l
                       /\ \A k \in 1..l : al[k] \in D
                       /\ \A a \in D : \E k \in 1..l : al[k] = a
                       /\ \A j, k \in 1..l : al[j] = al[k] => j = k
                       /\ \A j, k \in 1..l : j < k => al[j].funding.time < al[k].funding.time
  BY FundingValid
<1>3. /\ \A k \in 1..n : al[k] \in D
      /\ \A a \in D : \E k \in 1..n : al[k] = a
      /\ \A j, k \in 1..n : al[j] = al[k] => j = k
  BY <1>1, <1>2
<1>4. /\ \A a \in D : IsAligned(a, r.terms)
      /\ \E a : {b \in D : FundingSlot(b.funding.time) = s} = {a}
  <2>1. Complete(r.market, r.terms)
    BY FundingValid
  <2>. QED  BY <2>1 DEF Complete
<1>. HIDE DEF al
<1>5. PICK places : Reorders(run, scenario, m, places)
  BY <1>1, OrderedSorts, Zenon
<1>. HIDE DEF run
<1>6. /\ \A k \in 1..m : places[k] \in 1..m
      /\ \A k \in 1..m : run[k] = scenario[places[k]]
      /\ \A i \in 1..m : \E k \in 1..m : places[k] = i
      /\ \A j, k \in 1..m : places[j] = places[k] => j = k
  BY <1>5 DEF Reorders
<1>7. PICK a \in D : {b \in D : FundingSlot(b.funding.time) = s} = {a}
  BY <1>4
<1>8. \A b \in D : FundingSlot(b.funding.time) = s <=> b = a
  BY <1>7
<1>9. PICK k \in 1..n : al[k] = a
  BY <1>3
<1>10. PICK j \in 1..m : places[j] = k
  <2>1. k \in 1..m
    BY <1>1
  <2>. QED  BY <1>6, <2>1
<1>11. \A b \in D : Distance(b.funding.time, s) <= Tolerance <=> b = a
  <2>1. ASSUME NEW b \in D PROVE Distance(b.funding.time, s) <= Tolerance <=> FundingSlot(b.funding.time) = s
    <3>1. b.funding.time \in Start..(End - 1)
      BY AlignmentTimes
    <3>2. FundingSlot(b.funding.time) # Absent
      BY <1>4 DEF IsAligned
    <3>. QED  BY <3>1, <3>2, NearOneHour
  <2>. QED  BY <1>8, <2>1
<1>. HIDE DEF D
<1>12. j \in settled /\ (settled = {j} => SettledBy(run, m, s, j, a))
  <2>1. k \in 1..m /\ k <= n
    BY <1>1
  <2>2. run[j] = scenario[k]
    BY <1>6, <1>10
  <2>3. scenario[k].kind = "funding"
    BY <1>1, <2>1
  <2>4. run[j].time = a.funding.time /\ run[j].price = a.price /\ run[j].rate = a.funding.rate
    BY <1>1, <1>9, <2>2, <2>1
  <2>5. Distance(run[j].time, s) <= Tolerance
    BY <1>11, <2>4
  <2>. QED  BY <2>2, <2>4, <2>5, <2>3 DEF SettledBy
<1>13. ASSUME NEW i \in settled PROVE i = j
  <2>1. i \in 1..m /\ run[i] = scenario[places[i]] /\ places[i] \in 1..m
    BY <1>6
  <2>2. places[i] \in 1..n
    BY <1>1, <2>1
  <2>3. run[i].time = al[places[i]].funding.time /\ al[places[i]] \in D
    BY <1>1, <1>3, <2>1, <2>2
  <2>4. al[places[i]] = a
    BY <1>11, <2>3
  <2>5. places[i] = k
    BY <1>3, <1>9, <2>2, <2>4
  <2>. QED  BY <1>6, <1>10, <2>1, <2>5
<1>14. SettledBy(run, m, s, j, a) /\ IsAligned(a, r.terms)
  BY <1>4, <1>12, <1>13
<1>. QED  BY <1>14 DEF D, run

-----------------------------------------------------------------------------
(* The invariant. *)

ScenarioAsked == Asked(request)

StudyInv ==
    /\ request \in Requests \cup {None}
    /\ status = "supplying" => request = None
    /\ status = "done" => index = Len(events)
    /\ IsAssembled => ScenarioAsked # Refused /\ events = Ordered(ScenarioAsked)

LEMMA StudyInitSound == StudyInit => StudyInv
BY DEF StudyInit, MetricsInit, Init, StudyInv, IsAssembled

LEMMA StudyNextSound == StudyInv /\ [StudyNext]_studyVars => StudyInv'
<1>. SUFFICES ASSUME StudyInv, [StudyNext]_studyVars PROVE StudyInv'
  OBVIOUS
<1>. USE DEF StudyInv, IsAssembled, ScenarioAsked, Asked
<1>1. ASSUME NEW r \in Requests, Assemble(r) PROVE StudyInv'
  <2>1. request' = r /\ r # None /\ status' \in {"refused", "running"}
    BY <1>1, StudyAssumption DEF Assemble
  <2>2. status' # "refused" =>
          /\ ScenarioOf(r.market, r.plan, r.terms) # Refused
          /\ events' = Ordered(ScenarioOf(r.market, r.plan, r.terms))
    BY <1>1 DEF Assemble
  <2>. QED  BY <2>1, <2>2
<1>2. ASSUME NEW e \in Event, Supply(e), UNCHANGED request PROVE StudyInv'
  <2>1. request' = None /\ status' \in {"supplying", "refused"}
    BY <1>2 DEF Supply
  <2>. QED  BY <2>1
<1>3. ASSUME Begin, UNCHANGED request PROVE StudyInv'
  BY <1>3 DEF Begin
<1>4. ASSUME PostEntry, UNCHANGED request PROVE StudyInv'
  <2>1. /\ status = "running" /\ status' \in {"running", "contradicted"}
        /\ events' = events /\ request' = request
    BY <1>4 DEF PostEntry
  <2>. QED  BY <2>1
<1>5. ASSUME Finish, UNCHANGED request PROVE StudyInv'
  <2>1. /\ status = "running" /\ status' \in {"done", "refused", "contradicted"}
        /\ index = Len(events) /\ events' = events /\ index' = index /\ request' = request
    BY <1>5 DEF Finish
  <2>. QED  BY <2>1
<1>6. CASE Measure /\ UNCHANGED request
  BY <1>6 DEF Measure, vars
<1>7. CASE UNCHANGED studyVars
  BY <1>7 DEF studyVars, metricVars, vars
<1>. QED
  BY <1>1, <1>2, <1>3, <1>4, <1>5, <1>6, <1>7 DEF StudyNext, MetricsNext, Next

\* A scenario of a request has the events that its assembly gave it, in
\* accounting order, until its end.
THEOREM StudyInvariant == StudySpec => []StudyInv
BY StudyInitSound, StudyNextSound, PTL DEF StudySpec

LEMMA DoneIsSettled == StudyInv => SettledHourly
<1>. SUFFICES ASSUME StudyInv, request # None, status = "done", NEW s \in Slots
              PROVE  LET settled == {i \in Posted("funding") : Distance(events[i].time, s) <= Tolerance}
                         e == events[CHOOSE i \in settled : TRUE]
                         known == {o \in request.market.oracles : o.time <= e.time}
                     IN  /\ Cardinality(settled) = 1
                         /\ \E f \in request.market.funding :
                               f.time = e.time /\ f.rate = e.rate /\ ~f.predicted /\ f.run = "succeeded"
                         /\ \E o \in known :
                               /\ o.price = e.price /\ e.time - o.time <= MaxAge
                               /\ \A p \in known : p.time <= o.time
  BY DEF SettledHourly, IsAssembled
<1>. DEFINE settled == {i \in Posted("funding") : Distance(events[i].time, s) <= Tolerance}
            e == events[CHOOSE i \in settled : TRUE]
            known == {o \in request.market.oracles : o.time <= e.time}
<1>1. /\ request \in Requests /\ index = Len(events)
      /\ ScenarioAsked # Refused /\ events = Ordered(ScenarioAsked)
  BY DEF StudyInv, IsAssembled
<1>2. /\ ValidatedFunding(request.market, request.terms) # Refused
      /\ \E m, n : Assembles(ScenarioAsked, m, ValidatedFunding(request.market, request.terms), n)
  BY <1>1, ScenariosAssemble, StudyAssumption DEF ScenarioAsked, FundingAsked
<1>3. PICK m, n : Assembles(ScenarioAsked, m, ValidatedFunding(request.market, request.terms), n)
  BY <1>2
<1>4. index = m
  <2>1. m \in Nat /\ DOMAIN ScenarioAsked = 1..m /\ Distinguished(ScenarioAsked)
    BY <1>3 DEF Assembles
  <2>2. PICK places : Reorders(events, ScenarioAsked, m, places)
    BY <1>1, <2>1, OrderedSorts
  <2>3. events = [k \in 1..m |-> events[k]]
    BY <2>2 DEF Reorders
  <2>. DEFINE S == {events[k] : k \in 1..m}
  <2>4. events \in [1..m -> S]
    BY <2>3
  <2>. HIDE DEF S
  <2>5. events \in Seq(S)
    BY <2>1, <2>4
  <2>. QED  BY <1>1, <2>1, <2>4, <2>5, LenProperties
<1>5. \E j : \E a \in Alignments(request.market) :
         IsAligned(a, request.terms) /\ SettledBy(Ordered(ScenarioAsked), m, s, j, a)
  BY <1>1, <1>2, <1>3, HourSettled, StudyAssumption, Zenon
<1>6. PICK j : \E a \in Alignments(request.market) :
         IsAligned(a, request.terms) /\ SettledBy(events, m, s, j, a)
  BY <1>1, <1>5
<1>7. PICK a \in Alignments(request.market) :
         IsAligned(a, request.terms) /\ SettledBy(events, m, s, j, a)
  BY <1>6
<1>8. settled = {j}
  BY <1>4, <1>7 DEF SettledBy, Posted
<1>9. e = events[j] /\ Cardinality(settled) = 1
  BY <1>8, FS_Singleton
<1>. HIDE DEF settled, e
<1>10. e.time = a.funding.time /\ e.price = a.price /\ e.rate = a.funding.rate
  BY <1>7, <1>9 DEF SettledBy
<1>11. a.funding \in request.market.funding /\ ~a.funding.predicted /\ a.funding.run = "succeeded"
  BY <1>7, AlignmentTimes DEF IsAligned, IsSound, FundingRows
<1>12. PICK o \in request.market.oracles :
          /\ o.time <= a.funding.time
          /\ o.price = a.price /\ a.funding.time - o.time <= MaxAge
          /\ \A p \in request.market.oracles : p.time <= a.funding.time => p.time <= o.time
  BY <1>1, <1>7, PricedByTheLast, StudyAssumption DEF IsAligned
<1>. QED  BY <1>9, <1>10, <1>11, <1>12 DEF settled, e

\* A study that ends has settled every hour of its window once, at a rate that
\* the market holds for that hour, on the last oracle price known by then,
\* whatever its market, its schedule or baseline and its assumptions.
THEOREM HoursSettled == StudySpec => []SettledHourly
BY StudyInvariant, DoneIsSettled, PTL

-----------------------------------------------------------------------------
(* The ledger. *)

LEMMA LengthOf ==
    ASSUME NEW s, NEW n, HasLength(s, n)
    PROVE  n \in Nat /\ DOMAIN s = 1..n /\ Len(s) = n
<1>. USE DEF HasLength
<1>. DEFINE S == {s[i] : i \in 1..n}
<1>1. s \in [1..n -> S] /\ DOMAIN s = 1..n
  OBVIOUS
<1>. HIDE DEF S
<1>2. s \in Seq(S)
  BY <1>1
<1>. QED  BY <1>1, <1>2, LenProperties

LEMMA SequencesHaveLength ==
    ASSUME NEW S, NEW s \in Seq(S)
    PROVE  HasLength(s, Len(s)) /\ \A i \in 1..Len(s) : s[i] \in S
BY LenProperties, ElementOfSeq DEF HasLength

\* One more than s of length n.
Extends(t, s, n, x) ==
    HasLength(t, n + 1) /\ t[n + 1] = x /\ \A i \in 1..n : t[i] = s[i]

LEMMA Appended ==
    ASSUME NEW s, NEW n, HasLength(s, n), NEW x
    PROVE  Extends(Append(s, x), s, n, x)
<1>. DEFINE S == {s[i] : i \in 1..n} \cup {x}
            t == Append(s, x)
<1>1. n \in Nat /\ Len(s) = n
  BY LengthOf
<1>2. s \in [1..n -> S]
  BY DEF HasLength
<1>3. x \in S
  OBVIOUS
<1>. HIDE DEF S
<1>4. s \in Seq(S)
  BY <1>1, <1>2
<1>5. /\ t \in Seq(S) /\ Len(t) = n + 1 /\ t[n + 1] = x
      /\ \A i \in 1..n : t[i] = s[i]
  BY <1>1, <1>3, <1>4, AppendProperties
<1>. HIDE DEF t
<1>6. HasLength(t, n + 1)
  BY <1>5, SequencesHaveLength
<1>7. Extends(t, s, n, x)
  BY <1>5, <1>6 DEF Extends
<1>. QED  BY <1>7 DEF t

LEMMA Lengthened ==
    ASSUME NEW S, NEW s \in Seq(S), NEW x
    PROVE  /\ Len(Append(s, x)) = Len(s) + 1 /\ Append(s, x)[Len(s) + 1] = x
           /\ \A i \in 1..Len(s) : Append(s, x)[i] = s[i]
<1>1. Extends(Append(s, x), s, Len(s), x)
  BY SequencesHaveLength, Appended
<1>2. HasLength(Append(s, x), Len(s) + 1)
  BY <1>1 DEF Extends
<1>3. Len(Append(s, x)) = Len(s) + 1
  BY <1>2, LengthOf
<1>. QED  BY <1>1, <1>3 DEF Extends

Kinds == {"funding", "fill", "mark"}

\* m events in accounting order.
Sequenced(run, m) ==
    /\ HasLength(run, m)
    /\ \A i \in 1..m : /\ run[i].time \in Int /\ run[i].seq \in Int /\ run[i].kind \in Kinds
                       /\ run[i].kind = "fill" => run[i].delta \in Int
    /\ \A i, j \in 1..m : i < j => Before(run[i], run[j])

LEMMA OrderedSequenced ==
    ASSUME NEW s, NEW m \in Nat, DOMAIN s = 1..m, Distinguished(s),
           \A i \in 1..m : s[i].kind = "fill" => s[i].delta \in Int
    PROVE  Sequenced(Ordered(s), m)
<1>1. PICK places : Reorders(Ordered(s), s, m, places)
  BY OrderedSorts
<1>. DEFINE run == Ordered(s)
<1>. HIDE DEF run
<1>2. /\ run = [k \in 1..m |-> s[places[k]]]
      /\ \A k \in 1..m : places[k] \in 1..m
      /\ \A j, k \in 1..m : j < k => Before(s[places[j]], s[places[k]])
  BY <1>1 DEF Reorders, run
<1>3. \A i \in 1..m : s[i].time \in Int /\ s[i].seq \in Int /\ s[i].kind \in Kinds
  BY DEF Distinguished, Kinds
<1>4. Sequenced(run, m)
  BY <1>2, <1>3 DEF Sequenced, HasLength
<1>. QED  BY <1>4 DEF run

\* An event in accounting order is no earlier than those before it, and funding
\* comes before the fills of its time.
LEMMA InSequence ==
    ASSUME NEW run, NEW m, Sequenced(run, m), NEW i \in 1..m, NEW j \in 1..m, i < j
    PROVE  /\ run[i].time <= run[j].time
           /\ run[j].kind = "funding" /\ run[i].kind = "fill" => run[i].time < run[j].time
<1>1. Before(run[i], run[j]) /\ run[i].time \in Int /\ run[j].time \in Int
  BY DEF Sequenced
<1>. QED  BY <1>1 DEF Before, Priority

Opening ==
    [cash |-> InitialCash, quantity |-> 0, average |-> None, realized |-> Zero,
     funding |-> Zero, fees |-> Zero, slippage |-> Zero, mark |-> None]

IsAccount(a) ==
    /\ {"cash", "quantity", "average", "realized", "funding", "fees", "slippage", "mark"} \subseteq DOMAIN a
    /\ a.quantity \in Int

Moved(e) == IF e.kind = "fill" THEN e.delta ELSE 0

Flow(quantity, e) == Multiply(Multiply(Units(-quantity), FromInt(e.price)), e.rate)

\* Only a fill changes the position, and only funding what was settled.
LEMMA ApplyKeeps ==
    ASSUME NEW a, IsAccount(a), NEW e, e.kind \in Kinds, e.kind = "fill" => e.delta \in Int
    PROVE  /\ IsAccount(Apply(a, e))
           /\ Apply(a, e).quantity = a.quantity + Moved(e)
           /\ Apply(a, e).funding =
                 IF e.kind = "funding" THEN Add(a.funding, Flow(a.quantity, e)) ELSE a.funding
<1>. USE DEF IsAccount, Moved
<1>1. CASE e.kind = "funding"
  <2>. DEFINE b == ApplyFunding(a, e)
  <2>1. Apply(a, e) = b
    BY <1>1 DEF Apply
  <2>2. DOMAIN b = DOMAIN a /\ b.quantity = a.quantity /\ b.funding = Add(a.funding, Flow(a.quantity, e))
    BY DEF ApplyFunding, Flow
  <2>. QED  BY <1>1, <2>1, <2>2
<1>2. CASE e.kind = "fill"
  <2>. DEFINE b == ApplyFill(a, e)
  <2>1. Apply(a, e) = b
    BY <1>2 DEF Apply
  <2>2. DOMAIN b = DOMAIN a /\ b.quantity = a.quantity + e.delta /\ b.funding = a.funding
    BY DEF ApplyFill
  <2>. HIDE DEF b
  <2>. QED  BY <1>2, <2>1, <2>2
<1>3. CASE e.kind = "mark"
  <2>. DEFINE b == ApplyMark(a, e)
  <2>1. Apply(a, e) = b
    BY <1>3 DEF Apply
  <2>2. DOMAIN b = DOMAIN a /\ b.quantity = a.quantity /\ b.funding = a.funding
    BY DEF ApplyMark
  <2>. HIDE DEF b
  <2>. QED  BY <1>3, <2>1, <2>2
<1>. QED  BY <1>1, <1>2, <1>3 DEF Kinds

\* The account after i events.
After(i) == IF i = 0 THEN Opening ELSE ledger[i]

\* The ledger is what the kernel makes of the events, one after the other.
LedgerInv ==
    /\ index \in Nat /\ HasLength(ledger, index)
    /\ account = After(index)
    /\ \A i \in 0..index : IsAccount(After(i))
    /\ \A i \in 1..index : ledger[i] = Apply(After(i - 1), events[i])
    /\ status = "supplying" => index = 0 /\ events \in Seq(Event) /\ Distinguished(events)
    /\ index > 0 \/ status \in {"running", "done", "contradicted"}
          => \E m : Sequenced(events, m) /\ index <= m

LEMMA EventFacts ==
    ASSUME NEW e \in Event
    PROVE  /\ e.time \in Int /\ e.seq \in Int /\ e.kind \in Kinds
           /\ e.kind = "fill" => e.delta \in Int
<1>1. Times \subseteq Int /\ Seqs \subseteq Int /\ Deltas \subseteq Int
  BY AccountingAssumption
<1>2. CASE e \in Funding
  <2>1. e.kind = "funding" /\ e.time \in Times /\ e.seq = 0
    BY <1>2 DEF Funding
  <2>2. e.time \in Int
    BY <1>1, <2>1, Zenon
  <2>. QED  BY <2>1, <2>2 DEF Kinds
<1>3. CASE e \in Fill
  BY <1>1, <1>3 DEF Fill, Kinds
<1>4. CASE e \in Mark
  <2>1. e.kind = "mark" /\ e.time \in Times /\ e.seq = 0
    BY <1>4 DEF Mark
  <2>2. e.time \in Int
    BY <1>1, <2>1, Zenon
  <2>. QED  BY <2>1, <2>2 DEF Kinds
<1>. QED  BY <1>2, <1>3, <1>4 DEF Event

LEMMA LedgerInitSound == StudyInit => LedgerInv
<1>. SUFFICES ASSUME StudyInit PROVE LedgerInv
  OBVIOUS
<1>1. /\ index = 0 /\ ledger = <<>> /\ events = <<>> /\ status = "supplying" /\ account = Opening
  BY DEF StudyInit, MetricsInit, Init, Opening
<1>2. HasLength(ledger, 0) /\ events \in Seq(Event) /\ Distinguished(events)
  BY <1>1 DEF HasLength, Distinguished
<1>3. IsAccount(Opening) /\ After(0) = Opening
  BY DEF IsAccount, Opening, After
<1>. QED  BY <1>1, <1>2, <1>3 DEF LedgerInv

\* Where nothing is posted, the ledger stays as it was.
LEMMA LedgerStays ==
    ASSUME LedgerInv, UNCHANGED <<index, account, ledger>>,
           index = 0 \/ events' = events,
           status' = "supplying" => index = 0 /\ events' \in Seq(Event) /\ Distinguished(events'),
           index > 0 \/ status' \in {"running", "done", "contradicted"}
              => \E m : Sequenced(events', m) /\ index <= m
    PROVE  LedgerInv'
<1>1. \A i \in 0..index : After(i)' = After(i)
  BY DEF After
<1>2. \A i \in 1..index : i \in 0..index /\ i - 1 \in 0..index /\ events'[i] = events[i]
  BY DEF LedgerInv
<1>3. \A i \in 0..index' : IsAccount(After(i)')
  BY <1>1 DEF LedgerInv
<1>4. \A i \in 1..index' : ledger'[i] = Apply(After(i - 1)', events'[i])
  BY <1>1, <1>2 DEF LedgerInv
<1>5. account' = After(index)'
  BY <1>1 DEF LedgerInv
<1>. QED  BY <1>3, <1>4, <1>5 DEF LedgerInv

LEMMA LedgerNextSound == LedgerInv /\ StudyInv /\ [StudyNext]_studyVars => LedgerInv'
<1>. SUFFICES ASSUME LedgerInv, StudyInv, [StudyNext]_studyVars PROVE LedgerInv'
  OBVIOUS
<1>1. ASSUME NEW r \in Requests, Assemble(r) PROVE LedgerInv'
  <2>1. /\ status = "supplying" /\ UNCHANGED <<index, account, ledger>>
        /\ status' \in {"refused", "running"}
        /\ status' = "running" => Asked(r) # Refused /\ events' = Ordered(Asked(r))
    BY <1>1 DEF Assemble, Asked
  <2>2. index = 0
    BY <2>1 DEF LedgerInv
  <2>3. ASSUME status' = "running" PROVE \E m : Sequenced(events', m) /\ index <= m
    <3>1. IsRequest(r) /\ Asked(r) # Refused
      BY <2>1, <2>3, StudyAssumption
    <3>2. PICK m \in Nat : /\ DOMAIN Asked(r) = 1..m /\ Distinguished(Asked(r))
                           /\ \A i \in 1..m : Asked(r)[i].kind = "fill" => Asked(r)[i].delta \in Int
      BY <3>1, ScenarioDeltas
    <3>. HIDE DEF Asked
    <3>3. Sequenced(Ordered(Asked(r)), m)
      BY <3>2, OrderedSequenced
    <3>. QED  BY <2>1, <2>2, <2>3, <3>2, <3>3
  <2>. QED  BY <2>1, <2>2, <2>3, LedgerStays
<1>2. ASSUME NEW e \in Event, Supply(e), UNCHANGED request PROVE LedgerInv'
  <2>1. /\ status = "supplying" /\ UNCHANGED <<index, account, ledger>>
        /\ events' = Append(events, e) /\ status' \in {"refused", "supplying"}
        /\ status' = "supplying" => Accepts(e)
    BY <1>2 DEF Supply
  <2>2. index = 0 /\ events \in Seq(Event) /\ Distinguished(events)
    BY <2>1 DEF LedgerInv
  <2>3. ASSUME Accepts(e) PROVE events' \in Seq(Event) /\ Distinguished(events')
    <3>. DEFINE n == Len(events)
    <3>1. /\ events' \in Seq(Event) /\ n \in Nat /\ DOMAIN events = 1..n /\ DOMAIN events' = 1..(n + 1)
          /\ events'[n + 1] = e /\ \A i \in 1..n : events'[i] = events[i]
      BY <2>1, <2>2, AppendProperties, LenProperties
    <3>. HIDE DEF n
    <3>2. \A i \in 1..(n + 1) : i \in 1..n \/ i = n + 1
      BY <3>1
    <3>3. \A i \in 1..n : Key(events[i]) # Key(e)
      BY <2>3, <3>1 DEF Accepts
    <3>4. \A i \in 1..(n + 1) : /\ events'[i].time \in Int /\ events'[i].seq \in Int
                                /\ events'[i].kind \in {"funding", "fill", "mark"}
      BY <2>2, <3>1, <3>2, EventFacts DEF Distinguished, Kinds
    <3>5. \A i, j \in 1..(n + 1) : Key(events'[i]) = Key(events'[j]) => i = j
      BY <2>2, <3>1, <3>2, <3>3 DEF Distinguished
    <3>. QED  BY <3>1, <3>4, <3>5 DEF Distinguished
  <2>. QED  BY <2>1, <2>2, <2>3, LedgerStays
<1>3. ASSUME Begin, UNCHANGED request PROVE LedgerInv'
  <2>1. /\ status = "supplying" /\ UNCHANGED <<index, account, ledger>>
        /\ events' = Ordered(events) /\ status' = "running"
    BY <1>3 DEF Begin
  <2>2. index = 0 /\ events \in Seq(Event) /\ Distinguished(events)
    BY <2>1 DEF LedgerInv
  <2>3. /\ Len(events) \in Nat /\ DOMAIN events = 1..Len(events)
        /\ \A i \in 1..Len(events) : events[i].kind = "fill" => events[i].delta \in Int
    BY <2>2, LenProperties, ElementOfSeq, EventFacts
  <2>4. Sequenced(events', Len(events)) /\ index <= Len(events)
    BY <2>1, <2>2, <2>3, OrderedSequenced
  <2>. QED  BY <2>1, <2>2, <2>4, LedgerStays
<1>4. ASSUME PostEntry, UNCHANGED request PROVE LedgerInv'
  <2>1. /\ status = "running" /\ index < Len(events) /\ index' = index + 1 /\ events' = events
        /\ account' = Apply(account, events[index + 1]) /\ ledger' = Append(ledger, account')
        /\ status' \in {"running", "contradicted"}
    BY <1>4 DEF PostEntry
  <2>2. /\ index \in Nat /\ HasLength(ledger, index) /\ account = After(index)
        /\ \A i \in 0..index : IsAccount(After(i))
        /\ \A i \in 1..index : ledger[i] = Apply(After(i - 1), events[i])
    BY DEF LedgerInv
  <2>3. PICK m : Sequenced(events, m) /\ index <= m
    BY <2>1 DEF LedgerInv
  <2>4. m \in Nat /\ Len(events) = m /\ index + 1 \in 1..m
    BY <2>1, <2>2, <2>3, LengthOf DEF Sequenced
  <2>5. PICK n : n = index
    OBVIOUS
  <2>6. n \in Nat /\ n + 1 \in 1..m /\ index' = n + 1
    BY <2>1, <2>2, <2>4, <2>5
  <2>7. /\ HasLength(ledger', n + 1) /\ ledger'[n + 1] = account'
        /\ \A i \in 1..n : ledger'[i] = ledger[i]
    <3>1. HasLength(ledger, n)
      BY <2>2, <2>5
    <3>2. Extends(Append(ledger, account'), ledger, n, account')
      BY <3>1, Appended, Zenon
    <3>3. Extends(ledger', ledger, n, account')
      BY <2>1, <3>2, Zenon
    <3>. QED  BY <3>3 DEF Extends
  <2>8. (\A i \in 0..n : After(i)' = After(i)) /\ After(n + 1)' = account'
    BY <2>6, <2>7 DEF After
  <2>9. account' = Apply(After(n), events[n + 1]) /\ IsAccount(account')
    <3>1. /\ events[n + 1].kind \in Kinds
          /\ events[n + 1].kind = "fill" => events[n + 1].delta \in Int
      BY <2>3, <2>6 DEF Sequenced
    <3>2. IsAccount(After(n)) /\ account = After(n)
      BY <2>2, <2>5, <2>6
    <3>. QED  BY <2>1, <2>5, <3>1, <3>2, ApplyKeeps
  <2>10. \A i \in 0..(n + 1) : IsAccount(After(i)')
    <3>1. \A i \in 0..(n + 1) : i \in 0..n \/ i = n + 1
      BY <2>6
    <3>2. \A i \in 0..n : IsAccount(After(i)')
      BY <2>2, <2>5, <2>8
    <3>. QED  BY <2>8, <2>9, <3>1, <3>2
  <2>11. \A i \in 1..(n + 1) : ledger'[i] = Apply(After(i - 1)', events'[i])
    <3>1. ASSUME NEW i \in 1..n PROVE ledger'[i] = Apply(After(i - 1)', events'[i])
      <4>1. i - 1 \in 0..n
        BY <2>6
      <4>. QED  BY <2>1, <2>2, <2>5, <2>7, <2>8, <4>1
    <3>2. ledger'[n + 1] = Apply(After(n)', events'[n + 1])
      BY <2>1, <2>6, <2>7, <2>8, <2>9
    <3>3. (n + 1) - 1 = n /\ \A i \in 1..(n + 1) : i \in 1..n \/ i = n + 1
      BY <2>6
    <3>. QED  BY <3>1, <3>2, <3>3
  <2>12. Sequenced(events', m) /\ index' <= m /\ status' # "supplying"
    BY <2>1, <2>3, <2>6
  <2>13. account' = After(index)'
    <3>1. index' # 0 /\ ledger'[index'] = account'
      BY <2>6, <2>7
    <3>. QED  BY <3>1 DEF After
  <2>14. /\ index' \in Nat /\ HasLength(ledger', index')
         /\ \A i \in 0..index' : IsAccount(After(i)')
         /\ \A i \in 1..index' : ledger'[i] = Apply(After(i - 1)', events'[i])
    BY <2>6, <2>7, <2>10, <2>11
  <2>. QED  BY <2>12, <2>13, <2>14 DEF LedgerInv
<1>5. ASSUME Finish, UNCHANGED request PROVE LedgerInv'
  <2>1. /\ status = "running" /\ status' \in {"done", "refused", "contradicted"}
        /\ UNCHANGED <<events, index, account, ledger>>
    BY <1>5 DEF Finish
  <2>2. \E m : Sequenced(events, m) /\ index <= m
    BY <2>1 DEF LedgerInv
  <2>. QED  BY <2>1, <2>2, LedgerStays
<1>6. ASSUME UNCHANGED vars PROVE LedgerInv'
  <2>1. /\ UNCHANGED <<index, account, ledger>> /\ events' = events /\ status' = status
    BY <1>6 DEF vars
  <2>2. /\ status' = "supplying" => index = 0 /\ events' \in Seq(Event) /\ Distinguished(events')
        /\ index > 0 \/ status' \in {"running", "done", "contradicted"}
              => \E m : Sequenced(events', m) /\ index <= m
    BY <2>1 DEF LedgerInv
  <2>. QED  BY <2>1, <2>2, LedgerStays
<1>7. Measure => UNCHANGED vars
  BY DEF Measure
<1>8. UNCHANGED studyVars => UNCHANGED vars
  BY DEF studyVars, metricVars
<1>. QED
  BY <1>1, <1>2, <1>3, <1>4, <1>5, <1>6, <1>7, <1>8 DEF StudyNext, MetricsNext, Next

LEMMA LedgerInvariant == StudySpec => [](StudyInv /\ LedgerInv)
<1>1. StudyInit => StudyInv /\ LedgerInv
  BY StudyInitSound, LedgerInitSound
<1>2. StudyInv /\ LedgerInv /\ [StudyNext]_studyVars => (StudyInv /\ LedgerInv)'
  BY StudyNextSound, LedgerNextSound
<1>. QED  BY <1>1, <1>2, PTL DEF StudySpec

-----------------------------------------------------------------------------
(* Positions. *)

\* The entries of the ledger, one by one.
LEMMA Entries ==
    ASSUME LedgerInv, NEW m, Sequenced(events, m), index <= m
    PROVE  /\ m \in Nat /\ index \in 0..m /\ After(0).quantity = 0
           /\ \A k \in 0..index : After(k).quantity \in Int
           /\ \A k \in 1..index :
                 /\ After(k) = ledger[k]
                 /\ After(k).quantity = After(k - 1).quantity + Moved(events[k])
                 /\ After(k).funding = IF events[k].kind = "funding"
                                       THEN Add(After(k - 1).funding, Flow(After(k - 1).quantity, events[k]))
                                       ELSE After(k - 1).funding
<1>1. m \in Nat /\ index \in 0..m
  BY LengthOf DEF LedgerInv, Sequenced
<1>2. \A k \in 0..index : IsAccount(After(k)) /\ After(k).quantity \in Int
  BY DEF LedgerInv, IsAccount
<1>3. ASSUME NEW k \in 1..index
      PROVE  /\ After(k) = ledger[k]
             /\ After(k).quantity = After(k - 1).quantity + Moved(events[k])
             /\ After(k).funding = IF events[k].kind = "funding"
                                   THEN Add(After(k - 1).funding, Flow(After(k - 1).quantity, events[k]))
                                   ELSE After(k - 1).funding
  <2>1. k - 1 \in 0..index /\ k \in 1..m /\ k # 0
    BY <1>1
  <2>2. After(k) = ledger[k] /\ ledger[k] = Apply(After(k - 1), events[k])
    BY <2>1 DEF LedgerInv, After
  <2>3. /\ IsAccount(After(k - 1)) /\ events[k].kind \in Kinds
        /\ events[k].kind = "fill" => events[k].delta \in Int
    BY <1>2, <2>1 DEF Sequenced
  <2>. QED  BY <2>2, <2>3, ApplyKeeps
<1>4. After(0).quantity = 0
  BY DEF After, Opening
<1>. QED  BY <1>1, <1>2, <1>3, <1>4

LEMMA HeldInteger ==
    ASSUME NEW m, Sequenced(events, m), NEW t
    PROVE  HeldBefore(t) \in Int
<1>. DEFINE s == [j \in DOMAIN events |->
                    IF events[j].kind = "fill" /\ events[j].time < t THEN events[j].delta ELSE 0]
<1>1. m \in Nat /\ DOMAIN events = 1..m
  BY LengthOf DEF Sequenced
<1>2. \A k \in 1..m : s[k] \in Int
  BY <1>1 DEF Sequenced
<1>3. DOMAIN s = 1..m /\ HeldBefore(t) = FoldLeft(+, 0, s)
  BY <1>1 DEF HeldBefore
<1>. HIDE DEF s
<1>4. PICK p : Sums(p, s, m) /\ FoldLeft(+, 0, s) = p[m]
  BY <1>1, <1>2, <1>3, SumRuns
<1>5. p \in [0..m -> Int]
  BY <1>4, Zenon DEF Sums
<1>6. p[m] \in Int
  BY <1>1, <1>5
<1>. QED  BY <1>3, <1>4, <1>6, Zenon

\* The fills before a time add up to the position after i events when these
\* hold all the fills before that time and no other.
LEMMA HeldIs ==
    ASSUME LedgerInv, NEW m, Sequenced(events, m), index <= m, NEW i \in 0..index, NEW t \in Int,
           \A j \in 1..i : events[j].kind = "fill" => events[j].time < t,
           \A j \in 1..m : j > i /\ events[j].kind = "fill" => ~(events[j].time < t)
    PROVE  HeldBefore(t) = After(i).quantity
<1>. DEFINE s == [j \in DOMAIN events |->
                    IF events[j].kind = "fill" /\ events[j].time < t THEN events[j].delta ELSE 0]
            q == [k \in 0..i |-> After(k).quantity]
<1>1. /\ m \in Nat /\ index \in 0..m /\ i \in 0..m
      /\ After(0).quantity = 0
      /\ \A k \in 1..i : After(k).quantity = After(k - 1).quantity + Moved(events[k])
  BY Entries
<1>2. DOMAIN events = 1..m
  BY DEF Sequenced, HasLength
<1>3. \A k \in 1..m : s[k] = IF events[k].kind = "fill" /\ events[k].time < t THEN events[k].delta ELSE 0
  BY <1>2
<1>4. DOMAIN s = 1..m /\ HeldBefore(t) = FoldLeft(+, 0, s)
  BY <1>2 DEF HeldBefore
<1>. HIDE DEF s
<1>5. \A k \in 1..m : s[k] \in Int
  BY <1>3 DEF Sequenced
<1>6. \A k \in 1..i : k \in 1..m /\ s[k] = Moved(events[k])
  BY <1>1, <1>3 DEF Moved
<1>7. \A k \in 1..i : q[k] = q[k - 1] + s[k]
  BY <1>1, <1>6
<1>8. q[0] = 0 /\ q[i] = After(i).quantity
  BY <1>1
<1>9. \A k \in 1..m : k > i => s[k] = 0
  BY <1>3
<1>10. PICK p : Sums(p, s, m) /\ FoldLeft(+, 0, s) = p[m]
  BY <1>1, <1>4, <1>5, SumRuns
<1>. HIDE DEF q
<1>11. p[m] = q[i]
  <2>1. Accrues(q, s, i)
    BY <1>7, <1>8 DEF Accrues
  <2>2. Ceases(s, i, m)
    BY <1>9 DEF Ceases
  <2>3. Sums(p, s, m)
    BY <1>10, Zenon
  <2>. QED  BY <1>1, <2>1, <2>2, <2>3, SameSums
<1>. QED  BY <1>4, <1>8, <1>10, <1>11

LEMMA LedgerIsFunded == LedgerInv => FundedOnPriorPosition
<1>. SUFFICES ASSUME LedgerInv, index > 0
              PROVE  LET e == events[index]
                         before == IF index = 1 THEN Zero ELSE ledger[index - 1].funding
                         flow == Multiply(Multiply(Units(-HeldBefore(e.time)), FromInt(e.price)), e.rate)
                     IN  account.funding = IF e.kind = "funding" THEN Add(before, flow) ELSE before
  BY DEF FundedOnPriorPosition
<1>. DEFINE e == events[index]
            before == IF index = 1 THEN Zero ELSE ledger[index - 1].funding
<1>1. PICK m : Sequenced(events, m) /\ index <= m
  BY DEF LedgerInv
<1>2. /\ m \in Nat /\ index \in 1..m /\ index - 1 \in 0..index
      /\ account = After(index)
      /\ After(index).funding = IF e.kind = "funding"
                                THEN Add(After(index - 1).funding, Flow(After(index - 1).quantity, e))
                                ELSE After(index - 1).funding
  BY <1>1, Entries DEF LedgerInv
<1>3. After(index - 1).funding = before
  BY <1>2 DEF After, Opening
<1>4. ASSUME e.kind = "funding" PROVE HeldBefore(e.time) = After(index - 1).quantity
  <2>1. e.time \in Int
    BY <1>1, <1>2 DEF Sequenced
  <2>2. \A j \in 1..(index - 1) : events[j].kind = "fill" => events[j].time < e.time
    BY <1>1, <1>2, <1>4, InSequence
  <2>3. ASSUME NEW j \in 1..m, j > index - 1, events[j].kind = "fill" PROVE ~(events[j].time < e.time)
    <3>1. j # index /\ index < j
      BY <1>2, <1>4, <2>3
    <3>2. events[j].time \in Int /\ e.time <= events[j].time
      BY <1>1, <1>2, <3>1, InSequence DEF Sequenced
    <3>. QED  BY <2>1, <3>2
  <2>. HIDE DEF e
  <2>. QED  BY <1>1, <1>2, <2>1, <2>2, <2>3, HeldIs
<1>. QED  BY <1>2, <1>3, <1>4 DEF Flow

\* Whatever the events and however they came, funding is settled on the position
\* that the fills before its time add up to, and nothing else settles any.
THEOREM PriorPositionsFunded == StudySpec => []FundedOnPriorPosition
BY LedgerInvariant, LedgerIsFunded, PTL

-----------------------------------------------------------------------------
(* Exposure. *)

\* The durations of a measured study are those of its ledger at its end.
MeasuredInv ==
    metrics # None =>
        status = "done" /\ (metrics.outcome = "measured" => metrics.durations = Durations)

TimeIn(run, entries, side) ==
    FoldLeft(+, 0, [i \in 1..(Len(run) - 1) |->
                        IF Side(entries[i].quantity) = side THEN run[i + 1].time - run[i].time ELSE 0])

LEMMA DurationsStay ==
    ASSUME UNCHANGED vars
    PROVE  Durations' = Durations
<1>1. events' = events /\ ledger' = ledger
  BY DEF vars
<1>2. ASSUME NEW CONSTANT side PROVE TimeHeld(side)' = TimeHeld(side)
  <2>1. TimeHeld(side) = TimeIn(events, ledger, side)
    BY DEF TimeHeld, TimeIn
  <2>2. TimeHeld(side)' = TimeIn(events', ledger', side)
    BY DEF TimeHeld, TimeIn, FoldLeft, MapThenFoldSet
  <2>. QED  BY <1>1, <2>1, <2>2
<1>3. Elapsed' = Elapsed /\ Len(events)' = Len(events)
  BY <1>1 DEF Elapsed
<1>. QED  BY <1>2, <1>3 DEF Durations, Percentage

LEMMA MeasuredNextSound == MeasuredInv /\ [StudyNext]_studyVars => MeasuredInv'
<1>. SUFFICES ASSUME MeasuredInv, [StudyNext]_studyVars PROVE MeasuredInv'
  OBVIOUS
<1>1. CASE Measure
  <2>1. status' = "done" /\ metrics' = Figures /\ UNCHANGED vars
    BY <1>1 DEF Measure, vars
  <2>2. Figures.outcome = "measured" => Figures.durations = Durations
    BY DEF Figures
  <2>3. Durations' = Durations
    BY <2>1, DurationsStay
  <2>. QED  BY <2>1, <2>2, <2>3 DEF MeasuredInv
<1>2. CASE UNCHANGED vars /\ UNCHANGED metrics
  <2>1. status' = status /\ metrics' = metrics /\ Durations' = Durations
    BY <1>2, DurationsStay DEF vars
  <2>. QED  BY <2>1 DEF MeasuredInv
<1>3. CASE status # "done" /\ UNCHANGED metrics
  BY <1>3 DEF MeasuredInv
<1>4. (Next => status # "done") /\ ((\E r \in Requests : Assemble(r)) => status # "done" /\ UNCHANGED metrics)
  BY DEF Next, Supply, Begin, PostEntry, Finish, Assemble
<1>5. UNCHANGED studyVars => UNCHANGED vars /\ UNCHANGED metrics
  BY DEF studyVars, metricVars
<1>. QED  BY <1>1, <1>2, <1>3, <1>4, <1>5 DEF StudyNext, MetricsNext

\* From an event to the next the position is the one after it.
LEMMA HeldBetween ==
    ASSUME LedgerInv, NEW m, Sequenced(events, m), index = m, NEW i \in 1..m, i + 1 \in 1..m,
           NEW t \in Int, events[i].time <= t, t < events[i + 1].time
    PROVE  HeldBefore(t + 1) = After(i).quantity
<1>1. m \in Nat /\ i \in 0..index /\ index <= m /\ t + 1 \in Int
  BY LengthOf DEF Sequenced
<1>2. \A j \in 1..m : events[j].time \in Int
  BY DEF Sequenced
<1>3. ASSUME NEW j \in 1..i PROVE events[j].time < t + 1
  <2>1. j \in 1..m /\ (j = i \/ j < i)
    BY <1>1
  <2>2. events[j].time <= events[i].time
    BY <1>2, <2>1, InSequence
  <2>. QED  BY <1>2, <2>1, <2>2
<1>4. ASSUME NEW j \in 1..m, j > i PROVE ~(events[j].time < t + 1)
  <2>1. j = i + 1 \/ i + 1 < j
    BY <1>4
  <2>2. events[i + 1].time <= events[j].time
    BY <1>2, <2>1, InSequence
  <2>. QED  BY <1>2, <2>2
<1>. QED  BY <1>1, <1>3, <1>4, HeldIs

\* The instants from the first event to the k-th at which the fills made so far
\* add up to a position of one side.
OnSide(side, k) ==
    {t \in events[1].time..(events[k].time - 1) : Side(HeldBefore(t + 1)) = side}

LEMMA TimeHeldCounts ==
    ASSUME LedgerInv, NEW m, Sequenced(events, m), index = m, m >= 1, NEW side
    PROVE  TimeHeld(side) = Cardinality(OnSide(side, m))
<1>. DEFINE n == m - 1
            s == [i \in 1..n |-> IF Side(ledger[i].quantity) = side
                                 THEN events[i + 1].time - events[i].time ELSE 0]
            q == [k \in 0..n |-> Cardinality(OnSide(side, k + 1))]
<1>1. m \in Nat /\ n \in Nat /\ Len(events) = m /\ index <= m
  BY LengthOf DEF Sequenced
<1>2. \A j \in 1..m : events[j].time \in Int
  BY DEF Sequenced
<1>3. TimeHeld(side) = FoldLeft(+, 0, s)
  BY <1>1 DEF TimeHeld
<1>4. \A k \in 1..n : /\ k \in 1..m /\ k + 1 \in 1..m /\ k - 1 \in 0..n /\ k \in 0..n
                      /\ (k - 1) + 1 = k /\ k < k + 1
  BY <1>1
<1>5. \A k \in 1..n : events[k].time <= events[k + 1].time /\ events[1].time <= events[k].time
  <2>1. ASSUME NEW k \in 1..n PROVE events[k].time <= events[k + 1].time
    BY <1>4, InSequence
  <2>2. ASSUME NEW k \in 1..n PROVE events[1].time <= events[k].time
    <3>1. 1 \in 1..m /\ (k = 1 \/ 1 < k)
      BY <1>1
    <3>. QED  BY <1>2, <1>4, <3>1, InSequence
  <2>. QED  BY <2>1, <2>2
<1>6. \A k \in 1..m : IsFiniteSet(OnSide(side, k))
  <2>1. ASSUME NEW k \in 1..m PROVE IsFiniteSet(OnSide(side, k))
    <3>1. events[1].time \in Int /\ events[k].time - 1 \in Int
      BY <1>1, <1>2
    <3>2. OnSide(side, k) \in SUBSET (events[1].time..(events[k].time - 1))
      BY DEF OnSide
    <3>. QED  BY <3>1, <3>2, FS_Interval, FS_Subset
  <2>. QED  BY <2>1
<1>7. q[0] = 0
  <2>1. OnSide(side, 1) = {}
    BY <1>2, <1>1 DEF OnSide
  <2>. QED  BY <1>1, <2>1, FS_EmptySet
<1>8. ASSUME NEW k \in 1..n PROVE q[k] = q[k - 1] + s[k]
  <2>. DEFINE a == events[k].time
              b == events[k + 1].time
              S == IF Side(ledger[k].quantity) = side THEN a..(b - 1) ELSE {}
  <2>1. /\ a \in Int /\ b \in Int /\ b - 1 \in Int /\ a <= b /\ events[1].time \in Int /\ events[1].time <= a
    BY <1>1, <1>2, <1>4, <1>5
  <2>2. ASSUME NEW t \in a..(b - 1) PROVE Side(HeldBefore(t + 1)) = Side(ledger[k].quantity)
    <3>1. t \in Int /\ a <= t /\ t < b
      BY <2>1
    <3>2. HeldBefore(t + 1) = After(k).quantity
      BY <1>4, <3>1, HeldBetween
    <3>. QED  BY <3>2 DEF After
  <2>. HIDE DEF a, b
  <2>3. OnSide(side, k + 1) = OnSide(side, k) \cup S /\ OnSide(side, k) \cap S = {}
    <3>1. /\ OnSide(side, k + 1) = {t \in events[1].time..(b - 1) : Side(HeldBefore(t + 1)) = side}
          /\ OnSide(side, k) = {t \in events[1].time..(a - 1) : Side(HeldBefore(t + 1)) = side}
      BY DEF OnSide, a, b
    <3>. QED  BY <2>1, <2>2, <3>1
  <2>4. IsFiniteSet(a..(b - 1)) /\ Cardinality(a..(b - 1)) = b - a
    BY <2>1, FS_Interval
  <2>5. IsFiniteSet(S) /\ Cardinality(S) = s[k]
    <3>1. s[k] = IF Side(ledger[k].quantity) = side THEN b - a ELSE 0
      BY DEF a, b
    <3>. QED  BY <2>4, <3>1, FS_EmptySet
  <2>. HIDE DEF S, s
  <2>6. Cardinality(OnSide(side, k + 1)) = Cardinality(OnSide(side, k)) + s[k]
    <3>1. Cardinality(OnSide(side, k) \cap S) = 0
      BY <2>3, FS_EmptySet
    <3>2. IsFiniteSet(OnSide(side, k))
      BY <1>4, <1>6
    <3>3. /\ Cardinality(OnSide(side, k) \cup S)
             = Cardinality(OnSide(side, k)) + Cardinality(S) - Cardinality(OnSide(side, k) \cap S)
          /\ Cardinality(OnSide(side, k)) \in Nat /\ Cardinality(S) \in Nat
      BY <2>5, <3>2, FS_Union, FS_CardinalityType
    <3>. QED  BY <2>3, <2>5, <3>1, <3>3
  <2>. QED  BY <1>4, <2>6
<1>9. \A k \in 1..n : s[k] \in Int
  BY <1>2, <1>4
<1>10. n \in 0..n /\ n + 1 = m /\ DOMAIN s = 1..n
  BY <1>1
<1>11. q[n] = Cardinality(OnSide(side, m))
  BY <1>10
<1>. HIDE DEF q, s, n
<1>12. PICK p : Sums(p, s, n) /\ FoldLeft(+, 0, s) = p[n]
  BY <1>1, <1>9, <1>10, SumRuns
<1>13. \A k \in 1..n : k > n => s[k] = 0
  BY <1>1
<1>14. p[n] = q[n]
  <2>1. Accrues(q, s, n)
    BY <1>7, <1>8 DEF Accrues
  <2>2. Ceases(s, n, n)
    BY <1>13 DEF Ceases
  <2>3. Sums(p, s, n)
    BY <1>12, Zenon
  <2>. QED  BY <1>10, <2>1, <2>2, <2>3, SameSums
<1>. QED  BY <1>3, <1>11, <1>12, <1>14

LEMMA ExposureFollows == StudyInv /\ LedgerInv /\ MeasuredInv => ExposureFollowsFills
<1>. SUFFICES ASSUME StudyInv, LedgerInv, MeasuredInv, IsMeasured, metrics.durations.status = "available"
              PROVE  LET instants == events[1].time..(events[Len(events)].time - 1)
                         long == {t \in instants : HeldBefore(t + 1) > 0}
                         short == {t \in instants : HeldBefore(t + 1) < 0}
                     IN  /\ metrics.durations.long = Percentage(Cardinality(long))
                         /\ metrics.durations.short = Percentage(Cardinality(short))
  BY DEF ExposureFollowsFills
<1>. DEFINE instants == events[1].time..(events[Len(events)].time - 1)
            long == {t \in instants : HeldBefore(t + 1) > 0}
            short == {t \in instants : HeldBefore(t + 1) < 0}
<1>1. status = "done" /\ index = Len(events) /\ metrics.durations = Durations
  BY DEF IsMeasured, MeasuredInv, StudyInv
<1>2. PICK m : Sequenced(events, m) /\ index <= m
  BY <1>1 DEF LedgerInv
<1>3. m \in Nat /\ Len(events) = m /\ index = m
  BY <1>1, <1>2, LengthOf DEF Sequenced
<1>4. /\ metrics.durations.long = Percentage(TimeHeld(1))
      /\ metrics.durations.short = Percentage(TimeHeld(-1))
      /\ m >= 1
  <2>1. Durations.status = "available"
    BY <1>1
  <2>2. ~(Len(events) < 2 \/ Elapsed <= 0)
    BY <2>1 DEF Durations
  <2>3. Durations.long = Percentage(TimeHeld(1)) /\ Durations.short = Percentage(TimeHeld(-1))
    BY <2>1, <2>2 DEF Durations
  <2>. QED  BY <1>1, <1>3, <2>2, <2>3
<1>5. \A t \in instants : HeldBefore(t + 1) \in Int
  BY <1>2, HeldInteger
<1>6. long = OnSide(1, m) /\ short = OnSide(-1, m)
  BY <1>3, <1>5 DEF OnSide, Side
<1>7. TimeHeld(1) = Cardinality(long) /\ TimeHeld(-1) = Cardinality(short)
  BY <1>2, <1>3, <1>4, <1>6, TimeHeldCounts
<1>. QED  BY <1>4, <1>7

\* The share of time that an exposure calls long or short is that of the
\* instants at which the fills made so far add up to such a position.
THEOREM SharesFollowFills == StudySpec => []ExposureFollowsFills
<1>1. StudyInit => MeasuredInv
  BY DEF StudyInit, MetricsInit, MeasuredInv
<1>2. StudySpec => []MeasuredInv
  BY <1>1, MeasuredNextSound, PTL DEF StudySpec
<1>. QED  BY <1>2, LedgerInvariant, ExposureFollows, PTL

-----------------------------------------------------------------------------
(* Fills and marks in the run of a request. *)

\* Where in a run the k fills are.
Filling(run, m, fills, k, at) ==
    /\ \A j \in 1..k : /\ at[j] \in 1..m /\ run[at[j]].kind = "fill"
                       /\ run[at[j]].time = fills[j].time /\ run[at[j]].delta = fills[j].delta
    /\ \A i \in 1..m : run[i].kind = "fill" => \E j \in 1..k : at[j] = i
    /\ \A i, j \in 1..k : i < j => at[i] < at[j]

\* Every mark that is required is there, and no event is after the last of them could be.
Valuing(run, m, r) ==
    /\ \A s \in RequiredAsked(r) : \E i \in 1..m : run[i].kind = "mark" /\ run[i].time = s + r.terms.marking
    /\ \A i \in 1..m : run[i].time <= End - 1 + r.terms.marking

LEMMA FillsPlaced ==
    ASSUME NEW r, IsRequest(r), Asked(r) # Refused
    PROVE  \E m : \E at : /\ Sequenced(Ordered(Asked(r)), m)
                          /\ Filling(Ordered(Asked(r)), m, FillsAsked(r), Len(FillsAsked(r)), at)
                          /\ Valuing(Ordered(Asked(r)), m, r)
<1>. DEFINE s == Asked(r)
            run == Ordered(s)
            fills == FillsAsked(r)
            al == FundingAsked(r)
            F == FundingEvents(al)
            G == FillEvents(fills, r.terms)
            H == MarksAsked(r)
            M == r.terms.marking
            required == RequiredAsked(r)
<1>1. PICK n, k, opens, l : /\ Composed(s, F, n, G, k, H, l) /\ Led(s, F, n, n + k + l)
                            /\ DOMAIN al = 1..n /\ k = Len(fills)
                            /\ Marked(H, opens, l, required, Marking(r), M)
  BY ScenariosCompose
<1>2. /\ DOMAIN fills = 1..k /\ k \in Nat
      /\ \A j \in 1..k : fills[j].time \in Start..(End - 1) /\ fills[j].time \in Int /\ fills[j].delta \in Int
      /\ \A i, j \in 1..k : i < j => fills[i].time < fills[j].time
  BY <1>1, FillsMade, FilledFacts DEF Chained
<1>3. \A i \in 1..n : al[i].funding.time \in Start..(End - 1)
  <2>1. al # Refused
    BY Accepted
  <2>2. \A i \in 1..n : al[i] \in Alignments(r.market)
    <3>1. PICK q \in Nat : DOMAIN al = 1..q /\ \A i \in 1..q : al[i] \in Alignments(r.market)
      BY <2>1, FundingValid DEF FundingAsked
    <3>. QED  BY <1>1, <3>1
  <2>. QED  BY <2>2, AlignmentTimes
<1>4. M \in Nat \ {0} /\ Start \in Int /\ End \in Int
  BY RequestFacts, AlignmentAssumption
<1>5. required \subseteq Start..(End - 1)
  BY DEF RequiredAsked, RequiredMarks, ExpectedOpens
<1>. HIDE DEF s, fills, al, required, M
<1>6. \A i \in 1..n : F[i].kind = "funding" /\ F[i].time \in Start..(End - 1)
  BY <1>1, <1>3 DEF FundingEvents
<1>7. \A j \in 1..k : /\ G[j].kind = "fill" /\ G[j].time = fills[j].time /\ G[j].delta = fills[j].delta
  BY <1>2 DEF FillEvents
<1>. HIDE DEF F, G, H
<1>8. /\ \A i \in 1..l : /\ H[i].kind = "mark" /\ H[i].time = opens[i] + M
                         /\ opens[i] \in Start..(End - 1)
      /\ \A t \in required : \E i \in 1..l : opens[i] = t
  BY <1>1, <1>5 DEF Marked
<1>. DEFINE N == n + k + l
<1>9. /\ n \in Nat /\ l \in Nat /\ N \in Nat /\ DOMAIN s = 1..N /\ Distinguished(s)
      /\ \A i \in 1..n : s[i] = F[i]
      /\ \A i \in 1..k : s[n + i] = G[i] /\ n + i \in 1..N
      /\ \A i \in 1..l : s[n + k + i] = H[i] /\ n + k + i \in 1..N
      /\ \A i \in 1..N : \/ i \in 1..n
                         \/ (i - n) \in 1..k /\ n + (i - n) = i
                         \/ (i - n - k) \in 1..l /\ n + k + (i - n - k) = i
  <2>1. /\ n \in Nat /\ l \in Nat /\ DOMAIN s = 1..N /\ Distinguished(s)
        /\ \A i \in 1..n : s[i] = F[i]
        /\ \A i \in 1..k : s[n + i] = G[i]
        /\ \A i \in 1..l : s[n + k + i] = H[i]
    BY <1>1 DEF Composed, Led
  <2>2. /\ N \in Nat
        /\ \A i \in 1..k : n + i \in 1..N
        /\ \A i \in 1..l : n + k + i \in 1..N
        /\ \A i \in 1..N : \/ i \in 1..n
                           \/ (i - n) \in 1..k /\ n + (i - n) = i
                           \/ (i - n - k) \in 1..l /\ n + k + (i - n - k) = i
    BY <1>2, <2>1
  <2>. QED  BY <2>1, <2>2
<1>. HIDE DEF N
<1>10. /\ \A i \in 1..n : s[i].kind = "funding" /\ s[i].time \in Start..(End - 1)
       /\ \A j \in 1..k : s[n + j].kind = "fill" /\ s[n + j].time = fills[j].time /\ s[n + j].delta = fills[j].delta
       /\ \A i \in 1..l : s[n + k + i].kind = "mark" /\ s[n + k + i].time = opens[i] + M
  BY <1>6, <1>7, <1>8, <1>9
<1>11. \A i \in 1..N : s[i].kind = "fill" => \E j \in 1..k : i = n + j
  BY <1>9, <1>10
<1>12. \A i \in 1..N : s[i].time <= End - 1 + M
  <2>1. ASSUME NEW i \in 1..N PROVE s[i].time <= End - 1 + M
    <3>1. CASE i \in 1..n
      BY <1>4, <1>10, <3>1
    <3>2. CASE (i - n) \in 1..k /\ n + (i - n) = i
      <4>1. s[i].time = fills[i - n].time
        BY <1>10, <3>2
      <4>. QED  BY <1>2, <1>4, <3>2, <4>1
    <3>3. CASE (i - n - k) \in 1..l /\ n + k + (i - n - k) = i
      <4>1. s[i].time = opens[i - n - k] + M /\ opens[i - n - k] \in Start..(End - 1)
        BY <1>8, <1>10, <3>3
      <4>. QED  BY <1>4, <4>1
    <3>. QED  BY <1>9, <3>1, <3>2, <3>3
  <2>. QED  BY <2>1
<1>13. Sequenced(run, N)
  <2>1. \A i \in 1..N : s[i].kind = "fill" => s[i].delta \in Int
    BY <1>2, <1>10, <1>11
  <2>. QED  BY <1>9, <2>1, OrderedSequenced
<1>14. PICK places : Reorders(run, s, N, places)
  BY <1>9, OrderedSorts
<1>. HIDE DEF run
<1>15. /\ \A i \in 1..N : run[i] = s[places[i]] /\ places[i] \in 1..N
       /\ \A i \in 1..N : \E p \in 1..N : places[p] = i
       /\ \A i, j \in 1..N : places[i] = places[j] => i = j
       /\ \A i, j \in 1..N : i < j => Before(s[places[i]], s[places[j]])
  BY <1>14 DEF Reorders
<1>. DEFINE at == [j \in 1..k |-> CHOOSE p \in 1..N : places[p] = n + j]
<1>16. \A j \in 1..k : at[j] \in 1..N /\ places[at[j]] = n + j
  BY <1>9, <1>15
<1>. HIDE DEF at
<1>17. Filling(run, N, fills, k, at)
  <2>1. \A j \in 1..k : /\ run[at[j]].kind = "fill" /\ run[at[j]].time = fills[j].time
                        /\ run[at[j]].delta = fills[j].delta
    BY <1>10, <1>15, <1>16
  <2>2. ASSUME NEW i \in 1..N, run[i].kind = "fill" PROVE \E j \in 1..k : at[j] = i
    <3>1. PICK j \in 1..k : places[i] = n + j
      BY <1>11, <1>15, <2>2
    <3>. QED  BY <1>15, <1>16, <3>1
  <2>3. ASSUME NEW i \in 1..k, NEW j \in 1..k, i < j PROVE at[i] < at[j]
    <3>1. fills[i].time < fills[j].time /\ fills[i].time \in Int /\ fills[j].time \in Int
      BY <1>2, <2>3
    <3>2. at[i] # at[j]
      BY <1>2, <1>9, <1>16, <2>3
    <3>3. at[j] < at[i] => Before(s[n + j], s[n + i])
      BY <1>15, <1>16
    <3>4. ~Before(s[n + j], s[n + i])
      BY <1>10, <3>1 DEF Before
    <3>. QED  BY <1>16, <3>2, <3>3, <3>4
  <2>. QED  BY <1>16, <2>1, <2>2, <2>3 DEF Filling
<1>18. Valuing(run, N, r)
  <2>1. ASSUME NEW t \in required PROVE \E i \in 1..N : run[i].kind = "mark" /\ run[i].time = t + M
    <3>1. PICK i \in 1..l : opens[i] = t
      BY <1>8
    <3>2. PICK p \in 1..N : places[p] = n + k + i
      BY <1>9, <1>15
    <3>. QED  BY <1>10, <1>15, <3>1, <3>2
  <2>2. \A i \in 1..N : run[i].time <= End - 1 + M
    BY <1>12, <1>15
  <2>. QED  BY <2>1, <2>2 DEF Valuing, required, M
<1>. QED  BY <1>1, <1>13, <1>17, <1>18 DEF run, s, fills

\* The target that j fills lead to.
TargetOf(fills, j) == IF j = 0 THEN 0 ELSE fills[j].target

\* The position after some events is the target of the last fill among them.
LEMMA PositionIsTarget ==
    ASSUME LedgerInv, NEW m, Sequenced(events, m), index <= m,
           NEW candles, NEW fills \in Filled(candles), NEW k, k = Len(fills),
           NEW at, Filling(events, m, fills, k, at),
           NEW i \in 0..index, NEW j \in 0..k, j > 0 => at[j] <= i, j < k => at[j + 1] > i
    PROVE  After(i).quantity = TargetOf(fills, j)
<1>. DEFINE Reached(x, y) == (y > 0 => at[y] <= x) /\ (y < k => at[y + 1] > x)
            Bad == {x \in 0..index : \E y \in 0..k : Reached(x, y) /\ After(x).quantity # TargetOf(fills, y)}
<1>1. /\ m \in Nat /\ index \in 0..m /\ After(0).quantity = 0
      /\ \A x \in 0..index : After(x).quantity \in Int
      /\ \A x \in 1..index : After(x).quantity = After(x - 1).quantity + Moved(events[x])
  BY Entries
<1>2. /\ k \in Nat
      /\ \A y \in 1..k : /\ fills[y].target \in Int /\ fills[y].delta \in Int
                         /\ fills[y].delta = fills[y].target - TargetOf(fills, y - 1)
  <2>1. /\ k \in Nat /\ \A y \in 1..k : fills[y].target \in Int /\ fills[y].delta \in Int
        /\ \A y \in 1..k : fills[y].delta = fills[y].target - (IF y = 1 THEN 0 ELSE fills[y - 1].target)
    BY FilledFacts DEF Chained
  <2>. QED  BY <2>1 DEF TargetOf
<1>3. /\ \A y \in 1..k : /\ at[y] \in 1..m /\ events[at[y]].kind = "fill" /\ events[at[y]].delta = fills[y].delta
      /\ \A x \in 1..m : events[x].kind = "fill" => \E y \in 1..k : at[y] = x
      /\ \A x, y \in 1..k : x < y => at[x] < at[y]
  BY DEF Filling
<1>4. Bad = {}
  <2>1. SUFFICES ASSUME Bad # {} PROVE FALSE
    OBVIOUS
  <2>2. PICK x \in Bad : \A z \in Bad : x <= z
    <3>1. Bad \in SUBSET Nat
      BY <1>1
    <3>. HIDE DEF Bad
    <3>. QED  BY <2>1, <3>1, LeastOf
  <2>3. PICK y \in 0..k : Reached(x, y) /\ After(x).quantity # TargetOf(fills, y)
    OBVIOUS
  <2>4. x \in 0..index
    OBVIOUS
  <2>5. x # 0
    <3>1. CASE y = 0
      BY <1>1, <2>3, <3>1 DEF TargetOf
    <3>2. CASE y > 0
      <4>1. at[y] \in 1..m /\ at[y] <= x
        BY <2>3, <3>2, <1>2, <1>3
      <4>. QED  BY <4>1, <1>1, <2>4
    <3>. QED  BY <2>3, <1>2, <3>1, <3>2
  <2>6. x \in 1..index /\ x \in 1..m /\ x - 1 \in 0..index /\ x - 1 \notin Bad
    <3>1. x \in 1..index /\ x \in 1..m /\ x - 1 \in 0..index /\ ~(x <= x - 1)
      BY <1>1, <2>4, <2>5
    <3>. HIDE DEF Bad
    <3>. QED  BY <2>2, <3>1
  <2>7. \A z \in 0..k : Reached(x - 1, z) => After(x - 1).quantity = TargetOf(fills, z)
    BY <2>6
  <2>. HIDE DEF Bad
  <2>8. After(x).quantity = After(x - 1).quantity + Moved(events[x]) /\ After(x - 1).quantity \in Int
    BY <1>1, <2>6
  <2>9. CASE events[x].kind = "fill"
    <3>1. PICK z \in 1..k : at[z] = x
      BY <1>3, <2>6, <2>9
    <3>2. z <= y
      <4>1. SUFFICES ASSUME y < z PROVE FALSE
        BY <1>2
      <4>2. y + 1 \in 1..k /\ (y + 1 = z \/ y + 1 < z) /\ at[y + 1] > x
        BY <1>2, <2>3, <4>1
      <4>. QED  BY <1>3, <2>6, <3>1, <4>2
    <3>3. y <= z
      <4>1. SUFFICES ASSUME z < y PROVE FALSE
        BY <1>2
      <4>2. y \in 1..k /\ at[y] <= x /\ at[z] < at[y]
        BY <1>2, <1>3, <2>3, <4>1
      <4>. QED  BY <1>3, <2>6, <3>1, <4>2
    <3>4. y = z /\ y \in 1..k /\ y - 1 \in 0..k
      BY <1>2, <3>1, <3>2, <3>3
    <3>5. Reached(x - 1, y - 1)
      <4>1. y - 1 > 0 => at[y - 1] <= x - 1
        <5>1. SUFFICES ASSUME y - 1 > 0 PROVE at[y - 1] <= x - 1
          OBVIOUS
        <5>2. y - 1 \in 1..k /\ y - 1 < y
          BY <1>2, <3>4, <5>1
        <5>3. at[y - 1] < at[y] /\ at[y - 1] \in 1..m
          BY <1>3, <3>4, <5>2
        <5>. QED  BY <2>6, <3>1, <3>4, <5>3
      <4>2. (y - 1) + 1 = y /\ at[y] > x - 1
        BY <2>6, <3>1, <3>4
      <4>. QED  BY <4>1, <4>2
    <3>6. After(x - 1).quantity = TargetOf(fills, y - 1)
      BY <2>7, <3>4, <3>5
    <3>7. Moved(events[x]) = fills[y].delta
      BY <1>3, <2>9, <3>1, <3>4 DEF Moved
    <3>8. TargetOf(fills, y) = fills[y].target
      BY <3>4 DEF TargetOf
    <3>. QED  BY <1>2, <2>3, <2>8, <3>4, <3>6, <3>7, <3>8
  <2>10. CASE events[x].kind # "fill"
    <3>1. Reached(x - 1, y)
      <4>1. y > 0 => at[y] <= x - 1
        <5>1. SUFFICES ASSUME y > 0 PROVE at[y] <= x - 1
          OBVIOUS
        <5>2. y \in 1..k /\ at[y] <= x /\ at[y] \in 1..m /\ at[y] # x
          BY <1>2, <1>3, <2>3, <2>10, <5>1
        <5>. QED  BY <2>6, <5>2
      <4>2. y < k => at[y + 1] > x - 1
        <5>1. SUFFICES ASSUME y < k PROVE at[y + 1] > x - 1
          OBVIOUS
        <5>2. y + 1 \in 1..k /\ at[y + 1] > x
          BY <1>2, <2>3, <5>1
        <5>. QED  BY <1>3, <2>6, <5>2
      <4>. QED  BY <4>1, <4>2
    <3>2. After(x - 1).quantity = TargetOf(fills, y) /\ Moved(events[x]) = 0
      BY <2>7, <2>10, <3>1 DEF Moved
    <3>. QED  BY <2>3, <2>8, <3>2
  <2>. QED  BY <2>9, <2>10
<1>5. Reached(i, j) /\ i \notin Bad
  BY <1>4
<1>. QED  BY <1>5

\* The last of the fills that a set holds.
LEMMA LastIn ==
    ASSUME NEW k \in Nat, NEW S \in SUBSET (1..k)
    PROVE  \E j \in 0..k : (j > 0 => j \in S) /\ \A i \in S : i <= j
<1>1. CASE S = {}
  BY <1>1
<1>2. CASE S # {}
  <2>1. PICK x : x = Max(S)
    OBVIOUS
  <2>2. x \in S /\ \A i \in S : i <= x
    BY <1>2, <2>1, LargestIn
  <2>. QED  BY <2>2
<1>. QED  BY <1>1, <1>2

\* A position is held at a time when the last fill by then leads to one.
LEMMA HeldByTheLast ==
    ASSUME NEW candles, NEW fills \in Filled(candles), NEW k, k = Len(fills), NEW t \in Int
    PROVE  \E j \in 0..k : /\ j > 0 => fills[j].time <= t
                           /\ \A i \in 1..k : fills[i].time <= t => i <= j
                           /\ HeldAt(fills, t) <=> TargetOf(fills, j) # 0
<1>. DEFINE past == {i \in DOMAIN fills : fills[i].time <= t}
<1>1. k \in Nat /\ DOMAIN fills = 1..k
  BY FilledFacts
<1>2. past \in SUBSET (1..k) /\ (HeldAt(fills, t) <=> past # {} /\ fills[Max(past)].target # 0)
  BY <1>1 DEF HeldAt
<1>3. \A i \in 1..k : i \in past <=> fills[i].time <= t
  BY <1>1
<1>. HIDE DEF past
<1>4. CASE past = {}
  <2>1. 0 \in 0..k /\ ~(0 > 0)
    BY <1>1
  <2>2. ~HeldAt(fills, t)
    BY <1>2, <1>4, Zenon
  <2>3. \A i \in 1..k : ~(fills[i].time <= t)
    BY <1>3, <1>4, Zenon
  <2>4. TargetOf(fills, 0) = 0
    BY DEF TargetOf
  <2>. QED  BY <2>1, <2>2, <2>3, <2>4
<1>5. CASE past # {}
  <2>1. PICK x : x = Max(past)
    OBVIOUS
  <2>2. x \in past /\ \A i \in past : i <= x
    BY <1>1, <1>2, <1>5, <2>1, LargestIn
  <2>3. x \in 1..k /\ x \in 0..k /\ x # 0
    BY <1>1, <1>2, <2>2
  <2>4. TargetOf(fills, x) = fills[x].target
    BY <2>3 DEF TargetOf
  <2>5. HeldAt(fills, t) <=> TargetOf(fills, x) # 0
    BY <1>2, <1>5, <2>1, <2>4
  <2>6. fills[x].time <= t /\ \A i \in 1..k : fills[i].time <= t => i <= x
    BY <1>3, <2>2, <2>3
  <2>. QED  BY <2>3, <2>5, <2>6
<1>. QED  BY <1>4, <1>5

\* The last time of a grid before a time.
LEMMA LastOfGrid ==
    ASSUME NEW t \in Int, NEW now \in Int, NEW interval \in Nat \ {0}
    PROVE  \E g \in Int : /\ g < now /\ now - g <= interval
                          /\ (g - t) % interval = 0 /\ ((g - interval) - t) % interval = 0
<1>. DEFINE d == now - t - 1
            q == d \div interval
            g == t + interval * q
<1>1. /\ d \in Int /\ q \in Int /\ d % interval \in 0..(interval - 1)
      /\ d = interval * q + (d % interval)
  <2>1. d \in Int
    OBVIOUS
  <2>. HIDE DEF d
  <2>. QED  BY <2>1
<1>2. interval * q \in Int /\ g \in Int /\ g - t = interval * q
  <2>. HIDE DEF q
  <2>. QED  BY <1>1
<1>3. g < now /\ now - g <= interval
  <2>1. now - g = 1 + (d % interval)
    <3>1. d = now - t - 1 /\ g = t + interval * q
      OBVIOUS
    <3>. HIDE DEF d, q, g
    <3>. QED  BY <1>1, <1>2, <3>1
  <2>. HIDE DEF d, q, g
  <2>. QED  BY <1>1, <1>2, <2>1
<1>4. (g - t) % interval = 0 /\ ((g - interval) - t) % interval = 0
  <2>1. (interval * q) % interval = 0 /\ (interval * (q - 1)) % interval = 0
    <3>. HIDE DEF q
    <3>. QED  BY <1>1, SMTT(30)
  <2>2. interval * (q - 1) = interval * q - interval
    <3>. HIDE DEF q
    <3>. QED  BY <1>1
  <2>3. (g - interval) - t = interval * (q - 1)
    <3>. HIDE DEF g, q
    <3>. QED  BY <1>2, <2>2
  <2>. HIDE DEF g, q
  <2>. QED  BY <1>2, <2>1, <2>3
<1>. HIDE DEF g
<1>. QED  BY <1>2, <1>3, <1>4

LEMMA HeldIsValued == StudyInv /\ LedgerInv => ValuedWhileHeld
<1>. DEFINE r == request
            now == events[index].time
            M == request.terms.marking
            opened == {i \in Posted("fill") : i = 1 \/ ledger[i - 1].quantity = 0}
<1>. SUFFICES ASSUME StudyInv, LedgerInv, IsAssembled, index > 0, ledger[index].quantity # 0,
                     \A t \in {events[i].time : i \in opened} : now - t > M
              PROVE  \E i \in Posted("mark") : now - events[i].time <= M
  BY DEF ValuedWhileHeld
<1>. DEFINE fills == FillsAsked(r)
            k == Len(fills)
            T(j) == TargetOf(fills, j)
<1>1. IsRequest(r) /\ Asked(r) # Refused /\ events = Ordered(Asked(r))
  <2>1. r \in Requests
    BY DEF StudyInv, IsAssembled
  <2>. QED  BY <2>1, StudyAssumption DEF StudyInv, ScenarioAsked
<1>2. PICK n : Sequenced(events, n) /\ index <= n
  BY DEF LedgerInv
<1>3. PICK m, at : Sequenced(events, m) /\ Filling(events, m, fills, k, at) /\ Valuing(events, m, r)
  BY <1>1, FillsPlaced
<1>4. m \in Nat /\ index \in Nat /\ index \in 1..m
  <2>1. n \in Nat /\ m \in Nat /\ n = m
    BY <1>2, <1>3, LengthOf DEF Sequenced
  <2>. QED  BY <1>2, <2>1 DEF LedgerInv
<1>5. /\ M \in Nat \ {0} /\ M \in Int /\ Start \in Int /\ End \in Int
  BY <1>1, RequestFacts, AlignmentAssumption
<1>6. /\ fills \in Filled(Execution(r)) /\ k \in Nat
      /\ \A j \in 1..k : fills[j].time \in Start..(End - 1) /\ fills[j].time \in Int
      /\ \A i, j \in 1..k : i < j => fills[i].time < fills[j].time
  BY <1>1, FillsMade, FilledFacts DEF Chained
<1>7. /\ \A j \in 1..k : /\ at[j] \in 1..m /\ events[at[j]].kind = "fill"
                         /\ events[at[j]].time = fills[j].time
      /\ \A i, j \in 1..k : i < j => at[i] < at[j]
  BY <1>3 DEF Filling
<1>8. /\ now \in Int /\ now <= End - 1 + M
      /\ \A i \in 1..m : events[i].time \in Int /\ (events[i].time < now => i <= index)
  <2>1. \A i \in 1..m : events[i].time \in Int
    BY <1>3 DEF Sequenced
  <2>2. ASSUME NEW i \in 1..m, events[i].time < now PROVE i <= index
    <3>1. SUFFICES ASSUME index < i PROVE FALSE
      BY <1>4
    <3>2. now <= events[i].time
      BY <1>3, <1>4, <3>1, InSequence
    <3>. QED  BY <1>4, <2>1, <2>2, <3>2
  <2>3. now <= End - 1 + M
    BY <1>3, <1>4 DEF Valuing
  <2>. QED  BY <1>4, <2>1, <2>2, <2>3
<1>9. After(index) = ledger[index] /\ \A i \in 1..index : i # 1 => After(i - 1) = ledger[i - 1]
  BY <1>4 DEF After
<1>10. \A i \in Posted("fill") : (i = 1 \/ After(i - 1).quantity = 0) => now - events[i].time > M
  <2>1. ASSUME NEW i \in Posted("fill"), i = 1 \/ After(i - 1).quantity = 0
        PROVE  now - events[i].time > M
    <3>1. i \in 1..index
      BY DEF Posted
    <3>2. i \in opened
      BY <1>9, <2>1, <3>1
    <3>. HIDE DEF opened, now, M
    <3>. QED  BY <3>2
  <2>. QED  BY <2>1
<1>. HIDE DEF opened, now, M, fills, k
\* The last of the fills that are posted.
<1>11. PICK J \in 0..k : (J > 0 => at[J] <= index) /\ \A i \in 1..k : at[i] <= index => i <= J
  <2>. DEFINE S == {i \in 1..k : at[i] <= index}
  <2>1. PICK J \in 0..k : (J > 0 => J \in S) /\ \A i \in S : i <= J
    <3>1. S \in SUBSET (1..k)
      OBVIOUS
    <3>. HIDE DEF S
    <3>. QED  BY <1>6, <3>1, LastIn
  <2>. QED  BY <1>6, <2>1
<1>12. T(J) # 0 /\ J # 0
  <2>1. J < k => at[J + 1] > index
    <3>1. SUFFICES ASSUME J < k, ~(at[J + 1] > index) PROVE FALSE
      OBVIOUS
    <3>2. J + 1 \in 1..k /\ at[J + 1] \in 1..m
      BY <1>6, <1>7, <3>1
    <3>. QED  BY <1>4, <1>6, <1>11, <3>1, <3>2
  <2>2. After(index).quantity = T(J)
    BY <1>2, <1>3, <1>4, <1>6, <1>11, <2>1, PositionIsTarget DEF k
  <2>3. T(J) # 0
    BY <1>9, <2>2
  <2>. QED  BY <2>3 DEF TargetOf
\* The last time of the marking grid before now, and the last fill by then.
<1>13. PICK g \in Int : /\ g < now /\ now - g <= M
                       /\ (g - Start) % M = 0 /\ ((g - M) - Start) % M = 0
  BY <1>5, <1>8, LastOfGrid
<1>14. PICK K \in 0..k : /\ K > 0 => fills[K].time <= g
                         /\ \A i \in 1..k : fills[i].time <= g => i <= K
                         /\ HeldAt(fills, g) <=> T(K) # 0
  BY <1>6, HeldByTheLast DEF k
<1>15. K <= J
  <2>1. SUFFICES ASSUME K > 0 PROVE K <= J
    BY <1>6
  <2>2. K \in 1..k /\ fills[K].time <= g /\ fills[K].time \in Int
    BY <1>6, <1>14, <2>1
  <2>3. events[at[K]].time < now /\ at[K] \in 1..m
    BY <1>7, <1>8, <1>13, <2>2
  <2>. QED  BY <1>8, <1>11, <2>2, <2>3
\* A fill that opens the position is posted and too young.
<1>16. CASE T(K) = 0
  <2>1. K # J /\ K + 1 \in 1..k /\ (K + 1 = J \/ K + 1 < J) /\ J \in 1..k
    BY <1>6, <1>12, <1>15, <1>16
  <2>2. /\ at[K + 1] \in 1..m /\ at[K + 1] <= index /\ events[at[K + 1]].kind = "fill"
        /\ events[at[K + 1]].time = fills[K + 1].time /\ fills[K + 1].time \in Int
        /\ at[J] \in 1..m
    <3>1. at[K + 1] <= at[J] /\ at[J] <= index
      BY <1>7, <1>11, <2>1
    <3>. QED  BY <1>4, <1>6, <1>7, <2>1, <3>1
  <2>. DEFINE p == at[K + 1]
  <2>3. p \in 1..index /\ p \in Posted("fill")
    BY <2>2 DEF Posted
  <2>4. p - 1 \in 0..index /\ (K < k => at[K + 1] > p - 1) /\ (K > 0 => at[K] <= p - 1)
    <3>1. K > 0 => at[K] < at[K + 1] /\ at[K] \in 1..m
      BY <1>6, <1>7, <2>1
    <3>. QED  BY <1>4, <2>3, <3>1
  <2>5. After(p - 1).quantity = T(K)
    <3>. HIDE DEF p
    <3>. QED  BY <1>2, <1>3, <1>4, <1>6, <2>4, PositionIsTarget DEF k, p
  <2>6. now - fills[K + 1].time > M
    BY <1>10, <1>16, <2>2, <2>3, <2>5
  <2>7. ~(fills[K + 1].time <= g)
    BY <1>6, <1>14, <2>1
  <2>. QED  BY <1>5, <1>8, <1>13, <2>2, <2>6, <2>7
\* Held from the start: the first fill opens the position.
<1>17. CASE T(K) # 0 /\ g - M < Start
  <2>1. K # 0 /\ K \in 1..k /\ 1 \in 1..k
    BY <1>6, <1>17 DEF TargetOf
  <2>2. fills[1].time <= g /\ fills[1].time >= Start /\ fills[1].time \in Int
    <3>1. fills[K].time <= g /\ fills[K].time \in Int
      BY <1>6, <1>14, <2>1
    <3>2. fills[1].time <= fills[K].time
      BY <1>6, <2>1
    <3>3. fills[1].time \in Start..(End - 1) /\ fills[1].time \in Int
      BY <1>6, <2>1
    <3>. QED  BY <1>5, <3>1, <3>2, <3>3
  <2>3. g = Start
    <3>1. g - Start \in 0..(M - 1)
      BY <1>5, <1>17, <2>2
    <3>2. (g - Start) % M = g - Start
      BY <1>5, <3>1
    <3>. QED  BY <1>5, <1>13, <3>2
  <2>4. events[at[1]].time = Start /\ at[1] \in 1..m /\ events[at[1]].kind = "fill"
    BY <1>5, <1>7, <2>1, <2>2, <2>3
  <2>5. at[1] <= index
    BY <1>8, <1>13, <2>3, <2>4
  <2>6. at[1] - 1 \in 0..index /\ at[1] > at[1] - 1 /\ at[1] \in Posted("fill")
    BY <1>4, <2>4, <2>5 DEF Posted
  <2>7. After(at[1] - 1).quantity = T(0)
    <3>1. 0 \in 0..k /\ ~(0 > 0) /\ (0 < k => at[0 + 1] > at[1] - 1)
      BY <1>6, <2>6
    <3>. QED  BY <1>2, <1>3, <1>4, <1>6, <2>6, <3>1, PositionIsTarget DEF k
  <2>8. T(0) = 0
    BY DEF TargetOf
  <2>9. now - Start > M
    BY <1>10, <2>4, <2>6, <2>7, <2>8
  <2>. QED  BY <1>5, <1>8, <1>13, <2>3, <2>9
\* A mark was wanted then.
<1>18. CASE T(K) # 0 /\ ~(g - M < Start)
  <2>1. g - M \in RequiredAsked(r)
    <3>1. (g - M) + M = g /\ g - M \in Start..(End - 1)
      BY <1>5, <1>8, <1>13, <1>18
    <3>2. ((g - M) - Start) % M = 0
      BY <1>5, <1>13
    <3>3. HeldAt(FillsAsked(r), g)
      BY <1>14, <1>18 DEF fills
    <3>. QED  BY <3>1, <3>2, <3>3 DEF RequiredAsked, RequiredMarks, ExpectedOpens, M
  <2>2. PICK i \in 1..m : events[i].kind = "mark" /\ events[i].time = (g - M) + M
    BY <1>3, <2>1 DEF Valuing, M
  <2>3. events[i].time = g
    BY <1>5, <2>2
  <2>4. i \in Posted("mark")
    BY <1>4, <1>8, <1>13, <2>2, <2>3 DEF Posted
  <2>. QED  BY <1>13, <2>3, <2>4 DEF now, M
<1>. QED  BY <1>16, <1>17, <1>18

\* A position of a study that is older than a marking interval is valued at a
\* price that is not, whatever was decided and at whatever candles it was filled.
THEOREM PositionsValued == StudySpec => []ValuedWhileHeld
BY LedgerInvariant, HeldIsValued, PTL

-----------------------------------------------------------------------------
(* Markets that are alike up to a time. *)

FundingTwin(f, g, t) ==
    /\ g.time = f.time /\ g.predicted = f.predicted /\ g.hourly = f.hourly /\ g.run = f.run
    /\ f.time <= t => g = f

OracleTwin(x, y, t) == y.time = x.time /\ (x.time <= t => y = x)

CandleTwin(c, d, t) ==
    /\ d.time = c.time /\ d.interval = c.interval
    /\ c.time <= t => d.first = c.first
    /\ Available(c) <= t => d.last = c.last

\* Every row of a market has its twin in the other: the same, if known by the time.
Follows(m, o, t) ==
    /\ \A f \in m.funding : \E g \in o.funding : FundingTwin(f, g, t)
    /\ \A x \in m.oracles : \E y \in o.oracles : OracleTwin(x, y, t)
    /\ \A c \in m.candles : \E d \in o.candles : CandleTwin(c, d, t)

Changed(f, t) == IF f.time > t THEN [f EXCEPT !.rate = Negated(@)] ELSE f

Repriced(o, t) == IF o.time > t THEN [o EXCEPT !.price = OtherPrice(@)] ELSE o

Redrawn(c, t) ==
    [c EXCEPT !.first = IF c.time > t THEN OtherPrice(@) ELSE @,
              !.last = IF Available(c) > t THEN OtherPrice(@) ELSE @]

LEMMA RowsChanged ==
    ASSUME NEW t \in Int
    PROVE  /\ \A f \in FundingRow : /\ Changed(f, t) \in FundingRow
                                    /\ FundingTwin(f, Changed(f, t), t) /\ FundingTwin(Changed(f, t), f, t)
           /\ \A o \in OracleRow : /\ Repriced(o, t) \in OracleRow
                                   /\ OracleTwin(o, Repriced(o, t), t) /\ OracleTwin(Repriced(o, t), o, t)
           /\ \A c \in CandleRow : /\ Redrawn(c, t) \in CandleRow
                                   /\ CandleTwin(c, Redrawn(c, t), t) /\ CandleTwin(Redrawn(c, t), c, t)
<1>1. ASSUME NEW f \in FundingRow
      PROVE  /\ Changed(f, t) \in FundingRow
             /\ FundingTwin(f, Changed(f, t), t) /\ FundingTwin(Changed(f, t), f, t)
  <2>1. f.rate \in Number /\ f.time \in Int
    BY DEF FundingRow
  <2>2. Negated(f.rate) \in Number
    BY <2>1 DEF Negated, Number
  <2>3. CASE f.time > t
    <3>. DEFINE g == [f EXCEPT !.rate = Negated(f.rate)]
    <3>1. Changed(f, t) = g
      BY <2>3 DEF Changed
    <3>2. g \in FundingRow
      BY <2>2 DEF FundingRow
    <3>3. g.time = f.time /\ g.predicted = f.predicted /\ g.hourly = f.hourly /\ g.run = f.run
      BY DEF FundingRow
    <3>. HIDE DEF g
    <3>. QED  BY <2>1, <2>3, <3>1, <3>2, <3>3 DEF FundingTwin
  <2>4. CASE ~(f.time > t)
    BY <2>4 DEF Changed, FundingTwin
  <2>. QED  BY <2>3, <2>4
<1>2. ASSUME NEW o \in OracleRow
      PROVE  /\ Repriced(o, t) \in OracleRow
             /\ OracleTwin(o, Repriced(o, t), t) /\ OracleTwin(Repriced(o, t), o, t)
  <2>1. o.price \in Int /\ o.time \in Int /\ OtherPrice(o.price) \in Int
    BY DEF OracleRow, OtherPrice
  <2>2. CASE o.time > t
    <3>. DEFINE p == [o EXCEPT !.price = OtherPrice(o.price)]
    <3>1. Repriced(o, t) = p
      BY <2>2 DEF Repriced
    <3>2. p \in OracleRow /\ p.time = o.time
      BY <2>1 DEF OracleRow
    <3>. HIDE DEF p
    <3>. QED  BY <2>1, <2>2, <3>1, <3>2 DEF OracleTwin
  <2>3. CASE ~(o.time > t)
    BY <2>3 DEF Repriced, OracleTwin
  <2>. QED  BY <2>2, <2>3
<1>3. ASSUME NEW c \in CandleRow
      PROVE  /\ Redrawn(c, t) \in CandleRow
             /\ CandleTwin(c, Redrawn(c, t), t) /\ CandleTwin(Redrawn(c, t), c, t)
  <2>1. /\ c.first \in Int /\ c.last \in Int /\ c.time \in Int /\ c.interval \in Int
        /\ OtherPrice(c.first) \in Int /\ OtherPrice(c.last) \in Int
    BY DEF CandleRow, OtherPrice
  <2>. DEFINE first == IF c.time > t THEN OtherPrice(c.first) ELSE c.first
              last == IF Available(c) > t THEN OtherPrice(c.last) ELSE c.last
              d == [c EXCEPT !.first = first, !.last = last]
  <2>2. Redrawn(c, t) = d
    BY DEF Redrawn, CandleRow
  <2>3. first \in Int /\ last \in Int
    BY <2>1
  <2>4. (c.time <= t => first = c.first) /\ (Available(c) <= t => last = c.last)
    BY <2>1 DEF Available
  <2>. HIDE DEF first, last
  <2>5. /\ d \in CandleRow /\ d.time = c.time /\ d.interval = c.interval
        /\ d.first = first /\ d.last = last
    BY <2>3 DEF CandleRow
  <2>. HIDE DEF d
  <2>. QED  BY <2>2, <2>4, <2>5 DEF CandleTwin, Available
<1>. QED  BY <1>1, <1>2, <1>3

LEMMA OtherwiseMarket ==
    ASSUME NEW market \in Market, NEW t \in Int
    PROVE  LET other == Otherwise(market, t)
           IN  /\ other \in Market
               /\ other.funding = {Changed(f, t) : f \in market.funding}
               /\ other.oracles = {Repriced(o, t) : o \in market.oracles}
               /\ other.candles = {Redrawn(c, t) : c \in market.candles}
<1>. DEFINE other == Otherwise(market, t)
            F == {Changed(f, t) : f \in market.funding}
            O == {Repriced(o, t) : o \in market.oracles}
            C == {Redrawn(c, t) : c \in market.candles}
<1>1. other = [market EXCEPT !.funding = F, !.oracles = O, !.candles = C]
  <2>1. /\ {IF f.time > t THEN [f EXCEPT !.rate = Negated(@)] ELSE f : f \in market.funding} = F
        /\ {IF o.time > t THEN [o EXCEPT !.price = OtherPrice(@)] ELSE o : o \in market.oracles} = O
        /\ {[c EXCEPT !.first = IF c.time > t THEN OtherPrice(@) ELSE @,
                      !.last = IF Available(c) > t THEN OtherPrice(@) ELSE @] : c \in market.candles} = C
    BY DEF Changed, Repriced, Redrawn
  <2>. QED  BY <2>1 DEF Otherwise, Market
<1>2. F \in SUBSET FundingRow /\ O \in SUBSET OracleRow /\ C \in SUBSET CandleRow
  <2>1. /\ market.funding \in SUBSET FundingRow /\ market.oracles \in SUBSET OracleRow
        /\ market.candles \in SUBSET CandleRow
    BY DEF Market
  <2>. QED  BY <2>1, RowsChanged
<1>. HIDE DEF other, F, O, C
<1>3. other.funding = F /\ other.oracles = O /\ other.candles = C /\ other \in Market
  BY <1>1, <1>2 DEF Market
<1>. QED  BY <1>3 DEF other, F, O, C

\* The study that asks the same of what the market would be.
Alternative(r, t) == [market |-> Otherwise(r.market, t), plan |-> r.plan, terms |-> r.terms]

LEMMA AlternativeFollows ==
    ASSUME NEW r, IsRequest(r), NEW t \in Int
    PROVE  /\ IsRequest(Alternative(r, t))
           /\ Alternative(r, t).plan = r.plan /\ Alternative(r, t).terms = r.terms
           /\ Follows(r.market, Alternative(r, t).market, t)
           /\ Follows(Alternative(r, t).market, r.market, t)
<1>. DEFINE m == r.market
            o == Otherwise(r.market, t)
<1>1. /\ m \in Market /\ r.plan \in Plan /\ r.terms \in Terms
      /\ IsFiniteSet(m.funding) /\ IsFiniteSet(m.oracles)
      /\ m.funding \in SUBSET FundingRow /\ m.oracles \in SUBSET OracleRow /\ m.candles \in SUBSET CandleRow
  BY RequestFacts DEF Market
<1>2. /\ o \in Market
      /\ o.funding = {Changed(f, t) : f \in m.funding}
      /\ o.oracles = {Repriced(x, t) : x \in m.oracles}
      /\ o.candles = {Redrawn(c, t) : c \in m.candles}
  BY <1>1, OtherwiseMarket
<1>3. /\ Alternative(r, t).market = o /\ Alternative(r, t).plan = r.plan /\ Alternative(r, t).terms = r.terms
      /\ Alternative(r, t) = [market |-> o, plan |-> r.plan, terms |-> r.terms]
  BY DEF Alternative
<1>. HIDE DEF m, o
<1>4. IsFiniteSet(o.funding) /\ IsFiniteSet(o.oracles)
  <2>1. [f \in m.funding |-> Changed(f, t)] \in Surjection(m.funding, o.funding)
    BY <1>2 DEF Surjection
  <2>2. [x \in m.oracles |-> Repriced(x, t)] \in Surjection(m.oracles, o.oracles)
    BY <1>2 DEF Surjection
  <2>. QED  BY <1>1, <2>1, <2>2, FS_Surjection
<1>5. IsRequest(Alternative(r, t))
  BY <1>1, <1>2, <1>3, <1>4 DEF IsRequest
<1>6. Follows(m, o, t) /\ Follows(o, m, t)
  <2>1. /\ \A f \in m.funding : FundingTwin(f, Changed(f, t), t) /\ FundingTwin(Changed(f, t), f, t)
        /\ \A x \in m.oracles : OracleTwin(x, Repriced(x, t), t) /\ OracleTwin(Repriced(x, t), x, t)
        /\ \A c \in m.candles : CandleTwin(c, Redrawn(c, t), t) /\ CandleTwin(Redrawn(c, t), c, t)
    BY <1>1, RowsChanged
  <2>. QED  BY <1>2, <2>1 DEF Follows
<1>. QED  BY <1>3, <1>5, <1>6 DEF m

\* Two requests that differ only in what their markets become after a time, and
\* neither of which is refused.
Alike(r, q, t) ==
    /\ IsRequest(r) /\ IsRequest(q) /\ q.plan = r.plan /\ q.terms = r.terms
    /\ Follows(r.market, q.market, t) /\ Follows(q.market, r.market, t)
    /\ Asked(r) # Refused /\ Asked(q) # Refused
    /\ t \in Int /\ Start <= t

LEMMA AlikeBoth ==
    ASSUME NEW r, NEW q, NEW t, Alike(r, q, t)
    PROVE  Alike(q, r, t)
BY DEF Alike

\* The alignments of a market that has been accepted, in the order of their times.
Lined(r, n) ==
    /\ n \in Nat /\ DOMAIN FundingAsked(r) = 1..n
    /\ \A i \in 1..n : /\ FundingAsked(r)[i] \in Alignments(r.market)
                       /\ IsAligned(FundingAsked(r)[i], r.terms)
                       /\ FundingAsked(r)[i].funding.time \in Start..(End - 1)
                       /\ FundingAsked(r)[i].funding.time \in Int
    /\ \A a \in Alignments(r.market) : \E i \in 1..n : FundingAsked(r)[i] = a
    /\ \A i, j \in 1..n : i < j => FundingAsked(r)[i].funding.time < FundingAsked(r)[j].funding.time

LEMMA FundingLined ==
    ASSUME NEW r, IsRequest(r), Asked(r) # Refused
    PROVE  \E n : Lined(r, n)
<1>. DEFINE al == FundingAsked(r)
<1>1. al # Refused
  BY Accepted
<1>2. /\ Complete(r.market, r.terms)
      /\ \E n \in Nat :
            /\ DOMAIN al = 1..n
            /\ \A k \in 1..n : al[k] \in Alignments(r.market)
            /\ \A a \in Alignments(r.market) : \E k \in 1..n : al[k] = a
            /\ \A j, k \in 1..n : al[j] = al[k] => j = k
            /\ \A j, k \in 1..n : j < k => al[j].funding.time < al[k].funding.time
  BY <1>1, FundingValid DEF FundingAsked
<1>3. PICK n \in Nat : /\ DOMAIN al = 1..n
                       /\ \A k \in 1..n : al[k] \in Alignments(r.market)
                       /\ \A a \in Alignments(r.market) : \E k \in 1..n : al[k] = a
                       /\ \A j, k \in 1..n : j < k => al[j].funding.time < al[k].funding.time
  BY <1>2
<1>4. \A a \in Alignments(r.market) : /\ IsAligned(a, r.terms)
                                      /\ a.funding.time \in Start..(End - 1) /\ a.funding.time \in Int
  BY <1>2, AlignmentTimes, AlignmentAssumption DEF Complete
<1>. HIDE DEF al
<1>5. \A k \in 1..n : /\ al[k] \in Alignments(r.market) /\ IsAligned(al[k], r.terms)
                      /\ al[k].funding.time \in Start..(End - 1) /\ al[k].funding.time \in Int
  BY <1>3, <1>4
<1>6. Lined(r, n)
  BY <1>3, <1>5 DEF Lined, al
<1>. QED  BY <1>6

LEMMA AlignmentCarried ==
    ASSUME NEW r, NEW q, NEW t, Alike(r, q, t), NEW a \in Alignments(r.market)
    PROVE  \E b \in Alignments(q.market) :
              /\ b.funding.time = a.funding.time
              /\ a.funding.time <= t => b.funding = a.funding
<1>1. a.funding \in r.market.funding /\ a.funding.time \in Start..(End - 1) /\ ~a.funding.predicted
  BY AlignmentTimes DEF FundingRows
<1>2. PICK g \in q.market.funding : FundingTwin(a.funding, g, t)
  BY <1>1 DEF Alike, Follows
<1>3. g \in FundingRows(q.market)
  BY <1>1, <1>2 DEF FundingTwin, FundingRows
<1>. DEFINE b == Alignment(g, OracleRows(q.market))
<1>4. b \in Alignments(q.market)
  BY <1>3 DEF Alignments, Dataset
<1>5. b.funding = g
  BY DEF Alignment
<1>. HIDE DEF b
<1>. QED  BY <1>2, <1>4, <1>5 DEF FundingTwin

\* What is known by a time settles at the same price in both markets.
LEMMA PricesCarried ==
    ASSUME NEW r, NEW q, NEW t, Alike(r, q, t),
           NEW a \in Alignments(r.market), a.reason = Absent,
           NEW b \in Alignments(q.market), b.reason = Absent,
           b.funding.time = a.funding.time, a.funding.time <= t
    PROVE  b.price = a.price
<1>1. IsRequest(r) /\ IsRequest(q) /\ t \in Int
  BY DEF Alike
<1>2. PICK o \in r.market.oracles :
          /\ o.time <= a.funding.time /\ o.price = a.price
          /\ \A p \in r.market.oracles : p.time <= a.funding.time => p.time <= o.time
  BY <1>1, PricedByTheLast
<1>3. PICK u \in q.market.oracles :
          /\ u.time <= b.funding.time
          /\ \A p \in q.market.oracles : p.time <= b.funding.time => p.time <= u.time
          /\ \A p \in q.market.oracles : p.time = u.time => p.price = b.price
  BY <1>1, PricedByTheLast
<1>4. o.time \in Int /\ u.time \in Int /\ a.funding.time \in Int
  BY <1>1, RequestFacts, AlignmentTimes, AlignmentAssumption
<1>5. PICK y \in q.market.oracles : OracleTwin(o, y, t)
  BY DEF Alike, Follows
<1>6. PICK x \in r.market.oracles : OracleTwin(u, x, t)
  BY DEF Alike, Follows
<1>7. y = o /\ x = u
  BY <1>1, <1>2, <1>3, <1>4, <1>5, <1>6 DEF OracleTwin
<1>8. o.time = u.time
  BY <1>2, <1>3, <1>4, <1>7
<1>. QED  BY <1>2, <1>3, <1>7, <1>8

LEMMA FundingCarried ==
    ASSUME NEW r, NEW q, NEW t, Alike(r, q, t), NEW n, Lined(r, n), NEW k, Lined(q, k)
    PROVE  /\ n = k
           /\ \A i \in 1..n : FundingAsked(r)[i].funding.time <= t =>
                 FundingEvents(FundingAsked(q))[i] = FundingEvents(FundingAsked(r))[i]
<1>. DEFINE al == FundingAsked(r)
            bl == FundingAsked(q)
            f == [i \in 1..n |-> al[i].funding.time]
            g == [i \in 1..k |-> bl[i].funding.time]
<1>1. /\ n \in Nat /\ DOMAIN al = 1..n
      /\ \A i \in 1..n : al[i] \in Alignments(r.market) /\ IsAligned(al[i], r.terms)
      /\ \A i \in 1..n : al[i].funding.time \in Start..(End - 1) /\ al[i].funding.time \in Int
      /\ \A a \in Alignments(r.market) : \E i \in 1..n : al[i] = a
      /\ \A i, j \in 1..n : i < j => al[i].funding.time < al[j].funding.time
  BY DEF Lined
<1>2. /\ k \in Nat /\ DOMAIN bl = 1..k
      /\ \A i \in 1..k : bl[i] \in Alignments(q.market) /\ IsAligned(bl[i], q.terms)
      /\ \A i \in 1..k : bl[i].funding.time \in Start..(End - 1) /\ bl[i].funding.time \in Int
      /\ \A a \in Alignments(q.market) : \E i \in 1..k : bl[i] = a
      /\ \A i, j \in 1..k : i < j => bl[i].funding.time < bl[j].funding.time
  BY DEF Lined
<1>3. End \in Int /\ Start \in Int
  BY AlignmentAssumption
<1>4. Alike(q, r, t)
  BY AlikeBoth
<1>. HIDE DEF al, bl
<1>5. ASSUME NEW i \in 1..n PROVE \E j \in 1..k : bl[j].funding.time = al[i].funding.time
  <2>1. al[i] \in Alignments(r.market)
    BY <1>1
  <2>2. PICK b \in Alignments(q.market) : b.funding.time = al[i].funding.time
    BY <2>1, AlignmentCarried
  <2>. QED  BY <1>2, <2>2
<1>6. ASSUME NEW i \in 1..k PROVE \E j \in 1..n : al[j].funding.time = bl[i].funding.time
  <2>1. bl[i] \in Alignments(q.market)
    BY <1>2
  <2>2. PICK a \in Alignments(r.market) : a.funding.time = bl[i].funding.time
    BY <1>4, <2>1, AlignmentCarried
  <2>. QED  BY <1>1, <2>2
<1>7. n = k /\ \A i \in 1..n : bl[i].funding.time = al[i].funding.time
  <2>1. \A i \in 1..n : f[i] = al[i].funding.time
    OBVIOUS
  <2>2. \A i \in 1..k : g[i] = bl[i].funding.time
    OBVIOUS
  <2>. HIDE DEF f, g
  <2>3. /\ \A i \in 1..n : f[i] \in Int /\ f[i] <= End
        /\ \A i \in 1..k : g[i] \in Int /\ g[i] <= End
    <3>1. \A u : u \in Start..(End - 1) => u \in Int /\ u <= End
      BY <1>3
    <3>2. \A i \in 1..n : f[i] \in Start..(End - 1)
      BY <1>1, <2>1
    <3>3. \A i \in 1..k : g[i] \in Start..(End - 1)
      BY <1>2, <2>2
    <3>. QED  BY <3>1, <3>2, <3>3
  <2>4. Rises(f, n) /\ Rises(g, k)
    BY <1>1, <1>2, <2>1, <2>2, <2>3 DEF Rises
  <2>5. OccursBy(f, n, g, k, End) /\ OccursBy(g, k, f, n, End)
    BY <1>5, <1>6, <2>1, <2>2 DEF OccursBy
  <2>6. n = k /\ \A i \in 1..n : g[i] = f[i]
    BY <1>3, <2>3, <2>4, <2>5, IncreasingSame
  <2>. QED  BY <2>1, <2>2, <2>6
<1>8. ASSUME NEW i \in 1..n, al[i].funding.time <= t
       PROVE  bl[i].funding = al[i].funding /\ bl[i].price = al[i].price
  <2>1. i \in 1..k /\ bl[i].funding.time = al[i].funding.time
    BY <1>7
  <2>2. PICK b \in Alignments(q.market) : b.funding.time = al[i].funding.time /\ b.funding = al[i].funding
    BY <1>1, <1>8, AlignmentCarried
  <2>3. PICK j \in 1..k : bl[j] = b
    BY <1>2
  <2>4. i = j
    <3>1. ~(i < j) /\ ~(j < i)
      BY <1>2, <2>1, <2>2, <2>3
    <3>. QED  BY <1>2, <2>1, <3>1
  <2>5. bl[i].price = al[i].price
    <3>1. al[i].reason = Absent /\ bl[i].reason = Absent
      BY <1>1, <1>2, <2>1 DEF IsAligned
    <3>. QED  BY <1>1, <1>2, <1>8, <2>1, <3>1, PricesCarried
  <2>. QED  BY <2>2, <2>3, <2>4, <2>5
<1>9. ASSUME NEW i \in 1..n, al[i].funding.time <= t
       PROVE  FundingEvents(bl)[i] = FundingEvents(al)[i]
  <2>1. FundingEvents(al)[i] = [kind |-> "funding", time |-> al[i].funding.time, seq |-> i - 1,
                                price |-> al[i].price, rate |-> al[i].funding.rate]
    BY <1>1 DEF FundingEvents
  <2>2. FundingEvents(bl)[i] = [kind |-> "funding", time |-> bl[i].funding.time, seq |-> i - 1,
                                price |-> bl[i].price, rate |-> bl[i].funding.rate]
    BY <1>2, <1>7 DEF FundingEvents
  <2>. QED  BY <1>8, <1>9, <2>1, <2>2
<1>. QED  BY <1>7, <1>9 DEF al, bl

-----------------------------------------------------------------------------
(* Decisions that are alike up to a time. *)

\* What a sequence has by a time another has at the same places.
Carried(s, other, t) ==
    \A i \in 1..Len(s) : s[i].time <= t => i \in 1..Len(other) /\ other[i] = s[i]

IsTimed(s) == Len(s) \in Nat /\ \A i \in 1..Len(s) : s[i].time \in Int

\* Each of n steps that does not refuse grows what there was, from a time on.
Growing(it, n, times) ==
    /\ n \in Nat
    /\ \A k \in 0..n : it[k] # Refused => IsTimed(it[k])
    /\ \A k \in 1..n : times[k] \in Int /\ (it[k] # Refused => Grown(it[k - 1], it[k], times[k]))

LEMMA GrownFurther ==
    ASSUME NEW s, NEW next, NEW end, NEW time \in Int, NEW u \in Int, time >= u,
           IsTimed(s), IsTimed(next), IsTimed(end), Grown(s, next, time), Grown(next, end, u)
    PROVE  Grown(s, end, u)
<1>1. /\ Len(s) \in Nat /\ Len(next) \in Nat /\ Len(end) \in Nat
      /\ \A i \in 1..Len(next) : next[i].time \in Int
      /\ s # Refused /\ Len(s) <= Len(next) /\ Len(next) <= Len(end)
      /\ \A i \in 1..Len(s) : next[i] = s[i]
      /\ \A i \in 1..Len(next) : i > Len(s) => next[i].time >= time
      /\ \A i \in 1..Len(next) : end[i] = next[i]
      /\ \A i \in 1..Len(end) : i > Len(next) => end[i].time >= u
  BY DEF IsTimed, Grown
<1>2. Len(s) <= Len(end)
  BY <1>1
<1>3. \A i \in 1..Len(s) : end[i] = s[i]
  BY <1>1
<1>4. ASSUME NEW i \in 1..Len(end), i > Len(s) PROVE end[i].time >= u
  <2>1. CASE i > Len(next)
    BY <1>1, <2>1
  <2>2. CASE ~(i > Len(next))
    <3>1. i \in 1..Len(next)
      BY <1>1, <2>2
    <3>2. end[i].time = next[i].time /\ next[i].time >= time /\ next[i].time \in Int
      BY <1>1, <1>4, <3>1
    <3>. QED  BY <3>2
  <2>. QED  BY <2>1, <2>2
<1>. QED  BY <1>1, <1>2, <1>3, <1>4 DEF Grown

LEMMA GrownOver ==
    ASSUME NEW it, NEW n, NEW times, Growing(it, n, times), it[n] # Refused,
           NEW c \in 0..n, NEW u \in Int, \A k \in 1..n : k > c => times[k] >= u
    PROVE  Grown(it[c], it[n], u)
<1>. DEFINE Bad == {d \in 0..(n - c) : ~Grown(it[n - d], it[n], u)}
<1>1. /\ n \in Nat /\ c \in Nat
      /\ \A k \in 0..n : it[k] # Refused => IsTimed(it[k])
      /\ \A k \in 1..n : times[k] \in Int /\ (it[k] # Refused => Grown(it[k - 1], it[k], times[k]))
  BY DEF Growing
<1>2. Grown(it[n], it[n], u)
  <2>1. Len(it[n]) \in Nat
    BY <1>1 DEF IsTimed
  <2>. QED  BY <2>1 DEF Grown
<1>3. CASE Bad = {}
  <2>1. n - c \in 0..(n - c) /\ n - (n - c) = c
    BY <1>1
  <2>. QED  BY <1>3, <2>1
<1>4. CASE Bad # {}
  <2>1. PICK d \in Bad : \A e \in Bad : d <= e
    <3>1. Bad \in SUBSET Nat
      BY <1>1
    <3>. HIDE DEF Bad
    <3>. QED  BY <1>4, <3>1, LeastOf
  <2>2. d \in 0..(n - c) /\ ~Grown(it[n - d], it[n], u)
    OBVIOUS
  <2>3. d # 0
    BY <1>1, <1>2, <2>2
  <2>4. d - 1 \in 0..(n - c) /\ d - 1 < d
    BY <1>1, <2>2, <2>3
  <2>5. Grown(it[n - (d - 1)], it[n], u)
    <3>1. d - 1 \notin Bad
      <4>. HIDE DEF Bad
      <4>. QED  BY <1>1, <2>1, <2>2, <2>4
    <3>. QED  BY <2>4, <3>1
  <2>. DEFINE k == n - (d - 1)
  <2>6. k \in 1..n /\ k \in 0..n /\ k - 1 \in 0..n /\ k - 1 = n - d /\ k > c
    BY <1>1, <2>2, <2>3
  <2>. HIDE DEF k
  <2>7. Grown(it[k], it[n], u)
    BY <2>5 DEF k
  <2>8. it[k] # Refused /\ Grown(it[k - 1], it[k], times[k]) /\ times[k] \in Int /\ times[k] >= u
    BY <1>1, <2>6, <2>7 DEF Grown
  <2>9. IsTimed(it[k]) /\ IsTimed(it[k - 1]) /\ IsTimed(it[n])
    BY <1>1, <2>6, <2>8 DEF Grown
  <2>10. Grown(it[k - 1], it[n], u)
    BY <2>7, <2>8, <2>9, GrownFurther
  <2>. QED  BY <2>2, <2>6, <2>10
<1>. QED  BY <1>3, <1>4

\* The last of rising times that is not after a time.
LEMMA LastBy ==
    ASSUME NEW times, NEW n, Rises(times, n), NEW t \in Int
    PROVE  \E c \in 0..n : \A k \in 1..n : k <= c <=> times[k] <= t
<1>. DEFINE S == {i \in 1..n : times[i] <= t}
<1>1. /\ n \in Nat /\ \A i \in 1..n : times[i] \in Int
      /\ \A i, j \in 1..n : i < j => times[i] < times[j]
  BY DEF Rises
<1>2. PICK c \in 0..n : (c > 0 => c \in S) /\ \A i \in S : i <= c
  <2>1. S \in SUBSET (1..n)
    OBVIOUS
  <2>. HIDE DEF S
  <2>. QED  BY <1>1, <2>1, LastIn
<1>3. ASSUME NEW k \in 1..n, k <= c PROVE times[k] <= t
  <2>1. c > 0 /\ c \in 1..n /\ times[c] <= t
    BY <1>1, <1>2, <1>3
  <2>2. k = c \/ times[k] < times[c]
    BY <1>1, <1>3, <2>1
  <2>. QED  BY <1>1, <2>1, <2>2
<1>4. ASSUME NEW k \in 1..n, times[k] <= t PROVE k <= c
  BY <1>2, <1>4
<1>. QED  BY <1>3, <1>4

\* What has grown from the same, after a time, is the same by then.
LEMMA GrownAlike ==
    ASSUME NEW t \in Int, NEW s, NEW end, NEW other, IsTimed(s), IsTimed(end), IsTimed(other),
           Grown(s, end, t + 1), Grown(s, other, t + 1)
    PROVE  Carried(end, other, t)
<1>1. ASSUME NEW i \in 1..Len(end), end[i].time <= t
      PROVE  i \in 1..Len(other) /\ other[i] = end[i]
  <2>1. end[i].time \in Int /\ Len(s) \in Nat /\ Len(end) \in Nat /\ Len(other) \in Nat
    BY DEF IsTimed
  <2>2. i \in 1..Len(s)
    BY <1>1, <2>1 DEF Grown
  <2>. QED  BY <2>1, <2>2 DEF Grown
<1>. QED  BY <1>1 DEF Carried

\* Sorted by their hours, the evidence is sorted by time.
LEMMA EvidenceRises ==
    ASSUME NEW rows, NEW n, NEW evidence, Evident(rows, n, evidence), \A f \in evidence : f.time \in Int
    PROVE  \A i, j \in 1..n : i < j => rows[i].time < rows[j].time
<1>1. ASSUME NEW t \in Int, FundingSlot(t) # Absent
      PROVE  /\ FundingSlot(t) \in Int /\ (FundingSlot(t) - Start) % 4 = 0
             /\ FundingSlot(t) - t <= 1 /\ t - FundingSlot(t) <= 1
  <2>1. FundingSlot(t) \in Slots
    BY <1>1, SlotsAreTimes
  <2>2. FundingSlot(t) \in Int /\ (FundingSlot(t) - Start) % 4 = 0
    BY <2>1, AlignmentAssumption DEF Slots, Hour
  <2>3. Distance(t, FundingSlot(t)) <= Tolerance
    BY <1>1 DEF FundingSlot
  <2>. QED  BY <2>2, <2>3 DEF Distance, Tolerance
<1>2. ASSUME NEW i \in 1..n, NEW j \in 1..n, i < j
      PROVE  rows[i].time < rows[j].time
  <2>. DEFINE a == FundingSlot(rows[i].time)
              b == FundingSlot(rows[j].time)
              x == rows[i].time
              y == rows[j].time
  <2>1. a < b /\ x \in Int /\ y \in Int /\ a # Absent /\ b # Absent
    BY <1>2 DEF Evident
  <2>2. /\ a \in Int /\ b \in Int /\ (a - Start) % 4 = 0 /\ (b - Start) % 4 = 0
        /\ x - a <= 1 /\ b - y <= 1
    BY <1>1, <2>1
  <2>. HIDE DEF a, b, x, y
  <2>3. Start \in Int
    BY AlignmentAssumption
  <2>4. b - a >= 4
    BY <2>1, <2>2, <2>3
  <2>5. x < y
    BY <2>1, <2>2, <2>4
  <2>. QED  BY <2>5 DEF x, y
<1>. QED  BY <1>2

\* The evidence of one market has its twins in that of the other.
LEMMA EvidenceCarried ==
    ASSUME NEW r, NEW q, NEW t, Alike(r, q, t), NEW f \in EvidenceAsked(r)
    PROVE  \E g \in EvidenceAsked(q) : FundingTwin(f, g, t)
<1>. DEFINE Window(m) == {x \in m.funding : /\ Start <= x.time /\ x.time <= End - Hour + Tolerance
                                            /\ ~x.predicted /\ x.run # Absent}
<1>1. r.plan.spec.name = "lagged_funding_receiver" /\ f \in SourceEvidence(r.market)
  BY DEF EvidenceAsked, EvidenceFor
<1>2. f \in Window(r.market) /\ \A x \in Window(r.market) : IsSound(x)
  BY <1>1 DEF SourceEvidence
<1>3. PICK g \in q.market.funding : FundingTwin(f, g, t)
  BY <1>2 DEF Alike, Follows
<1>4. g \in Window(q.market)
  BY <1>2, <1>3 DEF FundingTwin
<1>5. ASSUME NEW y \in Window(q.market) PROVE IsSound(y)
  <2>1. PICK x \in r.market.funding : FundingTwin(y, x, t)
    BY <1>5 DEF Alike, Follows
  <2>2. x \in Window(r.market)
    BY <1>5, <2>1 DEF FundingTwin
  <2>. QED  BY <1>2, <2>1, <2>2 DEF FundingTwin, IsSound
<1>6. SourceEvidence(q.market) = Window(q.market)
  BY <1>5 DEF SourceEvidence
<1>7. EvidenceAsked(q) = SourceEvidence(q.market)
  BY <1>1 DEF EvidenceAsked, EvidenceFor, Alike
<1>. QED  BY <1>3, <1>4, <1>6, <1>7

\* In order, twins are at the same places.
LEMMA RowsCarried ==
    ASSUME NEW r, NEW q, NEW t, Alike(r, q, t),
           NEW rows, NEW n, Evident(rows, n, EvidenceAsked(r)),
           NEW others, NEW k, Evident(others, k, EvidenceAsked(q))
    PROVE  n = k /\ \A i \in 1..n : FundingTwin(rows[i], others[i], t)
<1>. DEFINE f == [i \in 1..n |-> FundingSlot(rows[i].time)]
            g == [i \in 1..k |-> FundingSlot(others[i].time)]
<1>1. /\ n \in Nat
      /\ \A i \in 1..n : rows[i] \in EvidenceAsked(r) /\ FundingSlot(rows[i].time) \in Slots
      /\ \A x \in EvidenceAsked(r) : \E i \in 1..n : rows[i] = x
      /\ \A i, j \in 1..n : i < j => FundingSlot(rows[i].time) < FundingSlot(rows[j].time)
  BY DEF Evident
<1>2. /\ k \in Nat
      /\ \A i \in 1..k : others[i] \in EvidenceAsked(q) /\ FundingSlot(others[i].time) \in Slots
      /\ \A x \in EvidenceAsked(q) : \E i \in 1..k : others[i] = x
      /\ \A i, j \in 1..k : i < j => FundingSlot(others[i].time) < FundingSlot(others[j].time)
  BY DEF Evident
<1>3. \A s \in Slots : s \in Int /\ s <= End
  <2>1. End \in Int /\ \A u : u \in Start..(End - 1) => u \in Int /\ u <= End
    BY AlignmentAssumption
  <2>. QED  BY <2>1, SlotsAreTimes
<1>4. ASSUME NEW i \in 1..n PROVE \E j \in 1..k : FundingTwin(rows[i], others[j], t)
  <2>1. PICK x \in EvidenceAsked(q) : FundingTwin(rows[i], x, t)
    BY <1>1, EvidenceCarried
  <2>. QED  BY <1>2, <2>1
<1>5. ASSUME NEW i \in 1..k PROVE \E j \in 1..n : FundingTwin(others[i], rows[j], t)
  <2>1. Alike(q, r, t)
    BY AlikeBoth
  <2>2. PICK x \in EvidenceAsked(r) : FundingTwin(others[i], x, t)
    BY <1>2, <2>1, EvidenceCarried
  <2>. QED  BY <1>1, <2>2
<1>6. \A i \in 1..n : f[i] = FundingSlot(rows[i].time)
  OBVIOUS
<1>7. \A i \in 1..k : g[i] = FundingSlot(others[i].time)
  OBVIOUS
<1>. HIDE DEF f, g
<1>8. n = k /\ \A i \in 1..n : g[i] = f[i]
  <2>1. /\ \A i \in 1..n : f[i] \in Int /\ f[i] <= End
        /\ \A i \in 1..k : g[i] \in Int /\ g[i] <= End
    BY <1>1, <1>2, <1>3, <1>6, <1>7
  <2>2. Rises(f, n) /\ Rises(g, k)
    BY <1>1, <1>2, <1>6, <1>7, <2>1 DEF Rises
  <2>3. OccursBy(f, n, g, k, End) /\ OccursBy(g, k, f, n, End)
    BY <1>4, <1>5, <1>6, <1>7 DEF OccursBy, FundingTwin
  <2>. QED  BY <2>1, <2>2, <2>3, IncreasingSame, AlignmentAssumption
<1>9. ASSUME NEW i \in 1..n PROVE FundingTwin(rows[i], others[i], t)
  <2>1. PICK j \in 1..k : FundingTwin(rows[i], others[j], t)
    BY <1>4
  <2>2. g[j] = f[i] /\ g[i] = f[i] /\ i \in 1..k
    BY <1>6, <1>7, <1>8, <2>1 DEF FundingTwin
  <2>3. ~(i < j) /\ ~(j < i)
    BY <1>2, <1>3, <1>7, <2>2
  <2>4. i = j
    BY <1>2, <2>2, <2>3
  <2>. QED  BY <2>1, <2>4
<1>. QED  BY <1>8, <1>9

\* Observing the same first, and then only what is later, decides the same by a time.
LEMMA TargetsCarried ==
    ASSUME NEW r, NEW q, NEW t, Alike(r, q, t),
           NEW rows, NEW n, Evident(rows, n, EvidenceAsked(r)),
           NEW others, Evident(others, n, EvidenceAsked(q)),
           \A i \in 1..n : FundingTwin(rows[i], others[i], t),
           NEW spec, spec.interval \in Nat \ {0}, spec.quantity \in Int,
           NEW it, DecidedBy(it, rows, n, spec), it[n] # Refused,
           NEW ot, DecidedBy(ot, others, n, spec), ot[n] # Refused
    PROVE  Carried(it[n], ot[n], t)
<1>. DEFINE times == [i \in 1..n |-> rows[i].time]
<1>1. n \in Nat /\ t \in Int /\ t + 1 \in Int
  BY DEF Evident, Alike
<1>2. \A i \in 1..n : /\ rows[i].time \in Int /\ others[i].time = rows[i].time
                      /\ rows[i].time <= t => others[i] = rows[i]
  <2>1. \A f \in EvidenceAsked(r) : f.time \in Int
    BY EvidenceFacts DEF Alike
  <2>. QED  BY <2>1 DEF Evident, FundingTwin
<1>3. \A i, j \in 1..n : i < j => rows[i].time < rows[j].time
  BY EvidenceRises, EvidenceFacts DEF Alike
<1>4. \A i \in 1..n : times[i] = rows[i].time
  OBVIOUS
<1>. HIDE DEF times
<1>5. ASSUME NEW at, NEW seen, DecidedBy(at, seen, n, spec),
             \A i \in 1..n : seen[i].time \in Int /\ seen[i].time = times[i]
      PROVE  Growing(at, n, times)
  <2>1. ASSUME NEW k \in 0..n, at[k] # Refused PROVE at[k] \in Seq(Decided) /\ IsTimed(at[k])
    <3>1. at[k] \in Seq(Decided)
      BY <1>5, <2>1 DEF DecidedBy
    <3>. QED  BY <3>1, DecidedIntents DEF IsTimed
  <2>2. ASSUME NEW k \in 1..n, at[k] # Refused PROVE Grown(at[k - 1], at[k], times[k])
    <3>1. k \in 0..n /\ k - 1 \in 0..n
      BY <1>1
    <3>2. at[k - 1] \in Seq(Decided) \cup {Refused} /\ at[k] = Observe(at[k - 1], seen[k], spec)
      BY <1>5, <3>1 DEF DecidedBy
    <3>. QED  BY <1>5, <2>2, <3>2, ObserveDecides
  <2>. QED  BY <1>1, <1>5, <2>1, <2>2 DEF Growing
<1>6. Growing(it, n, times)
  BY <1>2, <1>4, <1>5
<1>7. Growing(ot, n, times)
  BY <1>2, <1>4, <1>5
<1>8. PICK c \in 0..n : \A k \in 1..n : k <= c <=> times[k] <= t
  <2>1. Rises(times, n)
    BY <1>1, <1>2, <1>3, <1>4 DEF Rises
  <2>. QED  BY <1>1, <2>1, LastBy
<1>9. it[c] = ot[c]
  <2>. DEFINE Bad == {k \in 0..c : it[k] # ot[k]}
  <2>1. SUFFICES ASSUME Bad # {} PROVE FALSE
    BY <1>1
  <2>2. PICK k \in Bad : \A j \in Bad : k <= j
    <3>1. Bad \in SUBSET Nat
      OBVIOUS
    <3>. HIDE DEF Bad
    <3>. QED  BY <2>1, <3>1, LeastOf
  <2>3. k \in 0..c /\ it[k] # ot[k]
    OBVIOUS
  <2>4. it[0] = <<>> /\ ot[0] = <<>>
    BY DEF DecidedBy
  <2>5. k \in 1..n /\ k <= c /\ k - 1 \in 0..c /\ k - 1 < k
    BY <1>1, <2>3, <2>4
  <2>6. it[k - 1] = ot[k - 1]
    <3>1. k - 1 \notin Bad
      <4>. HIDE DEF Bad
      <4>. QED  BY <2>2, <2>5
    <3>. QED  BY <2>5, <3>1
  <2>7. others[k] = rows[k]
    BY <1>2, <1>4, <1>8, <2>5
  <2>8. it[k] = Observe(it[k - 1], rows[k], spec) /\ ot[k] = Observe(ot[k - 1], others[k], spec)
    BY <2>5 DEF DecidedBy
  <2>. QED  BY <2>3, <2>6, <2>7, <2>8
<1>10. \A k \in 1..n : k > c => times[k] >= t + 1
  BY <1>1, <1>2, <1>4, <1>8
<1>11. Grown(it[c], it[n], t + 1) /\ Grown(ot[c], ot[n], t + 1)
  BY <1>1, <1>6, <1>7, <1>10, GrownOver
<1>12. IsTimed(it[c]) /\ IsTimed(it[n]) /\ IsTimed(ot[n])
  <2>1. n \in 0..n /\ it[c] # Refused
    BY <1>1, <1>11 DEF Grown
  <2>. QED  BY <1>6, <1>7, <2>1 DEF Growing
<1>. QED  BY <1>1, <1>9, <1>11, <1>12, GrownAlike

\* What leads the decisions of a receiver is the same, if the time is in the study.
LEMMA LeadsCarried ==
    ASSUME NEW t \in Int, Start <= t, NEW targets \in Seq(Decided), NEW others \in Seq(Decided),
           Carried(targets, others, t), Carried(others, targets, t),
           NEW schedule, LeadBy(schedule, targets), NEW other, LeadBy(other, others)
    PROVE  Carried(schedule, other, t)
<1>. DEFINE flat == <<[time |-> Start, target |-> 0]>>
            Begins(s) == Len(s) > 0 /\ s[1].time <= Start
<1>1. Start \in Int
  BY AlignmentAssumption
<1>2. ASSUME NEW s \in Seq(Decided), NEW whole, LeadBy(whole, s)
      PROVE  whole = IF Begins(s) THEN s ELSE flat \o s
  <2>1. Len(s) \in Nat /\ (s = <<>> <=> Len(s) = 0)
    BY LenProperties, EmptySeq
  <2>2. CASE s = <<>>
    BY <1>2, <2>1, <2>2 DEF LeadBy
  <2>3. CASE s # <<>>
    <3>1. Head(s) = s[1] /\ s[1].time \in Int /\ Len(s) > 0
      <4>1. 1 \in 1..Len(s)
        BY <2>1, <2>3
      <4>. QED  BY <2>1, <2>3, <4>1, HeadTailProperties, DecidedIntents
    <3>. HIDE DEF flat
    <3>2. Begins(s) <=> ~(s[1].time > Start)
      BY <1>1, <3>1
    <3>. QED  BY <1>2, <2>3, <3>1, <3>2 DEF LeadBy, flat
  <2>. QED  BY <2>2, <2>3
<1>3. ASSUME NEW s \in Seq(Decided), NEW u \in Seq(Decided), Carried(s, u, t), Begins(s)
      PROVE  Begins(u)
  <2>1. Len(s) \in Nat /\ Len(u) \in Nat
    BY LenProperties
  <2>2. 1 \in 1..Len(s) /\ s[1].time \in Int
    BY <1>3, <2>1, DecidedIntents
  <2>3. s[1].time <= t
    BY <1>1, <1>3, <2>2
  <2>4. 1 \in 1..Len(u) /\ u[1] = s[1]
    BY <1>3, <2>2, <2>3 DEF Carried
  <2>. QED  BY <1>3, <2>1, <2>4
<1>4. Begins(targets) <=> Begins(others)
  BY <1>3
<1>5. ASSUME NEW s \in Seq(Decided)
      PROVE  /\ Len(flat \o s) = Len(s) + 1 /\ (flat \o s)[1] = flat[1]
             /\ \A i \in 1..Len(s) : (flat \o s)[i + 1] = s[i]
  <2>1. flat \in Seq(Decided) /\ Len(flat) = 1
    BY <1>1 DEF Decided
  <2>. HIDE DEF flat
  <2>2. Len(s) \in Nat
    BY LenProperties
  <2>3. /\ Len(flat \o s) = Len(flat) + Len(s)
        /\ \A i \in 1..Len(flat) + Len(s) : (flat \o s)[i] = IF i <= Len(flat) THEN flat[i] ELSE s[i - Len(flat)]
    BY <2>1, ConcatProperties
  <2>. DEFINE w == flat \o s
  <2>4. /\ Len(w) = 1 + Len(s)
        /\ \A i \in 1..1 + Len(s) : w[i] = IF i <= 1 THEN flat[i] ELSE s[i - 1]
    BY <2>1, <2>3
  <2>. HIDE DEF w
  <2>5. w[1] = flat[1]
    BY <2>2, <2>4
  <2>6. ASSUME NEW i \in 1..Len(s) PROVE w[i + 1] = s[i]
    <3>1. i + 1 \in 1..1 + Len(s) /\ ~(i + 1 <= 1) /\ (i + 1) - 1 = i
      BY <2>2
    <3>. QED  BY <2>4, <3>1
  <2>7. Len(w) = Len(s) + 1
    BY <2>2, <2>4
  <2>. QED  BY <2>5, <2>6, <2>7 DEF w
<1>6. CASE Begins(targets)
  <2>1. schedule = targets /\ other = others
    BY <1>2, <1>4, <1>6
  <2>. QED  BY <2>1
<1>7. CASE ~Begins(targets)
  <2>1. schedule = flat \o targets /\ other = flat \o others
    BY <1>2, <1>4, <1>7
  <2>. HIDE DEF flat, Begins
  <2>2. /\ Len(schedule) = Len(targets) + 1 /\ schedule[1] = flat[1]
        /\ \A i \in 1..Len(targets) : schedule[i + 1] = targets[i]
    BY <1>5, <2>1
  <2>3. /\ Len(other) = Len(others) + 1 /\ other[1] = flat[1]
        /\ \A i \in 1..Len(others) : other[i + 1] = others[i]
    BY <1>5, <2>1
  <2>4. Len(targets) \in Nat /\ Len(others) \in Nat
    BY LenProperties
  <2>5. ASSUME NEW i \in 1..Len(schedule), schedule[i].time <= t
        PROVE  i \in 1..Len(other) /\ other[i] = schedule[i]
    <3>1. CASE i = 1
      BY <2>2, <2>3, <2>4, <3>1
    <3>2. CASE i # 1
      <4>1. i - 1 \in 1..Len(targets) /\ (i - 1) + 1 = i
        BY <2>2, <2>4, <3>2
      <4>2. schedule[i] = targets[i - 1]
        BY <2>2, <4>1
      <4>3. i - 1 \in 1..Len(others) /\ others[i - 1] = targets[i - 1]
        BY <2>5, <4>1, <4>2 DEF Carried
      <4>4. other[i] = others[i - 1] /\ i \in 1..Len(other)
        BY <2>3, <2>4, <4>1, <4>3
      <4>. QED  BY <4>2, <4>3, <4>4
    <3>. QED  BY <3>1, <3>2
  <2>. QED  BY <2>5 DEF Carried
<1>. QED  BY <1>6, <1>7

\* Whatever decides it, a schedule is the same up to a time.
LEMMA SchedulesCarried ==
    ASSUME NEW r, NEW q, NEW t, Alike(r, q, t)
    PROVE  Carried(ScheduleAsked(r), ScheduleAsked(q), t)
<1>. DEFINE s == ScheduleAsked(r)
            u == ScheduleAsked(q)
            spec == r.plan.spec
<1>1. /\ IsRequest(r) /\ IsRequest(q) /\ Asked(r) # Refused /\ Asked(q) # Refused
      /\ t \in Int /\ Start <= t /\ q.plan = r.plan
  BY DEF Alike
<1>2. s # Refused /\ u # Refused /\ s \in Seq(Decided) /\ u \in Seq(Decided)
  BY <1>1, Accepted
<1>3. ASSUME s = u PROVE Carried(s, u, t)
  BY <1>3 DEF Carried
<1>4. \/ r.plan.kind = "supplied" /\ s = r.plan.schedule
      \/ /\ r.plan.kind # "supplied"
         /\ \/ spec.name # "lagged_funding_receiver" /\ s = Generate(spec, {})
            \/ spec.name = "lagged_funding_receiver" /\ \E it, n : Received(s, r, it, n)
  BY <1>1, <1>2, SchedulesMade DEF ScheduleAsked
<1>5. \/ r.plan.kind = "supplied" /\ u = r.plan.schedule
      \/ /\ r.plan.kind # "supplied"
         /\ \/ spec.name # "lagged_funding_receiver" /\ u = Generate(spec, {})
            \/ spec.name = "lagged_funding_receiver" /\ \E it, n : Received(u, q, it, n)
  BY <1>1, <1>2, SchedulesMade DEF ScheduleAsked
<1>6. ASSUME r.plan.kind # "supplied",
             NEW it, NEW n, Received(s, r, it, n), NEW ot, NEW k, Received(u, q, ot, k)
      PROVE  Carried(s, u, t)
  <2>. DEFINE rows == EvidenceBySlot(EvidenceAsked(r))
              others == EvidenceBySlot(EvidenceAsked(q))
  <2>1. /\ Evident(rows, n, EvidenceAsked(r)) /\ DecidedBy(it, rows, n, spec)
        /\ it[n] # Refused /\ LeadBy(s, it[n])
    BY <1>6 DEF Received
  <2>2. /\ Evident(others, k, EvidenceAsked(q)) /\ DecidedBy(ot, others, k, spec)
        /\ ot[k] # Refused /\ LeadBy(u, ot[k])
    BY <1>1, <1>6 DEF Received
  <2>. HIDE DEF rows, others, s, u
  <2>3. spec.interval \in Nat \ {0} /\ spec.quantity \in Int
    BY <1>1, <1>6, PlanFacts, RequestFacts
  <2>. HIDE DEF spec
  <2>4. n = k /\ \A i \in 1..n : FundingTwin(rows[i], others[i], t)
    BY <2>1, <2>2, RowsCarried
  <2>5. Alike(q, r, t) /\ \A i \in 1..n : FundingTwin(others[i], rows[i], t)
    BY <2>1, <2>2, <2>4, AlikeBoth, RowsCarried
  <2>6. Carried(it[n], ot[n], t)
    BY <2>1, <2>2, <2>3, <2>4, TargetsCarried
  <2>7. Carried(ot[n], it[n], t)
    BY <2>1, <2>2, <2>3, <2>4, <2>5, TargetsCarried
  <2>8. it[n] \in Seq(Decided) /\ ot[n] \in Seq(Decided)
    <3>1. n \in 0..n
      BY <2>1 DEF Evident
    <3>. QED  BY <2>1, <2>2, <2>4, <3>1 DEF DecidedBy
  <2>. QED  BY <1>1, <2>1, <2>2, <2>4, <2>6, <2>7, <2>8, LeadsCarried
<1>. HIDE DEF s, u, spec
<1>7. ASSUME r.plan.kind = "supplied" \/ spec.name # "lagged_funding_receiver" PROVE Carried(s, u, t)
  <2>1. s = u
    BY <1>4, <1>5, <1>7
  <2>. QED  BY <1>3, <2>1
<1>8. ASSUME r.plan.kind # "supplied", spec.name = "lagged_funding_receiver" PROVE Carried(s, u, t)
  <2>1. PICK it, n : Received(s, r, it, n)
    BY <1>4, <1>8
  <2>2. PICK ot, k : Received(u, q, ot, k)
    BY <1>5, <1>8
  <2>. QED  BY <1>6, <1>8, <2>1, <2>2
<1>. QED  BY <1>7, <1>8 DEF s, u

-----------------------------------------------------------------------------
(* Fills that are alike up to a time. *)

\* Candles of which each has its twin, no two of one time.
Twins(candles, others, t) ==
    /\ \A c \in candles : c.time \in Int /\ \E d \in others : CandleTwin(c, d, t)
    /\ \A d \in others : d.time \in Int /\ \E c \in candles : c.time = d.time
    /\ \A d, e \in others : d.time = e.time => d = e

\* As many fills, at the same times to the same targets, at the same prices by a time.
FillsAlike(fills, others, t) ==
    fills # Refused /\ others # Refused =>
        /\ Len(others) = Len(fills)
        /\ \A i \in 1..Len(fills) :
              /\ others[i].time = fills[i].time /\ others[i].target = fills[i].target
              /\ fills[i].time <= t => others[i].reference = fills[i].reference

LEMMA CandlesCarried ==
    ASSUME NEW r, NEW q, NEW t, Alike(r, q, t), NEW interval,
           \A c, d \in CandlesOf(q.market, interval) : c.time = d.time => c = d
    PROVE  Twins(CandlesOf(r.market, interval), CandlesOf(q.market, interval), t)
<1>1. ASSUME NEW a, NEW b, Alike(a, b, t), NEW c \in CandlesOf(a.market, interval)
      PROVE  c.time \in Int /\ \E d \in CandlesOf(b.market, interval) : CandleTwin(c, d, t)
  <2>1. c \in a.market.candles
    BY DEF CandlesOf
  <2>2. c.time \in Int
    BY <1>1, <2>1, RequestFacts DEF Alike
  <2>3. PICK d \in b.market.candles : CandleTwin(c, d, t)
    BY <1>1, <2>1 DEF Alike, Follows
  <2>4. d \in CandlesOf(b.market, interval)
    BY <2>3 DEF CandlesOf, CandleTwin, Available
  <2>. QED  BY <2>2, <2>3, <2>4
<1>2. Alike(q, r, t)
  BY AlikeBoth
<1>3. \A c \in CandlesOf(r.market, interval) :
         c.time \in Int /\ \E d \in CandlesOf(q.market, interval) : CandleTwin(c, d, t)
  BY <1>1
<1>4. \A d \in CandlesOf(q.market, interval) :
         d.time \in Int /\ \E c \in CandlesOf(r.market, interval) : c.time = d.time
  BY <1>1, <1>2 DEF CandleTwin
<1>. QED  BY <1>3, <1>4 DEF Twins

\* The candles that may fill a decision are twins.
LEMMA EligibleCarried ==
    ASSUME NEW candles, NEW others, NEW t, Twins(candles, others, t), NEW x \in Int
    PROVE  /\ Eligible(candles, x) = {} <=> Eligible(others, x) = {}
           /\ \A c \in Eligible(candles, x), d \in Eligible(others, x) : CandleTwin(c, d, t)
<1>1. /\ \A c \in candles : c.time \in Int
      /\ \A c \in candles : \E d \in others : CandleTwin(c, d, t)
      /\ \A c \in candles : \E d \in others : d.time = c.time
      /\ \A d \in others : d.time \in Int
      /\ \A d \in others : \E c \in candles : c.time = d.time
      /\ \A d, e \in others : d.time = e.time => d = e
  BY DEF Twins, CandleTwin
<1>2. \A c : c \in Eligible(candles, x) <=>
                /\ c \in candles /\ c.time >= x
                /\ \A e \in candles : e.time >= x => c.time <= e.time
  BY DEF Eligible
<1>3. \A c : c \in Eligible(others, x) <=>
                /\ c \in others /\ c.time >= x
                /\ \A e \in others : e.time >= x => c.time <= e.time
  BY DEF Eligible
<1>4. ASSUME NEW c \in Eligible(candles, x), NEW d \in others, d.time = c.time
      PROVE  d \in Eligible(others, x)
  <2>1. \A e \in others : e.time >= x => d.time <= e.time
    BY <1>1, <1>2, <1>4
  <2>. QED  BY <1>2, <1>3, <1>4, <2>1
<1>5. ASSUME NEW d \in Eligible(others, x), NEW c \in candles, c.time = d.time
      PROVE  c \in Eligible(candles, x)
  <2>1. \A e \in candles : e.time >= x => c.time <= e.time
    BY <1>1, <1>3, <1>5
  <2>. QED  BY <1>2, <1>3, <1>5, <2>1
<1>6. Eligible(candles, x) = {} <=> Eligible(others, x) = {}
  <2>1. ASSUME NEW c \in Eligible(candles, x) PROVE Eligible(others, x) # {}
    <3>1. PICK d \in others : d.time = c.time
      BY <1>1, <1>2
    <3>. QED  BY <1>4, <3>1
  <2>2. ASSUME NEW d \in Eligible(others, x) PROVE Eligible(candles, x) # {}
    <3>1. PICK c \in candles : c.time = d.time
      BY <1>1, <1>3
    <3>. QED  BY <1>5, <3>1
  <2>. QED  BY <2>1, <2>2
<1>7. ASSUME NEW c \in Eligible(candles, x), NEW d \in Eligible(others, x) PROVE CandleTwin(c, d, t)
  <2>1. PICK e \in others : CandleTwin(c, e, t)
    BY <1>1, <1>2
  <2>2. e.time = c.time /\ e \in Eligible(others, x)
    BY <1>4, <2>1 DEF CandleTwin
  <2>3. d \in others /\ d.time \in Int /\ e.time \in Int /\ d.time >= x /\ e.time >= x
    BY <1>1, <1>3, <2>1, <2>2
  <2>4. d.time <= e.time /\ e.time <= d.time
    BY <1>3, <2>1, <2>2, <2>3
  <2>5. d = e
    BY <1>1, <2>1, <2>3, <2>4
  <2>. QED  BY <2>1, <2>5
<1>. QED  BY <1>6, <1>7

\* What one execution does, as far as its candle goes.
LEMMA ExecuteEither ==
    ASSUME NEW intent, NEW candles, NEW terms, NEW fills, NEW next,
           next = Execute(fills, intent, candles, terms), next # Refused
    PROVE  /\ fills # Refused
           /\ \/ intent.target = Position(fills) /\ next = fills
              \/ /\ intent.target # Position(fills)
                 /\ \E c \in Eligible(candles, intent.time + terms.latency) :
                       next = Append(fills, [time |-> c.time, target |-> intent.target,
                                             delta |-> intent.target - Position(fills),
                                             seq |-> Len(fills), reference |-> c.first])
<1>. DEFINE eligible == Eligible(candles, intent.time + terms.latency)
            candle == CHOOSE c \in eligible : TRUE
            fill(c) == [time |-> c.time, target |-> intent.target,
                        delta |-> intent.target - Position(fills),
                        seq |-> Len(fills), reference |-> c.first]
<1>1. /\ fills # Refused
      /\ \/ intent.target = Position(fills) /\ next = fills
         \/ intent.target # Position(fills) /\ eligible # {} /\ next = Append(fills, fill(candle))
  BY DEF Execute, NextFill
<1>2. eligible # {} => candle \in eligible
  OBVIOUS
<1>. HIDE DEF candle
<1>. QED  BY <1>1, <1>2

LEMMA ExecuteAlike ==
    ASSUME NEW intent, intent.time \in Int, intent.target \in Int, NEW terms, terms.latency \in Nat,
           NEW t \in Int, NEW candles, NEW others, Twins(candles, others, t),
           NEW fills \in Filled(candles) \cup {Refused}, NEW past \in Filled(others) \cup {Refused},
           FillsAlike(fills, past, t)
    PROVE  FillsAlike(Execute(fills, intent, candles, terms), Execute(past, intent, others, terms), t)
<1>. DEFINE next == Execute(fills, intent, candles, terms)
            then == Execute(past, intent, others, terms)
            x == intent.time + terms.latency
            fill(c) == [time |-> c.time, target |-> intent.target,
                        delta |-> intent.target - Position(fills),
                        seq |-> Len(fills), reference |-> c.first]
            other(d) == [time |-> d.time, target |-> intent.target,
                         delta |-> intent.target - Position(past),
                         seq |-> Len(past), reference |-> d.first]
<1>. SUFFICES ASSUME next # Refused, then # Refused PROVE FillsAlike(next, then, t)
  BY DEF FillsAlike
<1>1. /\ fills # Refused
      /\ \/ intent.target = Position(fills) /\ next = fills
         \/ /\ intent.target # Position(fills)
            /\ \E c \in Eligible(candles, x) : next = Append(fills, fill(c))
  BY ExecuteEither, SMTT(30)
<1>2. /\ past # Refused
      /\ \/ intent.target = Position(past) /\ then = past
         \/ /\ intent.target # Position(past)
            /\ \E d \in Eligible(others, x) : then = Append(past, other(d))
  BY ExecuteEither, SMTT(30)
<1>. HIDE DEF next, then
<1>3. /\ fills \in Filled(candles) /\ Len(fills) \in Nat
      /\ Position(fills) = IF Len(fills) = 0 THEN 0 ELSE fills[Len(fills)].target
  BY <1>1, FilledFacts
<1>4. /\ past \in Filled(others) /\ Len(past) \in Nat
      /\ Position(past) = IF Len(past) = 0 THEN 0 ELSE past[Len(past)].target
  BY <1>2, FilledFacts
<1>5. /\ Len(past) = Len(fills)
      /\ \A i \in 1..Len(fills) :
            /\ past[i].time = fills[i].time /\ past[i].target = fills[i].target
            /\ fills[i].time <= t => past[i].reference = fills[i].reference
  BY <1>1, <1>2 DEF FillsAlike
<1>6. Position(past) = Position(fills)
  <2>1. Len(fills) # 0 => Len(fills) \in 1..Len(fills)
    BY <1>3
  <2>. QED  BY <1>3, <1>4, <1>5, <2>1
<1>7. CASE intent.target = Position(fills)
  BY <1>1, <1>2, <1>6, <1>7
<1>8. CASE intent.target # Position(fills)
  <2>1. PICK c \in Eligible(candles, x) : next = Append(fills, fill(c))
    BY <1>1, <1>8
  <2>2. PICK d \in Eligible(others, x) : then = Append(past, other(d))
    BY <1>2, <1>6, <1>8
  <2>3. d.time = c.time /\ (c.time <= t => d.first = c.first)
    <3>1. x \in Int
      OBVIOUS
    <3>. HIDE DEF x
    <3>. QED  BY <3>1, EligibleCarried DEF CandleTwin
  <2>4. /\ fill(c).time = c.time /\ fill(c).target = intent.target /\ fill(c).reference = c.first
        /\ other(d).time = d.time /\ other(d).target = intent.target /\ other(d).reference = d.first
    OBVIOUS
  <2>. HIDE DEF fill, other
  <2>5. /\ Len(next) = Len(fills) + 1 /\ next[Len(fills) + 1] = fill(c)
        /\ \A i \in 1..Len(fills) : next[i] = fills[i]
    BY <1>3, <2>1, Lengthened DEF Filled
  <2>6. /\ Len(then) = Len(past) + 1 /\ then[Len(past) + 1] = other(d)
        /\ \A i \in 1..Len(past) : then[i] = past[i]
    BY <1>4, <2>2, Lengthened DEF Filled
  <2>7. ASSUME NEW i \in 1..Len(next)
        PROVE  /\ then[i].time = next[i].time /\ then[i].target = next[i].target
               /\ next[i].time <= t => then[i].reference = next[i].reference
    <3>1. CASE i \in 1..Len(fills)
      BY <1>5, <2>5, <2>6, <3>1
    <3>2. CASE i = Len(fills) + 1
      BY <1>5, <2>3, <2>4, <2>5, <2>6, <3>2
    <3>. QED  BY <1>3, <2>5, <3>1, <3>2
  <2>. QED  BY <1>5, <2>5, <2>6, <2>7 DEF FillsAlike
<1>. QED  BY <1>7, <1>8

\* The fills of each intent, as they grow.
LEMMA FillsGrow ==
    ASSUME NEW r, IsRequest(r), Asked(r) # Refused, NEW it,
           FillsBy(it, ScheduleAsked(r), Len(ScheduleAsked(r)), Execution(r), r.terms),
           NEW times, times = [i \in 1..Len(ScheduleAsked(r)) |-> ScheduleAsked(r)[i].time]
    PROVE  Growing(it, Len(ScheduleAsked(r)), times)
<1>. DEFINE s == ScheduleAsked(r)
            n == Len(s)
            candles == Execution(r)
<1>1. s \in Seq(Decided) /\ r.terms.latency \in Nat /\ \A c \in candles : c.time \in Start..(End - 1)
  BY Accepted, FillsMade
<1>2. n \in Nat /\ \A i \in 1..n : s[i].time \in Int /\ s[i].target \in Int
  BY <1>1, DecidedIntents
<1>3. /\ \A k \in 1..n : it[k] = Execute(it[k - 1], s[k], candles, r.terms)
      /\ \A k \in 0..n : it[k] \in Filled(candles) \cup {Refused}
  BY DEF FillsBy
<1>4. \A k \in 1..n : times[k] = s[k].time
  OBVIOUS
<1>. HIDE DEF s, n, candles
<1>5. ASSUME NEW k \in 0..n, it[k] # Refused PROVE IsTimed(it[k])
  <2>1. it[k] \in Filled(candles)
    BY <1>3, <1>5
  <2>. QED  BY <2>1, FilledFacts DEF IsTimed
<1>6. ASSUME NEW k \in 1..n, it[k] # Refused PROVE Grown(it[k - 1], it[k], times[k])
  <2>1. it[k] = Execute(it[k - 1], s[k], candles, r.terms)
    BY <1>3
  <2>2. k - 1 \in 0..n
    BY <1>2
  <2>3. it[k - 1] \in Filled(candles) \cup {Refused}
    BY <1>3, <2>2
  <2>4. Grown(it[k - 1], it[k], s[k].time)
    BY <1>1, <1>2, <1>6, <2>1, <2>3, ExecuteFills
  <2>. QED  BY <1>4, <2>4
<1>7. Growing(it, n, times)
  BY <1>2, <1>4, <1>5, <1>6 DEF Growing
<1>. QED  BY <1>7 DEF n, s

\* Fills that agree on what is decided and paid are the same.
LEMMA FillsEqual ==
    ASSUME NEW candles, NEW others, NEW f \in FillOf(candles), NEW g \in FillOf(others),
           g.time = f.time, g.target = f.target, g.delta = f.delta, g.seq = f.seq, g.reference = f.reference
    PROVE  g = f
<1>1. f = [time |-> f.time, target |-> f.target, delta |-> f.delta, seq |-> f.seq, reference |-> f.reference]
  BY DEF FillOf
<1>2. g = [time |-> g.time, target |-> g.target, delta |-> g.delta, seq |-> g.seq, reference |-> g.reference]
  BY DEF FillOf
<1>. QED  BY <1>1, <1>2

\* A study fills the same by a time.
LEMMA FillsCarried ==
    ASSUME NEW r, NEW q, NEW t, Alike(r, q, t)
    PROVE  Carried(FillsAsked(r), FillsAsked(q), t)
<1>. DEFINE s == ScheduleAsked(r)
            u == ScheduleAsked(q)
            n == Len(s)
            k == Len(u)
            fills == FillsAsked(r)
            others == FillsAsked(q)
            candles == Execution(r)
            otherCandles == Execution(q)
            times == [i \in 1..n |-> s[i].time]
            thens == [i \in 1..k |-> u[i].time]
<1>1. /\ IsRequest(r) /\ IsRequest(q) /\ Asked(r) # Refused /\ Asked(q) # Refused
      /\ t \in Int /\ t + 1 \in Int /\ q.terms = r.terms
  BY DEF Alike
<1>2. /\ s \in Seq(Decided) /\ u \in Seq(Decided) /\ fills # Refused /\ others # Refused
      /\ r.terms.latency \in Nat
      /\ \A i, j \in DOMAIN s : i < j => s[i].time < s[j].time
  BY <1>1, Accepted
<1>3. /\ n \in Nat /\ DOMAIN s = 1..n /\ \A i \in 1..n : s[i].time \in Int /\ s[i].target \in Int
      /\ k \in Nat /\ DOMAIN u = 1..k /\ \A i \in 1..k : u[i].time \in Int /\ u[i].target \in Int
  BY <1>2, DecidedIntents
<1>4. Carried(s, u, t) /\ Carried(u, s, t)
  BY AlikeBoth, SchedulesCarried
<1>5. PICK it : FillsBy(it, s, n, candles, r.terms) /\ fills = it[n]
  BY <1>1, FillsMade
<1>6. PICK ot : FillsBy(ot, u, k, otherCandles, r.terms) /\ others = ot[k]
  BY <1>1, FillsMade
<1>7. Growing(it, n, times)
  BY <1>1, <1>5, FillsGrow
<1>8. Growing(ot, k, thens)
  BY <1>1, <1>6, FillsGrow
<1>9. Twins(candles, otherCandles, t)
  <2>1. \A c, d \in otherCandles : c.time = d.time => c = d
    BY <1>1, Accepted DEF AreValid
  <2>. QED  BY <1>1, <2>1, CandlesCarried DEF Execution
<1>10. (\A i \in 1..n : times[i] = s[i].time) /\ (\A i \in 1..k : thens[i] = u[i].time)
  OBVIOUS
<1>. HIDE DEF s, u, n, k, fills, others, candles, otherCandles, times, thens
<1>11. PICK p \in 0..n : \A i \in 1..n : i <= p <=> times[i] <= t
  <2>1. Rises(times, n)
    BY <1>2, <1>3, <1>10 DEF Rises
  <2>. QED  BY <1>1, <2>1, LastBy
<1>12. \A i \in 1..p : i \in 1..n /\ i \in 1..k /\ u[i] = s[i]
  <2>1. ASSUME NEW i \in 1..p PROVE i \in 1..n /\ i \in 1..k /\ u[i] = s[i]
    <3>1. i \in 1..n /\ s[i].time <= t
      BY <1>3, <1>10, <1>11
    <3>. QED  BY <1>4, <3>1 DEF Carried, n, k
  <2>. QED  BY <2>1
<1>13. p \in 0..k
  <2>1. p = 0 \/ p \in 1..p
    BY <1>3
  <2>. QED  BY <1>3, <1>12, <2>1
<1>14. \A i \in 1..n : i > p => times[i] >= t + 1
  BY <1>1, <1>3, <1>10, <1>11
<1>15. ASSUME NEW i \in 1..k, i > p PROVE thens[i] >= t + 1
  <2>1. ~(u[i].time <= t)
    <3>1. SUFFICES ASSUME u[i].time <= t PROVE FALSE
      OBVIOUS
    <3>2. i \in 1..n /\ s[i] = u[i]
      BY <1>4, <3>1 DEF Carried, n, k
    <3>. QED  BY <1>3, <1>10, <1>11, <1>15, <3>1, <3>2
  <2>. QED  BY <1>1, <1>3, <1>10, <2>1
<1>16. Grown(it[p], fills, t + 1) /\ Grown(ot[p], others, t + 1)
  BY <1>1, <1>2, <1>5, <1>6, <1>7, <1>8, <1>13, <1>14, <1>15, GrownOver
<1>17. FillsAlike(it[p], ot[p], t)
  <2>. DEFINE Bad == {j \in 0..p : ~FillsAlike(it[j], ot[j], t)}
  <2>1. SUFFICES ASSUME Bad # {} PROVE FALSE
    BY <1>3
  <2>2. PICK j \in Bad : \A i \in Bad : j <= i
    <3>1. Bad \in SUBSET Nat
      OBVIOUS
    <3>. HIDE DEF Bad
    <3>. QED  BY <2>1, <3>1, LeastOf
  <2>3. j \in 0..p /\ ~FillsAlike(it[j], ot[j], t)
    OBVIOUS
  <2>4. FillsAlike(it[0], ot[0], t)
    <3>1. it[0] = <<>> /\ ot[0] = <<>>
      BY <1>5, <1>6 DEF FillsBy
    <3>. QED  BY <3>1 DEF FillsAlike
  <2>5. j \in 1..p /\ j - 1 \in 0..p /\ j - 1 < j
    BY <1>3, <2>3, <2>4
  <2>6. FillsAlike(it[j - 1], ot[j - 1], t)
    <3>1. j - 1 \notin Bad
      <4>. HIDE DEF Bad
      <4>. QED  BY <2>2, <2>5
    <3>. QED  BY <2>5, <3>1
  <2>7. j \in 1..n /\ j \in 1..k /\ u[j] = s[j] /\ j - 1 \in 0..n /\ j - 1 \in 0..k
    BY <1>3, <1>12, <1>13, <2>5
  <2>8. /\ it[j] = Execute(it[j - 1], s[j], candles, r.terms)
        /\ ot[j] = Execute(ot[j - 1], s[j], otherCandles, r.terms)
        /\ it[j - 1] \in Filled(candles) \cup {Refused}
        /\ ot[j - 1] \in Filled(otherCandles) \cup {Refused}
    BY <1>5, <1>6, <2>7 DEF FillsBy
  <2>9. FillsAlike(it[j], ot[j], t)
    <3>1. s[j].time \in Int /\ s[j].target \in Int
      BY <1>3, <2>7
    <3>2. FillsAlike(Execute(it[j - 1], s[j], candles, r.terms), Execute(ot[j - 1], s[j], otherCandles, r.terms), t)
      BY <1>1, <1>2, <1>9, <2>6, <2>8, <3>1, ExecuteAlike
    <3>. QED  BY <2>8, <3>2
  <2>. QED  BY <2>3, <2>9
<1>18. /\ Len(it[p]) \in Nat /\ Len(ot[p]) = Len(it[p])
       /\ \A i \in 1..Len(it[p]) :
             /\ ot[p][i].time = it[p][i].time /\ ot[p][i].target = it[p][i].target
             /\ it[p][i].time <= t => ot[p][i].reference = it[p][i].reference
  <2>1. it[p] # Refused /\ ot[p] # Refused
    BY <1>16 DEF Grown
  <2>2. Len(it[p]) \in Nat
    BY <1>7, <2>1 DEF Growing, IsTimed
  <2>. QED  BY <1>17, <2>1, <2>2 DEF FillsAlike
<1>19. /\ fills \in Filled(candles) /\ others \in Filled(otherCandles)
  BY <1>1, FillsMade DEF fills, others, candles, otherCandles
<1>20. /\ Len(fills) \in Nat /\ Chained(fills)
       /\ \A i \in 1..Len(fills) : fills[i] \in FillOf(candles) /\ fills[i].time \in Int
       /\ Len(others) \in Nat /\ Chained(others)
       /\ \A i \in 1..Len(others) : others[i] \in FillOf(otherCandles)
  BY <1>19, FilledFacts
<1>21. ASSUME NEW i \in 1..Len(it[p])
       PROVE  /\ i \in 1..Len(fills) /\ fills[i] = it[p][i]
              /\ i \in 1..Len(others) /\ others[i] = ot[p][i]
  <2>1. /\ Len(it[p]) <= Len(fills) /\ \A j \in 1..Len(it[p]) : fills[j] = it[p][j]
        /\ Len(ot[p]) <= Len(others) /\ \A j \in 1..Len(ot[p]) : others[j] = ot[p][j]
    BY <1>16 DEF Grown
  <2>. QED  BY <1>18, <1>20, <2>1
<1>22. ASSUME NEW i \in 1..Len(fills), fills[i].time <= t
       PROVE  i \in 1..Len(others) /\ others[i] = fills[i]
  <2>1. i \in 1..Len(it[p])
    <3>1. i > Len(it[p]) => fills[i].time >= t + 1
      BY <1>16 DEF Grown
    <3>. QED  BY <1>1, <1>18, <1>20, <1>22, <3>1
  <2>2. /\ i \in 1..Len(others) /\ others[i].time = fills[i].time
        /\ others[i].target = fills[i].target /\ others[i].reference = fills[i].reference
    BY <1>18, <1>21, <1>22, <2>1
  <2>3. i # 1 => others[i - 1].target = fills[i - 1].target
    <3>1. i # 1 => i - 1 \in 1..Len(it[p])
      BY <1>18, <2>1
    <3>. QED  BY <1>18, <1>21, <3>1
  <2>4. others[i].delta = fills[i].delta /\ others[i].seq = fills[i].seq
    <3>1. /\ fills[i].seq = i - 1
          /\ fills[i].delta = fills[i].target - (IF i = 1 THEN 0 ELSE fills[i - 1].target)
      BY <1>20 DEF Chained
    <3>2. /\ others[i].seq = i - 1
          /\ others[i].delta = others[i].target - (IF i = 1 THEN 0 ELSE others[i - 1].target)
      BY <1>20, <2>2 DEF Chained
    <3>. QED  BY <2>2, <2>3, <3>1, <3>2
  <2>5. fills[i] \in FillOf(candles) /\ others[i] \in FillOf(otherCandles)
    BY <1>20, <2>2
  <2>. QED  BY <2>2, <2>4, <2>5, FillsEqual
<1>. QED  BY <1>22 DEF Carried, fills, others

-----------------------------------------------------------------------------
(* Marks and events that are alike up to a time. *)

\* The same is held at any time up to then.
LEMMA HeldCarried ==
    ASSUME NEW r, NEW q, NEW t, Alike(r, q, t), NEW x \in Int, x <= t, HeldAt(FillsAsked(r), x)
    PROVE  HeldAt(FillsAsked(q), x)
<1>. DEFINE fills == FillsAsked(r)
            others == FillsAsked(q)
            k == Len(fills)
            l == Len(others)
<1>1. /\ IsRequest(r) /\ IsRequest(q) /\ Asked(r) # Refused /\ Asked(q) # Refused /\ t \in Int
      /\ Alike(q, r, t)
  BY AlikeBoth DEF Alike
<1>2. /\ Carried(fills, others, t) /\ Carried(others, fills, t)
      /\ fills \in Filled(Execution(r)) /\ others \in Filled(Execution(q))
  BY <1>1, FillsCarried, FillsMade
<1>3. PICK i \in 0..k : /\ i > 0 => fills[i].time <= x
                        /\ \A a \in 1..k : fills[a].time <= x => a <= i
                        /\ HeldAt(fills, x) <=> TargetOf(fills, i) # 0
  BY <1>2, HeldByTheLast
<1>4. PICK j \in 0..l : /\ j > 0 => others[j].time <= x
                        /\ \A a \in 1..l : others[a].time <= x => a <= j
                        /\ HeldAt(others, x) <=> TargetOf(others, j) # 0
  BY <1>2, HeldByTheLast
<1>5. /\ k \in Nat /\ \A a \in 1..k : fills[a].time \in Int
      /\ l \in Nat /\ \A a \in 1..l : others[a].time \in Int
  BY <1>2, FilledFacts
<1>. HIDE DEF fills, others
<1>6. \A a \in 1..k : fills[a].time <= x => a \in 1..l /\ others[a] = fills[a]
  BY <1>1, <1>2, <1>5 DEF Carried
<1>7. \A a \in 1..l : others[a].time <= x => a \in 1..k /\ fills[a] = others[a]
  BY <1>1, <1>2, <1>5 DEF Carried
<1>. HIDE DEF k, l
<1>8. i > 0 => i \in 1..k /\ others[i] = fills[i] /\ i <= j
  <2>1. SUFFICES ASSUME i > 0 PROVE i \in 1..k /\ others[i] = fills[i] /\ i <= j
    OBVIOUS
  <2>2. i \in 1..k /\ fills[i].time <= x
    BY <1>3, <1>5, <2>1
  <2>3. i \in 1..l /\ others[i] = fills[i]
    BY <1>6, <2>2
  <2>. QED  BY <1>4, <2>2, <2>3
<1>9. j > 0 => j <= i
  <2>1. SUFFICES ASSUME j > 0 PROVE j <= i
    OBVIOUS
  <2>2. j \in 1..l /\ others[j].time <= x
    BY <1>4, <1>5, <2>1
  <2>3. j \in 1..k /\ fills[j] = others[j]
    BY <1>7, <2>2
  <2>. QED  BY <1>3, <2>2, <2>3
<1>10. i = j
  BY <1>5, <1>8, <1>9
<1>11. TargetOf(others, j) = TargetOf(fills, i)
  <2>1. CASE i = 0
    BY <1>10, <2>1 DEF TargetOf
  <2>2. CASE i > 0
    BY <1>8, <1>10, <2>2 DEF TargetOf
  <2>. QED  BY <1>5, <2>1, <2>2
<1>12. TargetOf(fills, i) # 0
  BY <1>3 DEF fills
<1>13. HeldAt(others, x)
  BY <1>4, <1>11, <1>12
<1>. QED  BY <1>13 DEF others

\* A close that is known by then is the same.
LEMMA ClosesCarried ==
    ASSUME NEW r, NEW q, NEW t, Alike(r, q, t), NEW x \in RequiredAsked(r), x \in RequiredAsked(q),
           x \in Int, x + r.terms.marking <= t
    PROVE  CandleAt(Marking(q), x).last = CandleAt(Marking(r), x).last
<1>1. /\ IsRequest(r) /\ IsRequest(q) /\ Asked(r) # Refused /\ Asked(q) # Refused
      /\ t \in Int /\ q.terms = r.terms
  BY DEF Alike
<1>2. /\ AreValid(Marking(r), r.terms.marking, RequiredAsked(r))
      /\ AreValid(Marking(q), r.terms.marking, RequiredAsked(q))
  BY <1>1, Accepted
<1>. DEFINE c == CandleAt(Marking(r), x)
            d == CandleAt(Marking(q), x)
<1>3. c \in Marking(r) /\ c.time = x
  <2>1. \E e \in Marking(r) : e.time = x
    BY <1>2 DEF AreValid
  <2>. QED  BY <2>1 DEF CandleAt
<1>4. d \in Marking(q) /\ d.time = x
  <2>1. \E e \in Marking(q) : e.time = x
    BY <1>2 DEF AreValid
  <2>. QED  BY <2>1 DEF CandleAt
<1>. HIDE DEF c, d
<1>5. Twins(Marking(r), Marking(q), t)
  <2>1. \A y, z \in Marking(q) : y.time = z.time => y = z
    BY <1>2 DEF AreValid
  <2>. QED  BY <1>1, <2>1, CandlesCarried DEF Marking
<1>6. PICK e \in Marking(q) : CandleTwin(c, e, t)
  BY <1>3, <1>5 DEF Twins
<1>7. e = d
  BY <1>3, <1>4, <1>5, <1>6 DEF Twins, CandleTwin
<1>8. c.interval = r.terms.marking
  BY <1>3 DEF Marking, CandlesOf
<1>9. d.last = c.last
  BY <1>3, <1>6, <1>7, <1>8 DEF CandleTwin, Available
<1>. QED  BY <1>9 DEF c, d

\* The l marks of a request, with their opens.
MarkedAt(r, opens, l) ==
    Marked(MarksAsked(r), opens, l, RequiredAsked(r), Marking(r), r.terms.marking)

LEMMA MarksCarried ==
    ASSUME NEW r, NEW q, NEW t, Alike(r, q, t), NEW opens, NEW l, MarkedAt(r, opens, l),
           NEW others, NEW k, MarkedAt(q, others, k)
    PROVE  \A i \in 1..l : MarksAsked(r)[i].time <= t => i \in 1..k /\ MarksAsked(q)[i] = MarksAsked(r)[i]
<1>. SUFFICES ASSUME NEW i \in 1..l, MarksAsked(r)[i].time <= t
              PROVE  i \in 1..k /\ MarksAsked(q)[i] = MarksAsked(r)[i]
  OBVIOUS
<1>. DEFINE M == r.terms.marking
            u == t - M
<1>1. /\ IsRequest(r) /\ t \in Int /\ q.terms = r.terms /\ Alike(q, r, t) /\ M \in Int /\ u \in Int
  BY AlikeBoth, RequestFacts DEF Alike
<1>2. /\ l \in Nat
      /\ \A j \in 1..l : /\ opens[j] \in RequiredAsked(r) /\ opens[j] \in Int
                         /\ MarksAsked(r)[j] = [kind |-> "mark", time |-> opens[j] + M, seq |-> j - 1,
                                                price |-> CandleAt(Marking(r), opens[j]).last]
      /\ \A s \in RequiredAsked(r) : \E j \in 1..l : opens[j] = s
      /\ \A j, h \in 1..l : j < h => opens[j] < opens[h]
  BY DEF MarkedAt, Marked
<1>3. /\ k \in Nat
      /\ \A j \in 1..k : /\ others[j] \in RequiredAsked(q) /\ others[j] \in Int
                         /\ MarksAsked(q)[j] = [kind |-> "mark", time |-> others[j] + M, seq |-> j - 1,
                                                price |-> CandleAt(Marking(q), others[j]).last]
      /\ \A s \in RequiredAsked(q) : \E j \in 1..k : others[j] = s
      /\ \A j, h \in 1..k : j < h => others[j] < others[h]
  BY <1>1 DEF MarkedAt, Marked
<1>4. ASSUME NEW a, NEW b, Alike(a, b, t), a.terms.marking = M, b.terms.marking = M,
             NEW x \in RequiredAsked(a), x \in Int, x <= u
      PROVE  x \in RequiredAsked(b)
  <2>1. x \in ExpectedOpens(M) /\ HeldAt(FillsAsked(a), x + M)
    BY <1>4 DEF RequiredAsked, RequiredMarks
  <2>2. x + M \in Int /\ x + M <= t
    BY <1>1, <1>4
  <2>3. HeldAt(FillsAsked(b), x + M)
    BY <1>4, <2>1, <2>2, HeldCarried
  <2>. QED  BY <1>4, <2>1, <2>3 DEF RequiredAsked, RequiredMarks
<1>. HIDE DEF u
<1>5. OccursBy(opens, l, others, k, u)
  <2>1. ASSUME NEW j \in 1..l, opens[j] <= u PROVE \E h \in 1..k : others[h] = opens[j]
    <3>1. opens[j] \in RequiredAsked(q)
      BY <1>1, <1>2, <1>4, <2>1
    <3>. QED  BY <1>3, <3>1
  <2>. QED  BY <2>1 DEF OccursBy
<1>6. OccursBy(others, k, opens, l, u)
  <2>1. ASSUME NEW j \in 1..k, others[j] <= u PROVE \E h \in 1..l : opens[h] = others[j]
    <3>1. others[j] \in RequiredAsked(r)
      BY <1>1, <1>3, <1>4, <2>1
    <3>. QED  BY <1>2, <3>1
  <2>. QED  BY <2>1 DEF OccursBy
<1>7. Rises(opens, l) /\ Rises(others, k)
  BY <1>2, <1>3 DEF Rises
<1>8. AgreesBy(opens, l, others, k, u)
  BY <1>1, <1>5, <1>6, <1>7, IncreasingAgree
<1>. HIDE DEF M
<1>9. opens[i] + M <= t /\ opens[i] \in Int
  <2>. DEFINE price == CandleAt(Marking(r), opens[i]).last
  <2>1. MarksAsked(r)[i] = [kind |-> "mark", time |-> opens[i] + M, seq |-> i - 1, price |-> price]
    BY <1>2
  <2>. HIDE DEF price
  <2>2. MarksAsked(r)[i].time = opens[i] + M
    BY <2>1
  <2>. QED  BY <1>2, <2>2
<1>10. opens[i] <= u
  BY <1>1, <1>9 DEF u
<1>11. i \in 1..k /\ others[i] = opens[i]
  BY <1>8, <1>10 DEF AgreesBy
<1>12. CandleAt(Marking(q), opens[i]).last = CandleAt(Marking(r), opens[i]).last
  <2>1. opens[i] \in RequiredAsked(r) /\ opens[i] \in RequiredAsked(q)
    BY <1>2, <1>3, <1>11
  <2>. QED  BY <1>9, <2>1, ClosesCarried DEF M
<1>. DEFINE mark(p) == [kind |-> "mark", time |-> opens[i] + M, seq |-> i - 1, price |-> p]
<1>13. MarksAsked(r)[i] = mark(CandleAt(Marking(r), opens[i]).last)
  BY <1>2
<1>14. MarksAsked(q)[i] = mark(CandleAt(Marking(q), opens[i]).last)
  BY <1>3, <1>11
<1>15. MarksAsked(q)[i] = MarksAsked(r)[i]
  <2>. HIDE DEF mark
  <2>. QED  BY <1>12, <1>13, <1>14
<1>. QED  BY <1>11, <1>15

\* The scenario of one request has the events of the other's by then.
LEMMA ScenarioCarried ==
    ASSUME NEW r, NEW q, NEW t, Alike(r, q, t)
    PROVE  \A i \in DOMAIN Asked(r) : Asked(r)[i].time <= t =>
              \E j \in DOMAIN Asked(q) : Asked(q)[j] = Asked(r)[i]
<1>. DEFINE s == Asked(r)
            u == Asked(q)
            terms == r.terms
            al == FundingAsked(r)
            bl == FundingAsked(q)
            F == FundingEvents(al)
            X == FundingEvents(bl)
            G == FillEvents(FillsAsked(r), terms)
            Y == FillEvents(FillsAsked(q), terms)
            H == MarksAsked(r)
            Z == MarksAsked(q)
<1>1. /\ IsRequest(r) /\ IsRequest(q) /\ s # Refused /\ u # Refused /\ t \in Int /\ q.terms = terms
  BY DEF Alike
<1>2. PICK n, k, opens, l :
          /\ Composed(s, F, n, G, k, H, l) /\ DOMAIN al = 1..n /\ k = Len(FillsAsked(r))
          /\ Marked(H, opens, l, RequiredAsked(r), Marking(r), terms.marking)
  BY <1>1, ScenariosCompose
<1>3. PICK a, b, others, c :
          /\ Composed(u, X, a, Y, b, Z, c) /\ DOMAIN bl = 1..a /\ b = Len(FillsAsked(q))
          /\ Marked(Z, others, c, RequiredAsked(q), Marking(q), q.terms.marking)
  BY <1>1, ScenariosCompose
<1>4. ASSUME NEW i \in 1..n, F[i].time <= t PROVE i \in 1..a /\ X[i] = F[i]
  <2>1. PICK x : Lined(r, x)
    BY <1>1, FundingLined
  <2>2. PICK y : Lined(q, y)
    BY <1>1, FundingLined
  <2>3. x = y /\ \A j \in 1..x : al[j].funding.time <= t => X[j] = F[j]
    BY <2>1, <2>2, FundingCarried
  <2>4. i \in 1..x /\ i \in DOMAIN al /\ i \in 1..a
    <3>1. DOMAIN al = 1..x /\ DOMAIN bl = 1..y
      BY <2>1, <2>2 DEF Lined
    <3>. HIDE DEF al, bl
    <3>. QED  BY <1>2, <1>3, <2>3, <3>1
  <2>5. F[i].time = al[i].funding.time
    <3>. HIDE DEF al
    <3>. QED  BY <2>4 DEF FundingEvents
  <2>. QED  BY <1>4, <2>3, <2>4, <2>5
<1>5. ASSUME NEW i \in 1..k, G[i].time <= t PROVE i \in 1..b /\ Y[i] = G[i]
  <2>. DEFINE fills == FillsAsked(r)
              past == FillsAsked(q)
  <2>1. Carried(fills, past, t) /\ DOMAIN fills = 1..k /\ DOMAIN past = 1..b
    <3>1. fills \in Filled(Execution(r)) /\ past \in Filled(Execution(q))
      BY <1>1, FillsMade
    <3>. QED  BY <1>2, <1>3, <3>1, FillsCarried, FilledFacts
  <2>2. k = Len(fills) /\ b = Len(past)
    BY <1>2, <1>3
  <2>. HIDE DEF fills, past, terms
  <2>3. G[i].time = fills[i].time
    BY <2>1 DEF fills, FillEvents
  <2>4. i \in 1..b /\ past[i] = fills[i]
    BY <1>5, <2>1, <2>2, <2>3 DEF Carried
  <2>. DEFINE event(f) == [kind |-> "fill", time |-> f.time, seq |-> f.seq,
                           price |-> FillPrice(f.reference, f.delta, terms),
                           rate |-> terms.fee, delta |-> f.delta, reference |-> f.reference]
  <2>5. G[i] = event(fills[i])
    BY <2>1 DEF fills, FillEvents
  <2>6. Y[i] = event(past[i])
    BY <2>1, <2>4 DEF past, FillEvents
  <2>. HIDE DEF event
  <2>. QED  BY <2>4, <2>5, <2>6
<1>6. ASSUME NEW i \in 1..l, H[i].time <= t PROVE i \in 1..c /\ Z[i] = H[i]
  <2>1. MarkedAt(r, opens, l) /\ MarkedAt(q, others, c)
    BY <1>2, <1>3 DEF MarkedAt
  <2>. QED  BY <1>6, <2>1, MarksCarried
<1>. HIDE DEF s, u, F, G, H, X, Y, Z, al, bl, terms
<1>7. /\ n \in Nat /\ k \in Nat /\ l \in Nat /\ DOMAIN s = 1..(n + k + l)
      /\ \A i \in 1..n : s[i] = F[i]
      /\ \A i \in 1..k : s[n + i] = G[i]
      /\ \A i \in 1..l : s[n + k + i] = H[i]
  BY <1>2 DEF Composed
<1>8. /\ a \in Nat /\ b \in Nat /\ c \in Nat /\ DOMAIN u = 1..(a + b + c)
      /\ \A i \in 1..a : u[i] = X[i]
      /\ \A i \in 1..b : u[a + i] = Y[i]
      /\ \A i \in 1..c : u[a + b + i] = Z[i]
  BY <1>3 DEF Composed
<1>9. ASSUME NEW i \in 1..(n + k + l), s[i].time <= t PROVE \E j \in 1..(a + b + c) : u[j] = s[i]
  <2>1. CASE i <= n
    <3>1. i \in 1..n /\ s[i] = F[i]
      BY <1>7, <2>1
    <3>2. i \in 1..a /\ X[i] = F[i]
      BY <1>4, <1>9, <3>1
    <3>3. i \in 1..(a + b + c) /\ u[i] = X[i]
      BY <1>8, <3>2
    <3>. QED  BY <3>1, <3>2, <3>3
  <2>2. CASE n < i /\ i <= n + k
    <3>. DEFINE h == i - n
    <3>1. h \in 1..k /\ n + h = i
      BY <1>7, <2>2
    <3>. HIDE DEF h
    <3>2. s[i] = G[h]
      BY <1>7, <3>1
    <3>3. h \in 1..b /\ Y[h] = G[h]
      BY <1>5, <1>9, <3>1, <3>2
    <3>4. a + h \in 1..(a + b + c) /\ u[a + h] = Y[h]
      BY <1>8, <3>3
    <3>. QED  BY <3>2, <3>3, <3>4
  <2>3. CASE n + k < i
    <3>. DEFINE h == i - n - k
    <3>1. h \in 1..l /\ n + k + h = i
      BY <1>7, <2>3
    <3>. HIDE DEF h
    <3>2. s[i] = H[h]
      BY <1>7, <3>1
    <3>3. h \in 1..c /\ Z[h] = H[h]
      BY <1>6, <1>9, <3>1, <3>2
    <3>4. a + b + h \in 1..(a + b + c) /\ u[a + b + h] = Z[h]
      BY <1>8, <3>3
    <3>. QED  BY <3>2, <3>3, <3>4
  <2>. QED  BY <1>7, <2>1, <2>2, <2>3
<1>. QED  BY <1>7, <1>8, <1>9 DEF s, u

\* A run holds the events of its scenario, in accounting order.
RunOf(run, m, s) ==
    /\ Sequenced(run, m) /\ DOMAIN s = 1..m
    /\ \A k \in 1..m : \E i \in 1..m : run[k] = s[i]
    /\ \A i \in 1..m : \E k \in 1..m : run[k] = s[i]

LEMMA ScenarioRuns ==
    ASSUME NEW r, IsRequest(r), Asked(r) # Refused
    PROVE  \E m : RunOf(Ordered(Asked(r)), m, Asked(r))
<1>. DEFINE s == Asked(r)
            run == Ordered(s)
<1>1. PICK m \in Nat : /\ DOMAIN s = 1..m /\ Distinguished(s)
                       /\ \A i \in 1..m : s[i].kind = "fill" => s[i].delta \in Int
  BY ScenarioDeltas
<1>. HIDE DEF s
<1>2. PICK places : Reorders(run, s, m, places)
  BY <1>1, OrderedSorts
<1>3. Sequenced(run, m)
  BY <1>1, OrderedSequenced
<1>. HIDE DEF run
<1>4. /\ \A k \in 1..m : run[k] = s[places[k]] /\ places[k] \in 1..m
      /\ \A i \in 1..m : \E k \in 1..m : places[k] = i
  BY <1>2 DEF Reorders
<1>5. \A i \in 1..m : \E k \in 1..m : run[k] = s[i]
  BY <1>4
<1>6. RunOf(run, m, s)
  BY <1>1, <1>3, <1>4, <1>5 DEF RunOf
<1>. QED  BY <1>6 DEF run, s

\* Two studies of one plan and one set of assumptions, over markets with rows of the
\* same times, which show the same by a time and whatever rates and prices later,
\* do the same until then, unless one of them is refused (backtests/assembly.py).
THEOREM RunsCarried ==
    ASSUME NEW r, NEW q, NEW t, Alike(r, q, t)
    PROVE  UpTo(Ordered(Asked(q)), t) = UpTo(Ordered(Asked(r)), t)
<1>. DEFINE s == Asked(r)
            u == Asked(q)
            run == Ordered(s)
            other == Ordered(u)
<1>1. /\ IsRequest(r) /\ IsRequest(q) /\ s # Refused /\ u # Refused /\ t \in Int
      /\ Alike(q, r, t)
  BY AlikeBoth DEF Alike
<1>2. PICK m : RunOf(run, m, s)
  BY <1>1, ScenarioRuns
<1>3. PICK h : RunOf(other, h, u)
  BY <1>1, ScenarioRuns
<1>4. /\ \A i \in DOMAIN s : s[i].time <= t => \E j \in DOMAIN u : u[j] = s[i]
      /\ \A i \in DOMAIN u : u[i].time <= t => \E j \in DOMAIN s : s[j] = u[i]
  BY <1>1, ScenarioCarried
<1>. HIDE DEF s, u, run, other
<1>5. ASSUME NEW i \in 1..m, run[i].time <= t PROVE \E j \in 1..h : other[j] = run[i]
  <2>1. PICK k \in DOMAIN s : run[i] = s[k]
    BY <1>2 DEF RunOf
  <2>2. PICK j \in DOMAIN u : u[j] = s[k]
    BY <1>4, <1>5, <2>1
  <2>. QED  BY <1>3, <2>1, <2>2 DEF RunOf
<1>6. ASSUME NEW i \in 1..h, other[i].time <= t PROVE \E j \in 1..m : run[j] = other[i]
  <2>1. PICK k \in DOMAIN u : other[i] = u[k]
    BY <1>3 DEF RunOf
  <2>2. PICK j \in DOMAIN s : s[j] = u[k]
    BY <1>4, <1>6, <2>1
  <2>. QED  BY <1>2, <2>1, <2>2 DEF RunOf
<1>7. /\ m \in Nat /\ DOMAIN run = 1..m
      /\ \A i \in 1..m : run[i].time \in Int /\ run[i].seq \in Int /\ Priority(run[i]) \in {0, 1, 2}
      /\ \A i, j \in 1..m : i < j => Before(run[i], run[j])
  <2>1. Sequenced(run, m)
    BY <1>2 DEF RunOf
  <2>2. \A i \in 1..m : Priority(run[i]) \in {0, 1, 2}
    BY <2>1, PriorityNatural DEF Sequenced, Kinds
  <2>. QED  BY <2>1, <2>2 DEF Sequenced, HasLength
<1>8. /\ h \in Nat /\ DOMAIN other = 1..h
      /\ \A i \in 1..h : other[i].time \in Int /\ other[i].seq \in Int /\ Priority(other[i]) \in {0, 1, 2}
      /\ \A i, j \in 1..h : i < j => Before(other[i], other[j])
  <2>1. Sequenced(other, h)
    BY <1>3 DEF RunOf
  <2>2. \A i \in 1..h : Priority(other[i]) \in {0, 1, 2}
    BY <2>1, PriorityNatural DEF Sequenced, Kinds
  <2>. QED  BY <2>1, <2>2 DEF Sequenced, HasLength
<1>. DEFINE U == {run[i] : i \in 1..m} \cup {other[i] : i \in 1..h}
            R == {p \in U \X U : Before(p[1], p[2])}
            E == {x \in U : x.time <= t}
<1>9. /\ \A i \in 1..m : run[i] \in U
      /\ \A i \in 1..h : other[i] \in U
      /\ \A x \in U : x.time \in Int /\ x.seq \in Int /\ Priority(x) \in {0, 1, 2}
  BY <1>7, <1>8
<1>. HIDE DEF U
<1>10. \A x, y : <<x, y>> \in R <=> x \in U /\ y \in U /\ Before(x, y)
  OBVIOUS
<1>11. \A x : x \in E <=> x \in U /\ x.time <= t
  OBVIOUS
<1>. HIDE DEF R, E
<1>12. Increases(run, m, R) /\ Increases(other, h, R)
  BY <1>7, <1>8, <1>9, <1>10 DEF Increases
<1>13. IsAsymmetric(R) /\ ClosedBelow(E, R)
  <2>1. ASSUME NEW x \in U, NEW y \in U, Before(x, y) PROVE ~Before(y, x) /\ x.time <= y.time
    BY <1>9, <2>1 DEF Before
  <2>2. ASSUME NEW x \in U, NEW y \in U, Before(x, y), y.time <= t PROVE x.time <= t
    <3>1. x.time <= y.time /\ x.time \in Int /\ y.time \in Int
      BY <1>9, <2>1, <2>2
    <3>. QED  BY <1>1, <2>2, <3>1
  <2>. QED  BY <1>10, <1>11, <2>1, <2>2 DEF IsAsymmetric, ClosedBelow
<1>14. Occurs(run, m, other, h, E) /\ Occurs(other, h, run, m, E)
  BY <1>5, <1>6, <1>11 DEF Occurs
<1>15. \A i \in 1..m : run[i].time <= t => i \in 1..h /\ other[i] = run[i]
  <2>1. \A i \in 1..m : run[i] \in E => i \in 1..h /\ other[i] = run[i]
    BY <1>7, <1>8, <1>12, <1>13, <1>14, AgreeBelow
  <2>. QED  BY <1>9, <1>11, <2>1
<1>16. \A i \in 1..h : other[i].time <= t => i \in 1..m /\ run[i] = other[i]
  <2>1. \A i \in 1..h : other[i] \in E => i \in 1..m /\ run[i] = other[i]
    BY <1>7, <1>8, <1>12, <1>13, <1>14, AgreeBelow
  <2>. QED  BY <1>9, <1>11, <2>1
<1>. DEFINE D == {i \in 1..m : run[i].time <= t}
            C == {i \in 1..h : other[i].time <= t}
<1>17. C = D /\ \A i \in D : other[i] = run[i]
  BY <1>15, <1>16
<1>18. UpTo(run, t) = [i \in D |-> run[i]] /\ UpTo(other, t) = [i \in C |-> other[i]]
  BY <1>7, <1>8 DEF UpTo, Restrict
<1>. HIDE DEF C, D
<1>19. UpTo(other, t) = UpTo(run, t)
  BY <1>17, <1>18
<1>. QED  BY <1>19 DEF run, other, s, u

\* What a study does up to a time is settled by what the market has been until then.
LEMMA StudyForesees == StudyInv => NoLookAhead
<1>. SUFFICES ASSUME StudyInv, IsAssembled, NEW t \in Start..End,
                     NEW u, u = ScenarioOf(Otherwise(request.market, t), request.plan, request.terms),
                     u # Refused
              PROVE  UpTo(Ordered(u), t) = UpTo(events, t)
  BY DEF NoLookAhead
<1>. DEFINE r == request
            q == Alternative(r, t)
<1>1. IsRequest(r) /\ Asked(r) # Refused /\ events = Ordered(Asked(r))
  <2>1. r \in Requests
    BY DEF StudyInv, IsAssembled
  <2>. QED  BY <2>1, StudyAssumption DEF StudyInv, ScenarioAsked, IsAssembled
<1>2. t \in Int /\ Start <= t
  BY AlignmentAssumption
<1>3. /\ IsRequest(q) /\ q.plan = r.plan /\ q.terms = r.terms
      /\ Follows(r.market, q.market, t) /\ Follows(q.market, r.market, t)
  BY <1>1, <1>2, AlternativeFollows
<1>4. q.market = Otherwise(r.market, t)
  BY DEF Alternative
<1>. HIDE DEF q
<1>5. u = Asked(q)
  BY <1>3, <1>4 DEF Asked
<1>6. Alike(r, q, t)
  BY <1>1, <1>2, <1>3, <1>5 DEF Alike
<1>7. UpTo(Ordered(Asked(q)), t) = UpTo(Ordered(Asked(r)), t)
  BY <1>6, RunsCarried
<1>. QED  BY <1>1, <1>5, <1>7

\* A study never looks ahead: for any market, any plan and any assumptions, what it
\* does by a time would be the same had rates turned and prices changed after that
\* time, unless it were refused then (backtests/assembly.py, research/baselines.py).
THEOREM NothingForeseen == StudySpec => []NoLookAhead
BY StudyInvariant, StudyForesees, PTL

=============================================================================
