------------------------------- MODULE Assembly -------------------------------
(***************************************************************************)
(* backtests/assembly.py: a target schedule, execution assumptions and the *)
(* market rows of the database become the events of a scenario, or the     *)
(* assembly is Refused.  A target is filled at the open of the first       *)
(* candle that the latency allows, funding settles on aligned oracle       *)
(* prices, and candle closes mark the position while one is held.          *)
(***************************************************************************)
EXTENDS Baselines, Decimals

-----------------------------------------------------------------------------
(* The schedule and the assumptions, as their constructors accept them *)

OnGrid(t, interval) == t % interval = 0

IsSchedule(schedule, interval) ==
    /\ schedule # <<>>
    /\ \A i \in DOMAIN schedule :
          schedule[i].time \in Start..(End - 1) /\ OnGrid(schedule[i].time, interval)
    /\ \A i, j \in DOMAIN schedule : i < j => schedule[i].time < schedule[j].time

\* Rates are in tenths.
IsTerms(terms) ==
    /\ terms.multiplier > 0 /\ terms.latency >= 0 /\ terms.age > 0
    /\ terms.spread \in 0..10 /\ terms.slippage \in 0..10 /\ terms.spread + terms.slippage < 10
    /\ terms.fee.c >= 0 /\ ExactSum(FromInt(1), Negated(terms.fee)).c >= 0

-----------------------------------------------------------------------------
(* Candles *)

Available(candle) == candle.time + candle.interval

\* load_candles_point_in_time for the whole study, as of its end, from what is final.
CandlesOf(market, interval) ==
    {c \in market.candles :
        c.interval = interval /\ c.time \in Start..(End - 1) /\ Available(c) <= End}

ExpectedOpens(interval) == {t \in Start..(End - 1) : (t - Start) % interval = 0}

HasGrid(interval) == OnGrid(Start, interval) /\ OnGrid(End, interval)

AreValid(candles, interval, required) ==
    /\ required \subseteq {c.time : c \in candles}
    /\ \A c \in candles : c.time \in ExpectedOpens(interval) /\ c.run = "succeeded"
    /\ \A c, d \in candles : c.time = d.time => c = d

CandleAt(candles, t) == CHOOSE c \in candles : c.time = t

-----------------------------------------------------------------------------
(* Funding *)

\* Variant: any price will do.
IsPriced(a, terms) == IsSound(a.funding) /\ FundingSlot(a.funding.time) # Absent /\ a.price # Absent

IsAligned(a, terms) ==
    /\ ~a.funding.predicted /\ IsSound(a.funding)
    /\ FundingSlot(a.funding.time) # Absent
    /\ a.reason = Absent
    /\ a.age \in 0..terms.age

\* The alignments in the order of their hours, or Refused: every hour needs one,
\* and no flaw of the archives is passed over.
ValidatedFunding(market, terms) ==
    LET dataset == Dataset(market)
        ofSlot(s) == {a \in dataset.alignments : FundingSlot(a.funding.time) = s}
    IN  IF /\ ~dataset.malformed /\ ~dataset.conflicting /\ ~dataset.revised
           /\ terms.age = MaxAge
           /\ HasGrid(Hour)
           /\ \A a \in dataset.alignments : IsAligned(a, terms)
           /\ \A s \in Slots : Cardinality(ofSlot(s)) = 1
        THEN InOrder(dataset.alignments, LAMBDA a, b : a.funding.time < b.funding.time)
        ELSE Refused

FundingEvents(alignments) ==
    [i \in DOMAIN alignments |->
        [kind |-> "funding", time |-> alignments[i].funding.time, seq |-> i - 1,
         price |-> alignments[i].price, rate |-> alignments[i].funding.rate]]

-----------------------------------------------------------------------------
(* Fills *)

FillPrice(reference, delta, terms) ==
    LET cost == (reference * (terms.spread + terms.slippage)) \div 10
    IN  IF delta > 0 THEN reference + cost ELSE reference - cost

Eligible(candles, t) ==
    LET later == {c \in candles : c.time >= t}
    IN  {c \in later : \A d \in later : c.time <= d.time}

Position(fills) == IF fills = <<>> THEN 0 ELSE Last(fills).target

\* Variant: a fill goes back to the price of its decision.
DecisionFill(fills, intent, candles, terms) ==
    LET delta == intent.target - Position(fills)
        candle == CHOOSE c \in Eligible(candles, intent.time + terms.latency) : TRUE
    IN  Append(fills, [time |-> intent.time, target |-> intent.target, delta |-> delta,
                       seq |-> Len(fills), reference |-> candle.first])

NextFill(fills, intent, candles, terms) ==
    LET delta == intent.target - Position(fills)
        eligible == Eligible(candles, intent.time + terms.latency)
        candle == CHOOSE c \in eligible : TRUE
    IN  Append(fills, [time |-> candle.time, target |-> intent.target, delta |-> delta,
                       seq |-> Len(fills), reference |-> candle.first])

\* One intent: refused if it is decided before the last fill is known or has no
\* candle to be filled at, skipped if it changes nothing.
Execute(fills, intent, candles, terms) ==
    CASE fills = Refused -> Refused
      [] fills # Refused /\ fills # <<>> /\ intent.time <= Last(fills).time -> Refused
      [] OTHER ->
           IF intent.target = Position(fills) THEN fills
           ELSE IF Eligible(candles, intent.time + terms.latency) = {} THEN Refused
           ELSE NextFill(fills, intent, candles, terms)

Fills(schedule, candles, terms) ==
    FoldLeft(LAMBDA fills, intent : Execute(fills, intent, candles, terms), <<>>, schedule)

FillEvents(fills, terms) ==
    [i \in DOMAIN fills |->
        [kind |-> "fill", time |-> fills[i].time, seq |-> fills[i].seq,
         price |-> FillPrice(fills[i].reference, fills[i].delta, terms),
         rate |-> terms.fee, delta |-> fills[i].delta, reference |-> fills[i].reference]]

-----------------------------------------------------------------------------
(* Marks *)

\* Variant: marks are wanted while the study will end with a position.
HeldAtEnd(fills, t) == Position(fills) # 0 /\ \E i \in DOMAIN fills : fills[i].time <= t

HeldAt(fills, t) ==
    LET past == {i \in DOMAIN fills : fills[i].time <= t}
    IN  past # {} /\ fills[Max(past)].target # 0

RequiredMarks(fills, interval) ==
    {t \in ExpectedOpens(interval) : HeldAt(fills, t + interval)}

MarkEvents(candles, required, interval) ==
    LET opens == InOrder(required, LAMBDA s, t : s < t)
    IN  [i \in DOMAIN opens |->
            [kind |-> "mark", time |-> opens[i] + interval, seq |-> i - 1,
             price |-> CandleAt(candles, opens[i]).last]]

-----------------------------------------------------------------------------

\* The events of the scenario, in the order funding, fills, marks.
Assembled(market, schedule, terms) ==
    LET execution == CandlesOf(market, terms.execution)
        marking == CandlesOf(market, terms.marking)
        alignments == ValidatedFunding(market, terms)
        fills == Fills(schedule, execution, terms)
        required == RequiredMarks(fills, terms.marking)
        accepted ==
            /\ IsSchedule(schedule, terms.decision) /\ IsTerms(terms)
            /\ terms.latency < End - Start
            /\ terms.multiplier = market.multiplier
            /\ HasGrid(terms.execution) /\ HasGrid(terms.marking)
            /\ AreValid(execution, terms.execution, ExpectedOpens(terms.execution))
            /\ alignments # Refused
            /\ fills # Refused
            /\ AreValid(marking, terms.marking, required)
            /\ Position(fills) # 0 => End - terms.marking \in required
    IN  IF accepted
        THEN FundingEvents(alignments) \o FillEvents(fills, terms)
                \o MarkEvents(marking, required, terms.marking)
        ELSE Refused
=============================================================================
