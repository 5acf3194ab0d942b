------------------------------- MODULE Metrics -------------------------------
(***************************************************************************)
(* backtests/metrics.py: what is computed from the ledger of a finished    *)
(* backtest, without running it again.  A ratio is kept as the pair of     *)
(* decimals that the code divides, and compared by multiplying across;     *)
(* the percentages of the exposure are rounded as the code rounds them,    *)
(* because it compares their sum with one hundred.                         *)
(***************************************************************************)
EXTENDS Accounting

CONSTANTS
    SampleTimes,        \* [first, last, step]: the regular grid of samples
    MaxValuationAge,    \* how old a sampled valuation may be
    MinReturns,         \* returns a Sharpe-like figure needs
    Annual              \* [periods, year]: the annualization convention

ASSUME MetricsAssumption ==
    /\ SampleTimes.step \in Nat \ {0} /\ SampleTimes.first \in Nat
    /\ SampleTimes.last \in Nat /\ SampleTimes.first <= SampleTimes.last
    /\ (SampleTimes.last - SampleTimes.first) % SampleTimes.step = 0
    /\ MaxValuationAge \in Nat
    /\ MinReturns \in Nat /\ MinReturns >= 2

VARIABLE metrics        \* None, or the figures of the backtest

metricVars == <<vars, metrics>>

Less(x, y) == ExactSum(x, Negated(y)).c < 0

Positive(x) == x.c > 0

\* x/y < u/v, for positive y and v.
RatioLess(r, s) == Less(ExactProduct(r.over, s.under), ExactProduct(s.over, r.under))

-----------------------------------------------------------------------------
(* Curves *)

Notional(a) == IF a.quantity = 0 THEN Zero ELSE Multiply(Units(a.quantity), FromInt(a.mark))

PointOf(i, market) ==
    [index |-> i, time |-> events[i].time, market |-> market, equity |-> Equity(ledger[i]),
     position |-> ledger[i].quantity, notional |-> Notional(ledger[i])]

MarkIndexes == {i \in DOMAIN events : events[i].kind = "mark"}

Ascending(I) == InOrder(I, LAMBDA i, j : i < j)

\* Two marks at one time are an error; a backtest that ends flat without a mark
\* is valued by its account.
HasUniqueMarks == \A i, j \in MarkIndexes : events[i].time = events[j].time => i = j

EndsFlatUnmarked == Len(events) \notin MarkIndexes /\ account.quantity = 0

ValuationCurve ==
    LET marks == Ascending(MarkIndexes)
        points == [k \in DOMAIN marks |-> PointOf(marks[k], TRUE)]
    IN  IF EndsFlatUnmarked THEN Append(points, PointOf(Len(events), FALSE)) ELSE points

IsTerminal(curve) == curve # <<>> /\ Last(curve).index = Len(events)

Selected(curve, t) == SelectSeq(curve, LAMBDA p : p.time <= t)

Sample(curve, t) ==
    LET prior == Selected(curve, t)
    IN  CASE prior = <<>> -> [time |-> t, status |-> "missing", point |-> None]
          [] prior # <<>> /\ t - Last(prior).time > MaxValuationAge ->
                [time |-> t, status |-> "stale", point |-> Last(prior)]
          [] OTHER -> [time |-> t, status |-> "available", point |-> Last(prior)]

Samples(curve) ==
    [k \in 1..((SampleTimes.last - SampleTimes.first) \div SampleTimes.step + 1) |->
        Sample(curve, SampleTimes.first + (k - 1) * SampleTimes.step)]

IsComplete(samples) == \A k \in DOMAIN samples : samples[k].status = "available"

-----------------------------------------------------------------------------
(* Returns *)

ReturnStatus(samples) ==
    CASE ~IsComplete(samples) -> "sampling_incomplete"
      [] IsComplete(samples) /\ Len(samples) < 2 -> "too_few_equity_observations"
      [] IsComplete(samples) /\ Len(samples) >= 2
            /\ \E k \in DOMAIN samples : ~Positive(samples[k].point.equity) -> "nonpositive_equity"
      [] OTHER -> "available"

\* One plus each simple return.
Returns(samples) ==
    IF ReturnStatus(samples) # "available" THEN <<>>
    ELSE [k \in 1..(Len(samples) - 1) |->
            [over |-> samples[k + 1].point.equity, under |-> samples[k].point.equity]]

AnnualizationHolds == SampleTimes.step * Annual.periods = Annual.year

AreEqual(returns) ==
    \A i, j \in DOMAIN returns : ~RatioLess(returns[i], returns[j])

SharpeStatus(samples) ==
    LET returns == Returns(samples)
        computable == AnnualizationHolds /\ ReturnStatus(samples) = "available"
    IN  CASE ~AnnualizationHolds -> "inconsistent_annualization"
          [] AnnualizationHolds /\ ~computable -> "returns_unavailable"
          [] computable /\ Len(returns) < MinReturns -> "too_few_returns"
          [] computable /\ Len(returns) >= MinReturns /\ AreEqual(returns) -> "zero_return_volatility"
          [] OTHER -> "available"

Elapsed == events[Len(events)].time - events[1].time

CagrStatus ==
    CASE ~AnnualizationHolds -> "inconsistent_annualization"
      [] AnnualizationHolds /\ Elapsed <= 0 -> "nonpositive_elapsed_duration"
      [] AnnualizationHolds /\ Elapsed > 0 /\ ~Positive(Equity(account)) -> "nonpositive_equity"
      [] OTHER -> "available"

-----------------------------------------------------------------------------
(* Drawdown *)

\* Variant: the peak is forgotten at every recovery above the trough.
FallFromLast(d, p) ==
    LET peak == IF Less(d.peak.equity, p.equity) \/ d.absolute # None THEN p ELSE d.peak
        absolute == Subtract(d.peak.equity, p.equity)
        left == [over |-> p.equity, under |-> d.peak.equity]
        deeper == Positive(d.peak.equity) /\ (d.relative = None \/ RatioLess(left, d.relative.left))
    IN  [peak |-> peak,
         absolute |-> IF d.absolute = None \/ Less(d.absolute.fall, absolute)
                      THEN [fall |-> absolute, peak |-> d.peak, trough |-> p] ELSE d.absolute,
         relative |-> IF deeper THEN [left |-> left, peak |-> d.peak, trough |-> p] ELSE d.relative,
         complete |-> d.complete /\ Positive(peak.equity)]

\* One point of the curve.  A peak must be exceeded to be replaced, and so must
\* each of the two maxima.
Fall(d, p) ==
    LET peak == IF Less(d.peak.equity, p.equity) THEN p ELSE d.peak
        absolute == Subtract(peak.equity, p.equity)
        left == [over |-> p.equity, under |-> peak.equity]
        deeper == Positive(peak.equity) /\ (d.relative = None \/ RatioLess(left, d.relative.left))
    IN  [peak |-> peak,
         absolute |-> IF d.absolute = None \/ Less(d.absolute.fall, absolute)
                      THEN [fall |-> absolute, peak |-> peak, trough |-> p] ELSE d.absolute,
         relative |-> IF deeper THEN [left |-> left, peak |-> peak, trough |-> p] ELSE d.relative,
         complete |-> d.complete /\ Positive(peak.equity)]

Falls(curve) ==
    FoldLeft(Fall, [peak |-> curve[1], absolute |-> None, relative |-> None, complete |-> TRUE], curve)

Recovery(curve, relative) ==
    SelectSeq(curve, LAMBDA p : p.time >= relative.trough.time
                                /\ ~Less(p.equity, relative.peak.equity))

Drawdown(curve) ==
    LET d == Falls(curve)
        relative == IF d.complete THEN d.relative ELSE None
        recovery == Recovery(curve, relative)
    IN  IF curve = <<>> THEN [status |-> "no_valuation_observations"]
        ELSE [status |-> "available",
              relative |-> relative,
              absolute |-> d.absolute,
              recovered |-> IF relative = None \/ recovery = <<>> THEN None ELSE Head(recovery).time,
              underwater |-> IF relative = None THEN None
                             ELSE IF recovery = <<>> THEN Last(curve).time - relative.peak.time
                             ELSE Head(recovery).time - relative.peak.time]

CagrToDrawdownStatus(drawdown) ==
    LET deepest == IF drawdown.status = "available" THEN drawdown.relative ELSE None
    IN  CASE CagrStatus # "available" -> "cagr_unavailable"
          [] CagrStatus = "available" /\ deepest = None -> "maximum_relative_drawdown_unavailable"
          [] CagrStatus = "available" /\ deepest # None /\ deepest.left.over = deepest.left.under ->
                "zero_maximum_drawdown"
          [] OTHER -> "available"

-----------------------------------------------------------------------------
(* Turnover and exposure *)

FillNotional(e) == Multiply(Units(Magnitude(e.delta)), FromInt(e.price))

Sum(s) == FoldLeft(Add, Zero, s)

Turnover(samples) ==
    LET side(sign) == SelectSeq(events, LAMBDA e : e.kind = "fill" /\ SameSide(e.delta, sign))
        notional(fills) == Sum([k \in DOMAIN fills |-> FillNotional(fills[k])])
        buy == notional(side(1))
        sell == notional(side(-1))
    IN  [buy |-> buy, sell |-> sell, gross |-> Add(buy, sell),
         normalized |-> CASE ~IsComplete(samples) \/ Len(samples) < 2 -> "insufficient_complete_sampling"
                          [] IsComplete(samples) /\ Len(samples) >= 2
                                /\ \E k \in DOMAIN samples : ~Positive(samples[k].point.equity) ->
                                "nonpositive_sampled_equity"
                          [] OTHER -> "available"]

\* Long, short or flat.
Side(quantity) == CASE quantity > 0 -> 1 [] quantity < 0 -> -1 [] OTHER -> 0

\* Variant: the position an interval ends with.
TimeHeldAfter(side) ==
    FoldLeft(+, 0, [i \in 1..(Len(events) - 1) |->
                        IF Side(ledger[i + 1].quantity) = side THEN events[i + 1].time - events[i].time ELSE 0])

\* The seconds spent on one side, each event holding until the next.
TimeHeld(side) ==
    FoldLeft(+, 0, [i \in 1..(Len(events) - 1) |->
                        IF Side(ledger[i].quantity) = side THEN events[i + 1].time - events[i].time ELSE 0])

Percentage(seconds) == Multiply(Divide(FromInt(seconds), Elapsed), FromInt(100))

\* Each percentage is rounded; then their sum has to be one hundred.
Durations ==
    LET long == Percentage(TimeHeld(1))
        short == Percentage(TimeHeld(-1))
        flat == Percentage(TimeHeld(0))
    IN  CASE Len(events) < 2 \/ Elapsed <= 0 -> [status |-> "insufficient_position_duration"]
          [] Len(events) >= 2 /\ Elapsed > 0 /\ Add(Add(long, short), flat) # FromInt(100) ->
                [status |-> "contradicted"]
          [] OTHER -> [status |-> "available", long |-> long, short |-> short, flat |-> flat]

NotionalExposure(curve) ==
    LET marks == SelectSeq(curve, LAMBDA p : p.market)
        sound == \A k \in DOMAIN marks : Positive(marks[k].equity)
        ratio(p) == [over |-> p.notional, under |-> p.equity]
    IN  [ratios |-> CASE marks = <<>> -> "no_market_valuation_observations"
                      [] marks # <<>> /\ ~sound -> "nonpositive_equity"
                      [] OTHER -> "available",
         weighted |-> CASE Len(marks) < 2 -> "insufficient_market_valuation_duration"
                        [] Len(marks) >= 2 /\ ~sound -> "nonpositive_equity"
                        [] OTHER -> "available",
         net |-> IF sound THEN [k \in DOMAIN marks |-> ratio(marks[k])] ELSE <<>>]

-----------------------------------------------------------------------------
(* The composition *)

Warnings(curve, samples, drawdown) ==
    {w \in {"terminal_accounting_valuation", "terminal_valuation_incomplete",
            "regular_sampling_incomplete", "inconsistent_annualization", "nonpositive_equity",
            "short_study_annualization", "zero_observed_drawdown", "open_ending_position"} :
        CASE w = "terminal_accounting_valuation" -> \E k \in DOMAIN curve : ~curve[k].market
          [] w = "terminal_valuation_incomplete" -> ~IsTerminal(curve)
          [] w = "regular_sampling_incomplete" -> ~IsComplete(samples)
          [] w = "inconsistent_annualization" -> ~AnnualizationHolds
          [] w = "nonpositive_equity" -> \E k \in DOMAIN curve : ~Positive(curve[k].equity)
          [] w = "short_study_annualization" -> Elapsed < Annual.year
          [] w = "zero_observed_drawdown" ->
                /\ drawdown.status = "available"
                /\ drawdown.relative # None
                /\ drawdown.relative.left.over = drawdown.relative.left.under
          [] w = "open_ending_position" -> account.quantity # 0}

Figures ==
    LET curve == ValuationCurve
        samples == Samples(curve)
        drawdown == Drawdown(curve)
        durations == Durations
    IN  CASE ~HasUniqueMarks -> [outcome |-> "rejected"]
          [] HasUniqueMarks /\ durations.status = "contradicted" -> [outcome |-> "contradicted"]
          [] OTHER ->
                [outcome |-> "measured", curve |-> curve, samples |-> samples,
                 returns |-> Returns(samples), returnStatus |-> ReturnStatus(samples),
                 sharpe |-> SharpeStatus(samples), cagr |-> CagrStatus, drawdown |-> drawdown,
                 cagrToDrawdown |-> CagrToDrawdownStatus(drawdown),
                 turnover |-> Turnover(samples), durations |-> durations,
                 exposure |-> NotionalExposure(curve), warnings |-> Warnings(curve, samples, drawdown)]

MetricsInit == Init /\ metrics = None

Measure ==
    /\ status = "done"
    /\ metrics = None
    /\ metrics' = Figures
    /\ UNCHANGED vars

MetricsNext == (Next /\ UNCHANGED metrics) \/ Measure

MetricsSpec == MetricsInit /\ [][MetricsNext]_metricVars

-----------------------------------------------------------------------------
(* Properties *)

IsMeasured == metrics # None /\ metrics.outcome = "measured"

\* The three shares of time that an exposure reports add up to one hundred
\* percent for every legal scenario (docs/performance-metrics.md: "reconcile
\* exactly to 100 when duration is positive").
PercentagesReconcile == metrics # None => metrics.outcome # "contradicted"

\* The pairs of valuations of which the second is not earlier.
Spans(curve) == UNION {{<<curve[i], curve[j]>> : j \in i..Len(curve)} : i \in DOMAIN curve}

\* The running-peak scan finds the worst fall between any two valuations of the
\* curve, in cash always and in proportion while none of them is negative, and
\* it calls the relative fall recovered exactly when equity comes back to the
\* peak that it fell from.
DrawdownIsWorstFall ==
    IsMeasured /\ metrics.drawdown.status = "available" =>
        LET curve == metrics.curve
            deepest == metrics.drawdown.relative
            fall(s) == Subtract(s[1].equity, s[2].equity)
            left(s) == [over |-> s[2].equity, under |-> s[1].equity]
        IN  /\ metrics.drawdown.absolute.fall \in {fall(s) : s \in Spans(curve)}
            /\ \A s \in Spans(curve) : ~Less(metrics.drawdown.absolute.fall, fall(s))
            /\ deepest # None =>
                  /\ deepest.left \in {left(s) : s \in Spans(curve)}
                  /\ (\A k \in DOMAIN curve : Positive(curve[k].equity))
                        => \A s \in Spans(curve) : ~RatioLess(left(s), deepest.left)
                  /\ (metrics.drawdown.recovered = None)
                        = (\A k \in DOMAIN curve : curve[k].time >= deepest.trough.time
                              => Less(curve[k].equity, deepest.peak.equity))

\* The share of time an exposure calls long is the share of the instants at
\* which the fills made so far add up to a long position.
ExposureFollowsFills ==
    IsMeasured /\ metrics.durations.status = "available" =>
        LET instants == events[1].time..(events[Len(events)].time - 1)
            long == {t \in instants : HeldBefore(t + 1) > 0}
            short == {t \in instants : HeldBefore(t + 1) < 0}
        IN  /\ metrics.durations.long = Percentage(Cardinality(long))
            /\ metrics.durations.short = Percentage(Cardinality(short))

=============================================================================
