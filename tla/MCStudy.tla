------------------------------- MODULE MCStudy -------------------------------
(* Scenarios, markets, schedules and assumptions for the model checker.       *)
EXTENDS Study

Cash20 == FromInt(20)
NoFee == {Zero}
TenthRate == [c |-> 1, e |-> -1]
Tenth == {TenthRate}
NearFlips == {-2, 1, 2}
Grid == [first |-> 4, last |-> 8, step |-> 2]
Year == [periods |-> 2, year |-> 4]

Row(time, rate) ==
    [id |-> time, time |-> time, rate |-> rate, predicted |-> FALSE, hourly |-> TRUE, run |-> "succeeded"]

Oracle(time, price) == [time |-> time, price |-> price, conflicting |-> FALSE, archive |-> 1]

Candle(time, interval) ==
    [time |-> time, interval |-> interval, first |-> IF (time \div 2) % 2 = 0 THEN 10 ELSE 30,
     last |-> IF time % 4 = 0 THEN 30 ELSE 10, run |-> "succeeded"]

AllCandles == {Candle(t, 2) : t \in {0, 2, 4, 6}} \cup {Candle(t, 4) : t \in {0, 4}}

\* Two hours, each settled a little early, on time or late at some rate; the last
\* price before each is of some age, and another follows.
MarketOf(rates, late, age) ==
    [funding |-> {Row(late[1], rates[1]), Row(4 + late[2], rates[2])},
     oracles |-> {Oracle(late[1] - age, 10), Oracle(4 + late[2] - age, 30), Oracle(5 + late[2], 10)},
     candles |-> AllCandles, malformed |-> {}, revised |-> {}, multiplier |-> 2]

Rates == {Zero, TenthRate, Negated(TenthRate)}

Markets == {MarketOf(rates, late, age) :
                rates \in Rates \X Rates, late \in {0, 1} \X {-1, 0, 1}, age \in {0, 2}}

Usual == MarketOf(<<TenthRate, Negated(TenthRate)>>, <<0, 1>>, 2)

\* What a database may hold instead, one thing at a time.
Flawed ==
    {MarketOf(<<TenthRate, TenthRate>>, <<0, 0>>, 3),
     [Usual EXCEPT !.funding = {f \in @ : f.time < 4}],
     [Usual EXCEPT !.funding = @ \cup {Row(3, Zero)}],
     [Usual EXCEPT !.funding = {[f EXCEPT !.predicted = f.time > 4] : f \in @}],
     [Usual EXCEPT !.funding = {[f EXCEPT !.hourly = f.time > 4] : f \in @}],
     [Usual EXCEPT !.funding = {[f EXCEPT !.run = IF f.time > 4 THEN "failed" ELSE @] : f \in @}],
     [Usual EXCEPT !.funding = {[f EXCEPT !.run = IF f.time > 4 THEN Absent ELSE @] : f \in @}],
     [Usual EXCEPT !.funding = {[f EXCEPT !.time = IF f.time > 4 THEN 6 ELSE @] : f \in @}],
     [Usual EXCEPT !.funding = @ \cup {Row(7, TenthRate)}],
     [Usual EXCEPT !.oracles = {o \in @ : o.time > 0}],
     [Usual EXCEPT !.oracles = @ \cup {Oracle(3, 10)}],
     [Usual EXCEPT !.oracles = @ \cup {[Oracle(3, 30) EXCEPT !.conflicting = TRUE]}],
     [Usual EXCEPT !.malformed = {1}],
     [Usual EXCEPT !.revised = {1}],
     [Usual EXCEPT !.candles = {c \in @ : c.time # 6}],
     [Usual EXCEPT !.candles = {c \in @ : c.interval # 4 \/ c.time # 4}],
     [Usual EXCEPT !.candles = {[c EXCEPT !.run = IF c.time = 4 THEN "failed" ELSE @] : c \in @}],
     [Usual EXCEPT !.candles = @ \cup {[Candle(2, 2) EXCEPT !.last = 20]}],
     [Usual EXCEPT !.multiplier = 1]}

TermsOf(latency, execution, marking, decision, cost) ==
    [latency |-> latency, execution |-> execution, marking |-> marking, decision |-> decision,
     spread |-> cost, slippage |-> cost, fee |-> TenthRate, age |-> 2, multiplier |-> 2]

SomeTerms == {TermsOf(0, 2, 4, 2, 0), TermsOf(1, 2, 2, 2, 1), TermsOf(2, 4, 4, 2, 0)}

Targets == {-1, 0, 1, 2}

Intent(time, target) == [time |-> time, target |-> target]

Supplied ==
    {[kind |-> "supplied", schedule |-> s] : s \in
        {<<Intent(t, q)>> : t \in {0, 1, 4, 6}, q \in Targets}
        \cup UNION {{<<Intent(t[1], q), Intent(t[2], r)>> : q \in Targets, r \in Targets} :
                        t \in {<<0, 2>>, <<0, 4>>, <<2, 4>>, <<4, 6>>}}
        \cup {<<Intent(0, q), Intent(2, r), Intent(4, s)>> : q \in Targets, r \in {0}, s \in Targets}}

Baseline(name, interval) ==
    [kind |-> "baseline", spec |-> [name |-> name, interval |-> interval, quantity |-> 1]]

Receivers == {Baseline("lagged_funding_receiver", 2), Baseline("lagged_funding_receiver", 4)}

Controls == {Baseline(name, 2) : name \in {"flat_control", "static_long", "static_short"}}

Request(market, plan, terms) == [market |-> market, plan |-> plan, terms |-> terms]

StudyRequests ==
    {Request(m, p, t) : m \in Markets \cup Flawed, p \in Receivers, t \in SomeTerms}
    \cup {Request(Usual, p, t) : p \in Supplied \cup Controls, t \in SomeTerms}
    \cup {Request(m, p, t) : m \in Flawed, p \in Controls, t \in SomeTerms}

=============================================================================
