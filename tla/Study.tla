-------------------------------- MODULE Study --------------------------------
(***************************************************************************)
(* A historical study end to end (backtests/study.py): a schedule that is  *)
(* supplied, or made by a baseline and attested, is assembled with the     *)
(* market into a scenario, the accounting kernel runs it and the metrics   *)
(* are computed.  A scenario that is supplied by hand takes the same way   *)
(* from the accounting on.                                                 *)
(***************************************************************************)
EXTENDS Metrics, Assembly

CONSTANTS
    Requests    \* what a study may ask: [market, plan, terms]

\* The rows of the database.  A run is the status of the ingestion that wrote a
\* row, Absent when there is none.
Runs == {"running", "succeeded", "failed", Absent}

FundingRow == [id : Int, time : Int, rate : Number, predicted : BOOLEAN, hourly : BOOLEAN, run : Runs]

OracleRow == [time : Int, price : Int, conflicting : BOOLEAN, archive : Int]

CandleRow == [time : Int, interval : Nat \ {0}, first : Int, last : Int, run : Runs]

Market ==
    [funding : SUBSET FundingRow, oracles : SUBSET OracleRow, candles : SUBSET CandleRow,
     malformed : SUBSET Int, revised : SUBSET Int, multiplier : Int]

\* A plan is a schedule, or the specification of a baseline.
Plan ==
    [kind : {"supplied"}, schedule : Seq([time : Int, target : Int])]
    \cup [kind : {"baseline"},
          spec : [name : {"flat_control", "static_long", "static_short", "lagged_funding_receiver"},
                  interval : Nat \ {0}, quantity : Int]]

Terms ==
    [latency : Int, execution : Nat \ {0}, marking : Nat \ {0}, decision : Nat \ {0},
     spread : Int, slippage : Int, fee : Number, age : Int, multiplier : Int]

\* A database holds finitely many rows.
IsRequest(r) ==
    /\ r \in [market : Market, plan : Plan, terms : Terms]
    /\ IsFiniteSet(r.market.funding) /\ IsFiniteSet(r.market.oracles)

ASSUME StudyAssumption ==
    /\ None \notin Requests /\ \A r \in Requests : IsRequest(r)
    /\ SampleTimes.first >= Start /\ SampleTimes.last <= End

VARIABLE request    \* None, or the request that is being studied

studyVars == <<metricVars, request>>

StudyInit == MetricsInit /\ request = None

\* A baseline is specified for the same decision grid, and its bundle has to be
\* attested before its schedule is used.
ScheduleOf(market, plan) ==
    IF plan.kind = "supplied" THEN plan.schedule
    ELSE LET bundle == Bundle(plan.spec, market)
         IN  IF Attests(bundle, market) THEN bundle.schedule ELSE Refused

ScenarioOf(market, plan, terms) ==
    LET schedule == ScheduleOf(market, plan)
    IN  IF schedule = Refused THEN Refused ELSE Assembled(market, schedule, terms)

Assemble(r) ==
    /\ status = "supplying" /\ events = <<>>
    /\ LET scenario == ScenarioOf(r.market, r.plan, r.terms)
       IN  /\ events' = IF scenario = Refused THEN <<>> ELSE Ordered(scenario)
           /\ status' = IF scenario = Refused THEN "refused" ELSE "running"
    /\ request' = r
    /\ UNCHANGED <<index, account, ledger, metrics>>

StudyNext ==
    \/ \E r \in Requests : Assemble(r)
    \/ MetricsNext /\ UNCHANGED request

StudySpec == StudyInit /\ [][StudyNext]_studyVars

-----------------------------------------------------------------------------
(* Properties *)

IsAssembled == request # None /\ status # "refused"

\* The same market, were everything after a time to turn out differently: rates
\* change sign, prices change.
OtherPrice(p) == 40 - p

Otherwise(market, t) ==
    [market EXCEPT
        !.funding = {IF f.time > t THEN [f EXCEPT !.rate = Negated(@)] ELSE f : f \in @},
        !.oracles = {IF o.time > t THEN [o EXCEPT !.price = OtherPrice(@)] ELSE o : o \in @},
        !.candles = {[c EXCEPT !.first = IF c.time > t THEN OtherPrice(@) ELSE @,
                               !.last = IF Available(c) > t THEN OtherPrice(@) ELSE @] : c \in @}]

UpTo(run, t) == Restrict(run, {i \in DOMAIN run : run[i].time <= t})

\* No look-ahead: what a study does up to a time, the decisions of a baseline
\* included, is the same whatever the market does after that time.
NoLookAhead ==
    IsAssembled /\ index = 0 =>
        \A t \in Start..End :
            LET other == ScenarioOf(Otherwise(request.market, t), request.plan, request.terms)
            IN  other = Refused \/ UpTo(Ordered(other), t) = UpTo(events, t)

\* Every hour of a study is settled once, within a tick of the hour, at the rate
\* the market holds for it, on the last oracle price known by then, which is
\* not too old.
SettledHourly ==
    IsAssembled /\ status = "done" =>
        \A s \in Slots :
            LET settled == {i \in Posted("funding") : Distance(events[i].time, s) <= Tolerance}
                e == events[CHOOSE i \in settled : TRUE]
                known == {o \in request.market.oracles : o.time <= e.time}
            IN  /\ Cardinality(settled) = 1
                /\ \E f \in request.market.funding :
                      f.time = e.time /\ f.rate = e.rate /\ ~f.predicted /\ f.run = "succeeded"
                /\ \E o \in known :
                      /\ o.price = e.price /\ e.time - o.time <= MaxAge
                      /\ \A p \in known : p.time <= o.time

\* A position of a study that has been held for longer than a marking interval
\* is never valued at a price older than that interval.
ValuedWhileHeld ==
    IsAssembled /\ index > 0 /\ ledger[index].quantity # 0 =>
        LET now == events[index].time
            opened == {i \in Posted("fill") :
                          i = 1 \/ ledger[i - 1].quantity = 0}
            since == {events[i].time : i \in opened}
        IN  (\A t \in since : now - t > request.terms.marking)
                => \E m \in Posted("mark") : now - events[m].time <= request.terms.marking
=============================================================================
