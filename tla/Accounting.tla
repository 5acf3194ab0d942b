----------------------------- MODULE Accounting -----------------------------
(***************************************************************************)
(* The accounting kernel of backtests/engine.py: a scenario is supplied as *)
(* a sequence of events, BacktestScenario checks and orders them, and      *)
(* run_backtest folds them into cash, position, average entry and the      *)
(* attributions, asserting its identities after every event.  Amounts are  *)
(* decimals of Digits digits; quantities and prices are integers (in lots  *)
(* and ticks), which the kernel's context holds without rounding.          *)
(***************************************************************************)
EXTENDS Decimals, Orders, SequencesExt

CONSTANTS
    InitialCash,    \* Decimal: the cash a scenario begins with
    Multiplier,     \* contract multiplier
    Times,          \* event times
    Seqs,           \* sequence numbers among events of one time and kind
    Deltas,         \* signed quantities of fills
    Prices,         \* execution, oracle and mark prices
    References,     \* reference prices of fills
    FeeRates,       \* decimals
    FundingRates,   \* decimals
    None,           \* no average entry, no mark
    MaxEvents       \* bound on the length of a scenario

ASSUME AccountingAssumption ==
    /\ InitialCash \in Number /\ InitialCash.c > 0
    /\ Multiplier \in Nat \ {0} /\ Prices \subseteq Nat \ {0} /\ References \subseteq Nat \ {0}
    /\ Times \subseteq Nat /\ Seqs \subseteq Nat /\ Deltas \subseteq Int \ {0}
    /\ FeeRates \subseteq Number /\ \A f \in FeeRates : f.c >= 0
    /\ FundingRates \subseteq Number
    /\ MaxEvents \in Nat \ {0}

Funding == [kind : {"funding"}, time : Times, seq : {0}, price : Prices, rate : FundingRates]
Fill    == [kind : {"fill"}, time : Times, seq : Seqs, price : Prices, rate : FeeRates,
            delta : Deltas, reference : References]
Mark    == [kind : {"mark"}, time : Times, seq : {0}, price : Prices]
Event   == Funding \cup Fill \cup Mark

VARIABLES
    events,     \* the scenario: as supplied, then in accounting order
    index,      \* how many of them have been accounted for
    status,     \* "supplying", "running", "done", "refused" or "contradicted"
    account,    \* the kernel's _State
    ledger      \* the account as it was after each event

vars == <<events, index, status, account, ledger>>

Init ==
    /\ events = <<>>
    /\ index = 0
    /\ status = "supplying"
    /\ account = [cash |-> InitialCash, quantity |-> 0, average |-> None, realized |-> Zero,
                  funding |-> Zero, fees |-> Zero, slippage |-> Zero, mark |-> None]
    /\ ledger = <<>>

-----------------------------------------------------------------------------
(* The scenario *)

\* Variant: the fills of a time come before its funding.
FillsFirst(e) == CASE e.kind = "fill" -> 0 [] e.kind = "funding" -> 1 [] e.kind = "mark" -> 2

Priority(e) == CASE e.kind = "funding" -> 0 [] e.kind = "fill" -> 1 [] e.kind = "mark" -> 2

Key(e) == <<e.time, Priority(e), e.seq>>

Before(d, e) ==
    \/ d.time < e.time
    \/ d.time = e.time /\ Priority(d) < Priority(e)
    \/ d.time = e.time /\ Priority(d) = Priority(e) /\ d.seq < e.seq

Ordered(s) ==
    LET places == InOrder(DOMAIN s, LAMBDA i, j : Before(s[i], s[j]))
    IN  [k \in DOMAIN s |-> s[places[k]]]

Accepts(e) ==
    /\ events # <<>> => events[Len(events)].time <= e.time
    /\ \A i \in DOMAIN events : Key(events[i]) # Key(e)

\* The constructor looks at the supplied events one after the other.
Supply(e) ==
    /\ status = "supplying"
    /\ Len(events) < MaxEvents
    /\ events' = Append(events, e)
    /\ status' = IF Accepts(e) THEN "supplying" ELSE "refused"
    /\ UNCHANGED <<index, account, ledger>>

Begin ==
    /\ status = "supplying"
    /\ events # <<>>
    /\ events' = Ordered(events)
    /\ status' = "running"
    /\ UNCHANGED <<index, account, ledger>>

-----------------------------------------------------------------------------
(* The ledger *)

Units(n) == FromInt(n * Multiplier)

SameSide(i, j) == (i > 0) = (j > 0)

Min2(i, j) == IF i < j THEN i ELSE j

ApplyFunding(a, e) ==
    LET flow == Multiply(Multiply(Units(-a.quantity), FromInt(e.price)), e.rate)
    IN  [a EXCEPT !.cash = Add(@, flow), !.funding = Add(@, flow)]

\* The average entry after a fill that opens or increases the position.
Increased(a, e) ==
    LET held == IF a.average = None THEN Zero
                ELSE Multiply(FromInt(Magnitude(a.quantity)), a.average)
        added == FromInt(Magnitude(e.delta) * e.price)
    IN  Divide(Add(held, added), Magnitude(a.quantity + e.delta))

\* Variant: a flip keeps the average entry of the side it leaves.
AverageKeptByFlip(a, e) == IF a.quantity + e.delta = 0 THEN None ELSE a.average

\* The average entry after a fill against the position.
Reduced(a, e) ==
    LET rest == a.quantity + e.delta
    IN  CASE rest = 0 -> None
          [] rest # 0 /\ SameSide(rest, a.quantity) -> a.average
          [] OTHER -> FromInt(e.price)

Realized(a, e) ==
    LET closed == Units(Min2(Magnitude(a.quantity), Magnitude(e.delta)))
        gain == Multiply(closed, Subtract(FromInt(e.price), a.average))
    IN  IF a.quantity > 0 THEN gain ELSE Negated(gain)

\* Variant: a fee is attributed but not paid.
FeeAttributedOnly(a, e) ==
    LET opens == a.quantity = 0 \/ SameSide(a.quantity, e.delta)
        realized == IF opens THEN Zero ELSE Realized(a, e)
        fee == Multiply(Multiply(Units(Magnitude(e.delta)), FromInt(e.price)), e.rate)
    IN  [a EXCEPT !.quantity = @ + e.delta,
                  !.average = IF opens THEN Increased(a, e) ELSE Reduced(a, e),
                  !.cash = Add(@, realized), !.realized = Add(@, realized),
                  !.fees = Add(@, fee)]

ApplyFill(a, e) ==
    LET opens == a.quantity = 0 \/ SameSide(a.quantity, e.delta)
        realized == IF opens THEN Zero ELSE Realized(a, e)
        fee == Multiply(Multiply(Units(Magnitude(e.delta)), FromInt(e.price)), e.rate)
    IN  [a EXCEPT !.quantity = @ + e.delta,
                  !.average = IF opens THEN Increased(a, e) ELSE Reduced(a, e),
                  !.cash = Add(@, Subtract(realized, fee)),
                  !.realized = Add(@, realized),
                  !.fees = Add(@, fee),
                  !.slippage = Add(@, Multiply(Units(e.delta), FromInt(e.price - e.reference)))]

ApplyMark(a, e) == [a EXCEPT !.mark = e.price]

Apply(a, e) == CASE e.kind = "funding" -> ApplyFunding(a, e)
                 [] e.kind = "fill" -> ApplyFill(a, e)
                 [] e.kind = "mark" -> ApplyMark(a, e)

Valued(a) == a.quantity = 0 \/ a.mark # None

Unrealized(a) ==
    IF a.quantity = 0 THEN Zero
    ELSE Multiply(Units(a.quantity), Subtract(FromInt(a.mark), a.average))

Equity(a) == IF a.quantity = 0 THEN a.cash ELSE Add(a.cash, Unrealized(a))

ExpectedCash(a) == Subtract(Add(Add(InitialCash, a.realized), a.funding), a.fees)

\* The identities asserted after every event ...
EntryReconciles(a) ==
    /\ a.cash = ExpectedCash(a)
    /\ Valued(a) => Equity(a) = Add(ExpectedCash(a), Unrealized(a))

\* ... and on the total at the end.
TotalReconciles(a) ==
    Subtract(Equity(a), InitialCash)
        = Subtract(Add(Add(a.realized, Unrealized(a)), a.funding), a.fees)

PostEntry ==
    /\ status = "running"
    /\ index < Len(events)
    /\ index' = index + 1
    /\ account' = Apply(account, events[index + 1])
    /\ ledger' = Append(ledger, account')
    /\ status' = IF EntryReconciles(account') THEN "running" ELSE "contradicted"
    /\ UNCHANGED events

Refuses(a) == a.quantity # 0 /\ events[Len(events)].kind # "mark"

Finish ==
    /\ status = "running"
    /\ index = Len(events)
    /\ status' = CASE Refuses(account) -> "refused"
                   [] ~Refuses(account) /\ TotalReconciles(account) -> "done"
                   [] OTHER -> "contradicted"
    /\ UNCHANGED <<events, index, account, ledger>>

Next == (\E e \in Event : Supply(e)) \/ Begin \/ PostEntry \/ Finish

Spec == Init /\ [][Next]_vars

-----------------------------------------------------------------------------
(* Properties *)

\* No legal scenario makes the kernel contradict itself: the cash, equity and
\* total identities it asserts hold whatever the scenario (run_backtest marks
\* the three checks as accounting invariants that no input can break).
Reconciles == status # "contradicted"

Posted(kind) == {i \in 1..index : events[i].kind = kind}

Total(I, amount(_)) ==
    LET sum[J \in SUBSET I] ==
            IF J = {} THEN Zero
            ELSE LET i == CHOOSE i \in J : TRUE IN ExactSum(sum[J \ {i}], amount(i))
    IN  sum[I]

\* What the position would fetch at the mark, less what was paid for it at
\* reference prices, less the slippage, with the funding and without the fees.
Liquidation ==
    LET value == IF account.quantity = 0 THEN Zero
                 ELSE FromInt(account.quantity * Multiplier * account.mark)
        paid(i) == FromInt(-events[i].delta * Multiplier * events[i].reference)
    IN  ExactSum(ExactSum(ExactSum(InitialCash, value), Total(Posted("fill"), paid)),
                 ExactSum(ExactSum(account.funding, Negated(account.slippage)),
                          Negated(account.fees)))

\* Average-cost accounting loses and invents nothing: whenever the account can
\* be valued, its equity is the cash an independent reckoning of all the fills
\* gives, through openings, reductions, closings and flips; the slippage is an
\* attribution that is not charged a second time.
MarkedToMarket ==
    status # "supplying" /\ Valued(account) => Equity(account) = Liquidation

\* The position that the fills before a time add up to.
HeldBefore(t) ==
    FoldLeft(+, 0, [i \in DOMAIN events |->
                        IF events[i].kind = "fill" /\ events[i].time < t THEN events[i].delta ELSE 0])

\* Funding is settled on the position held when its time came: a fill of that
\* same time never earns or pays it, in whatever order the events of that time
\* were supplied, and nothing but a funding event changes what was settled.
FundedOnPriorPosition ==
    index > 0 =>
        LET e == events[index]
            before == IF index = 1 THEN Zero ELSE ledger[index - 1].funding
            flow == Multiply(Multiply(Units(-HeldBefore(e.time)), FromInt(e.price)), e.rate)
        IN  account.funding = IF e.kind = "funding" THEN Add(before, flow) ELSE before

=============================================================================
