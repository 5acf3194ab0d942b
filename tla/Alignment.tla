------------------------------ MODULE Alignment ------------------------------
(***************************************************************************)
(* Actual funding and the oracle price it settles on, as                   *)
(* research/funding_oracle.py aligns them and its repository reads them,   *)
(* over one study of one instrument.  A market is what the database holds: *)
(* funding rows, oracle observations with the archive that each came from, *)
(* and candles.  Time is counted in ticks, of which an hour has four; the  *)
(* one-second tolerance of the hourly grid is one tick.                    *)
(***************************************************************************)
EXTENDS Integers, FiniteSets

CONSTANTS
    Start, End,   \* the study, [Start, End)
    MaxAge,       \* maximum age of an oracle price
    Absent          \* no reason, no slot, no mark

ASSUME AlignmentAssumption ==
    /\ Start \in Nat /\ End \in Nat /\ Start < End
    /\ MaxAge \in Nat \ {0}
    /\ Absent \notin {"missing_oracle", "conflicting_oracle", "stale_oracle"}

Hour == 4
Tolerance == 1

Slots == {t \in Start..(End - 1) : (t - Start) % Hour = 0}

Distance(s, t) == IF s < t THEN t - s ELSE s - t

\* The hour a funding event belongs to: the nearest, when it is near enough.
FundingSlot(t) ==
    LET nearest == Start + Hour * ((t - Start + Hour \div 2) \div Hour)
    IN  IF t \in Start..(End - 1) /\ nearest \in Slots /\ Distance(t, nearest) <= Tolerance
        THEN nearest ELSE Absent

AtOrBefore(S, t) == {x \in S : x.time <= t}

Latest(S) == {x \in S : \A y \in S : y.time <= x.time}

FundingRows(market) ==
    {f \in market.funding : f.time \in Start..(End - 1) /\ ~f.predicted}

\* The observations of the window with the allowed age before it, and the last
\* ones before that, so that a stale price is told from a missing one.
OracleRows(market) ==
    LET inRange == {o \in market.oracles : Start - MaxAge <= o.time /\ o.time < End}
        older == {o \in market.oracles : o.time < Start - MaxAge}
    IN  inRange \cup Latest(older)

LastObservation(observations, t) == Latest(AtOrBefore(observations, t))

Alignment(f, observations) ==
    LET candidates == LastObservation(observations, f.time)
        o == CHOOSE o \in candidates : TRUE
        disputed == Cardinality({c.price : c \in candidates}) # 1 \/ \E c \in candidates : c.conflicting
        reason == CASE candidates = {} -> "missing_oracle"
                    [] candidates # {} /\ disputed -> "conflicting_oracle"
                    [] candidates # {} /\ ~disputed /\ f.time - o.time > MaxAge -> "stale_oracle"
                    [] OTHER -> Absent
    IN  [funding |-> f, reason |-> reason,
         price |-> IF reason \in {Absent, "stale_oracle"} THEN o.price ELSE Absent,
         age |-> IF candidates = {} THEN Absent ELSE f.time - o.time]

\* What load_funding_oracle_dataset returns: every row aligned or with a reason,
\* and the flaws of the archives that the observations came from.
Dataset(market) ==
    LET observations == OracleRows(market)
        archives == {o.archive : o \in observations}
    IN  [alignments |-> {Alignment(f, observations) : f \in FundingRows(market)},
         malformed |-> archives \cap market.malformed # {},
         conflicting |-> \E o \in observations : o.conflicting,
         revised |-> archives \cap market.revised # {}]
=============================================================================
