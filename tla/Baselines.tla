------------------------------ MODULE Baselines ------------------------------
(***************************************************************************)
(* The deterministic baselines of research/baselines.py: a specification,  *)
(* and for the funding receiver the actual funding of the study, become a  *)
(* target schedule, a sequence of intents; and the attestation of research/*)
(* baseline_attestation.py, which makes the schedule again from what the   *)
(* database holds.  A baseline that cannot be made is Refused.             *)
(***************************************************************************)
EXTENDS Alignment, Orders, SequencesExt

CONSTANT Refused

Rate(f) == f.rate.c     \* only the sign of a rate counts

IsSound(f) == f.run = "succeeded" /\ f.hourly

\* resolve_baseline_funding_source: the rows whose hour lies in the study, or
\* nothing when one of them has no sound lineage (a row without a run is not joined).
SourceEvidence(market) ==
    LET rows == {f \in market.funding :
                    /\ Start <= f.time /\ f.time <= End - Hour + Tolerance
                    /\ ~f.predicted /\ f.run # Absent}
    IN  IF \A f \in rows : IsSound(f) THEN rows ELSE {}

\* The evidence of every hour in order, or Refused.
EvidenceBySlot(evidence) ==
    LET ofSlot(s) == {f \in evidence : FundingSlot(f.time) = s}
    IN  IF /\ \A f \in evidence : FundingSlot(f.time) # Absent
           /\ \A s \in Slots : Cardinality(ofSlot(s)) = 1
        THEN InOrder(evidence, LAMBDA f, g : FundingSlot(f.time) < FundingSlot(g.time))
        ELSE Refused

\* Variant: the last decision before the event.
FloorDecision(t, interval) ==
    IF t <= Start THEN Start ELSE Start + interval * ((t - Start) \div interval)

\* The first decision time at or after an event.
CeilDecision(t, interval) ==
    IF t <= Start THEN Start ELSE Start + interval * ((t - Start + interval - 1) \div interval)

Receive(f, quantity) ==
    CASE Rate(f) > 0 -> -quantity [] Rate(f) < 0 -> quantity [] OTHER -> 0

\* One observation of the funding receiver: a changed target becomes a decision,
\* two changes at one decision time refuse the whole baseline.
Observe(targets, f, spec) ==
    LET decision == CeilDecision(f.time, spec.interval)
        target == Receive(f, spec.quantity)
        current == IF targets = <<>> THEN 0 ELSE Last(targets).target
    IN  CASE targets = Refused -> Refused
          [] targets # Refused /\ (decision >= End \/ target = current) -> targets
          [] OTHER -> IF targets # <<>> /\ Last(targets).time = decision THEN Refused
                      ELSE Append(targets, [time |-> decision, target |-> target])

Observations(rows, spec) ==
    FoldLeft(LAMBDA targets, f : Observe(targets, f, spec), <<>>, rows)

FundingReceiver(spec, evidence) ==
    LET rows == EvidenceBySlot(evidence)
        targets == Observations(rows, spec)
        flat == [time |-> Start, target |-> 0]
    IN  CASE rows = Refused -> Refused
          [] rows # Refused /\ targets = Refused -> Refused
          [] OTHER -> IF targets = <<>> \/ Head(targets).time > Start
                      THEN <<flat>> \o targets ELSE targets

Generate(spec, evidence) ==
    LET constant(target) == <<[time |-> Start, target |-> target]>>
    IN  CASE spec.name # "lagged_funding_receiver" /\ evidence # {} -> Refused
          [] spec.name = "flat_control" /\ evidence = {} -> constant(0)
          [] spec.name = "static_long" /\ evidence = {} -> constant(spec.quantity)
          [] spec.name = "static_short" /\ evidence = {} -> constant(-spec.quantity)
          [] OTHER -> FundingReceiver(spec, evidence)

EvidenceFor(spec, market) ==
    IF spec.name = "lagged_funding_receiver" THEN SourceEvidence(market) ELSE {}

\* A bundle keeps the evidence it was made from; to read one back is to make it
\* again.  attest_baseline_origin also makes it from the database.
Bundle(spec, market) ==
    LET evidence == EvidenceFor(spec, market)
    IN  [spec |-> spec, evidence |-> evidence, schedule |-> Generate(spec, evidence)]

Reproduces(bundle) ==
    bundle.schedule # Refused /\ bundle.schedule = Generate(bundle.spec, bundle.evidence)

Attests(bundle, market) == Reproduces(bundle) /\ bundle = Bundle(bundle.spec, market)
=============================================================================
