----------------------------- MODULE MarketData -----------------------------
(***************************************************************************)
(* Collection and ingestion together, as the command line runs them        *)
(* (cli.py): a call collects a range, hands what it gathered to the        *)
(* ingestion, and records a failed run if the collection of candles failed *)
(* (a failed collection of funding leaves no run).  Several calls share    *)
(* the exchange, the raw archive and the database.                         *)
(***************************************************************************)
EXTENDS Collector, Ingestion

ASSUME MarketAssumption ==
    /\ Writers = Calls
    /\ {"candles", "funding"} \subseteq Datasets /\ Time \subseteq Slots /\ Contents \subseteq Values

marketVars == <<collectorVars, ingestionVars>>

MarketInit == CollectorInit /\ IngestionInit

Records(c) ==
    {[dataset |-> request[c].dataset, slot |-> r.slot, value |-> r.value] : r \in gathered[c]}

HandOver(c) ==
    /\ phase[c] = "collected"
    /\ StartRun(c, Records(c))
    /\ Over(c)

ReportFailure(c) ==
    /\ phase[c] = "failed"
    /\ \/ request[c].dataset = "candles" /\ RecordFailedRun(c)
       \/ request[c].dataset = "funding" /\ UNCHANGED ingestionVars
    /\ Over(c)

MarketNext ==
    \/ (Tick \/ Revise) /\ UNCHANGED ingestionVars
    \/ \E c \in Calls :
          \/ Collect(c) /\ UNCHANGED ingestionVars
          \/ HandOver(c) \/ ReportFailure(c)
          \/ Ingest(c) /\ UNCHANGED collectorVars

MarketSpec == MarketInit /\ [][MarketNext]_marketVars

-----------------------------------------------------------------------------
(* PROPERTIES *)

(* A run that succeeded has left no hole: every slot of its range that had *)
(* closed (or been settled) when it began, and that the exchange still     *)
(* holds, has a row, over chunks, pages, retries, candles that close on    *)
(* the way and whatever other calls had stored before.                     *)
NoHole ==
    \A c \in Calls : runs[c] = "succeeded" =>
        \A k \in request[c].start..(request[c].end - 1) :
            /\ k < began[c]
            /\ request[c].dataset = "candles" => k > now - Retention /\ k >= request[c].end - Retention
            => \E r \in stored : r.dataset = request[c].dataset /\ r.slot = k

(* Every curated row can be found again in an answer that was archived for *)
(* its run, and a candle had closed when that answer was received.         *)
Replayable ==
    \A r \in stored : \E a \in archive :
        /\ a.call = r.run
        /\ [slot |-> r.slot, value |-> r.value] \in a.rows
        /\ r.dataset = "candles" => r.slot < a.time

(* Still-forming candles are not curated: what a stored row says is what   *)
(* the exchange said of the candle after it had closed.                    *)
NothingForming == \A r \in stored : r.value # "forming"
=============================================================================
