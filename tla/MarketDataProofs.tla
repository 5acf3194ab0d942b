--------------------------- MODULE MarketDataProofs ---------------------------
(***************************************************************************)
(* Collection and ingestion together, for any number of processes, slots,  *)
(* chunk and page sizes: what is collected may be ingested, what is stored *)
(* can be found in the raw archive, and a run that succeeded has left no   *)
(* hole in its range.                                                      *)
(***************************************************************************)
EXTENDS MarketData, IngestionProofs

Asking(c) == phase[c] \in {"send", "wait"}

(* The slots a run owes a row: those that had closed when it began and     *)
(* that the exchange still holds.                                          *)
Owed(c, k) ==
    /\ k < began[c]
    /\ request[c].dataset = "candles" => k > now - Retention /\ k >= request[c].end - Retention

Covered(c, n) ==
    \A k \in request[c].start..(n - 1) : Owed(c, k) => \E r \in gathered[c] : r.slot = k

(* A collection goes through its range from the start, and has what it     *)
(* owes of the part behind it.                                             *)
Advancing(c) ==
    /\ began[c] <= now
    /\ phase[c] = "start" => seen[c] = {} /\ gathered[c] = {}
    /\ Asking(c) => request[c].start <= cursor[c] /\ cursor[c] < request[c].end
    /\ Asking(c) => Covered(c, cursor[c]) /\ \A r \in seen[c] : r.slot < cursor[c]
    /\ phase[c] = "collected" => Covered(c, request[c].end)

(* An answer shows each slot once.  Of candles it shows all that is owed   *)
(* of the chunk; of funding rates, one run of slots from the cursor on,    *)
(* which ends early only if the page is full or there is no more.          *)
Answered(c) ==
    phase[c] = "wait" =>
        /\ answer[c] \subseteq Rows
        /\ \A r, s \in answer[c] : r.slot = s.slot => r = s
        /\ request[c].dataset = "candles" =>
              \A k \in cursor[c]..(ChunkEnd(c) - 1) : Owed(c, k) => \E r \in answer[c] : r.slot = k
        /\ request[c].dataset = "funding" =>
              \E m \in Time :
                 /\ m < request[c].end /\ m < cursor[c] + PageRows
                 /\ answer[c] = {Rate(k) : k \in cursor[c]..m}
                 /\ \A k \in cursor[c]..(request[c].end - 1) :
                       Owed(c, k) => k <= m \/ m = cursor[c] + PageRows - 1

(* A row of a dataset can be found in an answer archived for the call. *)
Archived(c, dataset, r) ==
    \E a \in archive :
        /\ a.call = c /\ [slot |-> r.slot, value |-> r.value] \in a.rows
        /\ dataset = "candles" => r.slot < a.time

(* What was handed over still covers what is owed, up to the end of the    *)
(* run; at its end each record has a row.                                  *)
Handed(c) ==
    /\ step[c] # "idle" => phase[c] = "over"
    /\ step[c] \in {"gate", "compare", "insert", "commit", "finish"} =>
          \A k \in request[c].start..(request[c].end - 1) : Owed(c, k) =>
              \E o \in batch[c] : o.dataset = request[c].dataset /\ o.slot = k
    /\ step[c] = "finish" => \A o \in batch[c] : Stored(o) # {}

Filled(c) ==
    runs[c] = "succeeded" =>
        \A k \in request[c].start..(request[c].end - 1) : Owed(c, k) =>
            \E r \in stored : r.dataset = request[c].dataset /\ r.slot = k

Traced(c) ==
    /\ \A r \in gathered[c] : Archived(c, request[c].dataset, r)
    /\ \A o \in batch[c] : Archived(c, o.dataset, o)

CallSound(c) == Advancing(c) /\ Answered(c) /\ Handed(c) /\ Filled(c) /\ Traced(c)

MarketInv ==
    /\ CollectorTypeOK /\ IInv
    /\ \A c \in Calls : CallSound(c)
    /\ Replayable

-----------------------------------------------------------------------------
(* Ranges, chunks and pages. *)

LEMMA RequestRange ==
    ASSUME CollectorTypeOK, NEW c \in Calls
    PROVE  /\ request[c].start \in Time /\ request[c].end \in Time
           /\ request[c].start < request[c].end
           /\ request[c].dataset \in {"candles", "funding"}
           /\ End(c) = request[c].end
<1>1. request[c] \in Requests
  BY DEF CollectorTypeOK
<1>. QED  BY <1>1, CollectorAssumption DEF End

(* A chunk is not empty and stays in the range. *)
LEMMA ChunkRange ==
    ASSUME CollectorTypeOK, NEW c \in Calls, Advancing(c), Asking(c)
    PROVE  /\ cursor[c] \in Time /\ ChunkEnd(c) \in Time
           /\ cursor[c] < ChunkEnd(c) /\ ChunkEnd(c) <= request[c].end
<1>1. cursor[c] \in Time /\ cursor[c] < request[c].end /\ request[c].end \in Time
  BY RequestRange DEF CollectorTypeOK, Advancing
<1>. QED  BY <1>1, RequestRange, CollectorAssumption DEF ChunkEnd, Smaller, Time

(* There are finitely many rows the exchange can show. *)
LEMMA RowsFinite == IsFiniteSet(Rows)
<1>. DEFINE row == [p \in Time \X Contents |-> [slot |-> p[1], value |-> p[2]]]
<1>1. IsFiniteSet(Time)
  BY CollectorAssumption, FS_Interval DEF Time
<1>2. IsFiniteSet(Contents)
  <2>1. IsFiniteSet({"forming"} \cup {"closed"} \cup {"revised"} \cup {"settled"})
    BY FS_Singleton, FS_Union
  <2>2. Contents = {"forming"} \cup {"closed"} \cup {"revised"} \cup {"settled"}
    BY DEF Contents
  <2>. QED  BY <2>1, <2>2
<1>3. IsFiniteSet(Time \X Contents)
  BY <1>1, <1>2, FS_Product
<1>4. row \in Surjection(Time \X Contents, Rows)
  <2>1. row \in [Time \X Contents -> Rows]
    BY DEF Rows
  <2>2. ASSUME NEW r \in Rows PROVE \E p \in Time \X Contents : row[p] = r
    <3>1. <<r.slot, r.value>> \in Time \X Contents
      BY DEF Rows
    <3>2. row[<<r.slot, r.value>>] = r
      BY <3>1 DEF Rows
    <3>. QED  BY <3>1, <3>2
  <2>. QED  BY <2>1, <2>2 DEF Surjection
<1>. QED  BY <1>3, <1>4, FS_Surjection

(* What was collected may be ingested: it is of one dataset, and no slot   *)
(* is there twice.                                                         *)
LEMMA RecordsAreBatch ==
    ASSUME CollectorTypeOK, NEW c \in Calls
    PROVE  Records(c) \in SUBSET Observation /\ Batch(Records(c))
<1>1. gathered[c] \subseteq Rows /\ \A r, s \in gathered[c] : r.slot = s.slot => r = s
  BY DEF CollectorTypeOK
<1>2. request[c].dataset \in Datasets
  BY RequestRange, MarketAssumption
<1>3. Records(c) \subseteq Observation
  BY <1>1, <1>2, MarketAssumption DEF Records, Observation, Rows
<1>4. \A o, p \in Records(c) : o.dataset = p.dataset /\ (o.slot = p.slot => o = p)
  BY <1>1 DEF Records
<1>5. IsFiniteSet(Records(c))
  <2>. DEFINE record == [r \in gathered[c] |->
                 [dataset |-> request[c].dataset, slot |-> r.slot, value |-> r.value]]
  <2>1. IsFiniteSet(gathered[c])
    BY <1>1, RowsFinite, FS_Subset
  <2>2. record \in Surjection(gathered[c], Records(c))
    <3>1. record \in [gathered[c] -> Records(c)]
      BY DEF Records
    <3>2. \A o \in Records(c) : \E r \in gathered[c] : record[r] = o
      BY DEF Records
    <3>. QED  BY <3>1, <3>2 DEF Surjection
  <2>. QED  BY <2>1, <2>2, FS_Surjection
<1>. QED  BY <1>3, <1>4, <1>5 DEF Batch

(* Collection and ingestion together take no step the ingestion by itself  *)
(* could not take.                                                         *)
LEMMA StepIsIngestion ==
    ASSUME CollectorTypeOK, [MarketNext]_marketVars
    PROVE  [IngestionNext]_ingestionVars
<1>1. Calls = Writers
  BY MarketAssumption
<1>2. ASSUME NEW c \in Calls, HandOver(c) PROVE IngestionNext
  <2>1. StartRun(c, Records(c)) /\ Records(c) \in SUBSET Observation /\ Batch(Records(c))
    BY <1>2, RecordsAreBatch DEF HandOver
  <2>. QED  BY <1>1, <2>1 DEF IngestionNext
<1>3. ASSUME NEW c \in Calls, ReportFailure(c) PROVE [IngestionNext]_ingestionVars
  BY <1>1, <1>3 DEF ReportFailure, IngestionNext
<1>4. ASSUME NEW c \in Calls, Ingest(c) PROVE IngestionNext
  BY <1>1, <1>4 DEF IngestionNext
<1>5. CASE UNCHANGED marketVars
  BY <1>5 DEF marketVars
<1>. QED  BY <1>2, <1>3, <1>4, <1>5 DEF MarketNext

-----------------------------------------------------------------------------
(* A call that does nothing stays sound while time passes, answers are     *)
(* archived and rows are stored.                                           *)
Growing ==
    /\ now \in Time /\ now' \in Time /\ now <= now'
    /\ archive \subseteq archive' /\ stored \subseteq stored' /\ request' = request

Resting(d) ==
    /\ began'[d] = began[d] /\ phase'[d] = phase[d] /\ cursor'[d] = cursor[d]
    /\ answer'[d] = answer[d] /\ seen'[d] = seen[d] /\ gathered'[d] = gathered[d]
    /\ step'[d] = step[d] /\ runs'[d] = runs[d] /\ batch'[d] = batch[d]

LEMMA LaterBound ==
    ASSUME NEW m \in Int, NEW n \in Int, m <= n, NEW r \in Int, NEW k \in Int, k > n - r
    PROVE  k > m - r
OBVIOUS

(* What a run owes only shrinks.                                           *)
LEMMA OwedShrinks ==
    ASSUME CollectorTypeOK, Growing, NEW d \in Calls, began'[d] = began[d],
           NEW k \in Int, Owed(d, k)'
    PROVE  Owed(d, k)
<1>1. now \in Int /\ now' \in Int /\ now <= now' /\ Retention \in Int
  BY CollectorAssumption DEF Growing, Time
<1>2. /\ k < began[d]
      /\ request[d].dataset = "candles" => k > now' - Retention /\ k >= request[d].end - Retention
  BY DEF Owed, Growing
<1>3. k > now' - Retention => k > now - Retention
  BY <1>1, LaterBound
<1>. QED  BY <1>2, <1>3 DEF Owed

LEMMA ArchivedStays ==
    ASSUME Growing, NEW d, NEW data, NEW r, Archived(d, data, r)
    PROVE  Archived(d, data, r)'
BY DEF Archived, Growing

LEMMA RestingSound ==
    ASSUME CollectorTypeOK, Growing, NEW d \in Calls, CallSound(d), Resting(d)
    PROVE  CallSound(d)'
<1>. USE DEF CallSound, Growing, Resting
<1>1. request[d].start \in Time /\ request[d].end \in Time /\ cursor[d] \in Time /\ began[d] \in Time
  BY RequestRange DEF CollectorTypeOK
<1>2. \A k \in Int : Owed(d, k)' => Owed(d, k)
  BY OwedShrinks
<1>3. \A n \in Time : \A k \in request[d].start..(n - 1) : k \in Int
  BY <1>1 DEF Time
<1>4. ASSUME NEW n \in Time, Covered(d, n)
      PROVE  \A k \in request'[d].start..(n - 1) : Owed(d, k)' => \E r \in gathered'[d] : r.slot = k
  BY <1>2, <1>3, <1>4 DEF Covered
<1>5. Advancing(d)'
  <2>1. began[d] <= now'
    BY <1>1 DEF Advancing, Time
  <2>2. Asking(d)' <=> Asking(d)
    BY DEF Asking
  <2>3. Asking(d) => Covered(d, cursor[d])'
    BY <1>1, <1>4 DEF Advancing, Covered
  <2>4. phase[d] = "collected" => Covered(d, request[d].end)'
    BY <1>1, <1>4 DEF Advancing, Covered
  <2>. QED  BY <2>1, <2>2, <2>3, <2>4 DEF Advancing
<1>6. Answered(d)'
  <2>1. ChunkEnd(d)' = ChunkEnd(d) /\ ChunkEnd(d) \in Int
    BY <1>1, RequestRange, CollectorAssumption DEF ChunkEnd, End, Smaller, Time
  <2>2. \A k \in cursor[d]..(ChunkEnd(d) - 1) : k \in Int
    BY <1>1 DEF Time
  <2>3. \A k \in cursor[d]..(request[d].end - 1) : k \in Int
    BY <1>1 DEF Time
  <2>4. \A k : Rate(k)' = Rate(k)
    BY DEF Rate
  <2>. QED  BY <1>2, <2>1, <2>2, <2>3, <2>4 DEF Answered
<1>7. \A o : Stored(o) \subseteq Stored(o)'
  BY DEF Stored
<1>8. Handed(d)'
  BY <1>1, <1>2, <1>7 DEF Handed, Time
<1>9. Filled(d)'
  BY <1>1, <1>2 DEF Filled, Time
<1>10. Traced(d)'
  BY ArchivedStays DEF Traced
<1>. QED  BY <1>5, <1>6, <1>8, <1>9, <1>10

(* Time, the archive and the rows only grow.                               *)
LEMMA StepGrows ==
    ASSUME CollectorTypeOK, [MarketNext]_marketVars
    PROVE  Growing
<1>. USE DEF CollectorTypeOK, Growing, exchange, collectorVars, ingestionVars
<1>1. CASE (Tick \/ Revise) /\ UNCHANGED ingestionVars
  BY <1>1, CollectorAssumption DEF Tick, Revise, Time
<1>2. ASSUME NEW c \in Calls, Collect(c), UNCHANGED ingestionVars PROVE Growing
  <2>1. CASE Start(c) \/ Send(c) \/ Lose(c)
    BY <1>2, <2>1, CollectorAssumption DEF Start, Send, Lose, Time
  <2>2. CASE ReceiveCandles(c) \/ ReceiveFunding(c)
    <3>1. now' = now /\ request' = request /\ archive \subseteq archive'
      BY <2>2 DEF ReceiveCandles, ReceiveFunding, Archive
    <3>. QED  BY <1>2, <3>1, CollectorAssumption DEF Time
  <2>. QED  BY <1>2, <2>1, <2>2 DEF Collect
<1>3. ASSUME NEW c \in Calls, HandOver(c) \/ ReportFailure(c) PROVE Growing
  BY <1>3, CollectorAssumption DEF HandOver, ReportFailure, StartRun, RecordFailedRun, Over, Time
<1>4. ASSUME NEW c \in Calls, Ingest(c), UNCHANGED collectorVars PROVE Growing
  <2>1. stored \subseteq stored'
    BY <1>4 DEF Ingest, Gate, Compare, Insert, Commit, Finish, Fail, Close, Die
  <2>. QED  BY <1>4, <2>1, CollectorAssumption DEF Time
<1>5. CASE UNCHANGED marketVars
  BY <1>5, CollectorAssumption DEF marketVars, Time
<1>. QED  BY <1>1, <1>2, <1>3, <1>4, <1>5 DEF MarketNext

(* A step of one call leaves the others at rest. *)
LEMMA OthersRest ==
    ASSUME CollectorTypeOK, IngestionTypeOK, NEW c \in Calls, NEW d \in Calls, d # c,
           \/ Collect(c) /\ UNCHANGED ingestionVars
           \/ HandOver(c) \/ ReportFailure(c)
           \/ Ingest(c) /\ UNCHANGED collectorVars
    PROVE  Resting(d)
<1>. USE DEF CollectorTypeOK, IngestionTypeOK, Resting, exchange, collectorVars, ingestionVars, To
<1>1. CASE Collect(c) /\ UNCHANGED ingestionVars
  <2>1. CASE Start(c) \/ Send(c) \/ Lose(c)
    BY <1>1, <2>1 DEF Start, Send, Lose
  <2>2. CASE ReceiveCandles(c)
    BY <1>1, <2>2 DEF ReceiveCandles, Proceed
  <2>3. CASE ReceiveFunding(c)
    BY <1>1, <2>3 DEF ReceiveFunding, Proceed
  <2>. QED  BY <1>1, <2>1, <2>2, <2>3 DEF Collect
<1>2. CASE HandOver(c)
  BY <1>2, MarketAssumption DEF HandOver, StartRun, Over, Goto
<1>3. CASE ReportFailure(c)
  BY <1>3, MarketAssumption DEF ReportFailure, RecordFailedRun, Over, Goto
<1>4. CASE Ingest(c) /\ UNCHANGED collectorVars
  BY <1>4, MarketAssumption DEF Ingest, Gate, Compare, Insert, Commit, Finish, Fail, Close, Leave,
     Die, Goto
<1>. QED  BY <1>1, <1>2, <1>3, <1>4

-----------------------------------------------------------------------------
(* The call that acts.  Its part of the type invariant: what it gathered is *)
(* in order.                                                               *)
Ordered(c) ==
    \A r \in gathered[c] :
        /\ request[c].start <= r.slot /\ r.slot < request[c].end
        /\ Asking(c) => r.slot < cursor[c]
        /\ \A s \in gathered[c] : r.slot = s.slot => r = s

Typed ==
    /\ now \in Time /\ revised \subseteq Time
    /\ request \in [Calls -> Requests] /\ began \in [Calls -> Time]
    /\ phase \in [Calls -> {"start", "send", "wait", "collected", "failed", "over"}]
    /\ cursor \in [Calls -> Time]
    /\ answer \in [Calls -> (SUBSET Rows) \cup {NoAnswer}]
    /\ seen \in [Calls -> SUBSET Rows] /\ gathered \in [Calls -> SUBSET Rows]
    /\ archive \subseteq [call : Calls, time : Time, rows : SUBSET Rows]

LEMMA TypeParts == CollectorTypeOK <=> Typed /\ \A c \in Calls : Ordered(c)
BY DEF CollectorTypeOK, Typed, Ordered, Asking

(* While a call collects it has no run, so that nothing is asked of one.   *)
LEMMA NoRunYet ==
    ASSUME MarketInv, NEW c \in Calls, phase[c] # "over"
    PROVE  step[c] = "idle" /\ runs[c] = "none"
BY MarketAssumption DEF MarketInv, CallSound, Handed, IInv, Progress

LEMMA CollectingHasNoRun ==
    ASSUME MarketInv, NEW c \in Calls, phase[c] # "over", UNCHANGED ingestionVars
    PROVE  Handed(c)' /\ Filled(c)'
BY NoRunYet DEF Handed, Filled, ingestionVars

LEMMA StartSound ==
    ASSUME MarketInv, NEW c \in Calls, Start(c), UNCHANGED ingestionVars
    PROVE  Typed' /\ Ordered(c)' /\ CallSound(c)'
<1>. USE DEF Start, To, exchange
<1>1. Typed /\ CallSound(c) /\ gathered[c] = {} /\ seen[c] = {} /\ c \in DOMAIN phase
  BY TypeParts DEF MarketInv, CallSound, Advancing, Typed
<1>2. PICK a \in Int, e \in Int, n \in Int, m \in Int, x \in Int :
        /\ a = request[c].start /\ e = request[c].end /\ n = now /\ m = MaxTime /\ x = cursor'[c]
        /\ 0 <= a /\ a < e /\ e <= m /\ 0 <= n /\ n <= m /\ a <= x /\ x < e
        /\ request[c].dataset = "candles" => x = a \/ x = e - Retention
        /\ request[c].dataset # "candles" => x = a
  BY <1>1, RequestRange, CollectorAssumption DEF MarketInv, Typed, Larger, Time
<1>3. x \in Time /\ began'[c] = now /\ phase'[c] = "send"
  BY <1>1, <1>2 DEF Typed, Time
<1>4. Typed'
  <2>1. cursor' = [cursor EXCEPT ![c] = x]
    BY <1>1, <1>2 DEF Typed
  <2>. QED  BY <1>1, <1>3, <2>1 DEF Typed
<1>5. Ordered(c)' /\ gathered'[c] = {} /\ seen'[c] = {}
  BY <1>1 DEF Ordered
<1>6. \A k \in a..(x - 1) : ~Owed(c, k)'
  <2>. SUFFICES ASSUME NEW k \in a..(x - 1) PROVE ~Owed(c, k)'
    OBVIOUS
  <2>1. x = e - Retention /\ request[c].dataset = "candles"
    BY <1>2
  <2>2. ~(k >= request[c].end - Retention)
    BY <1>2, <2>1
  <2>. QED  BY <2>1, <2>2 DEF Owed
<1>7. Advancing(c)'
  BY <1>2, <1>3, <1>5, <1>6 DEF Advancing, Covered, Asking
<1>8. Answered(c)'
  BY <1>3 DEF Answered
<1>9. Traced(c)'
  <2>1. \A o \in batch[c] : Archived(c, o.dataset, o)
    BY <1>1 DEF CallSound, Traced
  <2>. QED  BY <1>5, <2>1 DEF Traced, Archived, ingestionVars
<1>. QED  BY <1>4, <1>5, <1>7, <1>8, <1>9, CollectingHasNoRun DEF CallSound

(* An answer about candles shows all that is owed of the chunk. *)
LEMMA CandlesShown ==
    ASSUME MarketInv, NEW c \in Calls, Asking(c), request[c].dataset = "candles",
           NEW rows \in CandleAnswers(c)
    PROVE  /\ rows \subseteq Rows
           /\ \A r, s \in rows : r.slot = s.slot => r = s
           /\ \A k \in cursor[c]..(ChunkEnd(c) - 1) : Owed(c, k) => \E r \in rows : r.slot = k
<1>. DEFINE inside == {k \in cursor[c]..(ChunkEnd(c) - 1) : Held(k)}
            beside == {k \in {cursor[c] - 1, ChunkEnd(c)} : Held(k)}
<1>1. PICK extra \in SUBSET beside : rows = {Candle(k) : k \in inside \cup extra}
  BY DEF CandleAnswers
<1>2. Typed /\ Advancing(c) /\ c \in DOMAIN cursor
  BY TypeParts DEF MarketInv, CallSound, Typed
<1>3. /\ now \in Time /\ cursor[c] \in Time /\ ChunkEnd(c) \in Time
      /\ began[c] \in Time /\ began[c] <= now
  BY <1>2, ChunkRange DEF MarketInv, Typed, Advancing
<1>4. \A k : Candle(k).slot = k /\ Candle(k).value \in Contents
  BY DEF Candle, Contents
<1>5. \A k : Held(k) => k \in Time /\ Candle(k) \in Rows
  <2>. SUFFICES ASSUME NEW k, Held(k) PROVE k \in Time /\ Candle(k) \in Rows
    OBVIOUS
  <2>1. k \in Time
    BY <1>3, CollectorAssumption DEF Held, Time
  <2>. QED  BY <2>1 DEF Candle, Rows, Contents
<1>6. rows \subseteq Rows
  BY <1>1, <1>5
<1>7. \A r, s \in rows : r.slot = s.slot => r = s
  BY <1>1, <1>4
<1>8. ASSUME NEW k \in cursor[c]..(ChunkEnd(c) - 1), Owed(c, k) PROVE \E r \in rows : r.slot = k
  <2>1. Held(k)
    BY <1>3, <1>8 DEF Held, Owed, Time
  <2>. QED  BY <1>1, <1>4, <2>1
<1>. QED  BY <1>6, <1>7, <1>8

(* A page of funding rates is one run of slots. *)
LEMMA PageShown ==
    ASSUME MarketInv, NEW c \in Calls, Asking(c)
    PROVE  /\ FundingPage(c) \subseteq Rows
           /\ \A r, s \in FundingPage(c) : r.slot = s.slot => r = s
           /\ \E m \in Time :
                 /\ m < request[c].end /\ m < cursor[c] + PageRows
                 /\ FundingPage(c) = {Rate(k) : k \in cursor[c]..m}
                 /\ \A k \in cursor[c]..(request[c].end - 1) :
                       Owed(c, k) => k <= m \/ m = cursor[c] + PageRows - 1
<1>1. Typed /\ Advancing(c) /\ c \in DOMAIN cursor
  BY TypeParts DEF MarketInv, CallSound, Typed
<1>2. PICK n \in Int, x \in Int, e \in Int, t \in Int, b \in Int :
        /\ n = now /\ x = cursor[c] /\ e = request[c].end /\ t = MaxTime /\ b = began[c]
        /\ 0 <= n /\ n <= t /\ 0 <= x /\ x < e /\ e <= t /\ b <= n
  BY <1>1, RequestRange, CollectorAssumption DEF MarketInv, Typed, Advancing, Time
<1>3. PICK m \in Int :
        /\ m = n \/ m = e - 1 \/ m = x + PageRows - 1
        /\ m <= n /\ m <= e - 1 /\ m <= x + PageRows - 1
  BY <1>2, CollectorAssumption
<1>4. m \in Time /\ m < e /\ m < x + PageRows
  BY <1>2, <1>3, CollectorAssumption DEF Time
<1>5. {l \in x..(e - 1) : l <= n /\ l < x + PageRows} = x..m
  BY <1>2, <1>3, CollectorAssumption
<1>6. FundingPage(c) = {Rate(k) : k \in x..m}
  BY <1>2, <1>5 DEF FundingPage, End
<1>7. \A k : Rate(k).slot = k /\ (k \in Time => Rate(k) \in Rows)
  BY DEF Rate, Rows, Contents
<1>8. x..m \subseteq Time
  BY <1>2, <1>4 DEF Time
<1>9. FundingPage(c) \subseteq Rows /\ \A r, s \in FundingPage(c) : r.slot = s.slot => r = s
  BY <1>6, <1>7, <1>8
<1>10. ASSUME NEW k \in x..(e - 1), Owed(c, k) PROVE k <= m \/ m = x + PageRows - 1
  <2>1. k < n
    BY <1>2, <1>10 DEF Owed
  <2>. QED  BY <1>2, <1>3, <2>1, CollectorAssumption
<1>. QED  BY <1>2, <1>4, <1>6, <1>9, <1>10

(* What is said of a call apart from its next answer. *)
LEMMA AskingOn ==
    ASSUME MarketInv, NEW c \in Calls, Asking(c), phase'[c] \in {"send", "wait", "failed"},
           UNCHANGED <<exchange, request, began, cursor, seen, gathered, archive>>,
           UNCHANGED ingestionVars
    PROVE  Ordered(c)' /\ Advancing(c)' /\ Traced(c)' /\ Handed(c)' /\ Filled(c)'
<1>. USE DEF exchange
<1>1. Ordered(c) /\ Advancing(c) /\ Traced(c)
  BY TypeParts DEF MarketInv, CallSound
<1>2. phase[c] # "over" /\ phase'[c] # "start" /\ phase'[c] # "collected"
  BY DEF Asking
<1>3. Ordered(c)' /\ Traced(c)'
  BY <1>1 DEF Ordered, Traced, Archived, ingestionVars
<1>4. Covered(c, cursor[c])'
  BY <1>1 DEF Advancing, Covered, Owed
<1>5. Advancing(c)'
  BY <1>1, <1>2, <1>4 DEF Advancing
<1>. QED  BY <1>2, <1>3, <1>5, CollectingHasNoRun

LEMMA SendSound ==
    ASSUME MarketInv, NEW c \in Calls, Send(c), UNCHANGED ingestionVars
    PROVE  Typed' /\ Ordered(c)' /\ CallSound(c)'
<1>. USE DEF Send, To, exchange
<1>1. Typed /\ Asking(c) /\ request[c].dataset \in {"candles", "funding"}
  BY TypeParts, RequestRange DEF MarketInv, Asking
<1>2. PICK rows \in IF request[c].dataset = "candles" THEN CandleAnswers(c) ELSE {FundingPage(c)} :
        answer' = [answer EXCEPT ![c] = rows]
  OBVIOUS
<1>3. answer'[c] = rows /\ phase'[c] = "wait"
  BY <1>1, <1>2 DEF Typed
<1>4. ChunkEnd(c)' = ChunkEnd(c) /\ \A k : Rate(k)' = Rate(k) /\ (Owed(c, k)' <=> Owed(c, k))
  BY DEF ChunkEnd, End, Rate, Owed
<1>5. CASE request[c].dataset = "candles"
  <2>1. rows \in CandleAnswers(c)
    BY <1>2, <1>5
  <2>2. /\ rows \subseteq Rows /\ \A r, s \in rows : r.slot = s.slot => r = s
        /\ \A k \in cursor[c]..(ChunkEnd(c) - 1) : Owed(c, k) => \E r \in rows : r.slot = k
    BY <1>1, <1>5, <2>1, CandlesShown
  <2>3. Answered(c)'
    BY <1>3, <1>4, <1>5, <2>2 DEF Answered
  <2>4. Typed'
    BY <1>1, <1>2, <2>2 DEF Typed
  <2>. QED  BY <1>1, <1>3, <2>3, <2>4, AskingOn DEF CallSound
<1>6. CASE request[c].dataset = "funding"
  <2>1. rows = FundingPage(c)
    BY <1>2, <1>6
  <2>2. /\ rows \subseteq Rows /\ \A r, s \in rows : r.slot = s.slot => r = s
        /\ \E m \in Time :
              /\ m < request[c].end /\ m < cursor[c] + PageRows
              /\ rows = {Rate(k) : k \in cursor[c]..m}
              /\ \A k \in cursor[c]..(request[c].end - 1) :
                    Owed(c, k) => k <= m \/ m = cursor[c] + PageRows - 1
    BY <1>1, <2>1, PageShown
  <2>3. Answered(c)'
    BY <1>3, <1>4, <1>6, <2>2 DEF Answered
  <2>4. Typed'
    BY <1>1, <1>2, <2>2 DEF Typed
  <2>. QED  BY <1>1, <1>3, <2>3, <2>4, AskingOn DEF CallSound
<1>. QED  BY <1>1, <1>5, <1>6

LEMMA LoseSound ==
    ASSUME MarketInv, NEW c \in Calls, Lose(c), UNCHANGED ingestionVars
    PROVE  Typed' /\ Ordered(c)' /\ CallSound(c)'
<1>. USE DEF Lose, To, exchange
<1>1. Typed /\ Asking(c)
  BY TypeParts DEF MarketInv, Asking
<1>2. Typed' /\ phase'[c] \in {"send", "failed"}
  BY <1>1 DEF Typed
<1>3. Answered(c)'
  BY <1>2 DEF Answered
<1>. QED  BY <1>1, <1>2, <1>3, AskingOn DEF CallSound

LEMMA CandlesSound ==
    ASSUME MarketInv, NEW c \in Calls, ReceiveCandles(c), UNCHANGED ingestionVars
    PROVE  Typed' /\ Ordered(c)' /\ CallSound(c)'
<1>. DEFINE understood == ~Contradicted(c) /\ \A r \in Fresh(c) : InChunk(c, r)
            taken == {r \in Fresh(c) : Closed(r)}
            received == [call |-> c, time |-> now, rows |-> answer[c]]
<1>0. PICK x, y : x = cursor[c] /\ y = ChunkEnd(c)
  OBVIOUS
<1>1. /\ phase[c] = "wait" /\ request[c].dataset = "candles"
      /\ archive' = archive \cup {received} /\ answer' = [answer EXCEPT ![c] = NoAnswer]
      /\ UNCHANGED <<now, revised, request, began>>
      /\ \/ /\ understood
            /\ seen' = [seen EXCEPT ![c] = @ \cup answer[c]]
            /\ gathered' = [gathered EXCEPT ![c] = @ \cup taken]
            /\ cursor' = [cursor EXCEPT ![c] = y]
            /\ phase' = [phase EXCEPT ![c] = IF y < End(c) THEN "send" ELSE "collected"]
         \/ phase' = [phase EXCEPT ![c] = "failed"] /\ UNCHANGED <<seen, gathered, cursor>>
  BY <1>0 DEF ReceiveCandles, Archive, Proceed, To, exchange
<1>2. /\ Typed /\ Ordered(c) /\ Advancing(c) /\ Answered(c) /\ Traced(c) /\ Asking(c)
      /\ CollectorTypeOK
  BY <1>1, TypeParts DEF MarketInv, CallSound, Asking
<1>3. /\ answer[c] \subseteq Rows /\ \A r, s \in answer[c] : r.slot = s.slot => r = s
      /\ \A k \in x..(y - 1) : Owed(c, k) => \E r \in answer[c] : r.slot = k
  BY <1>0, <1>1, <1>2 DEF Answered
<1>4. received \in [call : Calls, time : Time, rows : SUBSET Rows]
  BY <1>2, <1>3 DEF Typed
<1>5. /\ x \in Int /\ y \in Int /\ x < y /\ y <= request[c].end /\ y \in Time
      /\ request[c].start \in Int /\ request[c].end \in Int /\ request[c].start <= x
      /\ now \in Int /\ began[c] \in Int /\ began[c] <= now /\ End(c) = request[c].end
  BY <1>0, <1>2, ChunkRange, RequestRange DEF Advancing, Typed, Time
<1>6. Handed(c)' /\ Filled(c)'
  BY <1>1, CollectingHasNoRun
<1>7. \A r \in Rows : r.slot \in Int
  BY DEF Rows, Time
<1>8. \A r \in gathered[c] \cup taken : Archived(c, "candles", r)'
  <2>1. \A r \in gathered[c] : Archived(c, "candles", r)'
    BY <1>1, <1>2 DEF Traced, Archived
  <2>2. ASSUME NEW r \in taken PROVE Archived(c, "candles", r)'
    <3>1. r \in answer[c] /\ r \in Rows /\ r.slot + 1 <= now
      BY <1>3 DEF Fresh, Closed
    <3>2. [slot |-> r.slot, value |-> r.value] = r
      BY <3>1 DEF Rows
    <3>3. r.slot < received.time
      BY <1>5, <1>7, <3>1
    <3>. QED  BY <1>1, <3>1, <3>2, <3>3 DEF Archived
  <2>. QED  BY <2>1, <2>2
<1>9. \A o \in batch[c] : Archived(c, o.dataset, o)'
  BY <1>1, <1>2 DEF Traced, Archived
<1>10. \A k : Owed(c, k)' <=> Owed(c, k)
  BY <1>1 DEF Owed
<1>11. CASE /\ phase' = [phase EXCEPT ![c] = "failed"] /\ UNCHANGED <<seen, gathered, cursor>>
  <2>1. Typed' /\ phase'[c] = "failed"
    BY <1>1, <1>2, <1>4, <1>11 DEF Typed
  <2>2. Ordered(c)'
    BY <1>1, <1>2, <1>11, <2>1 DEF Ordered, Asking
  <2>3. Advancing(c)' /\ Answered(c)'
    BY <1>1, <1>5, <2>1 DEF Advancing, Answered, Asking
  <2>4. Traced(c)'
    BY <1>1, <1>8, <1>9, <1>11 DEF Traced, ingestionVars
  <2>. QED  BY <1>6, <2>1, <2>2, <2>3, <2>4 DEF CallSound
<1>12. CASE /\ understood
            /\ seen' = [seen EXCEPT ![c] = @ \cup answer[c]]
            /\ gathered' = [gathered EXCEPT ![c] = @ \cup taken]
            /\ cursor' = [cursor EXCEPT ![c] = y]
            /\ phase' = [phase EXCEPT ![c] = IF y < End(c) THEN "send" ELSE "collected"]
  <2>1. /\ seen'[c] = seen[c] \cup answer[c] /\ gathered'[c] = gathered[c] \cup taken
        /\ cursor'[c] = y /\ phase'[c] = IF y < End(c) THEN "send" ELSE "collected"
    BY <1>2, <1>12 DEF Typed
  <2>2. taken \subseteq answer[c]
    BY DEF Fresh
  <2>3. Typed'
    BY <1>1, <1>2, <1>3, <1>4, <1>5, <1>12, <2>2 DEF Typed
  <2>4. \A r \in taken : x <= r.slot /\ r.slot < y
    BY <1>0, <1>12 DEF InChunk
  <2>5. \A r \in seen[c] \cup gathered[c] : r \in Rows /\ r.slot < x
    BY <1>0, <1>2 DEF Advancing, Ordered, Typed
  <2>6. Ordered(c)'
    <3>1. ASSUME NEW r \in gathered[c] \cup taken
          PROVE  request[c].start <= r.slot /\ r.slot < request[c].end /\ r.slot < y
      <4>1. r.slot \in Int
        BY <1>3, <1>7, <2>2, <2>5
      <4>2. request[c].start <= r.slot /\ r.slot < y
        BY <1>2, <1>5, <2>4, <2>5, <4>1 DEF Ordered
      <4>. QED  BY <1>5, <4>1, <4>2
    <3>2. ASSUME NEW r \in gathered[c] \cup taken, NEW s \in gathered[c] \cup taken, r.slot = s.slot
          PROVE  r = s
      <4>1. r.slot \in Int /\ s.slot \in Int
        BY <1>3, <1>7, <2>2, <2>5
      <4>2. CASE r \in taken /\ s \in taken
        BY <1>3, <2>2, <3>2, <4>2
      <4>3. CASE r \in gathered[c] /\ s \in gathered[c]
        BY <1>2, <3>2, <4>3 DEF Ordered
      <4>. QED  BY <1>5, <2>4, <2>5, <3>2, <4>1, <4>2, <4>3
    <3>. QED  BY <1>1, <2>1, <3>1, <3>2 DEF Ordered
  <2>7. ASSUME NEW k \in request[c].start..(y - 1), Owed(c, k)
        PROVE  \E r \in gathered[c] \cup taken : r.slot = k
    <3>1. CASE k < x
      <4>1. k \in request[c].start..(x - 1)
        BY <1>5, <3>1
      <4>. QED  BY <1>0, <1>2, <2>7, <4>1 DEF Advancing, Covered
    <3>2. CASE x <= k
      <4>1. k \in x..(y - 1) /\ k + 1 <= now
        BY <1>5, <2>7, <3>2 DEF Owed
      <4>2. PICK r \in answer[c] : r.slot = k
        BY <1>3, <2>7, <4>1
      <4>3. \A s \in seen[c] : s.slot # r.slot
        BY <1>5, <1>7, <2>5, <3>2, <4>2
      <4>4. r \in taken
        BY <4>1, <4>2, <4>3 DEF Fresh, Closed
      <4>. QED  BY <4>2, <4>4
    <3>. QED  BY <1>5, <3>1, <3>2
  <2>8. Covered(c, y)'
    BY <1>1, <1>10, <2>1, <2>7 DEF Covered
  <2>9. \A r \in seen'[c] : r.slot < y
    <3>. SUFFICES ASSUME NEW r \in seen[c] \cup answer[c] PROVE r.slot < y
      BY <2>1
    <3>1. CASE r \in seen[c]
      BY <1>5, <1>7, <2>5, <3>1
    <3>2. CASE r \in Fresh(c)
      BY <1>0, <1>12, <3>2 DEF InChunk
    <3>3. CASE r \in answer[c] \ Fresh(c)
      <4>1. PICK s \in seen[c] : s.slot = r.slot
        BY <3>3 DEF Fresh
      <4>. QED  BY <1>5, <1>7, <2>5, <4>1
    <3>. QED  BY <3>1, <3>2, <3>3
  <2>10. Advancing(c)'
    <3>1. CASE y < End(c)
      BY <1>1, <1>5, <2>1, <2>8, <2>9, <3>1 DEF Advancing, Asking
    <3>2. CASE y = request[c].end
      BY <1>1, <1>5, <2>1, <2>8, <3>2 DEF Advancing, Asking
    <3>. QED  BY <1>5, <3>1, <3>2
  <2>11. Answered(c)'
    BY <2>1 DEF Answered
  <2>12. Traced(c)'
    BY <1>1, <1>8, <1>9, <2>1 DEF Traced, ingestionVars
  <2>. QED  BY <1>6, <2>3, <2>6, <2>10, <2>11, <2>12 DEF CallSound
<1>. QED  BY <1>1, <1>11, <1>12

(* A run of slots has as many rates as slots. *)
LEMMA PageSize ==
    ASSUME NEW x \in Int, NEW m \in Int
    PROVE  Cardinality({Rate(k) : k \in x..m}) = IF x > m THEN 0 ELSE m - x + 1
<1>. DEFINE rate == [k \in x..m |-> Rate(k)]
<1>1. rate \in Bijection(x..m, {Rate(k) : k \in x..m})
  BY DEF Rate, Bijection, Injection, Surjection, IsInjective
<1>2. IsFiniteSet(x..m) /\ Cardinality(x..m) = IF x > m THEN 0 ELSE m - x + 1
  BY FS_Interval
<1>3. ExistsBijection(x..m, {Rate(k) : k \in x..m})
  BY <1>1 DEF ExistsBijection
<1>. QED  BY <1>2, <1>3, FS_Bijection

LEMMA FundingSound ==
    ASSUME MarketInv, NEW c \in Calls, ReceiveFunding(c), UNCHANGED ingestionVars
    PROVE  Typed' /\ Ordered(c)' /\ CallSound(c)'
<1>. DEFINE received == [call |-> c, time |-> now, rows |-> answer[c]]
<1>1. /\ phase[c] = "wait" /\ request[c].dataset = "funding"
      /\ archive' = archive \cup {received} /\ answer' = [answer EXCEPT ![c] = NoAnswer]
      /\ gathered' = [gathered EXCEPT ![c] = @ \cup answer[c]]
      /\ UNCHANGED <<now, revised, request, began, seen>>
  BY DEF ReceiveFunding, Archive, exchange
<1>2. /\ Typed /\ Ordered(c) /\ Advancing(c) /\ Answered(c) /\ Traced(c) /\ Asking(c)
      /\ CollectorTypeOK
  BY <1>1, TypeParts DEF MarketInv, CallSound, Asking
<1>3. PICK x \in Time, e \in Time, m \in Time :
        /\ x = cursor[c] /\ e = request[c].end
        /\ m < e /\ m < x + PageRows
        /\ answer[c] = {Rate(k) : k \in x..m}
        /\ \A k \in x..(e - 1) : Owed(c, k) => k <= m \/ m = x + PageRows - 1
  <2>1. cursor[c] \in Time /\ request[c].end \in Time
    BY <1>2, RequestRange DEF Typed
  <2>. QED  BY <1>1, <1>2, <2>1 DEF Answered
<1>4. /\ x \in Int /\ e \in Int /\ m \in Int /\ m + 1 <= e /\ x < e /\ e \in Time /\ 0 <= x
      /\ m + 1 \in Time /\ PageRows \in Int /\ PageRows > 0 /\ m + 1 <= x + PageRows
      /\ request[c].start \in Int /\ request[c].start <= x /\ End(c) = e
      /\ now \in Int /\ began[c] \in Int /\ began[c] <= now
  BY <1>2, <1>3, RequestRange, CollectorAssumption DEF Advancing, Typed, Time
<1>5. \A r \in answer[c] : r.slot \in x..m /\ r = Rate(r.slot) /\ r \in Rows
  BY <1>1, <1>2, <1>3 DEF Rate, Answered
<1>6. \A k \in x..m : \E r \in answer[c] : r.slot = k
  <2>1. \A k \in x..m : Rate(k) \in answer[c]
    BY <1>3
  <2>2. \A k : Rate(k).slot = k
    BY DEF Rate
  <2>. QED  BY <2>1, <2>2
<1>7. received \in [call : Calls, time : Time, rows : SUBSET Rows]
  BY <1>2, <1>5 DEF Typed
<1>8. Handed(c)' /\ Filled(c)'
  BY <1>1, CollectingHasNoRun
<1>9. \A r \in gathered[c] \cup answer[c] : Archived(c, "funding", r)'
  <2>1. \A r \in gathered[c] : Archived(c, "funding", r)'
    BY <1>1, <1>2 DEF Traced, Archived
  <2>2. ASSUME NEW r \in answer[c] PROVE Archived(c, "funding", r)'
    <3>1. [slot |-> r.slot, value |-> r.value] = r
      BY <1>5 DEF Rate
    <3>2. received \in archive' /\ received.call = c /\ received.rows = answer[c]
      BY <1>1
    <3>. QED  BY <3>1, <3>2 DEF Archived
  <2>. QED  BY <2>1, <2>2
<1>10. \A o \in batch[c] : Archived(c, o.dataset, o)'
  BY <1>1, <1>2 DEF Traced, Archived
<1>11. gathered'[c] = gathered[c] \cup answer[c] /\ answer'[c] = NoAnswer
  BY <1>1, <1>2 DEF Typed
<1>12. Traced(c)'
  BY <1>1, <1>9, <1>10, <1>11 DEF Traced, ingestionVars
<1>13. \A r \in gathered[c] : r.slot \in Int /\ r.slot < x
  BY <1>2, <1>3 DEF Ordered, Typed, Rows, Time
<1>14. ASSUME NEW r \in gathered[c] \cup answer[c]
       PROVE  r.slot \in Int /\ request[c].start <= r.slot /\ r.slot < e /\ (r.slot < x \/ r.slot <= m)
  <2>1. CASE r \in gathered[c]
    BY <1>2, <1>3, <1>13, <2>1 DEF Ordered
  <2>2. CASE r \in answer[c]
    BY <1>4, <1>5, <2>2
  <2>. QED  BY <2>1, <2>2
<1>15. ASSUME NEW r \in gathered[c] \cup answer[c], NEW s \in gathered[c] \cup answer[c],
              r.slot = s.slot
       PROVE  r = s
  <2>1. CASE r \in gathered[c] /\ s \in gathered[c]
    BY <1>2, <1>15, <2>1 DEF Ordered
  <2>2. CASE r \in answer[c] /\ s \in answer[c]
    BY <1>5, <1>15, <2>2
  <2>. QED  BY <1>4, <1>5, <1>13, <1>15, <2>1, <2>2
<1>16. \A k \in request[c].start..(x - 1) : Owed(c, k) => \E r \in gathered[c] : r.slot = k
  BY <1>2, <1>3 DEF Advancing, Covered
<1>17. \A k : Owed(c, k)' <=> Owed(c, k)
  BY <1>1 DEF Owed
<1>18. PICK size \in Int :
         size = Cardinality(answer[c]) /\ size = IF x > m THEN 0 ELSE m - x + 1
  <2>1. Cardinality({Rate(k) : k \in x..m}) = IF x > m THEN 0 ELSE m - x + 1
    BY <1>4, PageSize
  <2>. DEFINE n == IF x > m THEN 0 ELSE m - x + 1
  <2>2. n \in Int
    BY <1>4
  <2>. HIDE DEF n
  <2>3. n = Cardinality(answer[c])
    BY <1>3, <2>1 DEF n
  <2>4. n = IF x > m THEN 0 ELSE m - x + 1
    BY DEF n
  <2>. QED  BY <2>2, <2>3, <2>4
<1>19. CASE size < PageRows
  <2>1. cursor' = [cursor EXCEPT ![c] = cursor[c]] /\ phase' = [phase EXCEPT ![c] = "collected"]
    BY <1>18, <1>19 DEF ReceiveFunding, Proceed, To
  <2>2. cursor' = cursor /\ phase'[c] = "collected"
    BY <1>2, <2>1 DEF Typed
  <2>3. Typed'
    BY <1>1, <1>2, <1>5, <1>7, <2>1, <2>2 DEF Typed
  <2>4. Ordered(c)'
    BY <1>1, <1>3, <1>11, <1>14, <1>15, <2>2 DEF Ordered, Asking
  <2>5. m # x + PageRows - 1
    BY <1>4, <1>18, <1>19
  <2>6. ASSUME NEW k \in request[c].start..(e - 1), Owed(c, k)
        PROVE  \E r \in gathered[c] \cup answer[c] : r.slot = k
    <3>1. CASE k < x
      BY <1>4, <1>16, <2>6, <3>1
    <3>2. CASE x <= k
      BY <1>3, <1>4, <1>6, <2>5, <2>6, <3>2
    <3>. QED  BY <1>4, <3>1, <3>2
  <2>7. Covered(c, request[c].end)'
    BY <1>1, <1>3, <1>11, <1>17, <2>6 DEF Covered
  <2>8. Advancing(c)' /\ Answered(c)'
    BY <1>1, <1>4, <2>2, <2>7 DEF Advancing, Answered, Asking
  <2>. QED  BY <1>8, <1>12, <2>3, <2>4, <2>8 DEF CallSound
<1>20. CASE ~(size < PageRows)
  <2>1. m = x + PageRows - 1
    BY <1>4, <1>18, <1>20
  <2>2. m \in x..m /\ x < m + 1
    BY <1>4, <2>1
  <2>3. Newest(c) = m
    <3>1. {r.slot : r \in answer[c]} = x..m
      BY <1>5, <1>6
    <3>2. \A r \in answer[c] : r.slot <= m
      BY <1>4, <1>5
    <3>3. ASSUME NEW k \in x..m, \A r \in answer[c] : r.slot <= k PROVE k = m
      BY <1>4, <1>6, <2>2, <3>3
    <3>. QED  BY <2>2, <3>1, <3>2, <3>3 DEF Newest
  <2>4. /\ cursor' = [cursor EXCEPT ![c] = m + 1]
        /\ phase' = [phase EXCEPT ![c] = IF m + 1 < e THEN "send" ELSE "collected"]
    BY <1>4, <1>18, <1>20, <2>3 DEF ReceiveFunding, Proceed, To
  <2>5. cursor'[c] = m + 1 /\ phase'[c] = IF m + 1 < e THEN "send" ELSE "collected"
    BY <1>2, <2>4 DEF Typed
  <2>6. Typed'
    BY <1>1, <1>2, <1>4, <1>5, <1>7, <2>4 DEF Typed
  <2>7. \A r \in gathered[c] \cup answer[c] : r.slot < m + 1
    BY <1>4, <1>14, <2>2
  <2>8. Ordered(c)'
    BY <1>1, <1>3, <1>11, <1>14, <1>15, <2>5, <2>7 DEF Ordered, Asking
  <2>9. ASSUME NEW k \in request[c].start..((m + 1) - 1), Owed(c, k)
        PROVE  \E r \in gathered[c] \cup answer[c] : r.slot = k
    <3>1. CASE k < x
      BY <1>4, <1>16, <2>9, <3>1
    <3>2. CASE x <= k
      BY <1>4, <1>6, <3>2
    <3>. QED  BY <1>4, <3>1, <3>2
  <2>10. Covered(c, m + 1)'
    BY <1>1, <1>11, <1>17, <2>9 DEF Covered
  <2>11. \A r \in seen'[c] : r.slot < m + 1
    <3>1. \A r \in seen[c] : r.slot \in Int /\ r.slot < x
      BY <1>2, <1>3 DEF Advancing, Typed, Rows, Time
    <3>. QED  BY <1>1, <1>4, <2>2, <3>1
  <2>12. Advancing(c)'
    <3>1. CASE m + 1 < e
      BY <1>1, <1>3, <1>4, <2>2, <2>5, <2>10, <2>11, <3>1 DEF Advancing, Asking
    <3>2. CASE m + 1 = e
      BY <1>1, <1>3, <1>4, <2>5, <2>10, <3>2 DEF Advancing, Asking
    <3>. QED  BY <1>4, <3>1, <3>2
  <2>13. Answered(c)'
    BY <2>5 DEF Answered
  <2>. QED  BY <1>8, <1>12, <2>6, <2>8, <2>12, <2>13 DEF CallSound
<1>. QED  BY <1>19, <1>20

(* What ends a collection leaves nothing of it behind. *)
LEMMA OverSound ==
    ASSUME MarketInv, NEW c \in Calls, Over(c)
    PROVE  /\ Typed' /\ Ordered(c)' /\ Advancing(c)' /\ Answered(c)'
           /\ phase'[c] = "over" /\ gathered'[c] = {}
           /\ UNCHANGED <<now, request, archive>> /\ began'[c] = began[c]
<1>. USE DEF Over, To, exchange
<1>1. Typed /\ Advancing(c)
  BY TypeParts DEF MarketInv, CallSound
<1>2. 0 \in Time
  BY CollectorAssumption DEF Time
<1>3. phase'[c] = "over" /\ gathered'[c] = {} /\ Typed'
  BY <1>1, <1>2 DEF Typed
<1>4. Ordered(c)' /\ Advancing(c)' /\ Answered(c)'
  BY <1>1, <1>3 DEF Ordered, Advancing, Answered, Asking
<1>. QED  BY <1>3, <1>4

LEMMA HandOverSound ==
    ASSUME MarketInv, NEW c \in Calls, HandOver(c)
    PROVE  Typed' /\ Ordered(c)' /\ CallSound(c)'
<1>1. phase[c] = "collected" /\ StartRun(c, Records(c)) /\ Over(c)
  BY DEF HandOver
<1>2. /\ Advancing(c) /\ Traced(c) /\ step[c] = "idle" /\ runs[c] = "none"
      /\ step \in [Calls -> Steps] /\ batch \in [Calls -> SUBSET Observation]
      /\ runs \in [Calls -> {"none", "running", "succeeded", "failed"}]
  BY <1>1, NoRunYet, MarketAssumption DEF MarketInv, CallSound, IInv, IngestionTypeOK
<1>3. \/ step'[c] = "gate" /\ batch'[c] = Records(c) /\ runs'[c] = "running"
      \/ step'[c] = "over" /\ batch'[c] = batch[c] /\ runs'[c] = "none"
  BY <1>1, <1>2 DEF StartRun, Goto
<1>4. /\ Typed' /\ Ordered(c)' /\ Advancing(c)' /\ Answered(c)'
      /\ phase'[c] = "over" /\ gathered'[c] = {}
      /\ UNCHANGED <<now, request, archive>> /\ began'[c] = began[c]
  BY <1>1, OverSound
<1>5. \A k : Owed(c, k)' <=> Owed(c, k)
  BY <1>4 DEF Owed
<1>6. \A k \in request[c].start..(request[c].end - 1) : Owed(c, k) =>
          \E o \in Records(c) : o.dataset = request[c].dataset /\ o.slot = k
  <2>. SUFFICES ASSUME NEW k \in request[c].start..(request[c].end - 1), Owed(c, k)
                PROVE  \E o \in Records(c) : o.dataset = request[c].dataset /\ o.slot = k
    OBVIOUS
  <2>1. PICK r \in gathered[c] : r.slot = k
    BY <1>1, <1>2 DEF Advancing, Covered
  <2>2. [dataset |-> request[c].dataset, slot |-> r.slot, value |-> r.value] \in Records(c)
    BY DEF Records
  <2>. QED  BY <2>1, <2>2
<1>7. Handed(c)' /\ Filled(c)'
  BY <1>3, <1>4, <1>5, <1>6 DEF Handed, Filled
<1>8. \A o \in Records(c) : Archived(c, o.dataset, o)
  BY <1>2 DEF Records, Traced, Archived
<1>9. Traced(c)'
  BY <1>2, <1>3, <1>4, <1>8 DEF Traced, Archived
<1>. QED  BY <1>4, <1>7, <1>9 DEF CallSound

LEMMA FailureSound ==
    ASSUME MarketInv, NEW c \in Calls, ReportFailure(c)
    PROVE  Typed' /\ Ordered(c)' /\ CallSound(c)'
<1>1. phase[c] = "failed" /\ Over(c) /\ (RecordFailedRun(c) \/ UNCHANGED ingestionVars)
  BY DEF ReportFailure
<1>2. /\ Traced(c) /\ step[c] = "idle" /\ runs[c] = "none"
      /\ step \in [Calls -> Steps] /\ runs \in [Calls -> {"none", "running", "succeeded", "failed"}]
  BY <1>1, NoRunYet, MarketAssumption DEF MarketInv, CallSound, IInv, IngestionTypeOK
<1>3. /\ step'[c] \in {"idle", "fail", "over"} /\ runs'[c] # "succeeded" /\ batch' = batch
  BY <1>1, <1>2 DEF RecordFailedRun, Goto, ingestionVars
<1>4. /\ Typed' /\ Ordered(c)' /\ Advancing(c)' /\ Answered(c)'
      /\ phase'[c] = "over" /\ gathered'[c] = {} /\ UNCHANGED <<now, request, archive>>
  BY <1>1, OverSound
<1>5. Handed(c)' /\ Filled(c)'
  BY <1>3, <1>4 DEF Handed, Filled
<1>6. Traced(c)'
  BY <1>2, <1>3, <1>4 DEF Traced, Archived
<1>. QED  BY <1>4, <1>5, <1>6 DEF CallSound

(* A step of a run: what it was given is stored by the time it finishes.   *)
LEMMA IngestSound ==
    ASSUME MarketInv, NEW c \in Calls, Ingest(c), UNCHANGED collectorVars
    PROVE  Typed' /\ Ordered(c)' /\ CallSound(c)'
<1>. USE DEF Goto
<1>1. Typed /\ Ordered(c) /\ Advancing(c) /\ Answered(c) /\ Handed(c) /\ Filled(c) /\ Traced(c)
  BY TypeParts DEF MarketInv, CallSound
<1>2. /\ step \in [Calls -> Steps] /\ batch \in [Calls -> SUBSET Observation]
      /\ runs \in [Calls -> {"none", "running", "succeeded", "failed"}]
  BY MarketAssumption DEF MarketInv, IInv, IngestionTypeOK
<1>3. step[c] \notin {"idle", "over"} /\ runs[c] = "running" /\ phase[c] = "over"
  <2>1. step[c] \notin {"idle", "over"}
    BY DEF Ingest, Gate, Compare, Insert, Commit, Finish, Fail, Close, Die
  <2>. QED  BY <1>1, <2>1, MarketAssumption DEF MarketInv, IInv, Progress, Handed
<1>4. Typed' /\ Ordered(c)' /\ Advancing(c)' /\ Answered(c)'
  BY <1>1 DEF Typed, Ordered, Advancing, Covered, Answered, Asking, Owed, ChunkEnd, End, Rate,
     collectorVars, exchange
<1>5. /\ \A k : Owed(c, k)' <=> Owed(c, k)
      /\ phase'[c] = "over" /\ request' = request /\ archive' = archive /\ gathered' = gathered
  BY <1>3 DEF Owed, collectorVars, exchange
<1>6. \A data, r : Archived(c, data, r)' <=> Archived(c, data, r)
  BY <1>5 DEF Archived
<1>. DEFINE asked == request[c].start..(request[c].end - 1)
            Given(o, k) == o.dataset = request[c].dataset /\ o.slot = k
<1>7. CASE Gate(c) \/ Insert(c)
  <2>1. /\ step'[c] \in {"compare", "commit", "fail"} /\ batch' = batch /\ runs' = runs
        /\ step[c] \in {"gate", "insert"}
    BY <1>2, <1>7 DEF Gate, Insert
  <2>2. Handed(c)' /\ Filled(c)' /\ Traced(c)'
    BY <1>1, <1>3, <1>5, <1>6, <2>1 DEF Handed, Filled, Traced
  <2>. QED  BY <1>4, <2>2 DEF CallSound
<1>8. CASE Compare(c)
  <2>1. /\ step'[c] \in {"finish", "insert", "fail"} /\ batch' = batch /\ runs' = runs
        /\ stored' = stored /\ step[c] = "compare"
        /\ step'[c] = "finish" => New(c) = {}
    BY <1>2, <1>8 DEF Compare
  <2>2. step'[c] = "finish" => \A o \in batch'[c] : Stored(o)' # {}
    BY <2>1 DEF New, Stored
  <2>3. Handed(c)' /\ Filled(c)' /\ Traced(c)'
    BY <1>1, <1>3, <1>5, <1>6, <2>1, <2>2 DEF Handed, Filled, Traced
  <2>. QED  BY <1>4, <2>3 DEF CallSound
<1>9. CASE Commit(c)
  <2>1. /\ step'[c] \in {"finish", "fail"} /\ batch' = batch /\ runs' = runs
        /\ step[c] = "commit"
        /\ step'[c] = "finish" => stored' = stored \cup NewRows(c)
    BY <1>2, <1>9 DEF Commit
  <2>2. ASSUME step'[c] = "finish", NEW o \in batch[c] PROVE Stored(o)' # {}
    <3>1. CASE o \in New(c)
      <4>. DEFINE row == [dataset |-> o.dataset, slot |-> o.slot, value |-> o.value, run |-> c]
      <4>1. row \in stored'
        BY <2>1, <2>2, <3>1 DEF NewRows, Inserted
      <4>. QED  BY <4>1 DEF Stored
    <3>2. CASE Stored(o) # {}
      BY <2>1, <2>2, <3>2 DEF Stored
    <3>. QED  BY <3>1, <3>2 DEF New
  <2>3. Handed(c)' /\ Filled(c)' /\ Traced(c)'
    BY <1>1, <1>3, <1>5, <1>6, <2>1, <2>2 DEF Handed, Filled, Traced
  <2>. QED  BY <1>4, <2>3 DEF CallSound
<1>10. CASE Finish(c) \/ Fail(c) \/ Die(c)
  <2>1. /\ step'[c] = "over" /\ batch'[c] = {} /\ stored' = stored
        /\ runs'[c] = "succeeded" => step[c] = "finish"
    BY <1>2, <1>3, <1>10 DEF Finish, Fail, Close, Die, Leave
  <2>2. ASSUME step[c] = "finish", NEW k \in asked, Owed(c, k)
        PROVE  \E r \in stored : Given(r, k)
    <3>1. PICK o \in batch[c] : Given(o, k)
      BY <1>1, <2>2 DEF Handed
    <3>2. Stored(o) # {}
      BY <1>1, <2>2 DEF Handed
    <3>. QED  BY <3>1, <3>2 DEF Stored
  <2>3. Handed(c)' /\ Filled(c)'
    BY <1>5, <2>1, <2>2 DEF Handed, Filled
  <2>4. Traced(c)'
    BY <1>1, <1>5, <1>6, <2>1 DEF Traced
  <2>. QED  BY <1>4, <2>3, <2>4 DEF CallSound
<1>. QED  BY <1>7, <1>8, <1>9, <1>10 DEF Ingest

(* A row enters with the batch of its run, which can be found in the archive. *)
LEMMA NextReplayable ==
    ASSUME MarketInv, [MarketNext]_marketVars
    PROVE  Replayable'
<1>1. Growing
  BY StepGrows DEF MarketInv
<1>2. ASSUME NEW r \in stored' \ stored
      PROVE  \E c \in Calls : r.run = c /\ Archived(c, r.dataset, r)
  <2>1. PICK c \in Calls : Commit(c) /\ stored' = stored \cup NewRows(c)
    BY <1>2 DEF MarketNext, Ingest, Gate, Compare, Insert, Commit, Finish, Fail, Close, Die, HandOver,
       StartRun, ReportFailure, RecordFailedRun, ingestionVars, marketVars
  <2>2. PICK o \in batch[c] :
          r = [dataset |-> o.dataset, slot |-> o.slot, value |-> o.value, run |-> c]
    BY <1>2, <2>1 DEF NewRows, Inserted, New
  <2>3. Archived(c, o.dataset, o)
    BY DEF MarketInv, CallSound, Traced
  <2>. QED  BY <2>2, <2>3 DEF Archived
<1>3. \A r \in stored' : \E c \in Calls : r.run = c /\ Archived(c, r.dataset, r)
  <2>1. \A r \in stored : r.run \in Calls /\ Archived(r.run, r.dataset, r)
    BY MarketAssumption DEF MarketInv, Replayable, Archived, IInv, IngestionTypeOK, Row
  <2>. QED  BY <1>2, <2>1
<1>. QED  BY <1>1, <1>3 DEF Replayable, Archived, Growing

-----------------------------------------------------------------------------
(* MarketInv is inductive. *)

LEMMA MarketInitSound == MarketInit => MarketInv
<1>. SUFFICES ASSUME MarketInit PROVE MarketInv
  OBVIOUS
<1>. USE DEF MarketInit, CollectorInit
<1>1. IInv
  BY InitInv
<1>2. CollectorTypeOK
  <2>1. 0 \in Time
    BY CollectorAssumption DEF Time
  <2>. QED  BY <2>1 DEF CollectorTypeOK
<1>3. ASSUME NEW c \in Calls PROVE CallSound(c)
  <2>1. now = 0 /\ began[c] = 0 /\ phase[c] = "start" /\ seen[c] = {} /\ gathered[c] = {}
    OBVIOUS
  <2>2. step[c] = "idle" /\ runs[c] = "none" /\ batch[c] = {}
    BY MarketAssumption DEF IngestionInit
  <2>3. Advancing(c) /\ Answered(c)
    BY <2>1 DEF Advancing, Answered, Asking
  <2>4. Handed(c) /\ Filled(c) /\ Traced(c)
    BY <2>1, <2>2 DEF Handed, Filled, Traced
  <2>. QED  BY <2>3, <2>4 DEF CallSound
<1>4. Replayable
  BY DEF Replayable, IngestionInit
<1>. QED  BY <1>1, <1>2, <1>3, <1>4 DEF MarketInv

LEMMA MarketStepSound == MarketInv /\ [MarketNext]_marketVars => MarketInv'
<1>. SUFFICES ASSUME MarketInv, [MarketNext]_marketVars PROVE MarketInv'
  OBVIOUS
<1>1. Growing /\ CollectorTypeOK /\ IngestionTypeOK /\ \A d \in Calls : CallSound(d)
  BY StepGrows DEF MarketInv, IInv
<1>2. IInv'
  BY StepIsIngestion, StepInv DEF MarketInv
<1>3. Replayable'
  BY NextReplayable
<1>4. Typed /\ \A d \in Calls : Ordered(d)
  BY <1>1, TypeParts
<1>. SUFFICES Typed' /\ \A d \in Calls : Ordered(d)' /\ CallSound(d)'
  <2>1. CollectorTypeOK' <=> Typed' /\ \A d \in Calls : Ordered(d)'
    BY TypeParts DEF CollectorTypeOK, Typed, Ordered, Asking
  <2>. QED  BY <1>2, <1>3, <2>1 DEF MarketInv
<1>5. ASSUME NEW d \in Calls, Resting(d) PROVE Ordered(d)' /\ CallSound(d)'
  BY <1>1, <1>4, <1>5, RestingSound DEF Ordered, Asking, Resting, Growing
<1>6. CASE \/ (Tick \/ Revise) /\ UNCHANGED ingestionVars
           \/ UNCHANGED marketVars
  <2>1. \A d \in Calls : Resting(d)
    BY <1>6 DEF Tick, Revise, Resting, marketVars, collectorVars, exchange, ingestionVars
  <2>2. Typed'
    <3>1. CASE Tick
      BY <1>1, <1>4, <3>1 DEF Tick, Typed, Growing
    <3>2. CASE Revise
      <4>1. \A k \in 0..(now - 1) : k \in Time
        BY <1>4, CollectorAssumption DEF Typed, Time
      <4>. QED  BY <1>4, <3>2, <4>1 DEF Revise, Typed
    <3>3. CASE UNCHANGED collectorVars
      BY <1>4, <3>3 DEF Typed, collectorVars, exchange
    <3>. QED  BY <1>6, <3>1, <3>2, <3>3 DEF marketVars
  <2>. QED  BY <1>5, <2>1, <2>2
<1>7. ASSUME NEW c \in Calls,
             \/ Collect(c) /\ UNCHANGED ingestionVars
             \/ HandOver(c) \/ ReportFailure(c)
             \/ Ingest(c) /\ UNCHANGED collectorVars
      PROVE  Typed' /\ \A d \in Calls : Ordered(d)' /\ CallSound(d)'
  <2>1. \A d \in Calls \ {c} : Ordered(d)' /\ CallSound(d)'
    BY <1>1, <1>5, <1>7, OthersRest
  <2>2. Typed' /\ Ordered(c)' /\ CallSound(c)'
    BY <1>7, StartSound, SendSound, LoseSound, CandlesSound, FundingSound, HandOverSound, FailureSound,
       IngestSound DEF Collect
  <2>. QED  BY <2>1, <2>2
<1>. QED  BY <1>6, <1>7 DEF MarketNext

(* What is said of the collection, of the ingestion and of both together   *)
(* holds in every state.                                                   *)
THEOREM MarketInvariant == MarketSpec => []MarketInv
BY MarketInitSound, MarketStepSound, PTL DEF MarketSpec

(* Rows are collected in order, no slot twice, inside the range, whatever  *)
(* a chunk brings and whatever is lost.                                    *)
THEOREM CollectionInOrder == MarketSpec => []CollectorTypeOK
<1>1. MarketInv => CollectorTypeOK
  BY DEF MarketInv
<1>. QED  BY <1>1, MarketInvariant, PTL

(* A run that succeeded has left no hole in its range, for chunks and      *)
(* pages of any size, any retention, and any number of other calls.        *)
THEOREM RangeFilled == MarketSpec => []NoHole
<1>1. MarketInv => NoHole
  <2>. SUFFICES ASSUME MarketInv PROVE NoHole
    OBVIOUS
  <2>1. \A c \in Calls : Filled(c)
    BY DEF MarketInv, CallSound
  <2>. QED  BY <2>1 DEF NoHole, Filled, Owed
<1>. QED  BY <1>1, MarketInvariant, PTL

(* Every curated row can be found in an answer archived for its run.       *)
THEOREM ArchiveReplays == MarketSpec => []Replayable
<1>1. MarketInv => Replayable
  BY DEF MarketInv
<1>. QED  BY <1>1, MarketInvariant, PTL

(* The command line's collection hands the ingestion nothing but what it   *)
(* may be given: what is proved of the ingestion by itself holds of both.  *)
THEOREM MarketIngests == MarketSpec => IngestionSpec
<1>1. MarketInit => IngestionInit
  BY DEF MarketInit
<1>2. MarketInv /\ [MarketNext]_marketVars => [IngestionNext]_ingestionVars
  BY StepIsIngestion DEF MarketInv
<1>. QED  BY <1>1, <1>2, MarketInvariant, PTL DEF MarketSpec, IngestionSpec
=============================================================================
