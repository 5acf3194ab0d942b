--------------------------- MODULE IngestionProofs ---------------------------
(***************************************************************************)
(* The safety of ingestion, for any number of processes, slots and values: *)
(* IInv is inductive, and the promises of Ingestion follow from it.        *)
(***************************************************************************)
EXTENDS Ingestion, FiniteSetTheorems, Functions, TLAPS

(* What a call has written, by where it is and by what its run shows. *)
Unwritten == {"idle", "gate", "compare", "insert", "commit", "fail"}

Progress(c) ==
    /\ step[c] = "idle" => runs[c] = "none"
    /\ step[c] \notin {"idle", "over"} => runs[c] = "running"
    /\ step[c] \in Unwritten => RowsOf(c) = {} /\ written[c] = 0
    /\ step[c] = "finish" => Cardinality(RowsOf(c)) = written[c]

(* The slot of the first insertion is still free, since its writer has the *)
(* write lock.                                                             *)
PendingFree(c) ==
    step[c] = "commit" => \A o \in batch[c] : o.slot = pending[c] => o \in New(c)

IInv ==
    /\ IngestionTypeOK
    /\ \A c \in Writers : Batch(batch[c])
    /\ \A c \in Writers : Progress(c) /\ PendingFree(c)
    /\ OneRowPerSlot
    /\ RunsTrue

-----------------------------------------------------------------------------
LEMMA InitInv == IngestionInit => IInv
<1>. SUFFICES ASSUME IngestionInit PROVE IInv
  OBVIOUS
<1>. USE DEF IngestionInit
<1>1. IngestionTypeOK
  BY IngestionAssumption DEF IngestionTypeOK, Steps
<1>2. \A c \in Writers : Batch(batch[c])
  BY FS_EmptySet DEF Batch
<1>3. RunsTrue /\ \A c \in Writers : Progress(c) /\ PendingFree(c)
  BY DEF Progress, PendingFree, RunsTrue, RowsOf
<1>. QED
  BY <1>1, <1>2, <1>3 DEF IInv, OneRowPerSlot

(* The new rows of a batch are finitely many. *)
LEMMA NewRowsCounted ==
    ASSUME IInv, NEW c \in Writers
    PROVE  Cardinality(NewRows(c)) \in Nat
<1>1. IsFiniteSet(Inserted(c))
  BY FS_Subset DEF IInv, Batch, Inserted, New
<1>. DEFINE row == [o \in Inserted(c) |->
                     [dataset |-> o.dataset, slot |-> o.slot, value |-> o.value, run |-> c]]
<1>2. row \in Surjection(Inserted(c), NewRows(c))
  <2>1. row \in [Inserted(c) -> NewRows(c)]
    BY DEF NewRows
  <2>2. \A r \in NewRows(c) : \E o \in Inserted(c) : row[o] = r
    BY DEF NewRows
  <2>. QED  BY <2>1, <2>2 DEF Surjection
<1>3. IsFiniteSet(NewRows(c))
  BY <1>1, <1>2, FS_Surjection
<1>. QED
  BY <1>3, FS_CardinalityType

(* They are rows of this call, for slots that have none. *)
LEMMA NewRowsFit ==
    ASSUME IInv, NEW c \in Writers, step[c] = "commit"
    PROVE  /\ NewRows(c) \subseteq Row
           /\ \A r \in NewRows(c) : r.run = c
           /\ \A r \in NewRows(c), q \in stored : ~(r.dataset = q.dataset /\ r.slot = q.slot)
           /\ \A r, q \in NewRows(c) : r.dataset = q.dataset /\ r.slot = q.slot => r = q
<1>. Inserted(c) = New(c)
  BY DEF IInv, PendingFree, Inserted
<1>1. batch[c] \subseteq Observation /\ New(c) \subseteq batch[c]
  BY DEF IInv, Batch, New
<1>2. NewRows(c) \subseteq Row
  BY <1>1 DEF NewRows, Row, Observation
<1>3. \A r \in NewRows(c) : r.run = c
  BY DEF NewRows
<1>4. \A r \in NewRows(c), q \in stored : ~(r.dataset = q.dataset /\ r.slot = q.slot)
  BY DEF NewRows, New, Stored
<1>5. \A r, q \in NewRows(c) : r.dataset = q.dataset /\ r.slot = q.slot => r = q
  BY <1>1 DEF NewRows, IInv, Batch
<1>. QED
  BY <1>2, <1>3, <1>4, <1>5
-----------------------------------------------------------------------------
(* A step of c that writes no row keeps the invariant if c's own part and  *)
(* the types are kept.                                                     *)
LEMMA NothingWritten ==
    ASSUME IInv, NEW c \in Writers, UNCHANGED <<stored, written>>,
           \A d \in Writers \ {c} :
               /\ step'[d] = step[d] /\ runs'[d] = runs[d]
               /\ batch'[d] = batch[d] /\ pending'[d] = pending[d],
           IngestionTypeOK', Batch(batch'[c]), PendingFree(c)',
           step'[c] = "idle" => runs'[c] = "none",
           step'[c] \notin {"idle", "over"} => runs'[c] = "running",
           step'[c] \in Unwritten => step[c] \in Unwritten,
           step'[c] = "finish" => step[c] \in Unwritten,
           runs'[c] \in {"none", "failed"} => step[c] \in Unwritten \/ runs'[c] = runs[c],
           runs'[c] = "succeeded" => step[c] = "finish" \/ runs'[c] = runs[c]
    PROVE  IInv'
<1>1. \A d \in Writers : RowsOf(d)' = RowsOf(d)
  BY DEF RowsOf
<1>2. OneRowPerSlot'
  BY DEF IInv, OneRowPerSlot
<1>3. \A d \in Writers : Batch(batch[d])'
  BY DEF IInv, Batch
<1>4. Cardinality({}) = 0
  BY FS_EmptySet
<1>5. ASSUME NEW d \in Writers
      PROVE  Progress(d)'
  <2>1. CASE d = c
    BY <1>1, <1>4, <2>1 DEF IInv, Progress, Unwritten
  <2>2. CASE d # c
    BY <1>1, <2>2 DEF IInv, Progress, Unwritten
  <2>. QED  BY <2>1, <2>2
<1>6. RunsTrue'
  <2>1. ASSUME NEW d \in Writers
        PROVE  /\ runs'[d] \in {"none", "failed"} => RowsOf(d)' = {}
               /\ runs'[d] = "succeeded" => Cardinality(RowsOf(d)') = written'[d]
    <3>1. CASE d = c
      BY <1>1, <3>1 DEF IInv, RunsTrue, Progress, Unwritten
    <3>2. CASE d # c
      BY <1>1, <3>2 DEF IInv, RunsTrue
    <3>. QED  BY <3>1, <3>2
  <2>. QED  BY <2>1 DEF RunsTrue, RowsOf
<1>7. ASSUME NEW d \in Writers \ {c}
      PROVE  PendingFree(d)'
  BY DEF IInv, PendingFree, New, Stored
<1>. QED
  BY <1>2, <1>3, <1>5, <1>6, <1>7 DEF IInv

LEMMA StartRunInv ==
    ASSUME IInv, NEW c \in Writers, NEW B, Batch(B), StartRun(c, B)
    PROVE  IInv'
<1>. USE DEF StartRun, Goto
<1>1. IngestionTypeOK'
  BY DEF IInv, IngestionTypeOK, Steps, Batch
<1>4. step'[c] # "commit" /\ PendingFree(c)'
  BY DEF IInv, IngestionTypeOK, PendingFree
<1>. QED
  BY <1>1, <1>4, NothingWritten DEF IInv, IngestionTypeOK, Unwritten, Progress

LEMMA RecordFailedRunInv ==
    ASSUME IInv, NEW c \in Writers, RecordFailedRun(c)
    PROVE  IInv'
<1>. USE DEF RecordFailedRun, Goto
<1>1. IngestionTypeOK'
  BY DEF IInv, IngestionTypeOK, Steps
<1>4. step'[c] # "commit" /\ PendingFree(c)'
  BY DEF IInv, IngestionTypeOK, PendingFree
<1>. QED
  BY <1>1, <1>4, NothingWritten DEF IInv, IngestionTypeOK, Unwritten, Progress

LEMMA GateInv ==
    ASSUME IInv, NEW c \in Writers, Gate(c)
    PROVE  IInv'
<1>. USE DEF Gate, Goto
<1>1. IngestionTypeOK'
  BY DEF IInv, IngestionTypeOK, Steps
<1>4. step'[c] # "commit" /\ PendingFree(c)'
  BY DEF IInv, IngestionTypeOK, PendingFree
<1>. QED
  BY <1>1, <1>4, NothingWritten DEF IInv, IngestionTypeOK, Unwritten, Progress

LEMMA CompareInv ==
    ASSUME IInv, NEW c \in Writers, Compare(c)
    PROVE  IInv'
<1>. USE DEF Compare, Goto
<1>1. New(c) \subseteq Observation
  BY DEF IInv, New, Batch
<1>2. IngestionTypeOK'
  BY <1>1 DEF IInv, IngestionTypeOK, Steps, Observation
<1>4. step'[c] # "commit" /\ PendingFree(c)'
  BY DEF IInv, IngestionTypeOK, PendingFree
<1>. QED
  BY <1>2, <1>4, NothingWritten DEF IInv, IngestionTypeOK, Unwritten, Progress

LEMMA InsertInv ==
    ASSUME IInv, NEW c \in Writers, Insert(c)
    PROVE  IInv'
<1>. USE DEF Insert, Goto
<1>1. IngestionTypeOK'
  <2>1. \A d \in Writers : writer' = d <=> step'[d] = "commit"
    BY IngestionAssumption DEF IInv, IngestionTypeOK
  <2>2. step' \in [Writers -> Steps] /\ writer' \in Writers \cup {None}
    BY DEF IInv, IngestionTypeOK, Steps
  <2>. QED  BY <2>1, <2>2 DEF IInv, IngestionTypeOK
<1>4. PendingFree(c)'
  BY DEF IInv, IngestionTypeOK, Batch, PendingFree, New, Stored
<1>. QED
  BY <1>1, <1>4, NothingWritten DEF IInv, IngestionTypeOK, Unwritten, Progress

LEMMA CloseInv ==
    ASSUME IInv, NEW c \in Writers, Finish(c) \/ Fail(c)
    PROVE  IInv'
<1>. USE DEF Finish, Fail, Close, Leave, Goto
<1>1. IngestionTypeOK'
  BY DEF IInv, IngestionTypeOK, Steps
<1>2. batch'[c] = {} /\ Batch({})
  BY FS_EmptySet DEF IInv, IngestionTypeOK, Batch
<1>3. Batch(batch'[c])
  BY <1>2
<1>4. step'[c] # "commit" /\ PendingFree(c)'
  BY DEF IInv, IngestionTypeOK, PendingFree
<1>. QED
  BY <1>1, <1>3, <1>4, NothingWritten DEF IInv, IngestionTypeOK, Unwritten, Progress

LEMMA DieInv ==
    ASSUME IInv, NEW c \in Writers, Die(c)
    PROVE  IInv'
<1>. USE DEF Die, Leave, Goto
<1>1. IngestionTypeOK'
  <2>1. \A d \in Writers : writer' = d <=> step'[d] = "commit"
    BY IngestionAssumption DEF IInv, IngestionTypeOK
  <2>2. step' \in [Writers -> Steps] /\ writer' \in Writers \cup {None}
    BY DEF IInv, IngestionTypeOK, Steps
  <2>. QED  BY <2>1, <2>2 DEF IInv, IngestionTypeOK
<1>2. batch'[c] = {} /\ Batch({})
  BY FS_EmptySet DEF IInv, IngestionTypeOK, Batch
<1>3. Batch(batch'[c])
  BY <1>2
<1>4. step'[c] # "commit" /\ PendingFree(c)'
  BY DEF IInv, IngestionTypeOK, PendingFree
<1>. QED
  BY <1>1, <1>3, <1>4, NothingWritten DEF IInv, IngestionTypeOK, Unwritten, Progress

(* The commit: the rows are new and the call's own.                        *)
LEMMA CommitInv ==
    ASSUME IInv, NEW c \in Writers, Commit(c)
    PROVE  IInv'
<1>. USE DEF Commit, Goto
<1>1. CASE stored' = stored /\ written' = written
  <2>1. IngestionTypeOK'
    <3>1. \A d \in Writers : writer' = d <=> step'[d] = "commit"
      BY <1>1, IngestionAssumption DEF IInv, IngestionTypeOK
    <3>2. step' \in [Writers -> Steps]
      BY <1>1 DEF IInv, IngestionTypeOK, Steps
    <3>. QED  BY <1>1, <3>1, <3>2 DEF IInv, IngestionTypeOK
  <2>2. step'[c] \in {"fail", "finish"} /\ runs'[c] = "running"
    BY DEF IInv, IngestionTypeOK, Progress
  <2>3. PendingFree(c)'
    BY <2>2 DEF PendingFree
  <2>. QED
    BY <1>1, <2>1, <2>2, <2>3, NothingWritten DEF IInv, IngestionTypeOK, Unwritten, Progress
<1>2. CASE /\ stored' = stored \cup NewRows(c)
           /\ written' = [written EXCEPT ![c] = Cardinality(NewRows(c))]
           /\ step' = [step EXCEPT ![c] = "finish"]
  <2>1. IngestionTypeOK'
    <3>1. \A d \in Writers : writer' = d <=> step'[d] = "commit"
      BY <1>2, IngestionAssumption DEF IInv, IngestionTypeOK
    <3>2. step' \in [Writers -> Steps]
      BY <1>2 DEF IInv, IngestionTypeOK, Steps
    <3>3. stored' \subseteq Row
      BY <1>2, NewRowsFit DEF IInv, IngestionTypeOK
    <3>4. written' \in [Writers -> Nat]
      BY <1>2, NewRowsCounted DEF IInv, IngestionTypeOK
    <3>. QED  BY <3>1, <3>2, <3>3, <3>4 DEF IInv, IngestionTypeOK
  <2>2. OneRowPerSlot'
    BY <1>2, NewRowsFit DEF IInv, OneRowPerSlot
  <2>3. RowsOf(c) = {} /\ runs'[c] = "running"
    BY DEF IInv, Progress, Unwritten
  <2>4. RowsOf(c)' = NewRows(c)
    BY <1>2, <2>3, NewRowsFit DEF RowsOf
  <2>5. \A d \in Writers \ {c} : RowsOf(d)' = RowsOf(d)
    BY <1>2, NewRowsFit DEF RowsOf
  <2>6. written'[c] = Cardinality(NewRows(c)) /\ step'[c] = "finish"
    BY <1>2 DEF IInv, IngestionTypeOK
  <2>7. \A d \in Writers \ {c} : written'[d] = written[d] /\ step'[d] = step[d]
    BY <1>2 DEF IInv, IngestionTypeOK
  <2>8. \A d \in Writers : Progress(d)'
    BY <2>3, <2>4, <2>5, <2>6, <2>7 DEF IInv, Progress, Unwritten
  <2>9. RunsTrue'
    BY <2>3, <2>4, <2>5, <2>6, <2>7 DEF IInv, RunsTrue
  <2>10. \A d \in Writers : Batch(batch[d])'
    BY DEF IInv, Batch
  <2>11. \A d \in Writers : PendingFree(d)'
    BY <1>2 DEF IInv, IngestionTypeOK, PendingFree
  <2>. QED
    BY <2>1, <2>2, <2>8, <2>9, <2>10, <2>11 DEF IInv
<1>. QED
  BY <1>1, <1>2

LEMMA StepInv == IInv /\ [IngestionNext]_ingestionVars => IInv'
<1>. SUFFICES ASSUME IInv, [IngestionNext]_ingestionVars PROVE IInv'
  OBVIOUS
<1>1. CASE UNCHANGED ingestionVars
  <2>1. IngestionTypeOK' /\ OneRowPerSlot' /\ \A c \in Writers : Batch(batch[c])'
    BY <1>1 DEF ingestionVars, IInv, IngestionTypeOK, OneRowPerSlot, Batch
  <2>2. RunsTrue' /\ \A c \in Writers : Progress(c)'
    BY <1>1 DEF ingestionVars, IInv, RunsTrue, Progress, RowsOf
  <2>3. \A c \in Writers : PendingFree(c)'
    BY <1>1 DEF ingestionVars, IInv, PendingFree, New, Stored
  <2>. QED  BY <2>1, <2>2, <2>3 DEF IInv
<1>2. ASSUME NEW c \in Writers, NEW B \in SUBSET Observation, Batch(B) /\ StartRun(c, B)
      PROVE  IInv'
  BY <1>2, StartRunInv
<1>3. ASSUME NEW c \in Writers, RecordFailedRun(c)
      PROVE  IInv'
  BY <1>3, RecordFailedRunInv
<1>4. ASSUME NEW c \in Writers, Ingest(c)
      PROVE  IInv'
  BY <1>4, GateInv, CompareInv, InsertInv, CommitInv, CloseInv, DieInv DEF Ingest
<1>. QED
  BY <1>1, <1>2, <1>3, <1>4 DEF IngestionNext

THEOREM IngestionInvariant == IngestionSpec => []IInv
BY InitInv, StepInv, PTL DEF IngestionSpec

-----------------------------------------------------------------------------
(* Every variable keeps its type, and the write lock (SQLite's) is held by *)
(* the unit of work that has inserted and not ended.                       *)
THEOREM IngestionTypes == IngestionSpec => []IngestionTypeOK
BY IngestionInvariant, PTL DEF IInv

(* However many processes ingest at once, no slot of price_candles or      *)
(* funding_rates is stored twice.                                          *)
THEOREM NoSecondRow == IngestionSpec => []OneRowPerSlot
BY IngestionInvariant, PTL DEF IInv

(* The audit in ingestion_runs is true: a failed run has left no row, and  *)
(* a succeeded one the rows it counted.                                    *)
THEOREM AuditTrue == IngestionSpec => []RunsTrue
BY IngestionInvariant, PTL DEF IInv

(* The first curated observation of a slot is never changed or removed.    *)
THEOREM FirstStands == IngestionSpec => FirstObservationStands
<1>1. [IngestionNext]_ingestionVars => [stored \subseteq stored']_ingestionVars
  BY DEF IngestionNext, Ingest, StartRun, RecordFailedRun, Gate, Compare, Insert, Commit,
         Finish, Fail, Close, Leave, Die, ingestionVars
<1>. QED
  BY <1>1, PTL DEF IngestionSpec, FirstObservationStands
=============================================================================
