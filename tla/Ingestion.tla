------------------------------ MODULE Ingestion ------------------------------
(***************************************************************************)
(* Writing one batch of candles or funding rates into the research         *)
(* database (ingestion/service.py): a run record is opened in a unit of    *)
(* work of its own, the quality gate looks at the batch, a second unit of  *)
(* work compares every record with what is stored and inserts the new      *)
(* ones, and a third closes the run.  Several processes may ingest at      *)
(* once; any step may fail, and a process may die between two of them.     *)
(*                                                                         *)
(* The database gives each unit of work all or nothing, and its writers    *)
(* one at a time: a unit of work only queries until its first insertion,   *)
(* which takes the write lock, so what it found by then may be stale; the  *)
(* unique constraint is checked by the insertion.                          *)
(***************************************************************************)
EXTENDS Integers, FiniteSets

CONSTANTS
    Writers,    \* ingesting processes; each opens at most one run
    Datasets,   \* "candles" and "funding"
    Slots,      \* open times, event times
    Values,     \* what an observation may say
    None        \* no writer, no pending insertion

ASSUME IngestionAssumption ==
    /\ None \notin Writers /\ None \notin Slots
    /\ Slots \subseteq Int

Observation == [dataset : Datasets, slot : Slots, value : Values]
Row == [dataset : Datasets, slot : Slots, value : Values, run : Writers]

VARIABLES
    stored,     \* the rows of price_candles and funding_rates
    runs,       \* ingestion_runs: the status each call's run shows
    written,    \* the insertions a run counted: its records_written, once closed
    writer,     \* the call whose unit of work holds the write lock
    step,       \* where in _execute a call is
    batch,      \* the records it was given
    pending     \* the slot its first insertion is for

ingestionVars == <<stored, runs, written, writer, step, batch, pending>>

Steps == {"idle", "gate", "compare", "insert", "commit", "fail", "finish", "over"}

(* Types; and the write lock is held by a unit of work that has inserted   *)
(* and not ended, and by nothing else.                                     *)
IngestionTypeOK ==
    /\ stored \subseteq Row
    /\ runs \in [Writers -> {"none", "running", "succeeded", "failed"}]
    /\ written \in [Writers -> Nat]
    /\ writer \in Writers \cup {None}
    /\ step \in [Writers -> Steps]
    /\ batch \in [Writers -> SUBSET Observation]
    /\ pending \in [Writers -> Slots \cup {None}]
    /\ \A c \in Writers : writer = c <=> step[c] = "commit"

IngestionInit ==
    /\ stored = {}
    /\ runs = [c \in Writers |-> "none"]
    /\ written = [c \in Writers |-> 0]
    /\ writer = None
    /\ step = [c \in Writers |-> "idle"]
    /\ batch = [c \in Writers |-> {}]
    /\ pending = [c \in Writers |-> None]

-----------------------------------------------------------------------------
Goto(c, s) == step' = [step EXCEPT ![c] = s]

(* The stored row of an observation's unique key, as a set. *)
Stored(o) == {r \in stored : r.dataset = o.dataset /\ r.slot = o.slot}

New(c) == {o \in batch[c] : Stored(o) = {}}

(* A candle must repeat the first observation of its slot; of a funding    *)
(* rate the first observation is kept without a look at the later one.     *)
Conflicts(O) ==
    {o \in O : o.dataset = "candles" /\ \E r \in Stored(o) : r.value # o.value}

(* What a unit of work inserts: the record it found new before it had the  *)
(* write lock, and all it finds new from then on.                          *)
Inserted(c) == New(c) \cup {o \in batch[c] : o.slot = pending[c]}

NewRows(c) ==
    {[dataset |-> o.dataset, slot |-> o.slot, value |-> o.value, run |-> c] : o \in Inserted(c)}

-----------------------------------------------------------------------------
(* What may be ingested: records of one dataset, no slot twice, since of   *)
(* several records of a slot only the first is looked at (candles that     *)
(* contradict each other do not pass the gate).                            *)
Batch(B) ==
    /\ B \subseteq Observation /\ IsFiniteSet(B)
    /\ \A o, p \in B : o.dataset = p.dataset /\ (o.slot = p.slot => o = p)

(* _start_run commits before anything else is done. *)
StartRun(c, B) ==
    /\ step[c] = "idle"
    /\ \/ /\ runs' = [runs EXCEPT ![c] = "running"]
          /\ batch' = [batch EXCEPT ![c] = B]
          /\ Goto(c, "gate")
       \/ Goto(c, "over") /\ UNCHANGED <<runs, batch>>
    /\ UNCHANGED <<stored, written, writer, pending>>

(* report.raise_for_errors *)
Gate(c) ==
    /\ step[c] = "gate"
    /\ \/ Goto(c, "compare")
       \/ Goto(c, "fail")
    /\ UNCHANGED <<stored, runs, written, writer, batch, pending>>

(* The queries before the first insertion: up to the first record that is  *)
(* not stored.  A contradiction on the way, or an instrument nobody knows, *)
(* ends them.                                                              *)
Compare(c) ==
    /\ step[c] = "compare"
    /\ \/ /\ New(c) = {} /\ Conflicts(batch[c]) = {}
          /\ Goto(c, "finish")
          /\ UNCHANGED pending
       \/ /\ \E o \in New(c) :
                /\ \A n \in New(c) : o.slot <= n.slot
                /\ Conflicts({b \in batch[c] : b.slot < o.slot}) = {}
                /\ pending' = [pending EXCEPT ![c] = o.slot]
          /\ Goto(c, "insert")
       \/ Goto(c, "fail") /\ UNCHANGED pending
    /\ UNCHANGED <<stored, runs, written, writer, batch>>

(* Variant: no unique constraint. *)
InsertUnconstrained(c) ==
    /\ step[c] = "insert"
    /\ writer = None
    /\ writer' = c
    /\ Goto(c, "commit")
    /\ UNCHANGED <<stored, runs, written, batch, pending>>

(* The first insertion takes the write lock; its slot must still be free,  *)
(* and the records after it must agree with what is stored by now.  It     *)
(* also fails if the lock is not released in time.                         *)
Insert(c) ==
    /\ step[c] = "insert"
    /\ \/ /\ writer = None
          /\ \E o \in New(c) : o.slot = pending[c]
          /\ Conflicts(batch[c]) = {}
          /\ writer' = c
          /\ Goto(c, "commit")
       \/ Goto(c, "fail") /\ UNCHANGED writer
    /\ UNCHANGED <<stored, runs, written, batch, pending>>

(* Variants: a later observation replaces the first; the rows stay when    *)
(* the unit of work fails; the session is not closed then.                 *)
CommitReplacing(c) ==
    /\ step[c] = "commit"
    /\ stored' = (stored \ UNION {Stored(o) : o \in batch[c]}) \cup
          {[dataset |-> o.dataset, slot |-> o.slot, value |-> o.value, run |-> c] : o \in batch[c]}
    /\ written' = [written EXCEPT ![c] = Cardinality(batch[c])]
    /\ writer' = None
    /\ Goto(c, "finish")
    /\ UNCHANGED <<runs, batch, pending>>

CommitUnrolled(c) ==
    /\ step[c] = "commit"
    /\ stored' = stored \cup NewRows(c)
    /\ written' = [written EXCEPT ![c] = Cardinality(NewRows(c))]
    /\ writer' = None
    /\ Goto(c, "finish") \/ Goto(c, "fail")
    /\ UNCHANGED <<runs, batch, pending>>

(* The unit of work commits, or is rolled back by whatever goes wrong; the *)
(* write lock ends with it.                                                *)
Commit(c) ==
    /\ step[c] = "commit"
    /\ \/ /\ stored' = stored \cup NewRows(c)
          /\ written' = [written EXCEPT ![c] = Cardinality(NewRows(c))]
          /\ Goto(c, "finish")
       \/ Goto(c, "fail") /\ UNCHANGED <<stored, written>>
    /\ writer' = None
    /\ UNCHANGED <<runs, batch, pending>>

(* A call ends, and its memory is free. *)
Leave(c) ==
    /\ Goto(c, "over")
    /\ batch' = [batch EXCEPT ![c] = {}]
    /\ pending' = [pending EXCEPT ![c] = None]

(* _finish_run, in a unit of work of its own that may fail as well.        *)
Close(c, at, status) ==
    /\ step[c] = at
    /\ \/ runs' = [runs EXCEPT ![c] = status]
       \/ UNCHANGED runs
    /\ Leave(c)
    /\ UNCHANGED <<stored, written, writer>>

Finish(c) == Close(c, "finish", "succeeded")
Fail(c) == Close(c, "fail", "failed")

(* record_failed_run: the collector failed, and nothing is ingested. *)
RecordFailedRun(c) ==
    /\ step[c] = "idle"
    /\ \/ runs' = [runs EXCEPT ![c] = "running"] /\ Goto(c, "fail")
       \/ Goto(c, "over") /\ UNCHANGED runs
    /\ UNCHANGED <<stored, written, writer, batch, pending>>

(* The process dies in a unit of work that has the write lock, which rolls *)
(* it back; elsewhere, to die is to take no further step.                  *)
Die(c) ==
    /\ step[c] = "commit"
    /\ writer' = None
    /\ Leave(c)
    /\ UNCHANGED <<stored, runs, written>>

Ingest(c) ==
    \/ Gate(c) \/ Compare(c) \/ Insert(c) \/ Commit(c) \/ Finish(c) \/ Fail(c) \/ Die(c)

IngestionNext ==
    \E c \in Writers :
        \/ \E B \in SUBSET Observation : Batch(B) /\ StartRun(c, B)
        \/ RecordFailedRun(c)
        \/ Ingest(c)

IngestionSpec == IngestionInit /\ [][IngestionNext]_ingestionVars

-----------------------------------------------------------------------------
(* PROPERTIES *)

(* However many processes compare and insert at once, no slot has two rows *)
(* and the first curated observation of a slot is never changed or         *)
(* removed.                                                                *)
OneRowPerSlot ==
    \A r, q \in stored : r.dataset = q.dataset /\ r.slot = q.slot => r = q

FirstObservationStands == [][stored \subseteq stored']_ingestionVars

RowsOf(c) == {r \in stored : r.run = c}

(* The audit of a run is true whatever fails or dies on the way: a failed  *)
(* run, or none, has left no row, and a succeeded one exactly the number   *)
(* of rows it shows.                                                       *)
RunsTrue ==
    \A c \in Writers :
        /\ runs[c] \in {"none", "failed"} => RowsOf(c) = {}
        /\ runs[c] = "succeeded" => Cardinality(RowsOf(c)) = written[c]
=============================================================================
