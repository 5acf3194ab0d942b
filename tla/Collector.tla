------------------------------ MODULE Collector ------------------------------
(***************************************************************************)
(* Collecting candles and funding rates from the exchange                  *)
(* (collectors/hyperliquid.py): requests go out one after the other, chunk *)
(* by chunk for candles and page by page for funding; each answer is       *)
(* archived before a row of it is looked at; candles that had not closed   *)
(* when the answer was received are left out.                              *)
(*                                                                         *)
(* Time is counted in candle slots.  The candle of slot k is forming while *)
(* the time is k and closed from k + 1 on; the exchange may later publish  *)
(* a revised one.  Funding is settled at every slot boundary.  An answer   *)
(* shows the exchange as it was when it was made, and is received later.   *)
(* What a collection holds is memory: a process that dies is one that      *)
(* takes no further step.                                                  *)
(***************************************************************************)
EXTENDS Integers, FiniteSets

CONSTANTS
    Calls,          \* collecting processes
    Requests,       \* what they may be asked to collect
    MaxTime,        \* bound on the time
    MaxRevisions,   \* bound: closed candles the exchange revises
    ChunkSlots,     \* candle slots of one request (500)
    PageRows,       \* rows of one page of funding (500)
    Retention,      \* latest candles the exchange holds (5,000)
    NoAnswer

Time == 0..MaxTime

ASSUME CollectorAssumption ==
    /\ MaxTime \in Nat /\ MaxRevisions \in Nat
    /\ ChunkSlots \in Nat \ {0} /\ PageRows \in Nat \ {0} /\ Retention \in Nat \ {0}
    /\ Requests \subseteq [dataset : {"candles", "funding"}, start : Time, end : Time]
    /\ \A q \in Requests : q.start < q.end

VARIABLES
    now,        \* the time
    revised,    \* the slots whose closed candle was revised
    request,    \* what each call collects: dataset, start and end
    began,      \* the time each call started at
    phase,      \* where a collection is
    cursor,     \* chunk_start, next_start_ms
    answer,     \* the rows of the answer under way
    seen,       \* seen_payloads: the rows of candles met so far
    gathered,   \* the rows a collection has yielded
    archive     \* raw archive: the answers received

exchange == <<now, revised>>
collectorVars == <<exchange, request, began, phase, cursor, answer, seen, gathered, archive>>

Contents == {"forming", "closed", "revised", "settled"}
Rows == [slot : Time, value : Contents]

(* Types; and rows are yielded in the order of time, no slot twice: those  *)
(* a collection has yielded lie in its range, before what it asks for next.*)
CollectorTypeOK ==
    /\ now \in Time /\ revised \subseteq Time
    /\ request \in [Calls -> Requests] /\ began \in [Calls -> Time]
    /\ phase \in [Calls -> {"start", "send", "wait", "collected", "failed", "over"}]
    /\ cursor \in [Calls -> Time]
    /\ answer \in [Calls -> (SUBSET Rows) \cup {NoAnswer}]
    /\ seen \in [Calls -> SUBSET Rows] /\ gathered \in [Calls -> SUBSET Rows]
    /\ archive \subseteq [call : Calls, time : Time, rows : SUBSET Rows]
    /\ \A c \in Calls : \A r \in gathered[c] :
          /\ request[c].start <= r.slot /\ r.slot < request[c].end
          /\ phase[c] \in {"send", "wait"} => r.slot < cursor[c]
          /\ \A s \in gathered[c] : r.slot = s.slot => r = s

CollectorInit ==
    /\ now = 0 /\ revised = {} /\ archive = {}
    /\ request \in [Calls -> Requests]
    /\ began = [c \in Calls |-> 0]
    /\ phase = [c \in Calls |-> "start"]
    /\ cursor = [c \in Calls |-> 0]
    /\ answer = [c \in Calls |-> NoAnswer]
    /\ seen = [c \in Calls |-> {}]
    /\ gathered = [c \in Calls |-> {}]

-----------------------------------------------------------------------------
(* The exchange *)

Tick ==
    /\ now < MaxTime
    /\ now' = now + 1
    /\ UNCHANGED <<revised, request, began, phase, cursor, answer, seen, gathered, archive>>

Revise ==
    /\ Cardinality(revised) < MaxRevisions
    /\ \E k \in 0..(now - 1) : k \notin revised /\ revised' = revised \cup {k}
    /\ UNCHANGED <<now, request, began, phase, cursor, answer, seen, gathered, archive>>

Candle(k) ==
    [slot |-> k, value |-> CASE k = now -> "forming"
                             [] k < now /\ k \notin revised -> "closed"
                             [] OTHER -> "revised"]

Held(k) == k \in 0..now /\ k > now - Retention

Rate(k) == [slot |-> k, value |-> "settled"]

Smaller(k, l) == IF k < l THEN k ELSE l
Larger(k, l) == IF k > l THEN k ELSE l

End(c) == request[c].end
ChunkEnd(c) == Smaller(cursor[c] + ChunkSlots, End(c))

(* The candles of a chunk; whether the slots on either side of it count as *)
(* inside is not explicit in the exchange's contract.                      *)
CandleAnswers(c) ==
    LET inside == {k \in cursor[c]..(ChunkEnd(c) - 1) : Held(k)}
        beside == {k \in {cursor[c] - 1, ChunkEnd(c)} : Held(k)}
    IN  {{Candle(k) : k \in inside \cup extra} : extra \in SUBSET beside}

(* The first funding rates of the range, at most a page of them. *)
FundingPage(c) ==
    {Rate(k) : k \in {l \in cursor[c]..(End(c) - 1) : l <= now /\ l < cursor[c] + PageRows}}

-----------------------------------------------------------------------------
(* A call *)

To(c, p) == phase' = [phase EXCEPT ![c] = p]

(* Candles older than the exchange still holds, counted from the end of    *)
(* the range, are not asked for.                                           *)
Start(c) ==
    /\ phase[c] = "start"
    /\ began' = [began EXCEPT ![c] = now]
    /\ cursor' = [cursor EXCEPT ![c] =
          IF request[c].dataset = "candles"
          THEN Larger(request[c].start, End(c) - Retention)
          ELSE request[c].start]
    /\ To(c, "send")
    /\ UNCHANGED <<exchange, request, answer, seen, gathered, archive>>

(* The exchange makes its answer. *)
Send(c) ==
    /\ phase[c] = "send"
    /\ \E rows \in IF request[c].dataset = "candles" THEN CandleAnswers(c) ELSE {FundingPage(c)} :
          answer' = [answer EXCEPT ![c] = rows]
    /\ To(c, "wait")
    /\ UNCHANGED <<exchange, request, began, cursor, seen, gathered, archive>>

(* The request fails, or what it brought is no answer.  It is repeated if  *)
(* the transport has retries left, and the collection fails otherwise.     *)
Lose(c) ==
    /\ phase[c] = "wait"
    /\ answer' = [answer EXCEPT ![c] = NoAnswer]
    /\ To(c, "send") \/ To(c, "failed")
    /\ UNCHANGED <<exchange, request, began, cursor, seen, gathered, archive>>

(* Variant: an answer is archived when it is not understood. *)
ArchiveFailures(c, understood) ==
    archive' = IF understood THEN archive
               ELSE archive \cup {[call |-> c, time |-> now, rows |-> answer[c]]}

(* An answer is archived as it is received. *)
Archive(c, understood) ==
    archive' = archive \cup {[call |-> c, time |-> now, rows |-> answer[c]]}

(* The next request, or the end of the range. *)
Proceed(c, position, more) ==
    /\ cursor' = [cursor EXCEPT ![c] = position]
    /\ To(c, IF more THEN "send" ELSE "collected")

(* Rows not met before: they must lie in the chunk.  Rows met before must  *)
(* say the same, and are passed over.                                      *)
Fresh(c) == {r \in answer[c] : \A s \in seen[c] : s.slot # r.slot}

Contradicted(c) == \E r \in answer[c], s \in seen[c] : r.slot = s.slot /\ r.value # s.value

InChunk(c, r) == cursor[c] <= r.slot /\ r.slot < ChunkEnd(c)

(* Eligible from the first instant after the close. *)
Closed(r) == r.slot + 1 <= now

(* Variants: the next chunk begins one slot further on; rows outside the   *)
(* chunk are taken.                                                        *)
ReceiveCandlesSkipping(c) ==
    /\ phase[c] = "wait" /\ request[c].dataset = "candles"
    /\ Archive(c, TRUE)
    /\ answer' = [answer EXCEPT ![c] = NoAnswer]
    /\ gathered' = [gathered EXCEPT ![c] = @ \cup {r \in Fresh(c) : InChunk(c, r) /\ Closed(r)}]
    /\ Proceed(c, Smaller(ChunkEnd(c) + 1, End(c)), ChunkEnd(c) + 1 < End(c))
    /\ UNCHANGED <<exchange, request, began, seen>>

ReceiveCandlesOutside(c) ==
    /\ phase[c] = "wait" /\ request[c].dataset = "candles"
    /\ Archive(c, TRUE)
    /\ answer' = [answer EXCEPT ![c] = NoAnswer]
    /\ seen' = [seen EXCEPT ![c] = @ \cup answer[c]]
    /\ gathered' = [gathered EXCEPT ![c] = @ \cup {r \in Fresh(c) : Closed(r)}]
    /\ Proceed(c, ChunkEnd(c), ChunkEnd(c) < End(c))
    /\ UNCHANGED <<exchange, request, began>>

ReceiveCandles(c) ==
    LET understood == ~Contradicted(c) /\ \A r \in Fresh(c) : InChunk(c, r)
    IN  /\ phase[c] = "wait" /\ request[c].dataset = "candles"
        /\ Archive(c, understood)
        /\ answer' = [answer EXCEPT ![c] = NoAnswer]
        /\ \/ /\ understood
              /\ seen' = [seen EXCEPT ![c] = @ \cup answer[c]]
              /\ gathered' = [gathered EXCEPT ![c] = @ \cup {r \in Fresh(c) : Closed(r)}]
              /\ Proceed(c, ChunkEnd(c), ChunkEnd(c) < End(c))
           \/ /\ ~understood
              /\ To(c, "failed")
              /\ UNCHANGED <<seen, gathered, cursor>>
        /\ UNCHANGED <<exchange, request, began>>

Newest(c) == CHOOSE k \in {r.slot : r \in answer[c]} : \A r \in answer[c] : r.slot <= k

(* A full page is followed by another that starts after its newest row. *)
ReceiveFunding(c) ==
    /\ phase[c] = "wait" /\ request[c].dataset = "funding"
    /\ Archive(c, TRUE)
    /\ answer' = [answer EXCEPT ![c] = NoAnswer]
    /\ gathered' = [gathered EXCEPT ![c] = @ \cup answer[c]]
    /\ IF Cardinality(answer[c]) < PageRows THEN Proceed(c, cursor[c], FALSE)
       ELSE Proceed(c, Newest(c) + 1, Newest(c) + 1 < End(c))
    /\ UNCHANGED <<exchange, request, began, seen>>

Collect(c) == Start(c) \/ Send(c) \/ Lose(c) \/ ReceiveCandles(c) \/ ReceiveFunding(c)

(* What a collection gathered has been taken over, or its failure reported: *)
(* its memory is free.                                                      *)
Over(c) ==
    /\ To(c, "over")
    /\ cursor' = [cursor EXCEPT ![c] = 0]
    /\ seen' = [seen EXCEPT ![c] = {}]
    /\ gathered' = [gathered EXCEPT ![c] = {}]
    /\ UNCHANGED <<exchange, request, began, answer, archive>>
=============================================================================
