------------------------- MODULE SessionStoreProofs -------------------------
(***************************************************************************)
(* The session store, for any number of processes, calls, events in a      *)
(* batch, failures and deaths: first its safety, then that it implements   *)
(* the compare-and-swap log and that its disk can always be mended.        *)
(***************************************************************************)
EXTENDS SessionStore, SequenceTheorems, TLAPS

-----------------------------------------------------------------------------
(* Histories and their prefixes. *)

(* A prefix, element by element: the form the other lemmas work with, for  *)
(* the histories that load and append compare.                             *)
LEMMA PrefixElements ==
    ASSUME NEW S, NEW s \in Seq(S), NEW t \in Seq(S)
    PROVE  IsPrefix(s, t) <=>
             Len(s) <= Len(t) /\ \A i \in 1..Len(s) : s[i] = t[i]
<1>1. /\ Len(s) \in Nat /\ Len(t) \in Nat
      /\ \A i \in 1..Len(s) : s[i] \in S
      /\ \A i \in 1..Len(t) : t[i] \in S
  BY LenProperties, ElementOfSeq
<1>2. /\ SubSeq(s, 1, Len(s)) \in Seq(S)
      /\ Len(SubSeq(s, 1, Len(s))) = Len(s)
      /\ \A i \in 1..Len(s) : SubSeq(s, 1, Len(s))[i] = s[i]
  BY <1>1, SubSeqProperties
<1>3. ASSUME Len(s) <= Len(t)
      PROVE  /\ SubSeq(t, 1, Len(s)) \in Seq(S)
             /\ Len(SubSeq(t, 1, Len(s))) = Len(s)
             /\ \A i \in 1..Len(s) : SubSeq(t, 1, Len(s))[i] = t[i]
  BY <1>1, <1>3, SubSeqProperties
<1>4. ASSUME Len(s) <= Len(t), \A i \in 1..Len(s) : s[i] = t[i]
      PROVE  SubSeq(s, 1, Len(s)) = SubSeq(t, 1, Len(s))
  BY <1>2, <1>3, <1>4, SeqEqual
<1>. QED  BY <1>2, <1>3, <1>4 DEF IsPrefix

(* A history is a part of itself, and the empty one of every history. *)
LEMMA PrefixReflexive ==
    ASSUME NEW S, NEW s \in Seq(S)
    PROVE  IsPrefix(s, s) /\ IsPrefix(<<>>, s)
<1>1. Len(s) \in Nat /\ <<>> \in Seq(S) /\ Len(<<>>) = 0
  BY LenProperties, EmptySeq
<1>2. IsPrefix(s, s)
  BY <1>1, PrefixElements
<1>3. ASSUME NEW e \in Seq(S), Len(e) = 0
      PROVE  IsPrefix(e, s)
  <2>1. Len(e) <= Len(s) /\ \A i \in 1..Len(e) : e[i] = s[i]
    BY <1>1, <1>3
  <2>. QED  BY <2>1, PrefixElements
<1>4. IsPrefix(<<>>, s)
  BY <1>1, <1>3
<1>. QED  BY <1>2, <1>4

(* A snapshot of a history stays a snapshot of what that history grows to. *)
LEMMA PrefixTransitive ==
    ASSUME NEW S, NEW s \in Seq(S), NEW t \in Seq(S), NEW u \in Seq(S),
           IsPrefix(s, t), IsPrefix(t, u)
    PROVE  IsPrefix(s, u)
<1>1. Len(s) \in Nat /\ Len(t) \in Nat /\ Len(u) \in Nat
  BY LenProperties
<1>2. Len(s) <= Len(t) /\ \A i \in 1..Len(s) : s[i] = t[i]
  BY PrefixElements
<1>3. Len(t) <= Len(u) /\ \A i \in 1..Len(t) : t[i] = u[i]
  BY PrefixElements
<1>4. Len(s) <= Len(u) /\ \A i \in 1..Len(s) : s[i] = u[i]
  BY <1>1, <1>2, <1>3
<1>. QED  BY <1>4, PrefixElements

(* Adding a batch extends a history. *)
LEMMA PrefixOfConcat ==
    ASSUME NEW S, NEW s \in Seq(S), NEW t \in Seq(S)
    PROVE  IsPrefix(s, s \o t)
<1>1. Len(s) \in Nat /\ Len(t) \in Nat
  BY LenProperties
<1>2. /\ s \o t \in Seq(S)
      /\ Len(s \o t) = Len(s) + Len(t)
      /\ \A i \in 1..Len(s) + Len(t) :
            (s \o t)[i] = IF i <= Len(s) THEN s[i] ELSE t[i - Len(s)]
  BY ConcatProperties
<1>3. /\ Len(s) <= Len(s \o t)
      /\ \A i \in 1..Len(s) : s[i] = (s \o t)[i]
  BY <1>1, <1>2
<1>. QED  BY <1>2, <1>3, PrefixElements

-----------------------------------------------------------------------------
(* The lock of a call that still runs is left alone (what the documents    *)
(* ask of an operator).  Type correctness does not need it; the rest does. *)
LocksRespected == LiveLocksBroken = FALSE

TypedInv == TypeOK /\ CallsStarted

-----------------------------------------------------------------------------
(* A running call has a token. *)
LEMMA TokenIsCall ==
    ASSUME TypedInv, NEW c \in Clients, pc[c] # "idle"
    PROVE  Token(c) \in Call
BY DEF TypedInv, TypeOK, CallsStarted, Token, Call

(* A step that fails, or does not, keeps the count of failures bounded. *)
LEMMA FaultsBounded ==
    ASSUME faults \in 0..MaxFaults
    PROVE  Fault \/ NoFault => faults' \in 0..MaxFaults
BY BoundsAssumption DEF Fault, NoFault

LEMMA InitTyped == Init => TypedInv
<1>1. <<>> \in Seq(Events)
  BY EmptySeq
<1>. SUFFICES ASSUME Init PROVE TypedInv
  OBVIOUS
<1>. QED
  BY <1>1, BoundsAssumption DEF Init, TypedInv, TypeOK, CallsStarted, Locked, Steps, Results

(* Starting a call keeps every type. *)
LEMMA BeginsTyped ==
    ASSUME TypedInv, NEW c \in Clients, Begins(c)
    PROVE  TypedInv'
<1>. USE DEF TypedInv, TypeOK, CallsStarted, Locked, Begin, Goto, Ends, disk, Steps, Results
<1>1. <<>> \in Seq(Events)
  BY EmptySeq
<1>2. calls[c] < MaxCalls => <<c, calls[c] + 1>> \in Events
  BY BoundsAssumption DEF Events, Call
<1>3. CASE BeginCreate(c)
  <2>1. <<<<c, calls[c] + 1>>>> \in Seq(Events)
    BY <1>2, <1>3 DEF BeginCreate
  <2>. QED  BY <1>1, <1>3, <2>1, BoundsAssumption DEF BeginCreate
<1>4. CASE BeginVerify(c)
  BY <1>1, <1>4, BoundsAssumption DEF BeginVerify
<1>5. CASE BeginAppend(c)
  <2>1. \A n \in 1..MaxBatch : [i \in 1..n |-> <<c, calls[c] + 1>>] \in Seq(Events)
    <3>1. ASSUME NEW n \in 1..MaxBatch
          PROVE  [i \in 1..n |-> <<c, calls[c] + 1>>] \in Seq(Events)
      BY <1>2, <1>5 DEF BeginAppend
    <3>. QED  BY <3>1
  <2>2. batch' \in [Clients -> Seq(Events)]
    <3>1. PICK n \in 1..MaxBatch :
                 batch' = [batch EXCEPT ![c] = [i \in 1..n |-> <<c, calls[c] + 1>>]]
      BY <1>5 DEF BeginAppend
    <3>. QED  BY <2>1, <3>1
  <2>3. calls' \in [Clients -> 0..MaxCalls] /\ CallsStarted'
    BY <1>5, BoundsAssumption DEF BeginAppend
  <2>4. base' \in [Clients -> Seq(Events)] /\ mode' \in [Clients -> {"inspect", "append", "answer"}]
    BY <1>5 DEF BeginAppend
  <2>. QED  BY <1>5, <2>2, <2>3, <2>4 DEF BeginAppend
<1>. QED  BY <1>3, <1>4, <1>5 DEF Begins

(* Creating a session keeps every type. *)
LEMMA CreateTyped ==
    ASSUME TypedInv, NEW c \in Clients, StageSession(c) \/ PromoteSession(c)
    PROVE  TypedInv'
<1>. USE DEF TypedInv, TypeOK, CallsStarted, Locked, Goto, Ends, disk, Steps, Results
<1>1. CASE StageSession(c)
  BY <1>1, FaultsBounded DEF StageSession
<1>2. CASE PromoteSession(c)
  <2>1. [prev |-> <<>>, events |-> batch[c]] \in Segment
    BY EmptySeq DEF Segment
  <2>2. segments' \subseteq Segment /\ head' \in Seq(Events)
    BY <1>2, <2>1 DEF PromoteSession
  <2>3. faults' \in 0..MaxFaults
    BY <1>2, FaultsBounded DEF PromoteSession
  <2>. QED  BY <1>2, <2>2, <2>3 DEF PromoteSession
<1>. QED  BY <1>1, <1>2

(* Loading a snapshot keeps every type. *)
LEMMA LoadTyped ==
    ASSUME TypedInv, NEW c \in Clients,
           CheckLock(c) \/ ListEntries(c) \/ ReadHead(c) \/ ReadEvents(c)
    PROVE  TypedInv'
<1>. USE DEF TypedInv, TypeOK, CallsStarted, Locked, Goto, Ends, disk, Steps, Results, LoadFails
<1>1. CASE CheckLock(c)
  BY <1>1 DEF CheckLock
<1>2. CASE ListEntries(c)
  BY <1>2 DEF ListEntries
<1>3. CASE ReadHead(c)
  BY <1>3 DEF ReadHead
<1>4. CASE ReadEvents(c)
  <2>1. /\ pc' \in [Clients -> Steps]
        /\ result' \in [Clients -> Results]
    BY <1>4 DEF ReadEvents, Loaded
  <2>2. snap' \in [Clients -> Seq(Events)]
    <3>1. seen[c] \in Seq(Events)
      OBVIOUS
    <3>2. snap' = snap \/ snap' = [snap EXCEPT ![c] = seen[c]]
      BY <1>4 DEF ReadEvents, Loaded
    <3>. QED  BY <3>1, <3>2
  <2>3. seen' \in [Clients -> Seq(Events)]
    BY <1>4 DEF ReadEvents
  <2>4. CallsStarted'
    BY <1>4 DEF ReadEvents, Loaded
  <2>. QED  BY <1>4, <2>1, <2>2, <2>3, <2>4 DEF ReadEvents
<1>. QED  BY <1>1, <1>2, <1>3, <1>4

(* Every step of an append keeps every type. *)
LEMMA AppendTyped ==
    ASSUME TypedInv, NEW c \in Clients,
           \/ Acquire(c) \/ WriteToken(c) \/ StageSegment(c) \/ PromoteSegment(c)
           \/ StageHead(c) \/ PromoteHead(c) \/ Release(c) \/ Unlink(c)
    PROVE  TypedInv'
<1>1. pc[c] # "idle"
  BY DEF Acquire, WriteToken, StageSegment, PromoteSegment, StageHead, PromoteHead,
         Release, Unlink
<1>2. Token(c) \in Call
  BY <1>1, TokenIsCall
<1>. USE DEF TypedInv, TypeOK, CallsStarted, Locked, Goto, Ends, disk,
             Steps, Results, WriteFails
<1>3. CASE Acquire(c)
  BY <1>2, <1>3 DEF Acquire
<1>4. CASE WriteToken(c)
  BY <1>4, FaultsBounded DEF WriteToken
<1>5. CASE StageSegment(c)
  BY <1>2, <1>5, FaultsBounded DEF StageSegment
<1>6. CASE PromoteSegment(c)
  <2>1. Promoted(segments, NewSegment(c)) \subseteq Segment
    BY DEF Promoted, NewSegment, Segment
  <2>. QED  BY <1>6, <2>1, FaultsBounded DEF PromoteSegment
<1>7. CASE StageHead(c)
  BY <1>2, <1>7, FaultsBounded DEF StageHead
<1>8. CASE PromoteHead(c)
  <2>1. base[c] \o batch[c] \in Seq(Events)
    BY ConcatProperties
  <2>. QED  BY <1>8, <2>1, FaultsBounded DEF PromoteHead
<1>9. CASE Release(c)
  BY <1>9 DEF Release
<1>10. CASE Unlink(c)
  <2>1. /\ lock' \in Call \cup {Free} /\ faults' \in 0..MaxFaults
        /\ UNCHANGED <<segments, segTemps, head, headTemps>>
    BY <1>10, FaultsBounded DEF Unlink
  <2>2. /\ pc' \in [Clients -> Steps] /\ result' \in [Clients -> Results]
        /\ pc'[c] \in {"checkLock", "idle"} /\ \A d \in Clients \ {c} : pc'[d] = pc[d]
    BY <1>10 DEF Unlink
  <2>3. /\ mode' \in [Clients -> {"inspect", "append", "answer"}]
        /\ \A d \in Clients \ {c} : mode'[d] = mode[d]
        /\ UNCHANGED <<calls, seen, snap, base, batch, crashes>>
    BY <1>10 DEF Unlink
  <2>4. CallsStarted'
    <3>1. CallsStarted
      OBVIOUS
    <3>. HIDE DEF TypedInv, TypeOK
    <3>. QED  BY <1>1, <2>2, <2>3, <3>1
  <2>. QED  BY <2>1, <2>2, <2>3, <2>4
<1>. QED  BY <1>3, <1>4, <1>5, <1>6, <1>7, <1>8, <1>9, <1>10

(* So do a death and an operator. *)
LEMMA OthersTyped ==
    ASSUME TypedInv, Operator \/ \E c \in Clients : Crash(c)
    PROVE  TypedInv'
<1>. USE DEF TypedInv, TypeOK, CallsStarted, Locked, Goto, Ends, disk, local, Steps, Results
<1>1. ASSUME NEW c \in Clients, Crash(c) PROVE TypedInv'
  BY <1>1, EmptySeq, BoundsAssumption DEF Crash
<1>2. CASE RemoveLock
  BY <1>2 DEF RemoveLock
<1>3. CASE RemoveTemps
  BY <1>3 DEF RemoveTemps
<1>4. CASE AdvanceHead
  <2>1. PICK s \in segments : head' = Reaches(s)
    BY <1>4 DEF AdvanceHead
  <2>2. Reaches(s) \in Seq(Events)
    BY ConcatProperties DEF Reaches, Segment
  <2>. QED  BY <1>4, <2>1, <2>2 DEF AdvanceHead
<1>. QED  BY <1>1, <1>2, <1>3, <1>4 DEF Operator

LEMMA NextTyped == TypedInv /\ [Next]_vars => TypedInv'
<1>1. ASSUME TypedInv, Next PROVE TypedInv'
  BY <1>1, BeginsTyped, CreateTyped, LoadTyped, AppendTyped, OthersTyped DEF Next, Step
<1>2. ASSUME TypedInv, UNCHANGED vars PROVE TypedInv'
  BY <1>2 DEF TypedInv, TypeOK, CallsStarted, Locked, vars, disk, local
<1>. QED  BY <1>1, <1>2

(* Every variable keeps its type, whatever is done to a live lock. *)
THEOREM TypeCorrect == Spec => []TypeOK
<1>1. Spec => []TypedInv
  BY InitTyped, NextTyped, PTL DEF Spec
<1>2. TypedInv => TypeOK
  BY DEF TypedInv
<1>. QED  BY <1>1, <1>2, PTL

-----------------------------------------------------------------------------
(* Mutual exclusion. *)

(* Two writers would hold the lock by two tokens. *)
LEMMA WriterExclusive ==
    ASSUME OneWriter, NEW c \in Clients, NEW d \in Clients, Writing(c), Writing(d)
    PROVE  c = d
BY DEF OneWriter, Token

(* A writer's token is not the absence of a lock. *)
LEMMA WriterHoldsLock ==
    ASSUME TypedInv, OneWriter, NEW c \in Clients, Writing(c)
    PROVE  lock # Free /\ Running(lock)
<1>1. pc[c] # "idle"
  BY DEF Writing
<1>2. lock = Token(c) /\ Token(c) \in Call
  BY <1>1, TokenIsCall DEF OneWriter
<1>. QED  BY <1>1, <1>2, FreeAssumption DEF Running, Token

(* What a process does to its own variables leaves the others' alone. *)
Untouched(d) ==
    /\ calls'[d] = calls[d] /\ pc'[d] = pc[d] /\ mode'[d] = mode[d]
    /\ seen'[d] = seen[d] /\ snap'[d] = snap[d]
    /\ base'[d] = base[d] /\ batch'[d] = batch[d] /\ result'[d] = result[d]

LEMMA OthersUntouched ==
    ASSUME TypedInv, NEW c \in Clients, Begins(c) \/ Step(c) \/ Crash(c),
           NEW d \in Clients, d # c
    PROVE  Untouched(d)
<1>. USE DEF TypedInv, TypeOK, Untouched, Goto, Ends, disk, local, LoadFails, WriteFails
<1>1. CASE Begins(c)
  BY <1>1 DEF Begins, Begin, BeginCreate, BeginVerify, BeginAppend
<1>2. CASE StageSession(c) \/ PromoteSession(c)
  BY <1>2 DEF StageSession, PromoteSession
<1>3. CASE CheckLock(c) \/ ListEntries(c) \/ ReadHead(c)
  BY <1>3 DEF CheckLock, ListEntries, ReadHead
<1>4. CASE ReadEvents(c)
  BY <1>4 DEF ReadEvents, Loaded
<1>5. CASE Acquire(c) \/ WriteToken(c)
  BY <1>5 DEF Acquire, WriteToken
<1>6. CASE StageSegment(c) \/ PromoteSegment(c)
  BY <1>6 DEF StageSegment, PromoteSegment
<1>7. CASE StageHead(c) \/ PromoteHead(c)
  BY <1>7 DEF StageHead, PromoteHead
<1>8. CASE Release(c) \/ Unlink(c)
  BY <1>8 DEF Release, Unlink
<1>9. CASE Crash(c)
  BY <1>9 DEF Crash
<1>. QED  BY <1>1, <1>2, <1>3, <1>4, <1>5, <1>6, <1>7, <1>8, <1>9 DEF Step

(* A step that leaves the lock alone makes no new writer and renames none. *)
LockQuiet(c) ==
    /\ lock' = lock
    /\ Writing(c)' => Writing(c) /\ calls'[c] = calls[c]

LEMMA QuietKeepsOneWriter ==
    ASSUME TypedInv, OneWriter, NEW c \in Clients,
           Begins(c) \/ Step(c) \/ Crash(c), LockQuiet(c)
    PROVE  OneWriter'
<1>. SUFFICES ASSUME NEW d \in Clients, Writing(d)' PROVE (lock = Token(d))'
  BY DEF OneWriter
<1>1. CASE d = c
  BY <1>1 DEF LockQuiet, OneWriter, Token
<1>2. CASE d # c
  <2>1. Untouched(d)
    BY <1>2, OthersUntouched
  <2>2. Writing(d)
    BY <2>1 DEF Untouched, Writing, Locked
  <2>. QED  BY <2>1, <2>2 DEF Untouched, LockQuiet, OneWriter, Token
<1>. QED  BY <1>1, <1>2

LEMMA QuietSteps ==
    ASSUME TypedInv, NEW c \in Clients,
           \/ Begins(c) \/ Crash(c) \/ StageSession(c) \/ PromoteSession(c)
           \/ CheckLock(c) \/ ListEntries(c) \/ ReadHead(c) \/ ReadEvents(c)
           \/ StageSegment(c) \/ PromoteSegment(c) \/ StageHead(c) \/ PromoteHead(c)
           \/ Release(c)
    PROVE  LockQuiet(c)
<1>. USE DEF TypedInv, TypeOK, LockQuiet, Writing, Locked, Goto, disk, LoadFails, WriteFails
<1>1. CASE Begins(c)
  BY <1>1 DEF Begins, Begin, BeginCreate, BeginVerify, BeginAppend
<1>2. CASE Crash(c)
  BY <1>2 DEF Crash
<1>3. CASE StageSession(c)
  BY <1>3 DEF StageSession
<1>4. CASE PromoteSession(c)
  BY <1>4 DEF PromoteSession, CallsStarted
<1>5. CASE CheckLock(c) \/ ListEntries(c) \/ ReadHead(c)
  BY <1>5 DEF CheckLock, ListEntries, ReadHead
<1>6. CASE ReadEvents(c)
  BY <1>6 DEF ReadEvents, Loaded
<1>7. CASE StageSegment(c) \/ PromoteSegment(c)
  BY <1>7 DEF StageSegment, PromoteSegment
<1>8. CASE StageHead(c) \/ PromoteHead(c)
  BY <1>8 DEF StageHead, PromoteHead
<1>9. CASE Release(c)
  BY <1>9 DEF Release
<1>. QED  BY <1>1, <1>2, <1>3, <1>4, <1>5, <1>6, <1>7, <1>8, <1>9

(* Exclusive creation and the ownership test exclude a second writer.      *)
LEMMA NextOneWriter ==
    ASSUME LocksRespected, TypedInv, OneWriter, [Next]_vars
    PROVE  OneWriter'
<1>1. ASSUME NEW c \in Clients, Acquire(c) PROVE OneWriter'
  <2>. USE <1>1 DEF Acquire, Goto, Ends, TypedInv, TypeOK
  <2>1. CASE lock = Free
    <3>1. \A d \in Clients : ~Writing(d)
      BY <2>1, WriterHoldsLock
    <3>2. \A d \in Clients : d # c => Untouched(d)
      BY OthersUntouched DEF Step
    <3>3. \A d \in Clients : Writing(d)' => d = c
      BY <3>1, <3>2 DEF Untouched, Writing, Locked
    <3>4. lock' = Token(c)'
      BY <2>1 DEF Token
    <3>. QED  BY <3>3, <3>4 DEF OneWriter
  <2>2. CASE lock # Free
    <3>1. LockQuiet(c)
      BY <2>2 DEF LockQuiet, Writing, Locked
    <3>. QED  BY <3>1, QuietKeepsOneWriter DEF Step
  <2>. QED  BY <2>1, <2>2
<1>2. ASSUME NEW c \in Clients, WriteToken(c) \/ Unlink(c) PROVE OneWriter'
  <2>. USE <1>2 DEF WriteToken, Unlink, Goto, Ends, TypedInv, TypeOK
  <2>1. Writing(c)
    BY DEF Writing
  <2>2. CASE lock' = lock
    <3>1. LockQuiet(c)
      BY <2>1, <2>2 DEF LockQuiet, Writing, Locked
    <3>. QED  BY <3>1, QuietKeepsOneWriter DEF Step
  <2>3. CASE lock' # lock
    <3>1. ~Writing(c)'
      BY <2>3 DEF Writing, Locked
    <3>2. \A d \in Clients : d # c => ~Writing(d) /\ Untouched(d)
      BY <2>1, WriterExclusive, OthersUntouched DEF Step
    <3>3. \A d \in Clients : ~Writing(d)'
      BY <3>1, <3>2 DEF Untouched, Writing, Locked
    <3>. QED  BY <3>3 DEF OneWriter
  <2>. QED  BY <2>2, <2>3
<1>3. CASE RemoveLock
  <2>1. \A d \in Clients : ~Writing(d)
    BY <1>3, WriterHoldsLock DEF RemoveLock, LocksRespected
  <2>. QED  BY <1>3, <2>1 DEF RemoveLock, local, OneWriter, Writing, Locked
<1>4. CASE RemoveTemps \/ AdvanceHead \/ UNCHANGED vars
  BY <1>4 DEF RemoveTemps, AdvanceHead, vars, disk, local, OneWriter, Writing, Locked, Token
<1>5. ASSUME NEW c \in Clients, Begins(c) \/ Step(c) \/ Crash(c),
             ~Acquire(c), ~WriteToken(c), ~Unlink(c)
      PROVE  OneWriter'
  <2>1. LockQuiet(c)
    BY <1>5, QuietSteps DEF Step
  <2>. QED  BY <1>5, <2>1, QuietKeepsOneWriter
<1>. QED  BY <1>1, <1>2, <1>3, <1>4, <1>5 DEF Next, Operator

(* At most one process is inside the writer lock, and the lock file is its *)
(* own, provided nobody removes the lock of a writer that is alive.        *)
THEOREM MutualExclusion ==
    ASSUME LocksRespected
    PROVE  Spec => []OneWriter
<1>1. Init => OneWriter
  BY DEF Init, OneWriter, Writing
<1>2. TypedInv /\ OneWriter /\ [Next]_vars => TypedInv' /\ OneWriter'
  BY NextOneWriter, NextTyped
<1>. QED  BY <1>1, <1>2, InitTyped, PTL DEF Spec

-----------------------------------------------------------------------------
(* The history. *)

(* Three actions write the head file: creation, append and recovery. *)
LEMMA HeadMovers ==
    ASSUME Next, head' # head
    PROVE  \/ \E c \in Clients : PromoteSession(c) \/ PromoteHead(c)
           \/ AdvanceHead
<1>1. ASSUME NEW c \in Clients, Begins(c) \/ Crash(c) PROVE FALSE
  BY <1>1 DEF Begins, BeginCreate, BeginVerify, BeginAppend, Begin, Crash, disk
<1>2. ASSUME NEW c \in Clients, Step(c), ~PromoteSession(c), ~PromoteHead(c) PROVE FALSE
  BY <1>2 DEF Step, StageSession, CheckLock, ListEntries, ReadHead, ReadEvents, Acquire,
     WriteToken, StageSegment, PromoteSegment, StageHead, Release, Unlink, disk
<1>3. ASSUME RemoveLock \/ RemoveTemps PROVE FALSE
  BY <1>3 DEF RemoveLock, RemoveTemps
<1>. QED  BY <1>1, <1>2, <1>3 DEF Next, Operator

(* Each of them extends the history, and no writer but the one that does   *)
(* it has compared with the old one.                                       *)
LEMMA HeadMoves ==
    ASSUME SessionInv, Next, head' # head
    PROVE  /\ IsPrefix(head, head')
           /\ \A d \in Clients :
                 Writing(d) /\ head # <<>> => pc[d] = "promoteHead" /\ pc'[d] = "release"
<1>. USE DEF SessionInv, TypedInv, TypeOK
<1>1. ASSUME NEW c \in Clients, PromoteSession(c)
      PROVE  head = <<>> /\ IsPrefix(head, head')
  <2>1. head = <<>> /\ head' \in Seq(Events)
    BY <1>1 DEF PromoteSession
  <2>. QED  BY <2>1, PrefixReflexive
<1>2. ASSUME NEW c \in Clients, PromoteHead(c)
      PROVE  /\ IsPrefix(head, head')
             /\ \A d \in Clients : Writing(d) => pc[d] = "promoteHead" /\ pc'[d] = "release"
  <2>1. Writing(c) /\ pc[c] = "promoteHead" /\ base[c] = head
    BY <1>2 DEF PromoteHead, Writing, WriterCurrent
  <2>2. head' = head \o batch[c] /\ pc'[c] = "release"
    BY <1>2, <2>1 DEF PromoteHead, Goto, WriteFails
  <2>3. IsPrefix(head, head')
    BY <2>2, PrefixOfConcat
  <2>. QED  BY <2>1, <2>2, <2>3, WriterExclusive
<1>3. CASE AdvanceHead
  <2>1. PICK s \in segments : s.prev = head /\ head' = s.prev \o s.events
    BY <1>3 DEF AdvanceHead, Dangling, Reaches
  <2>2. IsPrefix(head, head')
    BY <2>1, PrefixOfConcat DEF Segment
  <2>3. \A d \in Clients : ~Writing(d)
    BY <1>3, WriterHoldsLock DEF AdvanceHead
  <2>. QED  BY <2>2, <2>3
<1>. QED  BY <1>1, <1>2, <1>3, HeadMovers

LEMMA HeadExtends ==
    ASSUME SessionInv, Next
    PROVE  head' \in Seq(Events) /\ IsPrefix(head, head')
<1>1. head \in Seq(Events) /\ head' \in Seq(Events)
  BY NextTyped DEF SessionInv, TypedInv, TypeOK
<1>. QED  BY <1>1, HeadMoves, PrefixReflexive

(* What the invariant says of one process. *)
Sound(c) ==
    /\ pc[c] = "readEvents" =>
          /\ IsPrefix(seen[c], head)
          /\ Locked(c) /\ seen[c] # <<>> => seen[c] = head
    /\ pc[c] \in {"stageSegment", "promoteSegment", "stageHead", "promoteHead"} =>
          base[c] = head /\ head # <<>>
    /\ IsPrefix(snap[c], head)

(* A process another one's step leaves untouched stays sound. *)
LEMMA UntouchedSound ==
    ASSUME SessionInv, Next, NEW d \in Clients, Untouched(d)
    PROVE  Sound(d)'
<1>. USE DEF SessionInv, TypedInv, TypeOK, Untouched
<1>1. head' \in Seq(Events) /\ IsPrefix(head, head')
  BY HeadExtends
<1>2. IsPrefix(snap'[d], head')
  BY <1>1, PrefixTransitive DEF SnapshotsCommitted
<1>3. pc[d] = "readEvents" => IsPrefix(seen'[d], head')
  BY <1>1, PrefixTransitive DEF LoadsCommitted
<1>4. Writing(d) /\ head # <<>> => head' = head
  BY HeadMoves
<1>5. pc[d] = "readEvents" /\ Locked(d) /\ seen[d] # <<>> => seen[d] = head'
  BY <1>4 DEF Writing, LoadsCommitted
<1>6. pc[d] \in {"stageSegment", "promoteSegment", "stageHead", "promoteHead"} =>
         base[d] = head' /\ head' # <<>>
  BY <1>4 DEF Writing, WriterCurrent
<1>. QED  BY <1>2, <1>3, <1>5, <1>6 DEF Sound, Locked

(* A process that moves stays sound.  First, the steps that neither load a *)
(* snapshot nor reach a step where one matters.                            *)
LEMMA PlainStepSound ==
    ASSUME SessionInv, Next, NEW c \in Clients,
           \/ Begins(c) \/ Crash(c) \/ StageSession(c) \/ PromoteSession(c)
           \/ CheckLock(c) \/ ListEntries(c) \/ Acquire(c) \/ WriteToken(c)
           \/ PromoteHead(c) \/ Release(c) \/ Unlink(c)
    PROVE  Sound(c)'
<1>. USE DEF SessionInv, TypedInv, TypeOK
<1>1. head' \in Seq(Events) /\ IsPrefix(head, head')
  BY HeadExtends
<1>2. IsPrefix(snap[c], head') /\ IsPrefix(<<>>, head')
  BY <1>1, PrefixTransitive, PrefixReflexive DEF SnapshotsCommitted
<1>3. /\ pc'[c] \notin {"readEvents", "stageSegment", "promoteSegment",
                        "stageHead", "promoteHead"}
      /\ snap'[c] \in {snap[c], <<>>}
  <2>. USE DEF Goto, disk, LoadFails, WriteFails
  <2>1. CASE Begins(c) \/ Crash(c)
    BY <2>1 DEF Begins, Begin, BeginCreate, BeginVerify, BeginAppend, Crash
  <2>2. CASE StageSession(c) \/ PromoteSession(c)
    BY <2>2 DEF StageSession, PromoteSession
  <2>3. CASE CheckLock(c) \/ ListEntries(c)
    BY <2>3 DEF CheckLock, ListEntries
  <2>4. CASE Acquire(c) \/ WriteToken(c)
    BY <2>4 DEF Acquire, WriteToken
  <2>5. CASE PromoteHead(c)
    BY <2>5 DEF PromoteHead
  <2>6. CASE Release(c) \/ Unlink(c)
    BY <2>6 DEF Release, Unlink
  <2>. QED  BY <2>1, <2>2, <2>3, <2>4, <2>5, <2>6
<1>. QED  BY <1>2, <1>3 DEF Sound

(* Reading the head, and matching the segments with it. *)
LEMMA LoadSound ==
    ASSUME SessionInv, Next, NEW c \in Clients, ReadHead(c) \/ ReadEvents(c)
    PROVE  Sound(c)'
<1>. USE DEF SessionInv, TypedInv, TypeOK, Goto, disk
<1>1. head' = head
  BY DEF ReadHead, ReadEvents
<1>2. IsPrefix(snap[c], head)
  BY DEF SnapshotsCommitted
<1>3. CASE ReadHead(c)
  <2>1. pc'[c] = "readEvents" /\ seen'[c] = head /\ snap'[c] = snap[c]
    BY <1>3 DEF ReadHead
  <2>2. IsPrefix(head, head)
    BY PrefixReflexive
  <2>. QED  BY <1>1, <1>2, <2>1, <2>2 DEF Sound
<1>4. CASE ReadEvents(c)
  <2>1. /\ IsPrefix(seen[c], head)
        /\ Locked(c) /\ seen[c] # <<>> => seen[c] = head
    BY <1>4 DEF ReadEvents, LoadsCommitted
  <2>2. CASE LoadFails(c, "integrity")
    BY <1>1, <1>2, <2>2 DEF LoadFails, Sound
  <2>3. CASE Matches(segments, seen[c]) /\ Loaded(c)
    <3>1. seen[c] # <<>>
      BY <2>3 DEF Matches
    <3>2. /\ pc'[c] \in {"idle", "release", "stageSegment"}
          /\ snap'[c] \in {snap[c], seen[c]}
          /\ pc'[c] = "stageSegment" => Locked(c) /\ seen[c] = base[c]
      BY <2>3 DEF Loaded
    <3>3. base' = base
      BY <1>4 DEF ReadEvents
    <3>. QED  BY <1>1, <1>2, <2>1, <3>1, <3>2, <3>3 DEF Sound
  <2>. QED  BY <1>4, <2>2, <2>3 DEF ReadEvents
<1>. QED  BY <1>3, <1>4

(* Writing the segment and the temporary head file. *)
LEMMA WriteSound ==
    ASSUME SessionInv, Next, NEW c \in Clients,
           StageSegment(c) \/ PromoteSegment(c) \/ StageHead(c)
    PROVE  Sound(c)'
<1>. USE DEF SessionInv, TypedInv, TypeOK, Goto, WriteFails
<1>1. base[c] = head /\ head # <<>> /\ IsPrefix(snap[c], head)
  BY DEF StageSegment, PromoteSegment, StageHead, WriterCurrent, SnapshotsCommitted
<1>2. head' = head /\ base' = base /\ snap' = snap /\ pc'[c] # "readEvents"
  BY DEF StageSegment, PromoteSegment, StageHead
<1>. QED  BY <1>1, <1>2 DEF Sound

LEMMA NextSound ==
    ASSUME LocksRespected, SessionInv, [Next]_vars
    PROVE  SessionInv'
<1>1. TypedInv' /\ OneWriter'
  BY NextTyped, NextOneWriter DEF SessionInv, TypedInv
<1>2. SUFFICES ASSUME NEW d \in Clients PROVE Sound(d)'
  BY <1>1 DEF SessionInv, TypedInv, Sound, LoadsCommitted, WriterCurrent, SnapshotsCommitted
<1>3. Sound(d)
  BY DEF SessionInv, Sound, LoadsCommitted, WriterCurrent, SnapshotsCommitted
<1>4. ASSUME NEW c \in Clients, Begins(c) \/ Step(c) \/ Crash(c) PROVE Sound(d)'
  <2>1. Next
    BY <1>4 DEF Next
  <2>2. CASE d = c
    BY <1>4, <2>1, <2>2, PlainStepSound, LoadSound, WriteSound DEF Step
  <2>3. CASE d # c
    BY <1>4, <2>1, <2>3, OthersUntouched, UntouchedSound DEF SessionInv, TypedInv
  <2>. QED  BY <2>2, <2>3
<1>5. CASE Operator
  <2>1. Untouched(d) /\ Next
    BY <1>5 DEF Operator, RemoveLock, RemoveTemps, AdvanceHead, local, Untouched, Next
  <2>. QED  BY <2>1, UntouchedSound
<1>6. CASE UNCHANGED vars
  BY <1>3, <1>6 DEF Sound, vars, disk, local, Locked
<1>. QED  BY <1>4, <1>5, <1>6 DEF Next

LEMMA InitSound == Init => SessionInv
<1>. SUFFICES ASSUME Init PROVE SessionInv
  OBVIOUS
<1>1. TypedInv
  BY InitTyped
<1>2. \A c \in Clients : snap[c] = <<>> /\ pc[c] = "idle"
  BY DEF Init
<1>3. IsPrefix(<<>>, head)
  BY <1>1, PrefixReflexive DEF TypedInv, TypeOK
<1>. QED  BY <1>1, <1>2, <1>3
  DEF SessionInv, TypedInv, OneWriter, Writing, LoadsCommitted, WriterCurrent, SnapshotsCommitted

(* The invariant that carries the results below. *)
LEMMA SessionInvariant ==
    ASSUME LocksRespected
    PROVE  Spec => []SessionInv
BY InitSound, NextSound, PTL DEF Spec

(* A snapshot a caller was given is a part of the committed history for    *)
(* good, however many writers came between the four visits of its load.    *)
THEOREM SnapshotsStay ==
    ASSUME LocksRespected
    PROVE  Spec => []SnapshotsCommitted
<1>1. SessionInv => SnapshotsCommitted
  BY DEF SessionInv
<1>. QED  BY <1>1, SessionInvariant, PTL

(* No committed event is ever removed, replaced or reordered. *)
THEOREM HistoryOnlyGrows ==
    ASSUME LocksRespected
    PROVE  Spec => HistoryGrows
<1>1. SessionInv /\ [Next]_vars => [IsPrefix(head, head')]_vars
  BY HeadExtends
<1>. QED  BY <1>1, SessionInvariant, PTL DEF Spec, HistoryGrows

-----------------------------------------------------------------------------
(* Segments that match a history. *)

(* Where a segment begins and ends in the history. *)
From(s) == Len(s.prev)
To(s) == Len(s.prev) + Len(s.events)

LEMMA SegmentMeasure ==
    ASSUME NEW s \in Segment
    PROVE  /\ From(s) \in Nat /\ To(s) \in Nat /\ From(s) <= To(s)
           /\ s.events # <<>> => From(s) < To(s)
           /\ s.prev \in Seq(Events) /\ s.events \in Seq(Events)
           /\ Len(s.prev) = From(s)
           /\ Reaches(s) \in Seq(Events) /\ Len(Reaches(s)) = To(s)
           /\ Name(s) = <<From(s) + 1, To(s)>>
           /\ \A i : Covers(s, i) <=> From(s) < i /\ i <= To(s)
<1>1. s.prev \in Seq(Events) /\ s.events \in Seq(Events)
  BY DEF Segment
<1>2. Len(s.prev) \in Nat /\ Len(s.events) \in Nat
  BY <1>1, LenProperties
<1>3. Reaches(s) \in Seq(Events) /\ Len(Reaches(s)) = To(s)
  BY <1>1, ConcatProperties DEF Reaches, To
<1>4. s.events # <<>> => Len(s.events) > 0
  BY <1>1, <1>2, EmptySeq
<1>5. /\ From(s) \in Nat /\ To(s) \in Nat /\ From(s) <= To(s)
      /\ s.events # <<>> => From(s) < To(s)
  <2>1. PICK m \in Nat, n \in Nat : m = Len(s.prev) /\ n = Len(s.events)
    BY <1>2
  <2>2. From(s) = m /\ To(s) = m + n
    BY <2>1 DEF From, To
  <2>3. s.events # <<>> => n > 0
    BY <1>4, <2>1
  <2>. QED  BY <2>2, <2>3
<1>6. \A i : Covers(s, i) <=> From(s) < i /\ i <= To(s)
  BY DEF Covers, From, To
<1>7. Name(s) = <<From(s) + 1, To(s)>>
  BY DEF Name, From, To
<1>. QED  BY <1>1, <1>3, <1>5, <1>6, <1>7 DEF From

(* A segment of a history does not reach beyond it. *)
LEMMA MatchedWithin ==
    ASSUME NEW S \in SUBSET Segment, NEW h \in Seq(Events), Matches(S, h), NEW s \in S
    PROVE  /\ From(s) \in Nat /\ To(s) \in Nat /\ Len(h) \in Nat
           /\ From(s) <= To(s) /\ To(s) <= Len(h)
           /\ s.events # <<>> => From(s) < To(s)
<1>1. s \in Segment /\ IsPrefix(Reaches(s), h)
  BY DEF Matches
<1>. QED  BY <1>1, SegmentMeasure, PrefixElements, LenProperties

(* A batch on top of a history is a new file of a name no other has, and   *)
(* the only one that continues the history.                                *)
LEMMA MatchedFresh ==
    ASSUME NEW S \in SUBSET Segment, NEW s \in Segment,
           s.events # <<>>, Matches(S, s.prev)
    PROVE  /\ s \notin S
           /\ Promoted(S, s) = S \cup {s}
           /\ \A t \in S : t.events # <<>> => t.prev # s.prev
<1>1. /\ s.prev \in Seq(Events) /\ From(s) \in Nat /\ To(s) \in Nat /\ From(s) < To(s)
      /\ Len(s.prev) = From(s)
  BY SegmentMeasure
<1>2. ASSUME NEW t \in S
      PROVE  /\ To(t) \in Nat /\ From(t) \in Nat /\ To(t) <= From(s)
             /\ t.events # <<>> => From(t) < To(t)
  BY <1>1, MatchedWithin
<1>3. ASSUME NEW t \in S PROVE Name(t) # Name(s)
  <2>1. To(t) # To(s)
    BY <1>1, <1>2
  <2>. QED  BY <2>1, SegmentMeasure
<1>4. Promoted(S, s) = S \cup {s}
  BY <1>3 DEF Promoted
<1>5. ASSUME NEW t \in S, t.events # <<>> PROVE t.prev # s.prev
  <2>1. From(t) # From(s)
    BY <1>1, <1>2, <1>5
  <2>. QED  BY <2>1 DEF From
<1>. QED  BY <1>3, <1>4, <1>5

(* The batch on top becomes part of the history, whole. *)
LEMMA MatchedExtended ==
    ASSUME NEW S \in SUBSET Segment, NEW s \in S, Matches(S \ {s}, s.prev)
    PROVE  Matches(S, Reaches(s))
<1>1. /\ From(s) \in Nat /\ To(s) \in Nat /\ From(s) <= To(s)
      /\ s.prev \in Seq(Events) /\ Len(s.prev) = From(s)
      /\ Reaches(s) \in Seq(Events) /\ Len(Reaches(s)) = To(s)
      /\ IsPrefix(s.prev, Reaches(s))
  BY SegmentMeasure, PrefixOfConcat DEF Reaches
<1>2. Reaches(s) # <<>>
  <2>1. From(s) # 0
    BY <1>1, EmptySeq DEF Matches
  <2>2. Len(Reaches(s)) # 0
    BY <1>1, <2>1
  <2>. QED  BY <2>2, EmptySeq
<1>3. \A t \in S : IsPrefix(Reaches(t), Reaches(s))
  <2>1. ASSUME NEW t \in S \ {s} PROVE IsPrefix(Reaches(t), Reaches(s))
    <3>1. IsPrefix(Reaches(t), s.prev) /\ Reaches(t) \in Seq(Events)
      BY SegmentMeasure DEF Matches
    <3>. QED  BY <1>1, <3>1, PrefixTransitive
  <2>2. IsPrefix(Reaches(s), Reaches(s))
    BY <1>1, PrefixReflexive
  <2>. QED  BY <2>1, <2>2
<1>4. ASSUME NEW t \in S \ {s}, NEW i \in Int, From(s) < i PROVE ~Covers(t, i)
  <2>1. To(t) \in Nat /\ To(t) <= From(s)
    BY <1>1, MatchedWithin
  <2>2. ~(i <= To(t))
    BY <1>1, <1>4, <2>1
  <2>. QED  BY <2>2, SegmentMeasure
<1>5. ASSUME NEW i \in 1..Len(Reaches(s)) PROVE \E t \in S : Covers(t, i)
  <2>1. CASE i <= From(s)
    <3>1. i \in 1..Len(s.prev)
      BY <1>1, <2>1
    <3>. QED  BY <3>1 DEF Matches
  <2>2. CASE ~(i <= From(s))
    <3>1. From(s) < i /\ i <= To(s)
      BY <1>1, <2>2
    <3>. QED  BY <3>1, SegmentMeasure
  <2>. QED  BY <2>1, <2>2
<1>6. ASSUME NEW t \in S, NEW u \in S, NEW i \in 1..Len(Reaches(s)),
             Covers(t, i), Covers(u, i)
      PROVE  t = u
  <2>1. CASE i <= From(s)
    <3>1. i \in 1..Len(s.prev) /\ ~(From(s) < i)
      BY <1>1, <2>1
    <3>2. t \in S \ {s} /\ u \in S \ {s}
      BY <1>6, <3>1, SegmentMeasure
    <3>. QED  BY <1>6, <3>1, <3>2 DEF Matches
  <2>2. CASE ~(i <= From(s))
    <3>1. From(s) < i
      BY <1>1, <2>2
    <3>. QED  BY <1>4, <1>6, <3>1
  <2>. QED  BY <2>1, <2>2
<1>. QED  BY <1>2, <1>3, <1>5, <1>6 DEF Matches

(* A session that has just been made is its first segment. *)
LEMMA MatchedFirst ==
    ASSUME NEW s \in Segment, s.prev = <<>>, s.events # <<>>
    PROVE  Matches({s}, s.events)
<1>1. Reaches(s) = s.events /\ s.events \in Seq(Events) /\ Len(<<>>) = 0
  BY ConcatEmptySeq, EmptySeq, SegmentMeasure DEF Reaches
<1>2. IsPrefix(Reaches(s), s.events)
  BY <1>1, PrefixReflexive
<1>3. \A i \in 1..Len(s.events) : Covers(s, i)
  BY <1>1, SegmentMeasure DEF Covers
<1>. QED  BY <1>2, <1>3 DEF Matches
-----------------------------------------------------------------------------
(* What a call is about to write. *)

LEMMA BatchIsWhole ==
    ASSUME NEW b \in Batches
    PROVE  b \in Seq(Events) /\ b # <<>>
<1>1. PICK n \in 1..MaxBatch, k \in Call : b = [i \in 1..n |-> k]
  BY DEF Batches
<1>2. n \in Nat /\ n > 0
  BY <1>1, BoundsAssumption
<1>3. b \in Seq(Events) /\ Len(b) = n
  BY <1>1, <1>2 DEF Events
<1>. QED  BY <1>2, <1>3, EmptySeq

(* A step of one process leaves what another is about to write alone. *)
LEMMA NextBatchesWhole ==
    ASSUME TypedInv, BatchesWhole, [Next]_vars
    PROVE  BatchesWhole'
<1>. DEFINE Whole(d) ==
        /\ Locked(d) => batch[d] \in Batches
        /\ pc[d] \in {"acquire", "writeToken", "stageSegment", "promoteSegment",
                      "stageHead", "promoteHead", "release", "unlink"} => Locked(d)
        /\ pc[d] \in {"stageSession", "promoteSession"} =>
              base[d] = <<>> /\ \E k \in Call : batch[d] = <<k>>
<1>. SUFFICES ASSUME NEW d \in Clients PROVE Whole(d)'
  BY DEF BatchesWhole
<1>1. Whole(d)
  BY DEF BatchesWhole
<1>2. ASSUME Untouched(d) PROVE Whole(d)'
  BY <1>1, <1>2 DEF Untouched, Locked
<1>3. CASE Begins(d)
  <2>. USE DEF TypedInv, TypeOK, Begin, Goto, Locked
  <2>1. calls[d] < MaxCalls => <<d, calls[d] + 1>> \in Call
    BY BoundsAssumption DEF Call
  <2>2. CASE BeginCreate(d)
    <3>1. /\ pc'[d] = "stageSession" /\ mode'[d] = "answer" /\ base'[d] = <<>>
          /\ batch'[d] = <<<<d, calls[d] + 1>>>> /\ calls[d] < MaxCalls
      BY <2>2 DEF BeginCreate
    <3>. QED  BY <2>1, <3>1
  <2>3. CASE BeginVerify(d)
    BY <2>3 DEF BeginVerify
  <2>4. CASE BeginAppend(d)
    <3>1. PICK n \in 1..MaxBatch : batch' = [batch EXCEPT ![d] = [i \in 1..n |-> <<d, calls[d] + 1>>]]
      BY <2>4 DEF BeginAppend
    <3>2. batch'[d] = [i \in 1..n |-> <<d, calls[d] + 1>>]
      BY <3>1
    <3>3. batch'[d] \in Batches
      BY <2>1, <2>4, <3>2 DEF BeginAppend, Batches
    <3>. QED  BY <2>4, <3>3 DEF BeginAppend
  <2>. QED  BY <1>3, <2>2, <2>3, <2>4 DEF Begins
<1>4. CASE Step(d) \/ Crash(d)
  <2>. USE <1>1 DEF TypedInv, TypeOK, Goto, Ends, disk, LoadFails, WriteFails, Locked
  <2>1. base' = base /\ batch' = batch
    BY <1>4 DEF Step, Crash, StageSession, PromoteSession, CheckLock, ListEntries, ReadHead,
       ReadEvents, Acquire, WriteToken, StageSegment, PromoteSegment, StageHead,
       PromoteHead, Release, Unlink
  <2>2. CASE StageSession(d) \/ PromoteSession(d)
    BY <2>1, <2>2 DEF StageSession, PromoteSession
  <2>3. CASE CheckLock(d) \/ ListEntries(d) \/ ReadHead(d)
    BY <2>1, <2>3 DEF CheckLock, ListEntries, ReadHead
  <2>4. CASE ReadEvents(d)
    BY <2>1, <2>4 DEF ReadEvents, Loaded
  <2>5. CASE Acquire(d) \/ WriteToken(d)
    BY <2>1, <2>5 DEF Acquire, WriteToken
  <2>6. CASE StageSegment(d) \/ PromoteSegment(d)
    BY <2>1, <2>6 DEF StageSegment, PromoteSegment
  <2>7. CASE StageHead(d) \/ PromoteHead(d)
    BY <2>1, <2>7 DEF StageHead, PromoteHead
  <2>8. CASE Release(d)
    BY <2>1, <2>8 DEF Release
  <2>9. CASE Unlink(d)
    BY <2>1, <2>9 DEF Unlink
  <2>10. CASE Crash(d)
    BY <2>1, <2>10 DEF Crash
  <2>. QED  BY <1>4, <2>2, <2>3, <2>4, <2>5, <2>6, <2>7, <2>8, <2>9, <2>10 DEF Step
<1>5. ASSUME NEW c \in Clients, c # d, Begins(c) \/ Step(c) \/ Crash(c) PROVE Untouched(d)
  BY <1>5, OthersUntouched
<1>6. CASE Operator \/ UNCHANGED vars
  BY <1>2, <1>6 DEF Operator, RemoveLock, RemoveTemps, AdvanceHead, local, vars, Untouched
<1>. QED  BY <1>2, <1>3, <1>4, <1>5, <1>6 DEF Next

-----------------------------------------------------------------------------
(* What the disk holds. *)

(* Two actions write segments, and three write the head file. *)
LEMMA DiskMovers ==
    ASSUME Next, segments' # segments \/ head' # head
    PROVE  \/ \E c \in Clients : PromoteSession(c) \/ PromoteSegment(c) \/ PromoteHead(c)
           \/ AdvanceHead
<1>1. ASSUME NEW c \in Clients, Begins(c) \/ Crash(c) PROVE FALSE
  BY <1>1 DEF Begins, BeginCreate, BeginVerify, BeginAppend, Begin, Crash, disk
<1>2. ASSUME NEW c \in Clients, Step(c),
             ~PromoteSession(c), ~PromoteSegment(c), ~PromoteHead(c)
      PROVE  FALSE
  BY <1>2 DEF Step, StageSession, CheckLock, ListEntries, ReadHead, ReadEvents, Acquire,
     WriteToken, StageSegment, StageHead, Release, Unlink, disk
<1>3. ASSUME RemoveLock \/ RemoveTemps PROVE FALSE
  BY <1>3 DEF RemoveLock, RemoveTemps
<1>. QED  BY <1>1, <1>2, <1>3 DEF Next, Operator

(* No writer looks at the segments while an operator closes one. *)
LEMMA NoWriterWhenFree ==
    ASSUME TypedInv, OneWriter, lock = Free, NEW d \in Clients
    PROVE  ~Writing(d)
BY WriterHoldsLock

(* What a call that moves the disk did: it brought the session into being, *)
(* or put a batch on top of the history, or made it part of it.            *)
Founded ==
    /\ head = <<>> /\ \A d \in Clients : pc[d] \notin {"stageSegment", "promoteSegment", "stageHead", "promoteHead"}
    /\ \E c \in Clients, k \in Call :
          /\ PromoteSession(c) /\ batch[c] = <<k>> /\ head' = <<k>>
          /\ segments' = {[prev |-> <<>>, events |-> <<k>>]}
          /\ pc'[c] = "checkLock"

Added(c) ==
    /\ PromoteSegment(c) /\ head' = head /\ head # <<>> /\ pc'[c] = "stageHead"
    /\ NewSegment(c) \in Segment /\ NewSegment(c) \notin segments
    /\ NewSegment(c).prev = head /\ NewSegment(c).events # <<>>
    /\ Matches(segments, head)
    /\ segments' = segments \cup {NewSegment(c)}

Committed(s) ==
    /\ s \in segments /\ s.prev = head /\ Matches(segments \ {s}, head)
    /\ head' = Reaches(s) /\ segments' = segments
    /\ \A d \in Clients :
          pc'[d] \notin {"stageSegment", "promoteSegment", "stageHead", "promoteHead"}

LEMMA DiskMoves ==
    ASSUME LogInv, Next, segments' # segments \/ head' # head
    PROVE  \/ Founded
           \/ \E c \in Clients : Added(c)
           \/ \E s \in segments : Committed(s)
<1>. USE DEF LogInv, SessionInv, TypedInv, TypeOK, Goto, WriteFails
<1>1. ASSUME NEW c \in Clients, PromoteSession(c) PROVE Founded
  <2>1. /\ head = <<>> /\ head' = batch[c] /\ pc'[c] = "checkLock"
        /\ segments' = {[prev |-> <<>>, events |-> batch[c]]}
    BY <1>1 DEF PromoteSession
  <2>2. PICK k \in Call : batch[c] = <<k>>
    BY <1>1 DEF PromoteSession, BatchesWhole
  <2>3. \A d \in Clients : pc[d] \notin {"stageSegment", "promoteSegment", "stageHead", "promoteHead"}
    BY <2>1 DEF WriterCurrent
  <2>. QED  BY <1>1, <2>1, <2>2, <2>3 DEF Founded
<1>2. ASSUME NEW c \in Clients, PromoteSegment(c) PROVE Added(c)
  <2>. DEFINE s == NewSegment(c)
  <2>1. /\ s.prev = head /\ head # <<>> /\ head' = head
        /\ Matches(segments, head) /\ segments' = Promoted(segments, s)
        /\ pc'[c] = "stageHead"
    BY <1>2 DEF PromoteSegment, WriterCurrent, WriterOnTop, NewSegment
  <2>2. batch[c] \in Batches
    BY <1>2 DEF PromoteSegment, BatchesWhole
  <2>3. s \in Segment /\ s.events # <<>>
    BY <2>2, BatchIsWhole DEF NewSegment, Segment
  <2>. QED  BY <1>2, <2>1, <2>3, MatchedFresh DEF Added
<1>3. ASSUME NEW c \in Clients, PromoteHead(c) PROVE \E s \in segments : Committed(s)
  <2>. DEFINE s == NewSegment(c)
  <2>1. /\ pc[c] = "promoteHead" /\ pc'[c] = "release"
        /\ base[c] = head /\ head' = base[c] \o batch[c] /\ segments' = segments
    BY <1>3 DEF PromoteHead, WriterCurrent
  <2>2. s \in segments /\ s.prev = head /\ Matches(segments \ {s}, head) /\ head' = Reaches(s)
    BY <2>1 DEF WriterOnTop, NewSegment, Reaches
  <2>3. Writing(c)
    BY <2>1 DEF Writing
  <2>4. ASSUME NEW d \in Clients, d # c
        PROVE  pc'[d] \notin {"stageSegment", "promoteSegment", "stageHead", "promoteHead"}
    <3>1. ~Writing(d) /\ Untouched(d)
      BY <1>3, <2>3, <2>4, WriterExclusive, OthersUntouched DEF Step
    <3>. QED  BY <3>1 DEF Writing, Untouched
  <2>. QED  BY <2>1, <2>2, <2>4 DEF Committed
<1>4. CASE AdvanceHead
  <2>1. PICK s \in segments : Dangling(s) /\ head' = Reaches(s)
    BY <1>4 DEF AdvanceHead
  <2>2. \A d \in Clients : ~Writing(d)
    BY <1>4, NoWriterWhenFree DEF AdvanceHead
  <2>3. \A d \in Clients :
           pc'[d] \notin {"stageSegment", "promoteSegment", "stageHead", "promoteHead"}
    BY <1>4, <2>2 DEF AdvanceHead, local, Writing
  <2>4. segments' = segments
    BY <1>4 DEF AdvanceHead
  <2>. QED  BY <2>1, <2>3, <2>4 DEF Dangling, Committed
<1>. QED  BY <1>1, <1>2, <1>3, <1>4, DiskMovers

(* Segments hold whole batches, and there are none without a session. *)
LEMMA NextSegmentsWhole ==
    ASSUME LogInv, Next
    PROVE  SegmentsWhole'
<1>. USE DEF LogInv, SessionInv, TypedInv, TypeOK, SegmentsWhole
<1>1. CASE Founded
  <2>1. PICK k \in Call : head' = <<k>> /\ segments' = {[prev |-> <<>>, events |-> <<k>>]}
    BY <1>1 DEF Founded
  <2>. QED  BY <2>1
<1>2. ASSUME NEW c \in Clients, Added(c) PROVE SegmentsWhole'
  BY <1>2 DEF Added
<1>3. ASSUME NEW s \in segments, Committed(s) PROVE SegmentsWhole'
  <2>1. Matches(segments, Reaches(s))
    BY <1>3, MatchedExtended DEF Committed
  <2>2. head' # <<>>
    BY <1>3, <2>1 DEF Committed, Matches
  <2>. QED  BY <1>3, <2>2 DEF Committed
<1>4. CASE segments' = segments /\ head' = head
  BY <1>4
<1>. QED  BY <1>1, <1>2, <1>3, <1>4, DiskMoves

(* Whatever moves the disk leaves it mendable. *)
LEMMA NextMendable ==
    ASSUME LogInv, Next
    PROVE  Mendable'
<1>. USE DEF LogInv, SessionInv, TypedInv, TypeOK
<1>1. CASE Founded
  <2>1. PICK k \in Call : head' = <<k>> /\ segments' = {[prev |-> <<>>, events |-> <<k>>]}
    BY <1>1 DEF Founded
  <2>2. [prev |-> <<>>, events |-> <<k>>] \in Segment
    BY EmptySeq DEF Segment, Events
  <2>3. Matches({[prev |-> <<>>, events |-> <<k>>]}, <<k>>)
    BY <2>2, MatchedFirst
  <2>. QED  BY <2>1, <2>3 DEF Mendable
<1>2. ASSUME NEW c \in Clients, Added(c) PROVE Mendable'
  <2>1. segments' \ {NewSegment(c)} = segments /\ NewSegment(c) \in segments'
    BY <1>2 DEF Added
  <2>2. \E s \in segments' : s.prev = head' /\ Matches(segments' \ {s}, head')
    BY <1>2, <2>1 DEF Added
  <2>. QED  BY <2>2 DEF Mendable, Dangling
<1>3. ASSUME NEW s \in segments, Committed(s) PROVE Mendable'
  BY <1>3, MatchedExtended DEF Committed, Mendable
<1>4. CASE segments' = segments /\ head' = head
  BY <1>4 DEF Mendable, Dangling
<1>. QED  BY <1>1, <1>2, <1>3, <1>4, DiskMoves

(* A writer past the compare keeps what it found. *)
LEMMA NextWriterOnTop ==
    ASSUME LogInv, Next
    PROVE  WriterOnTop'
<1>. USE DEF LogInv, SessionInv, TypedInv, TypeOK
<1>. DEFINE OnTop(d) ==
        /\ pc[d] \in {"stageSegment", "promoteSegment"} => Matches(segments, head)
        /\ pc[d] \in {"stageHead", "promoteHead"} =>
              /\ NewSegment(d) \in segments
              /\ Matches(segments \ {NewSegment(d)}, head)
<1>. SUFFICES ASSUME NEW d \in Clients PROVE OnTop(d)'
  BY DEF WriterOnTop
<1>1. OnTop(d)
  BY DEF WriterOnTop
<1>2. CASE segments' = segments /\ head' = head
  <2>1. CASE Untouched(d)
    BY <1>1, <1>2, <2>1 DEF Untouched, NewSegment
  <2>2. CASE Begins(d) \/ Crash(d)
    BY <2>2 DEF Begins, Begin, BeginCreate, BeginVerify, BeginAppend, Goto, Crash
  <2>3. CASE Step(d)
    <3>. USE DEF Goto, LoadFails, WriteFails
    <3>1. CASE ReadEvents(d)
      <4>1. CASE LoadFails(d, "integrity")
        BY <4>1
      <4>2. CASE Matches(segments, seen[d]) /\ Loaded(d)
        <5>1. pc'[d] = "stageSegment" => Locked(d) /\ seen[d] # <<>>
          BY <4>2 DEF Loaded, Matches
        <5>2. pc'[d] = "stageSegment" => seen[d] = head
          BY <3>1, <5>1 DEF ReadEvents, LoadsCommitted
        <5>3. pc'[d] \notin {"promoteSegment", "stageHead", "promoteHead"}
          BY <4>2 DEF Loaded
        <5>. QED  BY <1>2, <4>2, <5>2, <5>3
      <4>. QED  BY <3>1, <4>1, <4>2 DEF ReadEvents
    <3>2. CASE StageSegment(d)
      BY <1>1, <1>2, <3>2 DEF StageSegment
    <3>3. CASE StageHead(d)
      BY <1>1, <1>2, <3>3 DEF StageHead, NewSegment
    <3>4. CASE PromoteSegment(d)
      <4>1. segments' # segments \/ pc'[d] = "release"
        <5>1. batch[d] \in Batches /\ Matches(segments, NewSegment(d).prev)
          BY <3>4 DEF PromoteSegment, BatchesWhole, WriterCurrent, WriterOnTop, NewSegment
        <5>2. NewSegment(d) \in Segment /\ NewSegment(d).events # <<>>
          BY <5>1, BatchIsWhole DEF NewSegment, Segment
        <5>3. /\ NewSegment(d) \notin segments
              /\ Promoted(segments, NewSegment(d)) = segments \cup {NewSegment(d)}
          BY <5>1, <5>2, MatchedFresh
        <5>. QED  BY <3>4, <5>3 DEF PromoteSegment
      <4>. QED  BY <1>2, <4>1
    <3>5. ASSUME ~ReadEvents(d), ~StageSegment(d), ~StageHead(d), ~PromoteSegment(d)
          PROVE  pc'[d] \notin {"stageSegment", "promoteSegment", "stageHead", "promoteHead"}
      BY <2>3, <3>5 DEF Step, StageSession, PromoteSession, CheckLock, ListEntries, ReadHead,
         Acquire, WriteToken, PromoteHead, Release, Unlink
    <3>. QED  BY <3>1, <3>2, <3>3, <3>4, <3>5
  <2>4. ASSUME NEW c \in Clients, c # d, Begins(c) \/ Step(c) \/ Crash(c) PROVE Untouched(d)
    BY <2>4, OthersUntouched
  <2>5. Operator => Untouched(d)
    BY DEF Operator, RemoveLock, RemoveTemps, AdvanceHead, local, Untouched
  <2>. QED  BY <2>1, <2>2, <2>3, <2>4, <2>5 DEF Next
<1>3. CASE Founded
  <2>1. PICK c \in Clients : PromoteSession(c) /\ pc'[c] = "checkLock"
    BY <1>3 DEF Founded
  <2>2. d # c => pc'[d] = pc[d]
    BY <2>1, OthersUntouched DEF Step, Untouched
  <2>. QED  BY <1>3, <2>1, <2>2 DEF Founded
<1>4. ASSUME NEW c \in Clients, Added(c) PROVE OnTop(d)'
  <2>1. segments' \ {NewSegment(c)} = segments /\ NewSegment(c) \in segments'
    BY <1>4 DEF Added
  <2>2. CASE d = c
    <3>1. NewSegment(c)' = NewSegment(c)
      BY <1>4 DEF Added, PromoteSegment, NewSegment
    <3>. QED  BY <1>4, <2>1, <2>2, <3>1 DEF Added
  <2>3. CASE d # c
    <3>1. Writing(c) /\ Untouched(d)
      BY <1>4, <2>3, OthersUntouched DEF Added, PromoteSegment, Writing, Step
    <3>2. ~Writing(d)
      BY <2>3, <3>1, WriterExclusive
    <3>. QED  BY <3>1, <3>2 DEF Untouched, Writing
  <2>. QED  BY <2>2, <2>3
<1>5. ASSUME NEW s \in segments, Committed(s) PROVE OnTop(d)'
  BY <1>5 DEF Committed
<1>. QED  BY <1>2, <1>3, <1>4, <1>5, DiskMoves

-----------------------------------------------------------------------------
(* What an append answers with. *)

(* The committed batch of a call is there when it loads its answer. *)
LEMMA NextAnswerHolds ==
    ASSUME LogInv, Next
    PROVE  AnswerHolds' /\ AcceptedInPlace'
<1>. USE DEF LogInv, SessionInv, TypedInv, TypeOK
<1>. DEFINE Made(d) == base[d] \o batch[d]
            Held(d) ==
              /\ \/ pc[d] \in {"checkLock", "listEntries", "readHead"} /\ ~Locked(d)
                 \/ pc[d] \in {"release", "unlink"} /\ result[d] = "ok"
                 => IsPrefix(Made(d), head)
              /\ pc[d] = "readEvents" /\ ~Locked(d) => IsPrefix(Made(d), seen[d])
            Shown(d) == pc[d] = "idle" /\ result[d] = "ok" => IsPrefix(Made(d), snap[d])
<1>. SUFFICES ASSUME NEW d \in Clients PROVE Held(d)' /\ Shown(d)'
  BY DEF AnswerHolds, AcceptedInPlace
<1>1. Held(d) /\ Shown(d)
  BY DEF AnswerHolds, AcceptedInPlace
<1>2. Made(d) \in Seq(Events) /\ head' \in Seq(Events) /\ IsPrefix(head, head')
  BY HeadExtends, ConcatProperties
<1>3. IsPrefix(Made(d), head) => IsPrefix(Made(d), head')
  BY <1>2, PrefixTransitive
<1>4. ASSUME Untouched(d) PROVE Held(d)' /\ Shown(d)'
  BY <1>1, <1>3, <1>4 DEF Untouched, Locked
<1>5. CASE Begins(d)
  <2>. USE DEF Begin, Goto, Ends, Locked
  <2>1. CASE BeginVerify(d)
    <3>1. base'[d] = <<>> /\ batch'[d] = <<>> /\ pc'[d] = "checkLock" /\ result'[d] = "none"
      BY <2>1 DEF BeginVerify
    <3>2. <<>> \o <<>> = <<>> /\ IsPrefix(<<>>, head')
      BY <1>2, PrefixReflexive, ConcatEmptySeq, EmptySeq
    <3>. QED  BY <3>1, <3>2
  <2>2. CASE BeginCreate(d) \/ BeginAppend(d)
    <3>1. pc'[d] \in {"stageSession", "acquire"}
      BY <2>2 DEF BeginCreate, BeginAppend
    <3>. QED  BY <3>1
  <2>. QED  BY <1>5, <2>1, <2>2 DEF Begins
<1>6. CASE Step(d) \/ Crash(d)
  <2>. USE DEF Goto, Ends, disk, LoadFails, WriteFails, Locked
  <2>1. base' = base /\ batch' = batch
    BY <1>6 DEF Step, Crash, StageSession, PromoteSession, CheckLock, ListEntries, ReadHead,
       ReadEvents, Acquire, WriteToken, StageSegment, PromoteSegment, StageHead,
       PromoteHead, Release, Unlink
  <2>2. Made(d)' = Made(d)
    BY <2>1
  <2>. HIDE DEF Made
  <2>3. CASE StageSession(d) \/ Crash(d)
    BY <2>3 DEF StageSession, Crash
  <2>4. CASE PromoteSession(d)
    <3>1. Made(d) = batch[d]
      <4>1. base[d] = <<>> /\ batch[d] \in Seq(Events)
        BY <2>4 DEF PromoteSession, BatchesWhole
      <4>. QED  BY <4>1, ConcatEmptySeq DEF Made
    <3>2. CASE head' = batch[d] /\ pc'[d] = "checkLock"
      <4>1. IsPrefix(Made(d), head')
        BY <1>2, <3>1, <3>2, PrefixReflexive
      <4>. QED  BY <2>2, <3>2, <4>1
    <3>3. CASE pc'[d] = "idle" /\ result'[d] = "error"
      BY <3>3
    <3>. QED  BY <2>4, <3>2, <3>3 DEF PromoteSession
  <2>5. CASE CheckLock(d) \/ ListEntries(d)
    <3>1. head' = head /\ mode' = mode /\ seen' = seen /\ snap' = snap
      BY <2>5 DEF CheckLock, ListEntries
    <3>2. /\ pc[d] \in {"checkLock", "listEntries"}
          /\ \/ pc'[d] \in {"listEntries", "readHead"}
             \/ result'[d] \in {"conflict", "integrity"} /\ pc'[d] \in {"idle", "release"}
      BY <2>5 DEF CheckLock, ListEntries
    <3>. QED  BY <1>1, <2>2, <3>1, <3>2
  <2>6. CASE ReadHead(d)
    BY <1>1, <2>2, <2>6 DEF ReadHead
  <2>7. CASE ReadEvents(d)
    <3>1. pc[d] = "readEvents" /\ mode' = mode /\ head' = head
      BY <2>7 DEF ReadEvents
    <3>2. CASE LoadFails(d, "integrity")
      BY <3>1, <3>2
    <3>3. CASE Loaded(d) /\ ~Locked(d)
      <4>1. pc'[d] = "idle" /\ snap'[d] = seen[d]
        BY <3>3 DEF Loaded
      <4>. QED  BY <1>1, <2>2, <3>1, <3>3, <4>1
    <3>4. CASE Loaded(d) /\ Locked(d)
      <4>1. pc'[d] \in {"stageSegment", "release"} /\ (pc'[d] = "release" => result'[d] = "conflict")
        BY <3>4 DEF Loaded
      <4>. QED  BY <4>1
    <3>. QED  BY <2>7, <3>2, <3>3, <3>4 DEF ReadEvents
  <2>8. CASE Acquire(d)
    BY <2>8 DEF Acquire
  <2>9. CASE WriteToken(d)
    BY <2>9 DEF WriteToken, BatchesWhole
  <2>10. CASE StageSegment(d) \/ PromoteSegment(d) \/ StageHead(d)
    BY <2>10 DEF StageSegment, PromoteSegment, StageHead
  <2>11. CASE PromoteHead(d)
    <3>1. CASE head' = base[d] \o batch[d] /\ pc'[d] = "release"
      <4>1. IsPrefix(Made(d), head')
        BY <1>2, <3>1, PrefixReflexive DEF Made
      <4>. QED  BY <2>2, <3>1, <4>1
    <3>2. CASE pc'[d] = "release" /\ result'[d] = "error"
      BY <3>2
    <3>. QED  BY <2>11, <3>1, <3>2 DEF PromoteHead
  <2>12. CASE Release(d)
    BY <1>1, <2>2, <2>12 DEF Release
  <2>13. CASE Unlink(d)
    <3>1. head' = head /\ pc[d] = "unlink"
      BY <2>13 DEF Unlink
    <3>2. \/ pc'[d] = "checkLock" /\ result[d] = "ok"
          \/ pc'[d] = "idle" /\ result'[d] # "ok"
      BY <2>13 DEF Unlink
    <3>. QED  BY <1>1, <2>2, <3>1, <3>2
  <2>. QED  BY <1>6, <2>3, <2>4, <2>5, <2>6, <2>7, <2>8, <2>9, <2>10, <2>11, <2>12, <2>13 DEF Step
<1>7. ASSUME NEW c \in Clients, c # d, Begins(c) \/ Step(c) \/ Crash(c) PROVE Untouched(d)
  BY <1>7, OthersUntouched
<1>8. Operator => Untouched(d)
  BY DEF Operator, RemoveLock, RemoveTemps, AdvanceHead, local, Untouched
<1>. QED  BY <1>4, <1>5, <1>6, <1>7, <1>8 DEF Next

-----------------------------------------------------------------------------
(* The invariant, and what it proves. *)

LEMMA InitLogInv == Init => LogInv
<1>. SUFFICES ASSUME Init PROVE LogInv
  OBVIOUS
<1>1. SessionInv
  BY InitSound
<1>. QED  BY <1>1 DEF LogInv, Init, BatchesWhole, SegmentsWhole, WriterOnTop, Mendable,
  AnswerHolds, AcceptedInPlace, Locked

LEMMA NextLogInv ==
    ASSUME LocksRespected, LogInv, [Next]_vars
    PROVE  LogInv'
<1>1. SessionInv'
  BY NextSound DEF LogInv
<1>2. BatchesWhole'
  BY NextBatchesWhole DEF LogInv, SessionInv, TypedInv
<1>3. CASE Next
  BY <1>1, <1>2, <1>3, NextSegmentsWhole, NextWriterOnTop, NextMendable, NextAnswerHolds
  DEF LogInv
<1>4. CASE UNCHANGED vars
  BY <1>1, <1>2, <1>4 DEF LogInv, vars, disk, local, SegmentsWhole, WriterOnTop, NewSegment,
  Mendable, Dangling, AnswerHolds, AcceptedInPlace, Locked
<1>. QED  BY <1>3, <1>4

LEMMA LogInvariant ==
    ASSUME LocksRespected
    PROVE  Spec => []LogInv
BY InitLogInv, NextLogInv, PTL DEF Spec

(* Whatever calls interleave, fail or die, the segments on disk are the    *)
(* head's history, or that and one whole batch on top of it.               *)
THEOREM DiskMendable ==
    ASSUME LocksRespected
    PROVE  Spec => []Mendable
<1>1. LogInv => Mendable
  BY DEF LogInv
<1>. QED  BY <1>1, LogInvariant, PTL

(* An append that answers with a snapshot has its whole batch in it, right *)
(* after the history it expected.                                          *)
THEOREM BatchesInPlace ==
    ASSUME LocksRespected
    PROVE  Spec => []AcceptedInPlace
<1>1. LogInv => AcceptedInPlace
  BY DEF LogInv
<1>. QED  BY <1>1, LogInvariant, PTL

-----------------------------------------------------------------------------
(* The refinement.  What is offered is what the segments hold; a step of   *)
(* the session is one step of the log, or none.                            *)
Offers(S) == {[base |-> s.prev, batch |-> s.events] : s \in S}
Offer(s) == [base |-> s.prev, batch |-> s.events]

(* Creation brings the log into being. *)
LEMMA FoundedIsFound ==
    ASSUME LogInv, Founded
    PROVE  Log!Found
<1>. USE DEF LogInv, SegmentsWhole, Events
<1>1. PICK c \in Clients, k \in Call :
         /\ PromoteSession(c) /\ head' = <<k>>
         /\ segments' = {[prev |-> <<>>, events |-> <<k>>]}
  BY DEF Founded
<1>2. head = <<>> /\ segments = {} /\ snap' = snap
  BY <1>1 DEF Founded, PromoteSession
<1>3. /\ Offers(segments) = {}
      /\ Offers(segments') = {[base |-> <<>>, batch |-> <<k>>]}
  BY <1>1, <1>2 DEF Offers
<1>. QED  BY <1>1, <1>2, <1>3 DEF Log!Found, Offers

(* A promoted segment is a batch offered on top of the whole log. *)
LEMMA AddedIsProposed ==
    ASSUME LogInv, NEW c \in Clients, Added(c)
    PROVE  \E b \in Batches : Log!Propose(b)
<1>. USE DEF LogInv, SessionInv, TypedInv, TypeOK
<1>1. batch[c] \in Batches /\ snap' = snap
  BY DEF Added, PromoteSegment, BatchesWhole
<1>2. NewSegment(c).prev = head /\ NewSegment(c).events = batch[c]
  BY DEF Added, NewSegment
<1>3. \A t \in segments : t.prev # head
  <2>1. \A t \in segments : t.events # <<>>
    BY DEF SegmentsWhole
  <2>2. Matches(segments, NewSegment(c).prev)
    BY <1>2 DEF Added
  <2>3. NewSegment(c) \in Segment /\ NewSegment(c).events # <<>>
    BY DEF Added
  <2>4. \A t \in segments : t.events # <<>> => t.prev # NewSegment(c).prev
    BY <2>2, <2>3, MatchedFresh
  <2>. QED  BY <1>2, <2>1, <2>4
<1>4. \A o \in Offers(segments) : o.base # head
  BY <1>3 DEF Offers
<1>5. Offers(segments') = Offers(segments) \cup {[base |-> head, batch |-> batch[c]]}
  BY <1>2 DEF Added, Offers
<1>6. /\ head # <<>> /\ head' = head /\ snap' = snap
      /\ \E b \in Batches : Offers(segments') = Offers(segments) \cup {[base |-> head, batch |-> b]}
  BY <1>1, <1>5 DEF Added
<1>. QED  BY <1>4, <1>6 DEF Log!Propose, Offers

(* The head file commits the batch on top. *)
LEMMA CommittedIsCommitted ==
    ASSUME LogInv, NEW s \in segments, Committed(s), snap' = snap
    PROVE  \E o \in Offers(segments) : Log!Commit(o)
<1>1. Offer(s) \in Offers(segments)
  BY DEF Offer, Offers
<1>2. Offer(s).base = head /\ head' = head \o Offer(s).batch /\ segments' = segments
  BY DEF Committed, Offer, Reaches
<1>3. Log!Commit(Offer(s))
  BY <1>2 DEF Log!Commit
<1>. QED  BY <1>1, <1>3

(* A process is shown history the log holds, or forgets what it was shown. *)
LEMMA ShownIsObserved ==
    ASSUME LogInv, Next, snap' # snap
    PROVE  \E c \in Clients : Log!Observe(c) \/ Log!Forget(c)
<1>. USE DEF LogInv, SessionInv, TypedInv, TypeOK
<1>1. \E c \in Clients : Crash(c) \/ ReadEvents(c)
  <2>1. ASSUME NEW c \in Clients, Begins(c) \/ Step(c), ~ReadEvents(c) PROVE FALSE
    BY <2>1 DEF Begins, BeginCreate, BeginVerify, BeginAppend, Begin, Step, StageSession,
       PromoteSession, CheckLock, ListEntries, ReadHead, Acquire, WriteToken, StageSegment,
       PromoteSegment, StageHead, PromoteHead, Release, Unlink, LoadFails
  <2>2. ~Operator
    BY DEF Operator, RemoveLock, RemoveTemps, AdvanceHead, local
  <2>. QED  BY <2>1, <2>2 DEF Next
<1>2. ASSUME NEW c \in Clients, Crash(c) PROVE Log!Forget(c)
  BY <1>2 DEF Crash, disk, Log!Forget
<1>3. ASSUME NEW c \in Clients, ReadEvents(c) PROVE Log!Observe(c)
  <2>1. /\ Matches(segments, seen[c]) /\ snap' = [snap EXCEPT ![c] = seen[c]]
        /\ head' = head /\ segments' = segments /\ IsPrefix(seen[c], head)
    BY <1>3 DEF ReadEvents, Loaded, LoadFails, LoadsCommitted, disk
  <2>2. seen[c] \in Seq(Events) /\ seen[c] # <<>> /\ Len(seen[c]) \in Nat /\ Len(head) \in Nat
    BY <2>1, LenProperties DEF Matches
  <2>3. Len(seen[c]) \in 1..Len(head)
    BY <2>1, <2>2, PrefixElements, EmptySeq
  <2>4. seen[c] = SubSeq(head, 1, Len(seen[c]))
    <3>. DEFINE part == SubSeq(head, 1, Len(seen[c]))
    <3>1. \A i \in 1..Len(seen[c]) : seen[c][i] = head[i]
      BY <2>1, <2>2, PrefixElements
    <3>2. /\ part \in Seq(Events) /\ Len(part) = Len(seen[c])
          /\ \A i \in 1..Len(seen[c]) : part[i] = head[i]
      BY <2>2, <2>3, SubSeqProperties
    <3>. HIDE DEF part
    <3>3. part = seen[c]
      BY <2>2, <3>1, <3>2, SeqEqual
    <3>. QED  BY <3>3 DEF part
  <2>. QED  BY <2>1, <2>3, <2>4 DEF Log!Observe
<1>. QED  BY <1>1, <1>2, <1>3

LEMMA StepRefines ==
    ASSUME LogInv, [Next]_vars
    PROVE  [Log!LogNext]_(Log!logVars)
<1>1. CASE snap' # snap /\ Next
  BY <1>1, ShownIsObserved DEF Log!LogNext
<1>2. CASE snap' = snap /\ Next /\ (segments' # segments \/ head' # head)
  <2>1. CASE Founded
    BY <2>1, FoundedIsFound DEF Log!LogNext
  <2>2. ASSUME NEW c \in Clients, Added(c) PROVE Log!LogNext
    BY <2>2, AddedIsProposed DEF Log!LogNext
  <2>3. ASSUME NEW s \in segments, Committed(s) PROVE Log!LogNext
    BY <1>2, <2>3, CommittedIsCommitted DEF Log!LogNext, Offers
  <2>. QED  BY <1>2, <2>1, <2>2, <2>3, DiskMoves
<1>3. CASE snap' = snap /\ segments' = segments /\ head' = head
  BY <1>3 DEF Log!logVars
<1>4. CASE UNCHANGED vars
  BY <1>4 DEF vars, disk, local, Log!logVars
<1>. QED  BY <1>1, <1>2, <1>3, <1>4

(* A session directory behaves as one log that grows by compare-and-swap,  *)
(* whole batches at a time, and of which callers see initial parts.        *)
THEOREM StoreImplementsLog ==
    ASSUME LocksRespected
    PROVE  Spec => ImplementsLog
<1>1. Init => Log!LogInit
  BY DEF Init, Log!LogInit
<1>2. LogInv /\ [Next]_vars => [Log!LogNext]_(Log!logVars)
  BY StepRefines
<1>. QED  BY <1>1, <1>2, LogInvariant, PTL DEF Spec, ImplementsLog, Log!LogSpec
=============================================================================
