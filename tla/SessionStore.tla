---------------------------- MODULE SessionStore ----------------------------
(***************************************************************************)
(* The directory that stores a research session, and the calls that read   *)
(* and extend it (research_tools/sessions.py).  A session directory holds  *)
(* immutable event segments, a head file that closes the history, and, for *)
(* the time of an append, a writer lock.  Every file-system step of a call *)
(* is an action of its own, so calls of different processes interleave as  *)
(* they do on disk; a step may fail (an OSError), and a process may die    *)
(* between any two of them.                                                *)
(*                                                                         *)
(* Hashes are taken to be perfect: the hash of an event stands for the     *)
(* whole history up to it, so a head file is a sequence of events, and two *)
(* calls never write equal events.  The first event stands for             *)
(* session.json too, which it binds and which is never written again.      *)
(***************************************************************************)
EXTENDS Integers, Sequences, FiniteSets, SequencesExt

CONSTANTS
    Clients,            \* processes that use the session
    Free,               \* no lock file
    MaxCalls,           \* bound: calls each process makes
    MaxBatch,           \* bound: events in one batch
    MaxFaults,          \* bound: file-system steps that fail
    MaxCrashes,         \* bound: processes that die in a call
    LiveLocksBroken     \* whether an operator may remove the lock of a live writer

(* A call is known by its process and number: the random token in its lock *)
(* file, the random suffix of its temporary files, and its events.         *)
Call == Clients \X (1..MaxCalls)

ASSUME FreeAssumption == Free \notin Call
ASSUME BoundsAssumption ==
    /\ MaxCalls \in Nat /\ MaxBatch \in Nat \ {0}
    /\ MaxFaults \in Nat /\ MaxCrashes \in Nat
    /\ LiveLocksBroken \in BOOLEAN

VARIABLES
    lock,       \* the call whose token is in .writer.lock, or Free
    segments,   \* the files of events/: what each follows and holds
    segTemps,   \* calls that left a temporary file in events/
    head,       \* the history head.json closes; empty without a session
    headTemps,  \* calls that left a temporary file beside head.json
    calls,      \* calls each process has started
    pc,         \* the step each process takes next
    mode,       \* what the history being loaded is for
    seen,       \* the head a load has read
    snap,       \* the snapshot each process holds
    base,       \* the history the running call expects to extend
    batch,      \* the events the running call adds
    result,     \* how the last call of each process ended, or is ending
    faults, crashes

disk == <<lock, segments, segTemps, head, headTemps>>
local == <<calls, pc, mode, seen, snap, base, batch, result>>
vars == <<disk, local, faults, crashes>>

Events == Call
Segment == [prev : Seq(Events), events : Seq(Events)]
Steps == {"idle", "stageSession", "promoteSession", "checkLock", "listEntries",
          "readHead", "readEvents", "acquire", "writeToken", "stageSegment",
          "promoteSegment", "stageHead", "promoteHead", "release", "unlink"}
Results == {"none", "ok", "conflict", "integrity", "error", "died"}

TypeOK ==
    /\ lock \in Call \cup {Free}
    /\ segments \subseteq Segment
    /\ segTemps \subseteq Call
    /\ head \in Seq(Events)
    /\ headTemps \subseteq Call
    /\ calls \in [Clients -> 0..MaxCalls]
    /\ pc \in [Clients -> Steps]
    /\ mode \in [Clients -> {"inspect", "append", "answer"}]
    /\ seen \in [Clients -> Seq(Events)]
    /\ snap \in [Clients -> Seq(Events)]
    /\ base \in [Clients -> Seq(Events)]
    /\ batch \in [Clients -> Seq(Events)]
    /\ result \in [Clients -> Results]
    /\ faults \in 0..MaxFaults
    /\ crashes \in 0..MaxCrashes

Init ==
    /\ lock = Free
    /\ segments = {} /\ segTemps = {}
    /\ head = <<>> /\ headTemps = {}
    /\ calls = [c \in Clients |-> 0]
    /\ pc = [c \in Clients |-> "idle"]
    /\ mode = [c \in Clients |-> "inspect"]
    /\ seen = [c \in Clients |-> <<>>]
    /\ snap = [c \in Clients |-> <<>>]
    /\ base = [c \in Clients |-> <<>>]
    /\ batch = [c \in Clients |-> <<>>]
    /\ result = [c \in Clients |-> "none"]
    /\ faults = 0
    /\ crashes = 0

-----------------------------------------------------------------------------
(* The running call of a process, and whether a call is still running. *)
Token(c) == <<c, calls[c]>>
Running(k) == k[1] \in Clients /\ calls[k[1]] = k[2] /\ pc[k[1]] # "idle"

Goto(c, step) == pc' = [pc EXCEPT ![c] = step]
Ends(c, r) == result' = [result EXCEPT ![c] = r]
Fault == faults < MaxFaults /\ faults' = faults + 1
NoFault == UNCHANGED faults

(* What a segment stretches the history to, and the range its name shows. *)
Reaches(s) == s.prev \o s.events
Name(s) == <<Len(s.prev) + 1, Len(s.prev) + Len(s.events)>>
Covers(s, i) == Len(s.prev) < i /\ i <= Len(s.prev) + Len(s.events)

(* The chain check of _load_snapshot: the segments follow one another      *)
(* without gap or overlap, each continues the hash before it, and the head *)
(* file closes the last one.                                               *)
Matches(S, h) ==
    /\ h # <<>>
    /\ \A s \in S : IsPrefix(Reaches(s), h)
    /\ \A i \in 1..Len(h) : \E s \in S : Covers(s, i)
    /\ \A s, t \in S : (\E i \in 1..Len(h) : Covers(s, i) /\ Covers(t, i)) => s = t

(* A new file takes the place of any of its name (os.replace). *)
Promoted(S, s) == {t \in S : Name(t) # Name(s)} \cup {s}

-----------------------------------------------------------------------------
(* Starting a call.  The history an append expects is the one of the       *)
(* snapshot the process holds: that may be old.                            *)
Begin(c, step) ==
    /\ pc[c] = "idle"
    /\ calls[c] < MaxCalls
    /\ calls' = [calls EXCEPT ![c] = @ + 1]
    /\ Goto(c, step)
    /\ Ends(c, "none")
    /\ UNCHANGED <<disk, seen, snap, faults, crashes>>

BeginCreate(c) ==
    /\ snap[c] = <<>>
    /\ Begin(c, "stageSession")
    /\ base' = [base EXCEPT ![c] = <<>>]
    /\ batch' = [batch EXCEPT ![c] = <<<<c, calls[c] + 1>>>>]
    /\ mode' = [mode EXCEPT ![c] = "answer"]

BeginVerify(c) ==
    /\ head # <<>>
    /\ Begin(c, "checkLock")
    /\ mode' = [mode EXCEPT ![c] = "inspect"]
    /\ base' = [base EXCEPT ![c] = <<>>]
    /\ batch' = [batch EXCEPT ![c] = <<>>]

BeginAppend(c) ==
    /\ snap[c] # <<>>
    /\ Begin(c, "acquire")
    /\ base' = [base EXCEPT ![c] = snap[c]]
    /\ \E n \in 1..MaxBatch :
          batch' = [batch EXCEPT ![c] = [i \in 1..n |-> <<c, calls[c] + 1>>]]
    /\ mode' = [mode EXCEPT ![c] = "append"]

-----------------------------------------------------------------------------
(* create_research_session.  The staging directory is a sibling of the     *)
(* session, out of every reader's sight; the rename that promotes it fails *)
(* on a directory that is not empty.                                       *)
StageSession(c) ==
    /\ pc[c] = "stageSession"
    /\ \/ /\ head = <<>> /\ NoFault
          /\ Goto(c, "promoteSession")
          /\ UNCHANGED result
       \/ /\ \/ head # <<>> /\ NoFault
             \/ head = <<>> /\ Fault
          /\ Goto(c, "idle") /\ Ends(c, "error")
    /\ UNCHANGED <<disk, calls, mode, seen, snap, base, batch, crashes>>

PromoteSession(c) ==
    /\ pc[c] = "promoteSession"
    /\ \/ /\ head = <<>> /\ NoFault
          /\ head' = batch[c]
          /\ segments' = {[prev |-> <<>>, events |-> batch[c]]}
          /\ Goto(c, "checkLock")
          /\ UNCHANGED result
       \/ /\ \/ head # <<>> /\ NoFault
             \/ head = <<>> /\ Fault
          /\ Goto(c, "idle") /\ Ends(c, "error")
          /\ UNCHANGED <<head, segments>>
    /\ UNCHANGED <<lock, segTemps, headTemps, calls, mode, seen, snap, base, batch, crashes>>

-----------------------------------------------------------------------------
(* _load_snapshot, in its four visits to the directory.  It serves a bare  *)
(* verification ("inspect"), the check an append makes under its own lock  *)
(* ("append"), and the reload whose snapshot an append or a creation       *)
(* answers with ("answer").                                                *)
Locked(c) == mode[c] = "append"

LoadFails(c, r) ==
    /\ Goto(c, IF Locked(c) THEN "release" ELSE "idle")
    /\ Ends(c, r)
    /\ UNCHANGED <<seen, snap>>

CheckLock(c) ==
    /\ pc[c] = "checkLock"
    /\ \/ /\ lock = Free \/ Locked(c)
          /\ Goto(c, "listEntries")
          /\ UNCHANGED <<result, seen, snap>>
       \/ /\ lock # Free /\ ~Locked(c)
          /\ LoadFails(c, "conflict")
    /\ UNCHANGED <<disk, calls, mode, base, batch, faults, crashes>>

EntriesExpected(c) == headTemps = {} /\ (lock # Free <=> Locked(c))

ListEntries(c) ==
    /\ pc[c] = "listEntries"
    /\ \/ /\ EntriesExpected(c)
          /\ Goto(c, "readHead")
          /\ UNCHANGED <<result, seen, snap>>
       \/ /\ ~EntriesExpected(c)
          /\ LoadFails(c, "integrity")
    /\ UNCHANGED <<disk, calls, mode, base, batch, faults, crashes>>

(* Variant: the history is taken from the segment files alone. *)
ReadHeadFromSegments(c) ==
    /\ pc[c] = "readHead"
    /\ \E s \in segments :
          /\ \A t \in segments : Len(Reaches(t)) <= Len(Reaches(s))
          /\ seen' = [seen EXCEPT ![c] = Reaches(s)]
    /\ Goto(c, "readEvents")
    /\ UNCHANGED <<disk, calls, mode, snap, base, batch, result, faults, crashes>>

ReadHead(c) ==
    /\ pc[c] = "readHead"
    /\ seen' = [seen EXCEPT ![c] = head]
    /\ Goto(c, "readEvents")
    /\ UNCHANGED <<disk, calls, mode, snap, base, batch, result, faults, crashes>>

(* Variant: an append does not compare the history with the expected one. *)
LoadedUnchecked(c) ==
    \/ /\ ~Locked(c)
       /\ snap' = [snap EXCEPT ![c] = seen[c]]
       /\ Goto(c, "idle") /\ Ends(c, "ok")
    \/ /\ Locked(c)
       /\ Goto(c, "stageSegment")
       /\ UNCHANGED <<snap, result>>

(* The snapshot is good.  A bare load hands it out; under the lock it must *)
(* be the history the caller expects.                                      *)
Loaded(c) ==
    \/ /\ ~Locked(c)
       /\ snap' = [snap EXCEPT ![c] = seen[c]]
       /\ Goto(c, "idle") /\ Ends(c, "ok")
    \/ /\ Locked(c) /\ seen[c] = base[c]
       /\ Goto(c, "stageSegment")
       /\ UNCHANGED <<snap, result>>
    \/ /\ Locked(c) /\ seen[c] # base[c]
       /\ Goto(c, "release") /\ Ends(c, "conflict")
       /\ UNCHANGED snap

ReadEvents(c) ==
    /\ pc[c] = "readEvents"
    /\ \/ /\ segTemps = {} /\ Matches(segments, seen[c])
          /\ Loaded(c)
          /\ UNCHANGED seen
       \/ /\ ~(segTemps = {} /\ Matches(segments, seen[c]))
          /\ LoadFails(c, "integrity")
    /\ UNCHANGED <<disk, calls, mode, base, batch, faults, crashes>>

-----------------------------------------------------------------------------
(* Variants: a lock file that exists is taken over, or waited for. *)
AcquireShared(c) ==
    /\ pc[c] = "acquire"
    /\ lock' = Token(c)
    /\ Goto(c, "writeToken")
    /\ UNCHANGED <<segments, segTemps, head, headTemps, calls, mode, seen, snap,
                   base, batch, result, faults, crashes>>

AcquireWaiting(c) ==
    /\ lock = Free
    /\ AcquireShared(c)

(* _WriterLock.__enter__: exclusive creation, then the token; if the token *)
(* cannot be written the new lock file is removed.                         *)
Acquire(c) ==
    /\ pc[c] = "acquire"
    /\ \/ /\ lock = Free
          /\ lock' = Token(c)
          /\ Goto(c, "writeToken")
          /\ UNCHANGED result
       \/ /\ lock # Free
          /\ Goto(c, "idle") /\ Ends(c, "conflict")
          /\ UNCHANGED lock
    /\ UNCHANGED <<segments, segTemps, head, headTemps, calls, mode, seen, snap,
                   base, batch, faults, crashes>>

WriteToken(c) ==
    /\ pc[c] = "writeToken"
    /\ \/ /\ NoFault
          /\ Goto(c, "checkLock")
          /\ UNCHANGED <<lock, result>>
       \/ /\ Fault
          /\ lock' = Free
          /\ Goto(c, "idle") /\ Ends(c, "error")
    /\ UNCHANGED <<segments, segTemps, head, headTemps, calls, mode, seen, snap,
                   base, batch, crashes>>

(* append_event_batch under the lock: the segment is written to a          *)
(* temporary file and renamed, then the head file likewise.  A failure on  *)
(* the way removes the temporary file and leaves through the lock's exit.  *)
NewSegment(c) == [prev |-> base[c], events |-> batch[c]]

WriteFails(c) ==
    /\ Fault
    /\ Goto(c, "release") /\ Ends(c, "error")

StageSegment(c) ==
    /\ pc[c] = "stageSegment"
    /\ \/ /\ \A s \in segments : Name(s) # Name(NewSegment(c))
          /\ \/ /\ NoFault
                /\ segTemps' = segTemps \cup {Token(c)}
                /\ Goto(c, "promoteSegment")
                /\ UNCHANGED result
             \/ WriteFails(c) /\ UNCHANGED segTemps
       \/ /\ \E s \in segments : Name(s) = Name(NewSegment(c))
          /\ NoFault
          /\ Goto(c, "release") /\ Ends(c, "conflict")
          /\ UNCHANGED segTemps
    /\ UNCHANGED <<lock, segments, head, headTemps, calls, mode, seen, snap,
                   base, batch, crashes>>

PromoteSegment(c) ==
    /\ pc[c] = "promoteSegment"
    /\ segTemps' = segTemps \ {Token(c)}
    /\ \/ /\ NoFault
          /\ segments' = Promoted(segments, NewSegment(c))
          /\ Goto(c, "stageHead")
          /\ UNCHANGED result
       \/ WriteFails(c) /\ UNCHANGED segments
    /\ UNCHANGED <<lock, head, headTemps, calls, mode, seen, snap, base, batch, crashes>>

StageHead(c) ==
    /\ pc[c] = "stageHead"
    /\ \/ /\ NoFault
          /\ headTemps' = headTemps \cup {Token(c)}
          /\ Goto(c, "promoteHead")
          /\ UNCHANGED result
       \/ WriteFails(c) /\ UNCHANGED headTemps
    /\ UNCHANGED <<lock, segments, segTemps, head, calls, mode, seen, snap,
                   base, batch, crashes>>

PromoteHead(c) ==
    /\ pc[c] = "promoteHead"
    /\ headTemps' = headTemps \ {Token(c)}
    /\ \/ /\ NoFault
          /\ head' = base[c] \o batch[c]
          /\ Goto(c, "release") /\ Ends(c, "ok")
       \/ WriteFails(c) /\ UNCHANGED head
    /\ UNCHANGED <<lock, segments, segTemps, calls, mode, seen, snap, base, batch, crashes>>

(* _WriterLock.__exit__: the lock file must still be the one this call     *)
(* made; then it is removed.  Any doubt, or a failing unlink, is a         *)
(* conflict and leaves the lock file as it is.  An append that wrote its   *)
(* batch goes on to reload the session.                                    *)
Release(c) ==
    /\ pc[c] = "release"
    /\ \/ /\ lock = Token(c)
          /\ Goto(c, "unlink")
          /\ UNCHANGED result
       \/ /\ lock # Token(c)
          /\ Goto(c, "idle") /\ Ends(c, "conflict")
    /\ UNCHANGED <<disk, calls, mode, seen, snap, base, batch, faults, crashes>>

(* Variant: the lock's exit swallows the error it is leaving with. *)
UnlinkSwallowing(c) ==
    /\ pc[c] = "unlink"
    /\ lock' = Free
    /\ Goto(c, "checkLock")
    /\ mode' = [mode EXCEPT ![c] = "answer"]
    /\ Ends(c, "none")
    /\ UNCHANGED <<segments, segTemps, head, headTemps, calls, seen, snap, base,
                   batch, faults, crashes>>

Unlink(c) ==
    /\ pc[c] = "unlink"
    /\ \/ /\ lock # Free /\ NoFault
          /\ lock' = Free
          /\ \/ /\ result[c] = "ok"
                /\ Goto(c, "checkLock")
                /\ mode' = [mode EXCEPT ![c] = "answer"]
                /\ Ends(c, "none")
             \/ /\ result[c] # "ok"
                /\ Goto(c, "idle")
                /\ UNCHANGED <<mode, result>>
       \/ /\ \/ lock = Free /\ NoFault
             \/ lock # Free /\ Fault
          /\ Goto(c, "idle") /\ Ends(c, "conflict")
          /\ UNCHANGED <<lock, mode>>
    /\ UNCHANGED <<segments, segTemps, head, headTemps, calls, seen, snap, base,
                   batch, crashes>>

-----------------------------------------------------------------------------
(* A process dies in a call.  Its lock and temporary files stay; what it   *)
(* held in memory is gone.                                                 *)
Crash(c) ==
    /\ pc[c] # "idle"
    /\ crashes < MaxCrashes
    /\ crashes' = crashes + 1
    /\ Goto(c, "idle") /\ Ends(c, "died")
    /\ snap' = [snap EXCEPT ![c] = <<>>]
    /\ UNCHANGED <<disk, calls, mode, seen, base, batch, faults>>

(* The operator's part, which the session code leaves to a person:         *)
(* removing what a dead call left, and closing a complete segment that was *)
(* promoted without its head.                                              *)
RemoveLock ==
    /\ lock # Free
    /\ LiveLocksBroken \/ ~Running(lock)
    /\ lock' = Free
    /\ UNCHANGED <<segments, segTemps, head, headTemps, local, faults, crashes>>

RemoveTemps ==
    /\ \E k \in segTemps \cup headTemps : ~Running(k)
    /\ segTemps' = {k \in segTemps : Running(k)}
    /\ headTemps' = {k \in headTemps : Running(k)}
    /\ UNCHANGED <<lock, segments, head, local, faults, crashes>>

(* The segment that extends the head by one batch, if all others match. *)
Dangling(s) == s \in segments /\ s.prev = head /\ Matches(segments \ {s}, head)

AdvanceHead ==
    /\ lock = Free /\ segTemps = {} /\ headTemps = {}
    /\ \E s \in segments :
          /\ Dangling(s)
          /\ head' = Reaches(s)
    /\ UNCHANGED <<lock, segments, segTemps, headTemps, local, faults, crashes>>

Operator == RemoveLock \/ RemoveTemps \/ AdvanceHead

-----------------------------------------------------------------------------
Begins(c) == BeginCreate(c) \/ BeginVerify(c) \/ BeginAppend(c)

Step(c) ==
    \/ StageSession(c) \/ PromoteSession(c)
    \/ CheckLock(c) \/ ListEntries(c) \/ ReadHead(c) \/ ReadEvents(c)
    \/ Acquire(c) \/ WriteToken(c)
    \/ StageSegment(c) \/ PromoteSegment(c) \/ StageHead(c) \/ PromoteHead(c)
    \/ Release(c) \/ Unlink(c)

Next ==
    \/ \E c \in Clients : Begins(c) \/ Step(c) \/ Crash(c)
    \/ Operator

Spec == Init /\ [][Next]_vars

(* A started call keeps running; nobody need start one, and no operator    *)
(* need ever come.                                                         *)
FairSpec == Spec /\ \A c \in Clients : WF_vars(Step(c))

-----------------------------------------------------------------------------
(* PROPERTIES *)

Writing(c) ==
    \/ pc[c] \in {"writeToken", "stageSegment", "promoteSegment", "stageHead",
                  "promoteHead", "release", "unlink"}
    \/ Locked(c) /\ pc[c] \in {"checkLock", "listEntries", "readHead", "readEvents"}

(* At most one process is inside the writer lock, and the lock file is     *)
(* that process's: the exclusive creation in __enter__ and the ownership   *)
(* test in __exit__, over calls that die, are refused or fail half way.    *)
OneWriter ==
    \A c \in Clients : Writing(c) => lock = Token(c)

(* Whatever calls interleave, fail or die, the disk stays one an operator  *)
(* can mend by the documented means: the segments are the head's history,  *)
(* or that history and exactly one whole batch on top of it.               *)
Mendable ==
    head # <<>> => Matches(segments, head) \/ \E s \in segments : Dangling(s)

(* A snapshot that verification or an append returned is a part of the     *)
(* committed history for good, although a load reads the lock, the         *)
(* directory, the head and the segments at four different moments.         *)
SnapshotsCommitted ==
    \A c \in Clients : IsPrefix(snap[c], head)

(* An append that answers with a snapshot has its whole batch in it, right *)
(* after the history it expected: nobody else's batch came in between.     *)
AcceptedInPlace ==
    \A c \in Clients :
        pc[c] = "idle" /\ result[c] = "ok" =>
            IsPrefix(base[c] \o batch[c], snap[c])

(* No committed event is ever removed, replaced or reordered. *)
HistoryGrows == [][IsPrefix(head, head')]_vars

(* The session directory implements the compare-and-swap log. *)
Batches == {[i \in 1..n |-> k] : n \in 1..MaxBatch, k \in Call}

Log == INSTANCE SessionLog WITH
    Event <- Events,
    log <- head,
    offers <- {[base |-> s.prev, batch |-> s.events] : s \in segments},
    view <- snap
ImplementsLog == Log!LogSpec

-----------------------------------------------------------------------------
(* What makes the three safety invariants above inductive.                 *)

(* A call that runs has been counted, so its token is that of a call; one  *)
(* that creates a session takes no lock.                                   *)
CallsStarted ==
    \A c \in Clients :
        /\ pc[c] # "idle" => calls[c] > 0
        /\ pc[c] \in {"stageSession", "promoteSession"} => ~Locked(c)

(* A head that was read is committed history; read under the lock, it is   *)
(* all of it, since nobody else may append meanwhile.                      *)
LoadsCommitted ==
    \A c \in Clients :
        pc[c] = "readEvents" =>
            /\ IsPrefix(seen[c], head)
            /\ Locked(c) /\ seen[c] # <<>> => seen[c] = head

(* A writer past the compare still sees the history it compared with. *)
WriterCurrent ==
    \A c \in Clients :
        pc[c] \in {"stageSegment", "promoteSegment", "stageHead", "promoteHead"} =>
            base[c] = head /\ head # <<>>

SessionInv ==
    /\ TypeOK /\ CallsStarted
    /\ OneWriter /\ LoadsCommitted /\ WriterCurrent /\ SnapshotsCommitted

(* What makes Mendable and the refinement inductive on top of that.        *)

(* Who writes a segment has a whole batch for it; who creates a session,   *)
(* its first event.                                                        *)
BatchesWhole ==
    \A c \in Clients :
        /\ Locked(c) => batch[c] \in Batches
        /\ pc[c] \in {"acquire", "writeToken", "stageSegment", "promoteSegment",
                      "stageHead", "promoteHead", "release", "unlink"} => Locked(c)
        /\ pc[c] \in {"stageSession", "promoteSession"} =>
              base[c] = <<>> /\ \E k \in Call : batch[c] = <<k>>

SegmentsWhole ==
    /\ head = <<>> => segments = {}
    /\ \A s \in segments : s.events # <<>>

(* A writer past the compare has found the segments to be the history, and *)
(* they still are, but for the one it adds.                                *)
WriterOnTop ==
    \A c \in Clients :
        /\ pc[c] \in {"stageSegment", "promoteSegment"} => Matches(segments, head)
        /\ pc[c] \in {"stageHead", "promoteHead"} =>
              /\ NewSegment(c) \in segments
              /\ Matches(segments \ {NewSegment(c)}, head)

(* A batch that is committed stays part of the history while its call goes *)
(* on to load the snapshot it answers with, and is part of what it loads.  *)
AnswerHolds ==
    \A c \in Clients :
        /\ \/ pc[c] \in {"checkLock", "listEntries", "readHead"} /\ ~Locked(c)
           \/ pc[c] \in {"release", "unlink"} /\ result[c] = "ok"
           => IsPrefix(base[c] \o batch[c], head)
        /\ pc[c] = "readEvents" /\ ~Locked(c) => IsPrefix(base[c] \o batch[c], seen[c])

LogInv ==
    /\ SessionInv
    /\ BatchesWhole /\ SegmentsWhole /\ WriterOnTop /\ Mendable
    /\ AnswerHolds /\ AcceptedInPlace

-----------------------------------------------------------------------------
(* A call never waits on a lock: it returns, refused if need be. *)
CallsReturn == \A c \in Clients : pc[c] # "idle" ~> pc[c] = "idle"

(* If an operator comes again and again, who removes what dead calls leave *)
(* and closes a dangling segment, a session always becomes usable again:   *)
(* unlocked, with no leftovers, and a history that verifies.               *)
Usable ==
    /\ lock = Free /\ segTemps = {} /\ headTemps = {}
    /\ Matches(segments, head)
AlwaysMended == WF_vars(Operator) => (head # <<>> ~> Usable)

(* What the class docstring of ResearchSessionConflictError says: a        *)
(* conflict fails closed, so that a call it ended has written nothing to   *)
(* the history.                                                            *)
ConflictFailsClosed ==
    \A c \in Clients :
        pc[c] = "idle" /\ result[c] = "conflict" =>
            \A i \in 1..Len(head) : head[i] # Token(c)
=============================================================================
