----------------------------- MODULE StudyBundle -----------------------------
(***************************************************************************)
(* How a historical-study bundle replaces what is in its output directory  *)
(* (backtests/study_report.py).  A bundle is staged beside the output, the *)
(* old bundle is renamed to a backup, the stage is renamed into place and  *)
(* the backup removed; every failure on the way has its own way back.      *)
(*                                                                         *)
(* A directory holds one bundle whole, or is Damaged (some files are       *)
(* missing), or is Foreign (not a bundle at all).  Each rename, write and  *)
(* removal is a step that may fail; several writers may share the output,  *)
(* and a writer may die between two steps.                                 *)
(***************************************************************************)
EXTENDS Integers, FiniteSets

CONSTANTS
    Writers,        \* calls of write_historical_study_bundle
    Bundles,        \* the results they may hold
    Absent, Damaged, Foreign,
    MaxFaults,      \* bound: file-system steps that fail
    MaxCrashes      \* bound: writers that die

ASSUME StudyAssumption ==
    /\ Absent # Damaged /\ Absent # Foreign /\ Damaged # Foreign
    /\ {Absent, Damaged, Foreign} \cap Bundles = {}
    /\ MaxFaults \in Nat /\ MaxCrashes \in Nat

VARIABLES
    output,     \* what the output directory holds
    found,      \* what it held before any call
    dirs,       \* the hidden sibling directories of each call
    bundle,     \* the bundle each call writes
    overwrite,  \* whether it was given --overwrite
    prior,      \* prior_bundle: what it read from the output, in memory
    pc, result, faults, crashes

vars == <<output, found, dirs, bundle, overwrite, prior, pc, result, faults, crashes>>

Content == Bundles \cup {Absent, Damaged, Foreign}
Roles == {"stage", "backup", "damaged", "restore", "rollback"}
Steps == {"start", "compare", "readPrior", "makeStage", "writeStage", "decide",
          "publish", "setAside", "promote", "undo", "cleanup",
          "restoreAside", "restoreCheck", "restoreBackup", "setDamagedAside",
          "makeRestore", "writeRestore", "publishRestore", "undoRestore",
          "dropRestore", "dropDamaged", "dropRollback",
          "finishStage", "finishBackup", "done"}

Init ==
    /\ output \in Bundles \cup {Absent, Foreign}
    /\ found = output
    /\ dirs = [w \in Writers |-> [r \in Roles |-> Absent]]
    /\ bundle \in [Writers -> Bundles]
    /\ overwrite \in [Writers -> BOOLEAN]
    /\ prior = [w \in Writers |-> Absent]
    /\ pc = [w \in Writers |-> "start"]
    /\ result = [w \in Writers |-> "none"]
    /\ faults = 0 /\ crashes = 0

-----------------------------------------------------------------------------
Goto(w, step) == pc' = [pc EXCEPT ![w] = step]
Ends(w, r) == result' = [result EXCEPT ![w] = r]
Fault == faults < MaxFaults /\ faults' = faults + 1
NoFault == UNCHANGED faults
Fixed == UNCHANGED <<found, bundle, overwrite, crashes>>
Put(w, role, x) == dirs' = [dirs EXCEPT ![w][role] = x]

(* os.replace from a sibling to the output fails on a directory that has   *)
(* something in it; from the output to a fresh sibling, if there is none.  *)
MoveIn(w, role) ==
    /\ output = Absent
    /\ output' = dirs[w][role]
    /\ Put(w, role, Absent)
MoveOut(w, role) ==
    /\ output # Absent
    /\ Put(w, role, output)
    /\ output' = Absent

(* A step that succeeds, or fails by itself or because it cannot be done,  *)
(* and then leaves by the given handler with an error.                     *)
Attempt(w, Act, step, handler) ==
    \/ /\ Act /\ NoFault
       /\ Goto(w, step) /\ UNCHANGED result
    \/ /\ Fault
       /\ UNCHANGED <<output, dirs>>
       /\ Goto(w, handler) /\ Ends(w, "error")

MoveInOr(w, role, step, handler) ==
    \/ Attempt(w, MoveIn(w, role), step, handler)
    \/ /\ output # Absent /\ NoFault
       /\ UNCHANGED <<output, dirs>>
       /\ Goto(w, handler) /\ Ends(w, "error")

MoveOutOr(w, role, step, handler) ==
    \/ Attempt(w, MoveOut(w, role), step, handler)
    \/ /\ output = Absent /\ NoFault
       /\ UNCHANGED <<output, dirs>>
       /\ Goto(w, handler) /\ Ends(w, "error")

(* _remove_managed_directory: a removal that fails may have deleted some   *)
(* files already.                                                          *)
RemoveOr(w, role, step, handler) ==
    \/ /\ NoFault
       /\ Put(w, role, Absent)
       /\ Goto(w, step) /\ UNCHANGED result
    \/ /\ Fault /\ dirs[w][role] # Absent
       /\ \E x \in {dirs[w][role], Damaged} : Put(w, role, x)
       /\ Goto(w, handler) /\ Ends(w, "error")

(* Writing a whole bundle into a sibling, then validating it: what fails   *)
(* leaves some of the files.                                               *)
WriteOr(w, role, b, step, handler) ==
    \/ /\ NoFault
       /\ Put(w, role, b)
       /\ Goto(w, step) /\ UNCHANGED result
    \/ /\ Fault
       /\ Put(w, role, Damaged)
       /\ Goto(w, handler) /\ Ends(w, "error")

-----------------------------------------------------------------------------
(* write_historical_study_bundle, up to the stage. *)
Start(w) ==
    /\ pc[w] = "start"
    /\ Goto(w, "compare")
    /\ UNCHANGED <<output, dirs, prior, result, faults>> /\ Fixed

(* An identical rerun is a no-op. *)
Compare(w) ==
    /\ pc[w] = "compare"
    /\ \/ /\ output = bundle[w]
          /\ Goto(w, "done") /\ Ends(w, "ok")
       \/ /\ output # bundle[w]
          /\ Goto(w, "readPrior") /\ UNCHANGED result
    /\ UNCHANGED <<output, dirs, prior, faults>> /\ Fixed

(* Variant: --overwrite is not asked for. *)
ReadPriorForced(w) ==
    /\ pc[w] = "readPrior"
    /\ output \in Bundles
    /\ prior' = [prior EXCEPT ![w] = output]
    /\ Goto(w, "makeStage")
    /\ UNCHANGED <<output, dirs, result, faults>> /\ Fixed

ReadPrior(w) ==
    /\ pc[w] = "readPrior"
    /\ \/ /\ output = Absent
          /\ Goto(w, "makeStage") /\ UNCHANGED <<prior, result>>
       \/ /\ output \in Bundles
          /\ prior' = [prior EXCEPT ![w] = output]
          /\ \/ overwrite[w] /\ Goto(w, "makeStage") /\ UNCHANGED result
             \/ ~overwrite[w] /\ Goto(w, "done") /\ Ends(w, "refused")
       \/ /\ output \notin Bundles \cup {Absent}
          /\ Goto(w, "done") /\ Ends(w, "refused")
          /\ UNCHANGED prior
    /\ UNCHANGED <<output, dirs, faults>> /\ Fixed

MakeStage(w) ==
    /\ pc[w] = "makeStage"
    /\ Attempt(w, Put(w, "stage", Damaged) /\ UNCHANGED output, "writeStage", "done")
    /\ UNCHANGED prior /\ Fixed

(* Variant: the stage is promoted without being validated. *)
WriteStageUnchecked(w) ==
    /\ pc[w] = "writeStage"
    /\ \/ NoFault /\ Put(w, "stage", bundle[w])
       \/ Fault /\ Put(w, "stage", Damaged)
    /\ Goto(w, "decide")
    /\ UNCHANGED <<output, prior, result>> /\ Fixed

WriteStage(w) ==
    /\ pc[w] = "writeStage"
    /\ WriteOr(w, "stage", bundle[w], "decide", "finishStage")
    /\ UNCHANGED <<output, prior>> /\ Fixed

Decide(w) ==
    /\ pc[w] = "decide"
    /\ Goto(w, IF output # Absent THEN "setAside" ELSE "publish")
    /\ UNCHANGED <<output, dirs, prior, result, faults>> /\ Fixed

Publish(w) ==
    /\ pc[w] = "publish"
    /\ MoveInOr(w, "stage", "finishStage", "finishStage")
    /\ UNCHANGED prior /\ Fixed

(* Variant: the old bundle is removed instead of renamed. *)
SetAsideByRemoval(w) ==
    /\ pc[w] = "setAside"
    /\ output' = Absent
    /\ Goto(w, "promote")
    /\ UNCHANGED <<dirs, prior, result, faults>> /\ Fixed

SetAside(w) ==
    /\ pc[w] = "setAside"
    /\ MoveOutOr(w, "backup", "promote", "finishStage")
    /\ UNCHANGED prior /\ Fixed

(* Variant: a promotion that fails is undone, and not reported. *)
PromoteSwallowing(w) ==
    /\ pc[w] = "promote"
    /\ \/ Attempt(w, MoveIn(w, "stage"), "cleanup", "undo")
       \/ Fault /\ Goto(w, "undo") /\ UNCHANGED <<output, dirs, result>>
    /\ UNCHANGED prior /\ Fixed

Promote(w) ==
    /\ pc[w] = "promote"
    /\ MoveInOr(w, "stage", "cleanup", "undo")
    /\ UNCHANGED prior /\ Fixed

Undo(w) ==
    /\ pc[w] = "undo"
    /\ MoveInOr(w, "backup", "finishStage", "finishStage")
    /\ UNCHANGED prior /\ Fixed

(* Variant: after a failed cleanup nothing is restored. *)
CleanupUnrestored(w) ==
    /\ pc[w] = "cleanup"
    /\ RemoveOr(w, "backup", "finishStage", "finishStage")
    /\ UNCHANGED <<output, prior>> /\ Fixed

(* The backup goes; if that fails the prior bundle is to come back, which  *)
(* a call that found no bundle cannot do.                                  *)
Cleanup(w) ==
    /\ pc[w] = "cleanup"
    /\ RemoveOr(w, "backup", "finishStage",
                IF prior[w] = Absent THEN "finishStage" ELSE "restoreAside")
    /\ UNCHANGED <<output, prior>> /\ Fixed

-----------------------------------------------------------------------------
(* _restore_prior_bundle_after_cleanup_failure: the new bundle is moved    *)
(* aside, then the old one put back from an intact backup or from memory.  *)
RestoreAside(w) ==
    /\ pc[w] = "restoreAside"
    /\ MoveOutOr(w, "rollback", "restoreCheck", "finishStage")
    /\ UNCHANGED prior /\ Fixed

RestoreCheck(w) ==
    /\ pc[w] = "restoreCheck"
    /\ \/ /\ NoFault
          /\ Goto(w, IF dirs[w]["backup"] = prior[w] THEN "restoreBackup"
                     ELSE IF dirs[w]["backup"] # Absent THEN "setDamagedAside"
                     ELSE "makeRestore")
       \/ Fault /\ Goto(w, "undoRestore")
    /\ UNCHANGED <<output, dirs, prior, result>> /\ Fixed

RestoreBackup(w) ==
    /\ pc[w] = "restoreBackup"
    /\ MoveInOr(w, "backup", "dropRestore", "undoRestore")
    /\ UNCHANGED prior /\ Fixed

SetDamagedAside(w) ==
    /\ pc[w] = "setDamagedAside"
    /\ Attempt(w, /\ dirs' = [dirs EXCEPT ![w]["damaged"] = dirs[w]["backup"],
                                          ![w]["backup"] = Absent]
                  /\ UNCHANGED output, "makeRestore", "undoRestore")
    /\ UNCHANGED prior /\ Fixed

MakeRestore(w) ==
    /\ pc[w] = "makeRestore"
    /\ Attempt(w, Put(w, "restore", Damaged) /\ UNCHANGED output,
               "writeRestore", "undoRestore")
    /\ UNCHANGED prior /\ Fixed

WriteRestore(w) ==
    /\ pc[w] = "writeRestore"
    /\ WriteOr(w, "restore", prior[w], "publishRestore", "undoRestore")
    /\ UNCHANGED <<output, prior>> /\ Fixed

PublishRestore(w) ==
    /\ pc[w] = "publishRestore"
    /\ MoveInOr(w, "restore", "dropRestore", "undoRestore")
    /\ UNCHANGED prior /\ Fixed

(* The except clause: without an old bundle in place, the new one returns. *)
UndoRestore(w) ==
    /\ pc[w] = "undoRestore"
    /\ \/ /\ output = Absent /\ dirs[w]["rollback"] # Absent
          /\ MoveInOr(w, "rollback", "dropRestore", "dropRestore")
       \/ /\ output # Absent \/ dirs[w]["rollback"] = Absent
          /\ Goto(w, "dropRestore")
          /\ UNCHANGED <<output, dirs, result, faults>>
    /\ UNCHANGED prior /\ Fixed

(* The finally clause: whatever siblings are left are removed in turn; a   *)
(* removal that fails skips the rest.                                      *)
Drop(w, step, role, next) ==
    /\ pc[w] = step
    /\ RemoveOr(w, role, next, "finishStage")
    /\ UNCHANGED <<output, prior>> /\ Fixed

DropRestore(w) == Drop(w, "dropRestore", "restore", "dropDamaged")
DropDamaged(w) == Drop(w, "dropDamaged", "damaged", "dropRollback")
DropRollback(w) == Drop(w, "dropRollback", "rollback", "finishStage")

-----------------------------------------------------------------------------
(* The outer finally clause. *)
FinishStage(w) ==
    /\ pc[w] = "finishStage"
    /\ RemoveOr(w, "stage", "finishBackup", "done")
    /\ UNCHANGED <<output, prior>> /\ Fixed

FinishBackup(w) ==
    /\ pc[w] = "finishBackup"
    /\ \/ /\ dirs[w]["backup"] = Absent
          /\ Goto(w, "done")
          /\ Ends(w, IF result[w] = "none" THEN "ok" ELSE result[w])
          /\ UNCHANGED <<output, dirs, faults>>
       \/ /\ dirs[w]["backup"] # Absent /\ output = Absent
          /\ MoveInOr(w, "backup", "done", "done")
       \/ /\ dirs[w]["backup"] # Absent /\ output # Absent
          /\ Goto(w, "done") /\ Ends(w, "error")
          /\ UNCHANGED <<output, dirs, faults>>
    /\ UNCHANGED prior /\ Fixed

(* The process dies (power loss, kill): siblings stay as they are. *)
Crash(w) ==
    /\ pc[w] \notin {"start", "done"}
    /\ crashes < MaxCrashes /\ crashes' = crashes + 1
    /\ Goto(w, "done") /\ Ends(w, "died")
    /\ UNCHANGED <<output, found, dirs, bundle, overwrite, prior, faults>>

Step(w) ==
    \/ Start(w) \/ Compare(w) \/ ReadPrior(w) \/ MakeStage(w) \/ WriteStage(w)
    \/ Decide(w) \/ Publish(w) \/ SetAside(w) \/ Promote(w) \/ Undo(w) \/ Cleanup(w)
    \/ RestoreAside(w) \/ RestoreCheck(w) \/ RestoreBackup(w) \/ SetDamagedAside(w)
    \/ MakeRestore(w) \/ WriteRestore(w) \/ PublishRestore(w) \/ UndoRestore(w)
    \/ DropRestore(w) \/ DropDamaged(w) \/ DropRollback(w)
    \/ FinishStage(w) \/ FinishBackup(w)

Next == \E w \in Writers : Step(w) \/ Crash(w)
Spec == Init /\ [][Next]_vars

-----------------------------------------------------------------------------
(* PROPERTIES *)

(* Only one writer has ever come, as the documents take for granted, or    *)
(* two; what holds of any number of them does not say so.                  *)
Alone == \A v, w \in Writers : v = w \/ pc[v] = "start" \/ pc[w] = "start"
Pair == \E v, w \in Writers : \A u \in Writers : u \in {v, w} \/ pc[u] = "start"

(* The output never shows part of a bundle: a stage is validated before it *)
(* is promoted, and a backup that is half removed does not come back until *)
(* a third step fails.                                                     *)
NeverPartial == faults = 0 \/ (Alone /\ faults <= 2) => output # Damaged

(* Once every call has ended, one that ended well is what the output shows *)
(* whatever failed; and if nothing failed or died, two writers may replace *)
(* each other, but not undo each other (one of three may).                 *)
AcknowledgedStands ==
    /\ Alone \/ (Pair /\ faults = 0 /\ crashes = 0)
    /\ \A w \in Writers : pc[w] \in {"start", "done"}
    /\ \E w \in Writers : result[w] = "ok"
    => \E w \in Writers : result[w] = "ok" /\ output = bundle[w]

(* What the documents promise of a call that fails or is refused: the      *)
(* output holds exactly what it held before, unless a second step failed   *)
(* on the way back.                                                        *)
FailureRestores ==
    Alone /\ faults <= 1 =>
        \A w \in Writers :
            pc[w] = "done" /\ result[w] \in {"error", "refused"} => output = found

(* At no moment does the disk hold neither the bundle that was found nor   *)
(* one that was to replace it: a death between two steps can be mended,    *)
(* however many writers meet there if one step fails, and if two do for    *)
(* one writer.  A directory that is not a bundle is never moved, replaced  *)
(* or removed, whatever fails.                                             *)
NothingLost ==
    /\ found = Foreign => output = Foreign
    /\ found \in Bundles /\ (faults <= 1 \/ (Alone /\ faults <= 2)) =>
        LET wanted == {found} \cup {bundle[w] : w \in {v \in Writers : pc[v] # "start"}}
        IN  \/ output \in wanted
            \/ \E w \in Writers, r \in Roles : dirs[w][r] \in wanted

(* A different bundle is only replaced by a call with --overwrite. *)
OnlyOverwriteReplaces ==
    [][Alone' => \A w \in Writers :
          output \in Bundles /\ output' # output /\ dirs'[w] # dirs[w] => overwrite[w]]_vars
=============================================================================
