-------------------------- MODULE StudyBundleProofs --------------------------
(***************************************************************************)
(* The safety of replacing a study bundle, for any number of writers,      *)
(* bundles, failing steps and deaths.                                      *)
(***************************************************************************)
EXTENDS StudyBundle, TLAPS

Typed ==
    /\ output \in Content /\ found \in Content
    /\ dirs \in [Writers -> [Roles -> Content]]
    /\ bundle \in [Writers -> Bundles] /\ overwrite \in [Writers -> BOOLEAN]
    /\ prior \in [Writers -> Bundles \cup {Absent}]
    /\ pc \in [Writers -> Steps]
    /\ result \in [Writers -> {"none", "ok", "error", "refused", "died"}]
    /\ faults \in Nat /\ crashes \in Nat

-----------------------------------------------------------------------------
(* What a step of one call does, said of that call alone: the step it goes *)
(* to, the sibling that changes, and that the other calls stay as they are.*)

Rests(v) ==
    dirs'[v] = dirs[v] /\ prior'[v] = prior[v] /\ pc'[v] = pc[v] /\ result'[v] = result[v]

Frame(w) ==
    /\ Typed'
    /\ found' = found /\ bundle' = bundle /\ overwrite' = overwrite
    /\ \A v \in Writers \ {w} : Rests(v)

Leads(w, step) == pc'[w] = step /\ prior'[w] = prior[w] /\ crashes' = crashes
Passes(w, step) == Leads(w, step) /\ result'[w] = result[w] /\ faults' = faults
Blocked(w, step) == Leads(w, step) /\ result'[w] = "error" /\ faults' = faults
Breaks(w, step) == Leads(w, step) /\ result'[w] = "error" /\ faults' = faults + 1

Becomes(w, role, x) ==
    dirs'[w][role] = x /\ \A r \in Roles \ {role} : dirs'[w][r] = dirs[w][r]

Same(w) == output' = output /\ dirs'[w] = dirs[w]
Changes(w, role, x) == output' = output /\ Becomes(w, role, x)
Brought(w, role) == output = Absent /\ output' = dirs[w][role] /\ Becomes(w, role, Absent)
Taken(w, role) == output # Absent /\ output' = Absent /\ Becomes(w, role, output)

BringsOr(w, role, step, handler) ==
    \/ Brought(w, role) /\ Passes(w, step)
    \/ Same(w) /\ (Breaks(w, handler) \/ (output # Absent /\ Blocked(w, handler)))

TakesOr(w, role, step, handler) ==
    \/ Taken(w, role) /\ Passes(w, step)
    \/ Same(w) /\ (Breaks(w, handler) \/ (output = Absent /\ Blocked(w, handler)))

MakesOr(w, role, step, handler) ==
    \/ Changes(w, role, Damaged) /\ Passes(w, step)
    \/ Same(w) /\ Breaks(w, handler)

WritesOr(w, role, b, step, handler) ==
    \/ Changes(w, role, b) /\ Passes(w, step)
    \/ Changes(w, role, Damaged) /\ Breaks(w, handler)

DropsOr(w, role, step, handler) ==
    \/ Changes(w, role, Absent) /\ Passes(w, step)
    \/ /\ dirs[w][role] # Absent /\ Breaks(w, handler)
       /\ Changes(w, role, dirs[w][role]) \/ Changes(w, role, Damaged)

Ended(w, r) == pc'[w] = "done" /\ result'[w] = r /\ faults' = faults /\ crashes' = crashes

Prepares(w) ==
    \/ pc[w] = "start" /\ Same(w) /\ Passes(w, "compare")
    \/ /\ pc[w] = "compare" /\ Same(w) /\ prior'[w] = prior[w]
       /\ \/ output = bundle[w] /\ Ended(w, "ok")
          \/ output # bundle[w] /\ Passes(w, "readPrior")
    \/ /\ pc[w] = "readPrior" /\ Same(w)
       /\ \/ output = Absent /\ Passes(w, "makeStage")
          \/ /\ output \in Bundles /\ prior'[w] = output /\ overwrite[w]
             /\ pc'[w] = "makeStage" /\ result'[w] = result[w]
             /\ faults' = faults /\ crashes' = crashes
          \/ prior'[w] \in {prior[w], output} /\ Ended(w, "refused")
    \/ pc[w] = "makeStage" /\ MakesOr(w, "stage", "writeStage", "done")
    \/ pc[w] = "writeStage" /\ WritesOr(w, "stage", bundle[w], "decide", "finishStage")
    \/ /\ pc[w] = "decide" /\ Same(w)
       /\ Passes(w, IF output # Absent THEN "setAside" ELSE "publish")

Replaces(w) ==
    \/ pc[w] = "publish" /\ BringsOr(w, "stage", "finishStage", "finishStage")
    \/ pc[w] = "setAside" /\ TakesOr(w, "backup", "promote", "finishStage")
    \/ pc[w] = "promote" /\ BringsOr(w, "stage", "cleanup", "undo")
    \/ pc[w] = "undo" /\ BringsOr(w, "backup", "finishStage", "finishStage")
    \/ /\ pc[w] = "cleanup"
       /\ DropsOr(w, "backup", "finishStage",
                  IF prior[w] = Absent THEN "finishStage" ELSE "restoreAside")

Restores(w) ==
    \/ pc[w] = "restoreAside" /\ TakesOr(w, "rollback", "restoreCheck", "finishStage")
    \/ /\ pc[w] = "restoreCheck" /\ Same(w)
       /\ \/ dirs[w]["backup"] = prior[w] /\ Passes(w, "restoreBackup")
          \/ dirs[w]["backup"] # Absent /\ Passes(w, "setDamagedAside")
          \/ dirs[w]["backup"] = Absent /\ Passes(w, "makeRestore")
          \/ /\ pc'[w] = "undoRestore" /\ prior'[w] = prior[w] /\ result'[w] = result[w]
             /\ faults' = faults + 1 /\ crashes' = crashes
    \/ pc[w] = "restoreBackup" /\ BringsOr(w, "backup", "dropRestore", "undoRestore")
    \/ /\ pc[w] = "setDamagedAside"
       /\ \/ /\ output' = output /\ Passes(w, "makeRestore")
             /\ dirs'[w]["damaged"] = dirs[w]["backup"] /\ dirs'[w]["backup"] = Absent
             /\ \A r \in Roles \ {"damaged", "backup"} : dirs'[w][r] = dirs[w][r]
          \/ Same(w) /\ Breaks(w, "undoRestore")
    \/ pc[w] = "makeRestore" /\ MakesOr(w, "restore", "writeRestore", "undoRestore")
    \/ /\ pc[w] = "writeRestore"
       /\ WritesOr(w, "restore", prior[w], "publishRestore", "undoRestore")
    \/ pc[w] = "publishRestore" /\ BringsOr(w, "restore", "dropRestore", "undoRestore")
    \/ /\ pc[w] = "undoRestore"
       /\ \/ /\ output = Absent /\ dirs[w]["rollback"] # Absent
             /\ BringsOr(w, "rollback", "dropRestore", "dropRestore")
          \/ /\ output # Absent \/ dirs[w]["rollback"] = Absent
             /\ Same(w) /\ Passes(w, "dropRestore")

Finishes(w) ==
    \/ pc[w] = "dropRestore" /\ DropsOr(w, "restore", "dropDamaged", "finishStage")
    \/ pc[w] = "dropDamaged" /\ DropsOr(w, "damaged", "dropRollback", "finishStage")
    \/ pc[w] = "dropRollback" /\ DropsOr(w, "rollback", "finishStage", "finishStage")
    \/ pc[w] = "finishStage" /\ DropsOr(w, "stage", "finishBackup", "done")
    \/ /\ pc[w] = "finishBackup"
       /\ \/ /\ dirs[w]["backup"] = Absent /\ Same(w) /\ prior'[w] = prior[w]
             /\ Ended(w, IF result[w] = "none" THEN "ok" ELSE result[w])
          \/ dirs[w]["backup"] # Absent /\ BringsOr(w, "backup", "done", "done")

Dies(w) ==
    /\ pc[w] \notin {"start", "done"} /\ pc'[w] = "done" /\ result'[w] = "died"
    /\ Same(w) /\ prior'[w] = prior[w] /\ faults' = faults /\ crashes' = crashes + 1

Effect(w) == Prepares(w) \/ Replaces(w) \/ Restores(w) \/ Finishes(w) \/ Dies(w)

LEMMA PutLocal ==
    ASSUME Typed, NEW w \in Writers, NEW role \in Roles, NEW x \in Content, Put(w, role, x)
    PROVE  /\ Becomes(w, role, x) /\ dirs' \in [Writers -> [Roles -> Content]]
           /\ \A v \in Writers \ {w} : dirs'[v] = dirs[v]
<1>1. dirs' = [dirs EXCEPT ![w] = [dirs[w] EXCEPT ![role] = x]]
  BY DEF Put, Typed
<1>. QED  BY <1>1 DEF Typed, Becomes

LEMMA SameLocal ==
    ASSUME Typed, NEW w \in Writers, UNCHANGED <<output, dirs>>
    PROVE  /\ Same(w) /\ dirs' \in [Writers -> [Roles -> Content]] /\ output' \in Content
           /\ \A v \in Writers \ {w} : dirs'[v] = dirs[v]
BY DEF Typed, Same

(* Where the call goes on, and with what result. *)
Onward(w, step) ==
    /\ pc' \in [Writers -> Steps] /\ pc'[w] = step /\ \A v \in Writers \ {w} : pc'[v] = pc[v]

Results == {"none", "ok", "error", "refused", "died"}

LEMMA GotoLocal ==
    ASSUME Typed, NEW w \in Writers, NEW step \in Steps, Goto(w, step)
    PROVE  Onward(w, step)
BY DEF Typed, Goto, Onward

LEMMA EndsLocal ==
    ASSUME Typed, NEW w \in Writers, NEW r \in Results, Ends(w, r) \/ (r = result[w] /\ UNCHANGED result)
    PROVE  /\ result' \in [Writers -> Results] /\ result'[w] = r
           /\ \A v \in Writers \ {w} : result'[v] = result[v]
BY DEF Typed, Ends, Results

(* The outcome of a step that passes or fails.                             *)
LEMMA PassLocal ==
    ASSUME Typed, NEW w \in Writers, NEW step \in Steps, Goto(w, step), UNCHANGED result, NoFault,
           UNCHANGED prior, Fixed, output' \in Content, dirs' \in [Writers -> [Roles -> Content]],
           \A v \in Writers \ {w} : dirs'[v] = dirs[v]
    PROVE  Frame(w) /\ Passes(w, step)
<1>1. Onward(w, step)
  BY GotoLocal
<1>. QED  BY <1>1 DEF Typed, Frame, Passes, Leads, Rests, Onward, NoFault, Fixed

LEMMA FailLocal ==
    ASSUME Typed, NEW w \in Writers, NEW step \in Steps, Goto(w, step), Ends(w, "error"),
           Fault \/ NoFault,
           UNCHANGED prior, Fixed, output' \in Content, dirs' \in [Writers -> [Roles -> Content]],
           \A v \in Writers \ {w} : dirs'[v] = dirs[v]
    PROVE  /\ Frame(w)
           /\ Fault => Breaks(w, step)
           /\ NoFault => Blocked(w, step)
<1>1. Onward(w, step)
  BY GotoLocal
<1>2. /\ result' \in [Writers -> Results] /\ result'[w] = "error"
      /\ \A v \in Writers \ {w} : result'[v] = result[v]
  BY EndsLocal DEF Results
<1>3. faults' \in Nat
  BY DEF Typed, Fault, NoFault
<1>. QED
  BY <1>1, <1>2, <1>3 DEF Typed, Frame, Breaks, Blocked, Leads, Rests, Onward, Fault, NoFault, Fixed,
     Results

LEMMA MoveInLocal ==
    ASSUME Typed, NEW w \in Writers, NEW role \in Roles, NEW step \in Steps, NEW handler \in Steps,
           MoveInOr(w, role, step, handler), UNCHANGED prior, Fixed
    PROVE  Frame(w) /\ BringsOr(w, role, step, handler)
<1>1. Absent \in Content /\ dirs[w][role] \in Content
  BY DEF Typed, Content
<1>2. CASE MoveIn(w, role) /\ NoFault /\ Goto(w, step) /\ UNCHANGED result
  <2>1. /\ Becomes(w, role, Absent) /\ dirs' \in [Writers -> [Roles -> Content]]
        /\ \A v \in Writers \ {w} : dirs'[v] = dirs[v]
    BY <1>1, <1>2, PutLocal DEF MoveIn
  <2>2. Brought(w, role) /\ output' \in Content
    BY <1>1, <1>2, <2>1 DEF MoveIn, Brought
  <2>. QED  BY <1>2, <2>1, <2>2, PassLocal DEF BringsOr
<1>3. CASE UNCHANGED <<output, dirs>> /\ Goto(w, handler) /\ Ends(w, "error") /\ Fault
  BY <1>3, SameLocal, FailLocal DEF BringsOr
<1>4. CASE /\ UNCHANGED <<output, dirs>> /\ Goto(w, handler) /\ Ends(w, "error") /\ NoFault
           /\ output # Absent
  BY <1>4, SameLocal, FailLocal DEF BringsOr
<1>. QED  BY <1>2, <1>3, <1>4 DEF MoveInOr, Attempt

LEMMA MoveOutLocal ==
    ASSUME Typed, NEW w \in Writers, NEW role \in Roles, NEW step \in Steps, NEW handler \in Steps,
           MoveOutOr(w, role, step, handler), UNCHANGED prior, Fixed
    PROVE  Frame(w) /\ TakesOr(w, role, step, handler)
<1>1. Absent \in Content /\ output \in Content
  BY DEF Typed, Content
<1>2. CASE MoveOut(w, role) /\ NoFault /\ Goto(w, step) /\ UNCHANGED result
  <2>1. /\ Becomes(w, role, output) /\ dirs' \in [Writers -> [Roles -> Content]]
        /\ \A v \in Writers \ {w} : dirs'[v] = dirs[v]
    BY <1>1, <1>2, PutLocal DEF MoveOut
  <2>2. Taken(w, role) /\ output' \in Content
    BY <1>1, <1>2, <2>1 DEF MoveOut, Taken
  <2>. QED  BY <1>2, <2>1, <2>2, PassLocal DEF TakesOr
<1>3. CASE UNCHANGED <<output, dirs>> /\ Goto(w, handler) /\ Ends(w, "error") /\ Fault
  BY <1>3, SameLocal, FailLocal DEF TakesOr
<1>4. CASE /\ UNCHANGED <<output, dirs>> /\ Goto(w, handler) /\ Ends(w, "error") /\ NoFault
           /\ output = Absent
  BY <1>4, SameLocal, FailLocal DEF TakesOr
<1>. QED  BY <1>2, <1>3, <1>4 DEF MoveOutOr, Attempt

LEMMA RemoveLocal ==
    ASSUME Typed, NEW w \in Writers, NEW role \in Roles, NEW step \in Steps, NEW handler \in Steps,
           RemoveOr(w, role, step, handler), UNCHANGED <<output, prior>>, Fixed
    PROVE  Frame(w) /\ DropsOr(w, role, step, handler)
<1>1. {Absent, Damaged, dirs[w][role]} \subseteq Content /\ output \in Content
  BY DEF Typed, Content
<1>2. CASE NoFault /\ Put(w, role, Absent) /\ Goto(w, step) /\ UNCHANGED result
  BY <1>1, <1>2, PutLocal, PassLocal DEF DropsOr, Changes
<1>3. ASSUME NEW x \in {dirs[w][role], Damaged}, Put(w, role, x), Fault, dirs[w][role] # Absent,
             Goto(w, handler), Ends(w, "error")
      PROVE  Frame(w) /\ DropsOr(w, role, step, handler)
  <2>1. /\ Becomes(w, role, x) /\ dirs' \in [Writers -> [Roles -> Content]]
        /\ \A v \in Writers \ {w} : dirs'[v] = dirs[v]
    BY <1>1, <1>3, PutLocal
  <2>2. Frame(w) /\ Breaks(w, handler)
    BY <1>1, <1>3, <2>1, FailLocal
  <2>. QED  BY <1>3, <2>1, <2>2 DEF DropsOr, Changes
<1>. QED  BY <1>2, <1>3 DEF RemoveOr

LEMMA WriteLocal ==
    ASSUME Typed, NEW w \in Writers, NEW role \in Roles, NEW b \in Content,
           NEW step \in Steps, NEW handler \in Steps,
           WriteOr(w, role, b, step, handler), UNCHANGED <<output, prior>>, Fixed
    PROVE  Frame(w) /\ WritesOr(w, role, b, step, handler)
<1>1. Damaged \in Content /\ output \in Content
  BY DEF Typed, Content
<1>2. CASE NoFault /\ Put(w, role, b) /\ Goto(w, step) /\ UNCHANGED result
  BY <1>1, <1>2, PutLocal, PassLocal DEF WritesOr, Changes
<1>3. CASE Fault /\ Put(w, role, Damaged) /\ Goto(w, handler) /\ Ends(w, "error")
  BY <1>1, <1>3, PutLocal, FailLocal DEF WritesOr, Changes
<1>. QED  BY <1>2, <1>3 DEF WriteOr

LEMMA MakeLocal ==
    ASSUME Typed, NEW w \in Writers, NEW role \in Roles, NEW step \in Steps, NEW handler \in Steps,
           Attempt(w, Put(w, role, Damaged) /\ UNCHANGED output, step, handler),
           UNCHANGED prior, Fixed
    PROVE  Frame(w) /\ MakesOr(w, role, step, handler)
<1>1. Damaged \in Content /\ output \in Content
  BY DEF Typed, Content
<1>2. CASE NoFault /\ Put(w, role, Damaged) /\ UNCHANGED output /\ Goto(w, step) /\ UNCHANGED result
  BY <1>1, <1>2, PutLocal, PassLocal DEF MakesOr, Changes
<1>3. CASE UNCHANGED <<output, dirs>> /\ Goto(w, handler) /\ Ends(w, "error") /\ Fault
  BY <1>3, SameLocal, FailLocal DEF MakesOr
<1>. QED  BY <1>2, <1>3 DEF Attempt

(* A step without a file-system call, that goes on or ends. *)
LEMMA DecidesLocal ==
    ASSUME Typed, NEW w \in Writers, NEW step \in Steps, Goto(w, step),
           NEW r \in Results, Ends(w, r) \/ (r = result[w] /\ UNCHANGED result),
           UNCHANGED <<output, dirs>>, UNCHANGED <<found, bundle, overwrite>>,
           NEW p \in Bundles \cup {Absent},
           prior' = [prior EXCEPT ![w] = p] \/ (p = prior[w] /\ UNCHANGED prior),
           faults' \in Nat, crashes' \in Nat
    PROVE  Frame(w) /\ Same(w) /\ pc'[w] = step /\ result'[w] = r /\ prior'[w] = p
<1>1. Onward(w, step)
  BY GotoLocal
<1>2. /\ result' \in [Writers -> Results] /\ result'[w] = r
      /\ \A v \in Writers \ {w} : result'[v] = result[v]
  BY EndsLocal
<1>3. /\ prior' \in [Writers -> Bundles \cup {Absent}] /\ prior'[w] = p
      /\ \A v \in Writers \ {w} : prior'[v] = prior[v]
  BY DEF Typed
<1>4. Same(w) /\ dirs' \in [Writers -> [Roles -> Content]] /\ output' \in Content
      /\ \A v \in Writers \ {w} : dirs'[v] = dirs[v]
  BY SameLocal
<1>. QED
  BY <1>1, <1>2, <1>3, <1>4 DEF Typed, Frame, Rests, Onward, Results

LEMMA Members ==
    /\ {"done", "compare", "readPrior", "makeStage", "writeStage", "decide", "publish", "setAside",
        "promote", "undo", "cleanup"} \subseteq Steps
    /\ {"restoreAside", "restoreCheck", "restoreBackup", "setDamagedAside", "makeRestore",
        "writeRestore", "publishRestore", "undoRestore"} \subseteq Steps
    /\ {"dropRestore", "dropDamaged", "dropRollback", "finishStage", "finishBackup"} \subseteq Steps
    /\ {"stage", "backup", "rollback", "damaged", "restore"} \subseteq Roles
BY DEF Steps, Roles

LEMMA PreparesLocal ==
    ASSUME Typed, NEW w \in Writers,
           \/ Start(w) \/ Compare(w) \/ ReadPrior(w) \/ MakeStage(w) \/ WriteStage(w) \/ Decide(w)
    PROVE  Frame(w) /\ Prepares(w)
<1>. USE DEF Fixed, Steps, Results, Prepares
<1>1. /\ result[w] \in Results /\ prior[w] \in Bundles \cup {Absent} /\ bundle[w] \in Content
      /\ overwrite[w] \in BOOLEAN /\ faults \in Nat /\ crashes \in Nat
  BY DEF Typed, Content
<1>2. CASE Start(w)
  BY <1>1, <1>2, DecidesLocal DEF Start, Passes, Leads
<1>3. CASE Compare(w)
  <2>1. CASE output = bundle[w] /\ Goto(w, "done") /\ Ends(w, "ok")
    BY <1>1, <1>3, <2>1, DecidesLocal DEF Compare, Ended
  <2>2. CASE output # bundle[w] /\ Goto(w, "readPrior") /\ UNCHANGED result
    BY <1>1, <1>3, <2>2, DecidesLocal DEF Compare, Passes, Leads
  <2>. QED  BY <1>3, <2>1, <2>2 DEF Compare
<1>4. CASE ReadPrior(w)
  <2>1. CASE output = Absent /\ Goto(w, "makeStage") /\ UNCHANGED <<prior, result>>
    BY <1>1, <1>4, <2>1, DecidesLocal DEF ReadPrior, Passes, Leads
  <2>2. CASE /\ output \in Bundles /\ prior' = [prior EXCEPT ![w] = output]
             /\ overwrite[w] /\ Goto(w, "makeStage") /\ UNCHANGED result
    <3>1. /\ pc[w] = "readPrior" /\ UNCHANGED <<output, dirs, found, bundle, overwrite>>
          /\ faults' = faults /\ crashes' = crashes
      BY <1>4 DEF ReadPrior
    <3>2. /\ Frame(w) /\ Same(w) /\ pc'[w] = "makeStage" /\ result'[w] = result[w]
          /\ prior'[w] = output
      <4>1. /\ prior' \in [Writers -> Bundles \cup {Absent}] /\ prior'[w] = output
            /\ \A v \in Writers \ {w} : prior'[v] = prior[v]
        BY <2>2 DEF Typed
      <4>2. Onward(w, "makeStage")
        BY <2>2, GotoLocal
      <4>3. /\ Same(w) /\ dirs' \in [Writers -> [Roles -> Content]] /\ output' \in Content
            /\ \A v \in Writers \ {w} : dirs'[v] = dirs[v]
        BY <3>1, SameLocal
      <4>. QED  BY <1>1, <2>2, <3>1, <4>1, <4>2, <4>3 DEF Typed, Frame, Rests, Onward
    <3>. QED  BY <2>2, <3>1, <3>2
  <2>3. CASE /\ output \in Bundles /\ prior' = [prior EXCEPT ![w] = output]
             /\ ~overwrite[w] /\ Goto(w, "done") /\ Ends(w, "refused")
    <3>1. /\ pc[w] = "readPrior" /\ UNCHANGED <<output, dirs, found, bundle, overwrite>>
          /\ faults' = faults /\ crashes' = crashes
      BY <1>4 DEF ReadPrior
    <3>2. /\ Frame(w) /\ Same(w) /\ pc'[w] = "done" /\ result'[w] = "refused"
          /\ prior'[w] = output
      BY <1>1, <2>3, <3>1, DecidesLocal
    <3>. QED  BY <2>3, <3>1, <3>2 DEF Ended
  <2>4. CASE /\ Goto(w, "done") /\ Ends(w, "refused") /\ UNCHANGED prior
    <3>1. /\ pc[w] = "readPrior" /\ UNCHANGED <<output, dirs, found, bundle, overwrite>>
          /\ faults' = faults /\ crashes' = crashes
      BY <1>4 DEF ReadPrior
    <3>2. "done" \in Steps /\ "refused" \in Results /\ faults' \in Nat /\ crashes' \in Nat
      BY <1>1, <3>1
    <3>3. /\ Frame(w) /\ Same(w) /\ pc'[w] = "done" /\ result'[w] = "refused"
          /\ prior'[w] = prior[w]
      BY <1>1, <2>4, <3>1, <3>2, DecidesLocal
    <3>. QED  BY <3>1, <3>3 DEF Ended
  <2>. QED  BY <1>4, <2>1, <2>2, <2>3, <2>4 DEF ReadPrior
<1>5. CASE MakeStage(w)
  <2>1. Frame(w) /\ MakesOr(w, "stage", "writeStage", "done")
    BY <1>5, Members, MakeLocal DEF MakeStage
  <2>. QED  BY <1>5, <2>1 DEF MakeStage
<1>6. CASE WriteStage(w)
  <2>1. Frame(w) /\ WritesOr(w, "stage", bundle[w], "decide", "finishStage")
    BY <1>1, <1>6, Members, WriteLocal DEF WriteStage
  <2>. QED  BY <1>6, <2>1 DEF WriteStage
<1>7. CASE Decide(w)
  <2>. DEFINE step == IF output # Absent THEN "setAside" ELSE "publish"
  <2>1. step \in Steps
    BY Members
  <2>2. pc[w] = "decide" /\ Goto(w, step) /\ UNCHANGED <<output, dirs, prior, result, faults>> /\ Fixed
    BY <1>7 DEF Decide
  <2>. HIDE DEF step
  <2>0. /\ UNCHANGED <<output, dirs>> /\ UNCHANGED <<found, bundle, overwrite>>
        /\ UNCHANGED prior /\ UNCHANGED result /\ faults' \in Nat /\ crashes' \in Nat
    BY <1>1, <2>2
  <2>3. /\ Frame(w) /\ Same(w) /\ pc'[w] = step /\ result'[w] = result[w]
        /\ prior'[w] = prior[w]
    <3>1. Onward(w, step)
      BY <2>1, <2>2, GotoLocal
    <3>2. /\ Same(w) /\ dirs' \in [Writers -> [Roles -> Content]] /\ output' \in Content
          /\ \A v \in Writers \ {w} : dirs'[v] = dirs[v]
      BY <2>0, SameLocal
    <3>. QED  BY <2>0, <3>1, <3>2 DEF Typed, Frame, Rests, Onward
  <2>. QED  BY <2>2, <2>3 DEF step, Fixed, Passes, Leads
<1>. QED  BY <1>2, <1>3, <1>4, <1>5, <1>6, <1>7

LEMMA ReplacesLocal ==
    ASSUME Typed, NEW w \in Writers,
           Publish(w) \/ SetAside(w) \/ Promote(w) \/ Undo(w) \/ Cleanup(w)
    PROVE  Frame(w) /\ Replaces(w)
<1>1. CASE Publish(w)
  <2>1. Frame(w) /\ BringsOr(w, "stage", "finishStage", "finishStage")
    BY <1>1, Members, MoveInLocal DEF Publish
  <2>. QED  BY <1>1, <2>1 DEF Publish, Replaces
<1>2. CASE SetAside(w)
  <2>1. Frame(w) /\ TakesOr(w, "backup", "promote", "finishStage")
    BY <1>2, Members, MoveOutLocal DEF SetAside
  <2>. QED  BY <1>2, <2>1 DEF SetAside, Replaces
<1>3. CASE Promote(w)
  <2>1. Frame(w) /\ BringsOr(w, "stage", "cleanup", "undo")
    BY <1>3, Members, MoveInLocal DEF Promote
  <2>. QED  BY <1>3, <2>1 DEF Promote, Replaces
<1>4. CASE Undo(w)
  <2>1. Frame(w) /\ BringsOr(w, "backup", "finishStage", "finishStage")
    BY <1>4, Members, MoveInLocal DEF Undo
  <2>. QED  BY <1>4, <2>1 DEF Undo, Replaces
<1>5. CASE Cleanup(w)
  <2>. DEFINE handler == IF prior[w] = Absent THEN "finishStage" ELSE "restoreAside"
  <2>1. handler \in Steps
    BY Members
  <2>2. /\ pc[w] = "cleanup" /\ RemoveOr(w, "backup", "finishStage", handler)
        /\ UNCHANGED <<output, prior>> /\ Fixed
    BY <1>5 DEF Cleanup
  <2>. HIDE DEF handler
  <2>3. Frame(w) /\ DropsOr(w, "backup", "finishStage", handler)
    BY <2>1, <2>2, Members, RemoveLocal
  <2>. QED  BY <2>2, <2>3 DEF handler, Replaces
<1>. QED  BY <1>1, <1>2, <1>3, <1>4, <1>5

LEMMA RestoresLocal ==
    ASSUME Typed, NEW w \in Writers,
           \/ RestoreAside(w) \/ RestoreCheck(w) \/ RestoreBackup(w) \/ SetDamagedAside(w)
           \/ MakeRestore(w) \/ WriteRestore(w) \/ PublishRestore(w) \/ UndoRestore(w)
    PROVE  Frame(w) /\ Restores(w)
<1>1. /\ result[w] \in Results /\ prior[w] \in Bundles \cup {Absent} /\ prior[w] \in Content
      /\ faults \in Nat /\ crashes \in Nat /\ output \in Content /\ dirs[w] \in [Roles -> Content]
      /\ Absent \in Content
  BY DEF Typed, Content, Results
<1>2. CASE RestoreAside(w)
  <2>1. Frame(w) /\ TakesOr(w, "rollback", "restoreCheck", "finishStage")
    BY <1>2, Members, MoveOutLocal DEF RestoreAside
  <2>. QED  BY <1>2, <2>1 DEF RestoreAside, Restores
<1>3. CASE RestoreCheck(w)
  <2>1. CASE NoFault
    <3>1. /\ pc[w] = "restoreCheck" /\ UNCHANGED <<output, dirs, prior, result>>
          /\ UNCHANGED <<found, bundle, overwrite>> /\ faults' = faults /\ crashes' = crashes
      BY <1>3, <2>1 DEF RestoreCheck, NoFault, Fixed
    <3>2. ASSUME NEW step \in Steps, Goto(w, step)
          PROVE  Frame(w) /\ Same(w) /\ Passes(w, step)
      BY <1>1, <3>1, <3>2, SameLocal, PassLocal DEF NoFault, Fixed
    <3>3. \/ dirs[w]["backup"] = prior[w] /\ Goto(w, "restoreBackup")
          \/ dirs[w]["backup"] # Absent /\ Goto(w, "setDamagedAside")
          \/ dirs[w]["backup"] = Absent /\ Goto(w, "makeRestore")
          \/ Fault /\ Goto(w, "undoRestore")
      BY <1>3 DEF RestoreCheck
    <3>4. ~Fault
      BY <1>1, <3>1 DEF Fault
    <3>. QED  BY <3>1, <3>2, <3>3, <3>4, Members DEF Restores
  <2>2. CASE Fault /\ Goto(w, "undoRestore")
    <3>1. /\ pc[w] = "restoreCheck" /\ UNCHANGED <<output, dirs, prior, result>>
          /\ UNCHANGED <<found, bundle, overwrite>> /\ faults' = faults + 1 /\ crashes' = crashes
      BY <1>3, <2>2 DEF RestoreCheck, Fault, Fixed
    <3>2. /\ Frame(w) /\ Same(w) /\ pc'[w] = "undoRestore" /\ result'[w] = result[w]
          /\ prior'[w] = prior[w]
      BY <1>1, <2>2, <3>1, Members, DecidesLocal
    <3>. QED  BY <3>1, <3>2 DEF Restores
  <2>. QED  BY <1>3, <2>1, <2>2 DEF RestoreCheck
<1>4. CASE RestoreBackup(w)
  <2>1. Frame(w) /\ BringsOr(w, "backup", "dropRestore", "undoRestore")
    BY <1>4, Members, MoveInLocal DEF RestoreBackup
  <2>. QED  BY <1>4, <2>1 DEF RestoreBackup, Restores
<1>5. CASE SetDamagedAside(w)
  <2>1. CASE /\ dirs' = [dirs EXCEPT ![w]["damaged"] = dirs[w]["backup"], ![w]["backup"] = Absent]
             /\ UNCHANGED output /\ NoFault /\ Goto(w, "makeRestore") /\ UNCHANGED result
    <3>1. dirs' = [dirs EXCEPT ![w] = [[dirs[w] EXCEPT !["damaged"] = dirs[w]["backup"]]
                                          EXCEPT !["backup"] = Absent]]
      BY <2>1 DEF Typed
    <3>2. /\ dirs'[w] = [[dirs[w] EXCEPT !["damaged"] = dirs[w]["backup"]] EXCEPT !["backup"] = Absent]
          /\ \A v \in Writers \ {w} : dirs'[v] = dirs[v]
      BY <3>1 DEF Typed
    <3>3. /\ dirs'[w]["damaged"] = dirs[w]["backup"] /\ dirs'[w]["backup"] = Absent
          /\ \A r \in Roles \ {"damaged", "backup"} : dirs'[w][r] = dirs[w][r]
          /\ dirs'[w] \in [Roles -> Content]
      BY <1>1, <3>2 DEF Roles
    <3>4. dirs' \in [Writers -> [Roles -> Content]]
      BY <3>1, <3>2, <3>3 DEF Typed
    <3>5. Frame(w) /\ Passes(w, "makeRestore")
      BY <1>1, <1>5, <2>1, <3>2, <3>4, Members, PassLocal DEF SetDamagedAside
    <3>. QED  BY <1>5, <2>1, <3>3, <3>5 DEF SetDamagedAside, Restores
  <2>2. CASE Fault /\ UNCHANGED <<output, dirs>> /\ Goto(w, "undoRestore") /\ Ends(w, "error")
    BY <1>5, <2>2, Members, SameLocal, FailLocal DEF SetDamagedAside, Restores
  <2>. QED  BY <1>5, <2>1, <2>2 DEF SetDamagedAside, Attempt
<1>6. CASE MakeRestore(w)
  <2>1. Frame(w) /\ MakesOr(w, "restore", "writeRestore", "undoRestore")
    BY <1>6, Members, MakeLocal DEF MakeRestore
  <2>. QED  BY <1>6, <2>1 DEF MakeRestore, Restores
<1>7. CASE WriteRestore(w)
  <2>1. Frame(w) /\ WritesOr(w, "restore", prior[w], "publishRestore", "undoRestore")
    BY <1>1, <1>7, Members, WriteLocal DEF WriteRestore
  <2>. QED  BY <1>7, <2>1 DEF WriteRestore, Restores
<1>8. CASE PublishRestore(w)
  <2>1. Frame(w) /\ BringsOr(w, "restore", "dropRestore", "undoRestore")
    BY <1>8, Members, MoveInLocal DEF PublishRestore
  <2>. QED  BY <1>8, <2>1 DEF PublishRestore, Restores
<1>9. CASE UndoRestore(w)
  <2>1. CASE /\ output = Absent /\ dirs[w]["rollback"] # Absent
             /\ MoveInOr(w, "rollback", "dropRestore", "dropRestore")
    <3>1. Frame(w) /\ BringsOr(w, "rollback", "dropRestore", "dropRestore")
      BY <1>9, <2>1, Members, MoveInLocal DEF UndoRestore
    <3>. QED  BY <1>9, <2>1, <3>1 DEF UndoRestore, Restores
  <2>2. CASE /\ output # Absent \/ dirs[w]["rollback"] = Absent
             /\ Goto(w, "dropRestore") /\ UNCHANGED <<output, dirs, result, faults>>
    <3>1. Frame(w) /\ Same(w) /\ Passes(w, "dropRestore")
      BY <1>9, <2>2, Members, SameLocal, PassLocal DEF UndoRestore, NoFault
    <3>. QED  BY <1>9, <2>2, <3>1 DEF UndoRestore, Restores
  <2>. QED  BY <1>9, <2>1, <2>2 DEF UndoRestore
<1>. QED  BY <1>2, <1>3, <1>4, <1>5, <1>6, <1>7, <1>8, <1>9

LEMMA FinishesLocal ==
    ASSUME Typed, NEW w \in Writers,
           DropRestore(w) \/ DropDamaged(w) \/ DropRollback(w) \/ FinishStage(w) \/ FinishBackup(w)
    PROVE  Frame(w) /\ Finishes(w)
<1>1. CASE DropRestore(w) \/ DropDamaged(w) \/ DropRollback(w)
  <2>1. ASSUME NEW role \in Roles, NEW step, NEW next \in Steps, Drop(w, step, role, next)
        PROVE  pc[w] = step /\ Frame(w) /\ DropsOr(w, role, next, "finishStage")
    BY <2>1, Members, RemoveLocal DEF Drop
  <2>2. CASE DropRestore(w)
    BY <2>1, <2>2, Members DEF DropRestore, Finishes
  <2>3. CASE DropDamaged(w)
    BY <2>1, <2>3, Members DEF DropDamaged, Finishes
  <2>4. CASE DropRollback(w)
    BY <2>1, <2>4, Members DEF DropRollback, Finishes
  <2>. QED  BY <1>1, <2>2, <2>3, <2>4
<1>2. CASE FinishStage(w)
  <2>1. Frame(w) /\ DropsOr(w, "stage", "finishBackup", "done")
    BY <1>2, Members, RemoveLocal DEF FinishStage
  <2>. QED  BY <1>2, <2>1 DEF FinishStage, Finishes
<1>3. CASE FinishBackup(w)
  <2>1. /\ result[w] \in Results /\ prior[w] \in Bundles \cup {Absent}
        /\ faults \in Nat /\ crashes \in Nat
    BY DEF Typed, Results
  <2>2. CASE /\ dirs[w]["backup"] = Absent /\ Goto(w, "done")
             /\ Ends(w, IF result[w] = "none" THEN "ok" ELSE result[w])
             /\ UNCHANGED <<output, dirs, faults>>
    <3>1. (IF result[w] = "none" THEN "ok" ELSE result[w]) \in Results
      BY <2>1 DEF Results
    <3>2. /\ pc[w] = "finishBackup" /\ UNCHANGED <<output, dirs, prior, faults>> /\ Fixed
      BY <1>3, <2>2 DEF FinishBackup
    <3>3. /\ Frame(w) /\ Same(w) /\ pc'[w] = "done" /\ prior'[w] = prior[w]
          /\ result'[w] = (IF result[w] = "none" THEN "ok" ELSE result[w])
      BY <2>1, <2>2, <3>1, <3>2, Members, DecidesLocal DEF Fixed
    <3>. QED  BY <2>2, <3>2, <3>3 DEF Fixed, Ended, Finishes
  <2>3. CASE dirs[w]["backup"] # Absent /\ output = Absent /\ MoveInOr(w, "backup", "done", "done")
    <3>1. Frame(w) /\ BringsOr(w, "backup", "done", "done")
      BY <1>3, <2>3, Members, MoveInLocal DEF FinishBackup
    <3>. QED  BY <1>3, <2>3, <3>1 DEF FinishBackup, Finishes
  <2>4. CASE /\ dirs[w]["backup"] # Absent /\ output # Absent
             /\ Goto(w, "done") /\ Ends(w, "error") /\ UNCHANGED <<output, dirs, faults>>
    BY <1>3, <2>4, Members, SameLocal, FailLocal DEF FinishBackup, NoFault, BringsOr, Finishes
  <2>. QED  BY <1>3, <2>2, <2>3, <2>4 DEF FinishBackup
<1>. QED  BY <1>1, <1>2, <1>3

LEMMA DiesLocal ==
    ASSUME Typed, NEW w \in Writers, Crash(w)
    PROVE  Frame(w) /\ Dies(w)
<1>1. prior[w] \in Bundles \cup {Absent} /\ faults \in Nat /\ crashes \in Nat
  BY DEF Typed
<1>. QED  BY <1>1, DecidesLocal DEF Crash, Dies, Steps, Results

LEMMA StepEffect ==
    ASSUME Typed, NEW w \in Writers, Step(w) \/ Crash(w)
    PROVE  Frame(w) /\ Effect(w)
BY PreparesLocal, ReplacesLocal, RestoresLocal, FinishesLocal, DiesLocal DEF Step, Effect

-----------------------------------------------------------------------------
(* What is true of any number of calls.  Whatever a directory holds was    *)
(* found, is a bundle of a call, or is damaged; a stage has the bundle of  *)
(* its call, and what is restored is what the call read at first.          *)

Wanted == {found} \cup {bundle[w] : w \in {v \in Writers : pc[v] # "start"}}
Known == Wanted \cup {Absent, Damaged}

Restoring == {"restoreCheck", "restoreBackup", "setDamagedAside", "makeRestore", "writeRestore",
              "publishRestore", "undoRestore"}

Dropping == {"dropRestore", "dropDamaged", "dropRollback"}

Fields(w) ==
    /\ pc[w] \in {"start", "compare", "readPrior", "makeStage"} => \A r \in Roles : dirs[w][r] = Absent
    /\ pc[w] \in {"start", "compare", "readPrior", "makeStage", "writeStage", "decide", "publish",
                  "setAside", "promote", "cleanup"} => result[w] = "none"
    /\ pc[w] \in {"undo", "restoreAside"} \cup Restoring \cup Dropping => result[w] = "error"
    /\ pc[w] \in {"finishStage", "finishBackup"} => result[w] \in {"none", "error"}
    /\ pc[w] \in {"start", "compare", "readPrior"} => prior[w] = Absent
    /\ pc[w] \in {"decide", "publish", "setAside", "promote"} => dirs[w]["stage"] = bundle[w]
    /\ pc[w] \in Restoring \cup {"restoreAside"} => prior[w] # Absent /\ faults > 0
    /\ pc[w] = "restoreBackup" => dirs[w]["backup"] = prior[w]
    /\ pc[w] = "publishRestore" => dirs[w]["restore"] = prior[w]

ForeignStays ==
    found = Foreign =>
        output = Foreign /\ \A w \in Writers : pc[w] \in {"start", "compare", "readPrior", "done"}

AllKnown ==
    /\ found # Damaged /\ output \in Known
    /\ \A w \in Writers : prior[w] \in Known /\ \A r \in Roles : dirs[w][r] \in Known

Base == Typed /\ ForeignStays /\ AllKnown /\ \A w \in Writers : Fields(w)

LEMMA BaseInit == Init => Base
<1>. SUFFICES ASSUME Init PROVE Base
  OBVIOUS
<1>1. Typed /\ found \in Bundles \cup {Absent, Foreign}
  BY DEF Init, Typed, Content, Steps
<1>2. found # Damaged
  BY <1>1, StudyAssumption
<1>3. AllKnown /\ ForeignStays
  BY <1>2 DEF Init, AllKnown, Known, Wanted, ForeignStays
<1>4. \A w \in Writers : Fields(w)
  BY DEF Init, Fields, Restoring, Dropping
<1>. QED  BY <1>1, <1>3, <1>4 DEF Base

(* The effects on the call itself, opened up. *)
LEMMA FieldsStep ==
    ASSUME Typed, NEW w \in Writers, Fields(w), Frame(w), Effect(w)
    PROVE  Fields(w)'
<1>. USE DEF Fields, Restoring, Dropping, Leads, Passes, Blocked, Breaks, Becomes, Same, Changes, Brought, Taken
<1>1. faults \in Nat /\ bundle'[w] = bundle[w]
  BY DEF Typed, Frame
<1>2. CASE Prepares(w)
  BY <1>1, <1>2 DEF Prepares, MakesOr, WritesOr, Ended, Roles
<1>3. CASE Replaces(w)
  BY <1>1, <1>3 DEF Replaces, BringsOr, TakesOr, DropsOr, Roles
<1>4. CASE Restores(w)
  BY <1>1, <1>4 DEF Restores, BringsOr, TakesOr, MakesOr, WritesOr, Roles
<1>5. CASE Finishes(w)
  BY <1>1, <1>5 DEF Finishes, BringsOr, DropsOr, Ended, Roles
<1>6. CASE Dies(w)
  BY <1>6 DEF Dies
<1>. QED  BY <1>2, <1>3, <1>4, <1>5, <1>6 DEF Effect

LEMMA FaultsGrow ==
    ASSUME Typed, NEW w \in Writers, Frame(w), Effect(w)
    PROVE  /\ faults' \in {faults, faults + 1} /\ crashes' \in {crashes, crashes + 1}
           /\ faults \in Nat /\ crashes \in Nat
<1>. USE DEF Leads, Passes, Blocked, Breaks
<1>1. faults \in Nat /\ crashes \in Nat
  BY DEF Typed
<1>2. CASE Prepares(w)
  BY <1>1, <1>2 DEF Prepares, MakesOr, WritesOr, Ended
<1>3. CASE Replaces(w)
  BY <1>1, <1>3 DEF Replaces, BringsOr, TakesOr, DropsOr
<1>4. CASE Restores(w)
  BY <1>1, <1>4 DEF Restores, BringsOr, TakesOr, MakesOr, WritesOr
<1>5. CASE Finishes(w)
  BY <1>1, <1>5 DEF Finishes, BringsOr, DropsOr, Ended
<1>6. CASE Dies(w)
  BY <1>1, <1>6 DEF Dies
<1>. QED  BY <1>1, <1>2, <1>3, <1>4, <1>5, <1>6 DEF Effect

(* A call that has begun goes on or ends, and none begins twice. *)
LEMMA NeverBack ==
    ASSUME Typed, NEW w \in Writers, Frame(w), Effect(w)
    PROVE  pc'[w] # "start"
<1>. USE DEF Leads, Passes, Blocked, Breaks
<1>1. CASE Prepares(w)
  BY <1>1 DEF Prepares, MakesOr, WritesOr, Ended
<1>2. CASE Replaces(w)
  BY <1>2 DEF Replaces, BringsOr, TakesOr, DropsOr
<1>3. CASE Restores(w)
  BY <1>3 DEF Restores, BringsOr, TakesOr, MakesOr, WritesOr
<1>4. CASE Finishes(w)
  BY <1>4 DEF Finishes, BringsOr, DropsOr, Ended
<1>5. CASE Dies(w)
  BY <1>5 DEF Dies
<1>. QED  BY <1>1, <1>2, <1>3, <1>4, <1>5 DEF Effect

LEMMA WantedGrows ==
    ASSUME Typed, NEW w \in Writers, Frame(w), Effect(w)
    PROVE  Wanted \subseteq Wanted' /\ Known \subseteq Known' /\ bundle[w] \in Wanted'
<1>1. \A v \in Writers : pc[v] # "start" => pc'[v] # "start"
  BY NeverBack DEF Frame, Rests
<1>. QED  BY <1>1, NeverBack DEF Frame, Wanted, Known

LEMMA KnownStep ==
    ASSUME Base, NEW w \in Writers, Frame(w), Effect(w)
    PROVE  AllKnown'
<1>. USE DEF Leads, Passes, Blocked, Breaks, Becomes, Same, Changes, Brought, Taken
<1>1. /\ output \in Known' /\ prior[w] \in Known' /\ bundle[w] \in Known'
      /\ \A r \in Roles : dirs[w][r] \in Known'
      /\ {Absent, Damaged} \subseteq Known'
  BY WantedGrows DEF Base, AllKnown, Known
<1>2. CASE Prepares(w)
  <2>1. output' \in Known' /\ prior'[w] \in Known'
    BY <1>1, <1>2 DEF Prepares, MakesOr, WritesOr, Ended
  <2>2. ASSUME NEW r \in Roles PROVE dirs'[w][r] \in Known'
    BY <1>1, <1>2 DEF Prepares, MakesOr, WritesOr, Ended
  <2>. QED  BY <1>1, <2>1, <2>2, WantedGrows DEF Frame, Rests, Base, AllKnown
<1>3. CASE Replaces(w)
  <2>1. output' \in Known' /\ prior'[w] \in Known'
    BY <1>1, <1>3 DEF Replaces, BringsOr, TakesOr, DropsOr, Roles
  <2>2. ASSUME NEW r \in Roles PROVE dirs'[w][r] \in Known'
    BY <1>1, <1>3 DEF Replaces, BringsOr, TakesOr, DropsOr
  <2>. QED  BY <1>1, <2>1, <2>2, WantedGrows DEF Frame, Rests, Base, AllKnown
<1>4. CASE Restores(w)
  <2>1. output' \in Known' /\ prior'[w] \in Known'
    BY <1>1, <1>4 DEF Restores, BringsOr, TakesOr, MakesOr, WritesOr, Roles
  <2>2. ASSUME NEW r \in Roles PROVE dirs'[w][r] \in Known'
    BY <1>1, <1>4 DEF Restores, BringsOr, TakesOr, MakesOr, WritesOr, Roles
  <2>. QED  BY <1>1, <2>1, <2>2, WantedGrows DEF Frame, Rests, Base, AllKnown
<1>5. CASE Finishes(w)
  <2>1. output' \in Known' /\ prior'[w] \in Known'
    BY <1>1, <1>5 DEF Finishes, BringsOr, DropsOr, Ended, Roles
  <2>2. ASSUME NEW r \in Roles PROVE dirs'[w][r] \in Known'
    BY <1>1, <1>5 DEF Finishes, BringsOr, DropsOr, Ended, Roles
  <2>. QED  BY <1>1, <2>1, <2>2, WantedGrows DEF Frame, Rests, Base, AllKnown
<1>6. CASE Dies(w)
  BY <1>1, <1>6, WantedGrows DEF Dies, Frame, Rests, Base, AllKnown
<1>. QED  BY <1>2, <1>3, <1>4, <1>5, <1>6 DEF Effect

LEMMA ForeignStep ==
    ASSUME Base, NEW w \in Writers, Frame(w), Effect(w)
    PROVE  ForeignStays'
<1>. SUFFICES ASSUME found = Foreign
              PROVE  output' = Foreign /\ pc'[w] \in {"start", "compare", "readPrior", "done"}
  BY DEF Base, ForeignStays, Frame, Rests
<1>1. /\ output = Foreign /\ output # Absent /\ output \notin Bundles
      /\ pc[w] \in {"start", "compare", "readPrior", "done"}
  BY StudyAssumption DEF Base, ForeignStays
<1>2. CASE Prepares(w)
  BY <1>1, <1>2 DEF Prepares, Passes, Leads, Same, Ended
<1>3. CASE Dies(w)
  BY <1>1, <1>3 DEF Dies, Same
<1>. QED  BY <1>1, <1>2, <1>3 DEF Effect, Replaces, Restores, Finishes

LEMMA BaseStep ==
    ASSUME Base, [Next]_vars
    PROVE  Base'
<1>1. CASE UNCHANGED vars
  BY <1>1 DEF vars, Base, Typed, ForeignStays, AllKnown, Known, Wanted, Fields
<1>2. ASSUME NEW w \in Writers, Step(w) \/ Crash(w) PROVE Base'
  <2>1. Frame(w) /\ Effect(w)
    BY <1>2, StepEffect DEF Base
  <2>2. \A v \in Writers \ {w} : Fields(v)'
    <3>1. faults > 0 => faults' > 0
      BY <2>1, FaultsGrow DEF Base
    <3>. QED  BY <2>1, <3>1 DEF Base, Frame, Rests, Fields
  <2>. QED  BY <2>1, <2>2, FieldsStep, KnownStep, ForeignStep DEF Base, Frame
<1>. QED  BY <1>1, <1>2 DEF Next

-----------------------------------------------------------------------------
(* Damage comes of a removal that fails half-way.  Before the first        *)
(* failure there is none where it could reach the output; and while a call *)
(* restores what it failed to remove, the damage is in its own backup.     *)

Mending(w) == pc[w] \in Restoring \cup {"restoreAside"}

Sound ==
    /\ faults = 0 => output # Damaged /\ \A v \in Writers : /\ dirs[v]["backup"] # Damaged
                                                            /\ dirs[v]["rollback"] # Damaged
    /\ faults = 1 => \A w \in Writers : Mending(w) =>
          /\ output # Damaged
          /\ \A v \in Writers : /\ dirs[v]["rollback"] # Damaged
                                /\ v # w => dirs[v]["backup"] # Damaged

LEMMA SoundInit == Init => Sound
BY StudyAssumption DEF Init, Sound, Content, Roles

LEMMA SoundStep ==
    ASSUME Base, Sound, NEW w \in Writers, Frame(w), Effect(w)
    PROVE  Sound'
<1>. USE DEF Leads, Passes, Blocked, Breaks, Becomes, Same, Changes, Brought, Taken, Mending, Restoring
<1>1. /\ faults' \in {faults, faults + 1} /\ faults \in Nat
      /\ \A v \in Writers : Mending(v) => faults > 0
      /\ pc[w] \in {"publish", "promote"} => dirs[w]["stage"] # Damaged
      /\ pc[w] = "restoreBackup" => dirs[w]["backup"] = prior[w]
      /\ pc[w] = "publishRestore" => dirs[w]["restore"] = prior[w]
      /\ prior[w] # Damaged /\ Absent # Damaged
      /\ {"stage", "backup", "restore", "rollback", "damaged"} \subseteq Roles
  BY FaultsGrow, StudyAssumption DEF Base, Fields, Typed, Roles
<1>2. \A v \in Writers \ {w} : Rests(v)
  BY DEF Frame
<1>3. ASSUME faults' = 0
      PROVE  /\ output' # Damaged /\ dirs'[w]["backup"] # Damaged /\ dirs'[w]["rollback"] # Damaged
  <2>1. /\ faults = 0 /\ output # Damaged /\ dirs[w]["backup"] # Damaged
        /\ dirs[w]["rollback"] # Damaged /\ ~Mending(w)
    BY <1>1, <1>3 DEF Sound
  <2>2. CASE Prepares(w)
    BY <1>1, <1>3, <2>1, <2>2 DEF Prepares, MakesOr, WritesOr, Ended, Roles
  <2>3. CASE Replaces(w)
    BY <1>1, <1>3, <2>1, <2>3 DEF Replaces, BringsOr, TakesOr, DropsOr, Roles
  <2>4. CASE Restores(w)
    BY <2>1, <2>4 DEF Restores
  <2>5. CASE Finishes(w)
    BY <1>1, <1>3, <2>1, <2>5 DEF Finishes, BringsOr, DropsOr, Ended, Roles
  <2>6. CASE Dies(w)
    BY <2>1, <2>6 DEF Dies
  <2>. QED  BY <2>2, <2>3, <2>4, <2>5, <2>6 DEF Effect
<1>4. ASSUME faults = 0, faults' = 1, NEW u \in Writers, Mending(u)'
      PROVE  /\ u = w /\ output' = output /\ dirs'[w]["rollback"] = dirs[w]["rollback"]
  <2>1. ~Mending(u) /\ u = w
    BY <1>1, <1>2, <1>4 DEF Rests
  <2>2. CASE Prepares(w)
    BY <1>1, <1>4, <2>1, <2>2 DEF Prepares, MakesOr, WritesOr, Ended, Roles
  <2>3. CASE Replaces(w)
    BY <1>1, <1>4, <2>1, <2>3 DEF Replaces, BringsOr, TakesOr, DropsOr, Roles
  <2>4. CASE Restores(w)
    BY <2>1, <2>4 DEF Restores
  <2>5. CASE Finishes(w)
    BY <1>1, <1>4, <2>1, <2>5 DEF Finishes, BringsOr, DropsOr, Ended, Roles
  <2>. QED  BY <1>4, <2>1, <2>2, <2>3, <2>4, <2>5 DEF Effect, Dies
<1>5. ASSUME faults = 1, faults' = 1, NEW u \in Writers, Mending(u)'
      PROVE  /\ Mending(u) /\ output' # Damaged /\ dirs'[w]["rollback"] # Damaged
             /\ u # w => dirs'[w]["backup"] # Damaged
  <2>1. Mending(u)
    <3>1. CASE u # w
      BY <1>2, <1>5, <3>1 DEF Rests
    <3>2. CASE u = w
      <4>1. CASE Prepares(w)
        BY <1>1, <1>5, <3>2, <4>1 DEF Prepares, MakesOr, WritesOr, Ended
      <4>2. CASE Replaces(w)
        BY <1>1, <1>5, <3>2, <4>2 DEF Replaces, BringsOr, TakesOr, DropsOr
      <4>3. CASE Restores(w)
        BY <3>2, <4>3 DEF Restores
      <4>4. CASE Finishes(w)
        BY <1>1, <1>5, <3>2, <4>4 DEF Finishes, BringsOr, DropsOr, Ended
      <4>5. CASE Dies(w)
        BY <1>5, <3>2, <4>5 DEF Dies
      <4>. QED  BY <4>1, <4>2, <4>3, <4>4, <4>5 DEF Effect
    <3>. QED  BY <3>1, <3>2
  <2>2. /\ output # Damaged /\ dirs[w]["rollback"] # Damaged
        /\ u # w => dirs[w]["backup"] # Damaged
    BY <1>5, <2>1 DEF Sound
  <2>3. CASE Prepares(w)
    BY <1>1, <1>5, <2>1, <2>2, <2>3 DEF Prepares, MakesOr, WritesOr, Ended, Roles
  <2>4. CASE Replaces(w)
    BY <1>1, <1>5, <2>1, <2>2, <2>4 DEF Replaces, BringsOr, TakesOr, DropsOr, Roles
  <2>5. CASE Restores(w)
    BY <1>1, <1>5, <2>1, <2>2, <2>5 DEF Restores, BringsOr, TakesOr, MakesOr, WritesOr, Roles
  <2>6. CASE Finishes(w)
    BY <1>1, <1>5, <2>1, <2>2, <2>6 DEF Finishes, BringsOr, DropsOr, Ended, Roles
  <2>7. CASE Dies(w)
    BY <2>1, <2>2, <2>7 DEF Dies
  <2>. QED  BY <2>1, <2>3, <2>4, <2>5, <2>6, <2>7 DEF Effect
<1>6. ASSUME faults' = 0
      PROVE  output' # Damaged /\ \A v \in Writers : /\ dirs'[v]["backup"] # Damaged
                                                     /\ dirs'[v]["rollback"] # Damaged
  BY <1>1, <1>2, <1>3, <1>6 DEF Sound, Rests
<1>7. ASSUME faults' = 1, NEW u \in Writers, Mending(u)'
      PROVE  /\ output' # Damaged
             /\ \A v \in Writers : /\ dirs'[v]["rollback"] # Damaged
                                   /\ v # u => dirs'[v]["backup"] # Damaged
  <2>1. CASE faults = 0
    BY <1>2, <1>4, <1>7, <2>1 DEF Sound, Rests
  <2>2. CASE faults = 1
    BY <1>2, <1>5, <1>7, <2>2 DEF Sound, Rests
  <2>. QED  BY <1>1, <1>7, <2>1, <2>2
<1>. QED  BY <1>6, <1>7 DEF Sound

-----------------------------------------------------------------------------
(* Until a second step fails some bundle that matters is in the output, or *)
(* with a call that is bound to bring it back or died with it.             *)

Carries(v) ==
    \/ /\ pc[v] \in {"promote", "undo", "finishStage", "finishBackup"}
       /\ dirs[v]["backup"] \in Wanted
    \/ pc[v] \in Restoring /\ dirs[v]["rollback"] \in Wanted
    \/ pc[v] = "done" /\ \E r \in Roles : dirs[v][r] \in Wanted

Safe == found \in Bundles /\ faults <= 1 => output \in Wanted \/ \E v \in Writers : Carries(v)

LEMMA SafeInit == Init => Safe
BY DEF Init, Safe, Wanted

LEMMA WantedWhole ==
    ASSUME Base, found \in Bundles
    PROVE  /\ Absent \notin Wanted /\ Damaged \notin Wanted
           /\ \A x \in Known : x \in Wanted \/ x = Absent \/ x = Damaged
BY StudyAssumption DEF Base, Typed, Wanted, Known

(* What one call does to what is wanted. *)
LEMMA SafeEffect ==
    ASSUME Base, Sound, NEW w \in Writers, Frame(w), Effect(w), found \in Bundles, faults' <= 1,
           output \in Wanted \/ Carries(w)
    PROVE  output' \in Wanted' \/ Carries(w)'
<1>. USE DEF Leads, Passes, Blocked, Breaks, Becomes, Same, Changes, Brought, Taken
<1>1. /\ Wanted \subseteq Wanted' /\ bundle[w] \in Wanted'
      /\ Absent \notin Wanted /\ Damaged \notin Wanted
      /\ output \in Wanted \/ output = Absent \/ output = Damaged
      /\ prior[w] # Absent => prior[w] \in Wanted
      /\ pc[w] \in {"publish", "promote"} => dirs[w]["stage"] = bundle[w]
      /\ pc[w] \in Restoring => /\ prior[w] # Absent /\ faults = 1 /\ faults' = 1
                                /\ output # Damaged
      /\ pc[w] = "restoreBackup" => dirs[w]["backup"] = prior[w]
      /\ pc[w] = "publishRestore" => dirs[w]["restore"] = prior[w]
      /\ faults' \in {faults, faults + 1} /\ faults \in Nat
  <2>1. /\ Wanted \subseteq Wanted' /\ bundle[w] \in Wanted'
        /\ faults' \in {faults, faults + 1} /\ faults \in Nat
    BY FaultsGrow, WantedGrows DEF Base
  <2>2. /\ Absent \notin Wanted /\ Damaged \notin Wanted
        /\ output \in Wanted \/ output = Absent \/ output = Damaged
    BY WantedWhole DEF Base, AllKnown
  <2>3. prior[w] # Absent => prior[w] \in Wanted
    <3>1. prior[w] # Damaged
      BY StudyAssumption DEF Base, Typed
    <3>. QED  BY <3>1, WantedWhole DEF Base, AllKnown
  <2>4. /\ pc[w] \in {"publish", "promote"} => dirs[w]["stage"] = bundle[w]
        /\ pc[w] \in Restoring => prior[w] # Absent /\ faults > 0
        /\ pc[w] = "restoreBackup" => dirs[w]["backup"] = prior[w]
        /\ pc[w] = "publishRestore" => dirs[w]["restore"] = prior[w]
    BY DEF Base, Fields
  <2>5. pc[w] \in Restoring => faults = 1 /\ faults' = 1
    BY <2>1, <2>4
  <2>6. pc[w] \in Restoring => output # Damaged
    BY <2>5 DEF Sound, Mending
  <2>. QED  BY <2>1, <2>2, <2>3, <2>4, <2>5, <2>6
<1>2. CASE output' = output /\ output \in Wanted
  BY <1>1, <1>2
<1>3. CASE ~(output' = output /\ output \in Wanted)
  <2>1. CASE Prepares(w)
    BY <1>1, <1>3, <2>1 DEF Prepares, MakesOr, WritesOr, Ended, Carries, Restoring
  <2>2. CASE Replaces(w)
    BY <1>1, <1>3, <2>2 DEF Replaces, BringsOr, TakesOr, DropsOr, Carries, Roles, Restoring
  <2>3. CASE Restores(w)
    BY <1>1, <1>3, <2>3 DEF Restores, BringsOr, TakesOr, MakesOr, WritesOr, Carries, Roles, Restoring
  <2>4. CASE Finishes(w)
    BY <1>1, <1>3, <2>4 DEF Finishes, BringsOr, DropsOr, Ended, Carries, Roles, Restoring
  <2>5. CASE Dies(w)
    BY <1>1, <1>3, <2>5 DEF Dies, Carries, Roles, Restoring
  <2>. QED  BY <2>1, <2>2, <2>3, <2>4, <2>5 DEF Effect
<1>. QED  BY <1>2, <1>3

LEMMA SafeStep ==
    ASSUME Base, Sound, Safe, NEW w \in Writers, Frame(w), Effect(w)
    PROVE  Safe'
<1>. SUFFICES ASSUME found \in Bundles, faults' <= 1
              PROVE  output' \in Wanted' \/ \E v \in Writers : Carries(v)'
  BY DEF Safe, Frame
<1>1. output \in Wanted \/ \E v \in Writers : Carries(v)
  BY FaultsGrow DEF Safe, Base
<1>2. CASE output \in Wanted \/ Carries(w)
  BY <1>2, SafeEffect
<1>3. ASSUME NEW v \in Writers \ {w}, Carries(v) PROVE Carries(v)'
  BY <1>3, WantedGrows DEF Carries, Frame, Rests, Base
<1>. QED  BY <1>1, <1>2, <1>3

-----------------------------------------------------------------------------
(* A call that no other meets, step by step.                               *)

(* It found a bundle, read it, and was told to replace it.                 *)
Replacing(w) == found \in Bundles /\ prior[w] = found /\ overwrite[w]

(* What a failed call leaves, by the number of steps that failed.          *)
Failed(w) ==
    /\ found = Absent => dirs[w]["backup"] = Absent
    /\ \/ output = found /\ faults >= 1
       \/ output = bundle[w] /\ faults >= 2
       \/ output = Absent /\ dirs[w]["backup"] = found /\ faults >= 2
       \/ faults >= 3

(* What no death takes away, as long as fewer than three steps fail.       *)
Survives(w) ==
    \/ faults >= 3
    \/ /\ output # Damaged
       /\ found \in Bundles => \/ output \in {found, bundle[w]}
                               \/ \E r \in Roles : dirs[w][r] \in {found, bundle[w]}

SoloStep(w) ==
    /\ pc[w] \in {"compare", "readPrior", "makeStage", "writeStage", "decide", "publish", "setAside"} =>
          output = found /\ dirs[w]["backup"] = Absent
    /\ pc[w] \in {"makeStage", "writeStage", "decide"} => found = Absent \/ Replacing(w)
    /\ pc[w] = "publish" => found = Absent
    /\ pc[w] \in {"setAside", "promote", "undo", "cleanup", "restoreAside"} \cup Restoring \cup Dropping =>
          Replacing(w)
    /\ pc[w] \in {"promote", "undo"} => output = Absent /\ dirs[w]["backup"] = found
    /\ pc[w] = "undo" => faults >= 1
    /\ pc[w] = "cleanup" =>
          output = bundle[w] /\ dirs[w]["stage"] = Absent /\ dirs[w]["backup"] = found
    /\ pc[w] = "restoreAside" => output = bundle[w]
    /\ pc[w] \in Restoring => output = Absent /\ dirs[w]["rollback"] = bundle[w]
    /\ pc[w] = "undoRestore" => faults >= 2
    /\ pc[w] \in Dropping => Failed(w)
    /\ pc[w] \in {"finishStage", "finishBackup"} =>
          \/ result[w] = "error" /\ Failed(w)
          \/ /\ result[w] = "none" /\ output = bundle[w]
             /\ dirs[w]["stage"] = Absent /\ dirs[w]["backup"] = Absent
    /\ pc[w] = "done" =>
          \/ result[w] = "ok" /\ output = bundle[w]
          \/ result[w] = "refused" /\ output = found
          \/ result[w] = "error" /\ Failed(w)
          \/ result[w] = "died" /\ Survives(w)

Solo ==
    Alone =>
        /\ (\A w \in Writers : pc[w] = "start") => output = found
        /\ \A w \in Writers : pc[w] # "start" => SoloStep(w)

LEMMA SoloInit == Init => Solo
BY DEF Init, Solo

(* Wherever the call dies, something that matters is left. *)
LEMMA SoloSurvives ==
    ASSUME Base, NEW w \in Writers, pc[w] # "start", SoloStep(w)
    PROVE  Survives(w)
<1>1. /\ faults \in Nat /\ found # Damaged /\ bundle[w] # Damaged /\ Absent # Damaged
      /\ pc[w] \in Steps /\ {"backup", "rollback"} \subseteq Roles
      /\ found \in Bundles \cup {Absent, Foreign}
  BY StudyAssumption DEF Base, Typed, AllKnown, Content, Roles
<1>2. Failed(w) => Survives(w)
  BY <1>1 DEF Failed, Survives
<1>3. output \in {found, bundle[w]} => Survives(w)
  BY <1>1 DEF Survives
<1>4. CASE pc[w] \in {"promote", "undo"}
  BY <1>1, <1>4 DEF SoloStep, Survives
<1>5. CASE pc[w] \in Restoring
  BY <1>1, <1>5 DEF SoloStep, Survives
<1>. QED  BY <1>1, <1>2, <1>3, <1>4, <1>5 DEF SoloStep, Steps, Dropping, Restoring

LEMMA SoloStepKept ==
    ASSUME Base, NEW w \in Writers, pc[w] # "start", SoloStep(w), Frame(w), Effect(w)
    PROVE  SoloStep(w)'
<1>. USE DEF Leads, Passes, Blocked, Breaks, Becomes, Same, Changes, Brought, Taken, SoloStep,
             Replacing, Failed, Restoring, Dropping
<1>1. /\ faults' \in {faults, faults + 1} /\ faults \in Nat
      /\ found' = found /\ bundle'[w] = bundle[w] /\ overwrite'[w] = overwrite[w]
      /\ {"stage", "backup", "restore", "rollback", "damaged"} \subseteq Roles
      /\ pc[w] \in {"compare", "readPrior"} => prior[w] = Absent
      /\ pc[w] \in {"decide", "publish", "setAside", "promote"} => dirs[w]["stage"] = bundle[w]
      /\ pc[w] = "restoreBackup" => dirs[w]["backup"] = prior[w]
      /\ pc[w] = "publishRestore" => dirs[w]["restore"] = prior[w]
      /\ pc[w] \in {"compare", "readPrior", "makeStage", "writeStage", "decide", "publish",
                    "setAside", "promote", "cleanup"} => result[w] = "none"
      /\ pc[w] \in {"undo", "restoreAside"} \cup Restoring \cup Dropping => result[w] = "error"
      /\ pc[w] \in {"finishStage", "finishBackup"} => result[w] \in {"none", "error"}
      /\ pc[w] \in Restoring \cup {"restoreAside"} => faults > 0
      /\ Absent \notin Bundles /\ bundle[w] \in Bundles
  BY FaultsGrow, StudyAssumption DEF Base, Typed, Fields, Roles, Frame
<1>2. CASE Prepares(w)
  BY <1>1, <1>2 DEF Prepares, MakesOr, WritesOr, Ended
<1>3. CASE Replaces(w)
  BY <1>1, <1>3 DEF Replaces, BringsOr, TakesOr, DropsOr
<1>4. CASE Restores(w)
  <2>1. CASE pc[w] = "restoreAside"
    BY <1>1, <1>4, <2>1 DEF Restores, TakesOr
  <2>2. CASE pc[w] = "restoreCheck"
    BY <1>1, <1>4, <2>2 DEF Restores
  <2>3. CASE pc[w] = "restoreBackup"
    BY <1>1, <1>4, <2>3 DEF Restores, BringsOr
  <2>4. CASE pc[w] = "setDamagedAside"
    BY <1>1, <1>4, <2>4 DEF Restores
  <2>5. CASE pc[w] = "makeRestore"
    BY <1>1, <1>4, <2>5 DEF Restores, MakesOr
  <2>6. CASE pc[w] = "writeRestore"
    BY <1>1, <1>4, <2>6 DEF Restores, WritesOr
  <2>7. CASE pc[w] = "publishRestore"
    BY <1>1, <1>4, <2>7 DEF Restores, BringsOr
  <2>8. CASE pc[w] = "undoRestore"
    BY <1>1, <1>4, <2>8 DEF Restores, BringsOr
  <2>. QED  BY <1>4, <2>1, <2>2, <2>3, <2>4, <2>5, <2>6, <2>7, <2>8 DEF Restores
<1>5. CASE Finishes(w)
  <2>1. CASE pc[w] \in Dropping
    BY <1>1, <1>5, <2>1 DEF Finishes, DropsOr
  <2>2. CASE pc[w] = "finishStage"
    BY <1>1, <1>5, <2>2 DEF Finishes, DropsOr
  <2>3. CASE pc[w] = "finishBackup"
    BY <1>1, <1>5, <2>3 DEF Finishes, BringsOr, Ended
  <2>. QED  BY <1>5, <2>1, <2>2, <2>3 DEF Finishes
<1>6. CASE Dies(w)
  <2>1. Survives(w)'
    BY <1>1, <1>6, SoloSurvives DEF Dies, Survives
  <2>. QED  BY <1>6, <2>1 DEF Dies
<1>. QED  BY <1>2, <1>3, <1>4, <1>5, <1>6 DEF Effect

LEMMA SoloKept ==
    ASSUME Base, Solo, NEW w \in Writers, Frame(w), Effect(w)
    PROVE  Solo'
<1>. SUFFICES ASSUME Alone' PROVE SoloStep(w)' /\ \A v \in Writers \ {w} : pc'[v] = "start"
  BY NeverBack DEF Solo, Base
<1>1. /\ pc'[w] # "start"
      /\ \A v \in Writers \ {w} : pc'[v] = "start" /\ pc[v] = "start"
  BY NeverBack DEF Alone, Base, Frame, Rests
<1>2. Alone
  BY <1>1 DEF Alone
<1>3. CASE pc[w] = "start"
  <2>1. output = found /\ \A r \in Roles : dirs[w][r] = Absent
    BY <1>1, <1>2, <1>3 DEF Solo, Base, Fields
  <2>2. Prepares(w) /\ Same(w) /\ pc'[w] = "compare"
    BY <1>3 DEF Effect, Prepares, Replaces, Restores, Finishes, Dies, Passes, Leads
  <2>. QED  BY <1>1, <2>1, <2>2 DEF SoloStep, Same, Frame, Roles, Restoring, Dropping
<1>4. CASE pc[w] # "start"
  <2>1. SoloStep(w)
    BY <1>2, <1>4 DEF Solo
  <2>. QED  BY <1>1, <1>4, <2>1, SoloStepKept
<1>. QED  BY <1>3, <1>4

-----------------------------------------------------------------------------
(* Two calls that meet where nothing fails.  One that has won put its      *)
(* bundle in the output; only the other can take it out again, and that    *)
(* one then wins.                                                          *)

Won(w) ==
    \/ pc[w] = "cleanup"
    \/ /\ pc[w] \in {"finishStage", "finishBackup"} /\ result[w] = "none"
       /\ dirs[w]["backup"] = Absent
    \/ pc[w] = "done" /\ result[w] = "ok"

Outdone(w, v) ==
    \/ Won(v) /\ output = bundle[v]
    \/ pc[v] = "promote" /\ output = Absent /\ dirs[v]["backup"] = bundle[w]

Undisturbed == Pair /\ faults = 0 /\ crashes = 0

Duel ==
    Undisturbed =>
        \A w \in Writers : Won(w) =>
            output = bundle[w] \/ \E v \in Writers \ {w} : Outdone(w, v)

LEMMA DuelInit == Init => Duel
BY DEF Init, Duel, Won

(* The step of a call where nothing fails: what wins stays, what takes a   *)
(* bundle out goes on to promote its own.                                  *)
LEMMA WonStep ==
    ASSUME Base, NEW u \in Writers, Frame(u), Effect(u), faults' = 0, crashes' = 0
    PROVE  /\ Won(u) => Won(u)' /\ output' = output
           /\ ~Won(u) /\ Won(u)' => output' = bundle[u]
           /\ pc[u] = "promote" /\ output = Absent => output' = bundle[u] /\ Won(u)'
           /\ output \in Bundles /\ output' # output =>
                 pc'[u] = "promote" /\ output' = Absent /\ dirs'[u]["backup"] = output
<1>. USE DEF Leads, Passes, Blocked, Breaks, Becomes, Same, Changes, Brought, Taken, Won
<1>1. /\ faults = 0 /\ crashes = 0 /\ {"stage", "backup"} \subseteq Roles
      /\ Absent \notin Bundles /\ bundle[u] \in Bundles
      /\ pc[u] \in {"decide", "publish", "setAside", "promote"} => dirs[u]["stage"] = bundle[u]
      /\ pc[u] \in {"start", "compare", "readPrior", "makeStage", "writeStage", "decide", "publish",
                    "setAside", "promote", "cleanup"} => result[u] = "none"
      /\ pc[u] \in {"undo"} \cup Dropping => result[u] = "error"
      /\ pc[u] \in {"finishStage", "finishBackup"} => result[u] \in {"none", "error"}
      /\ pc[u] \notin Restoring \cup {"restoreAside"}
  BY FaultsGrow, StudyAssumption DEF Base, Typed, Fields, Roles
<1>2. CASE Prepares(u)
  BY <1>1, <1>2 DEF Prepares, MakesOr, WritesOr, Ended
<1>3. CASE Replaces(u)
  BY <1>1, <1>3 DEF Replaces, BringsOr, TakesOr, DropsOr
<1>4. CASE Restores(u)
  BY <1>1, <1>4 DEF Restores, Restoring
<1>5. CASE Finishes(u)
  BY <1>1, <1>5 DEF Finishes, BringsOr, DropsOr, Ended, Dropping
<1>6. CASE Dies(u)
  BY <1>1, <1>6 DEF Dies
<1>. QED  BY <1>2, <1>3, <1>4, <1>5, <1>6 DEF Effect

LEMMA DuelStep ==
    ASSUME Base, Duel, NEW u \in Writers, Frame(u), Effect(u)
    PROVE  Duel'
<1>. SUFFICES ASSUME Undisturbed', NEW w \in Writers, Won(w)'
              PROVE  output' = bundle[w] \/ \E v \in Writers \ {w} : Outdone(w, v)'
  BY DEF Duel, Frame
<1>1. faults' = 0 /\ crashes' = 0 /\ faults = 0 /\ crashes = 0
  BY FaultsGrow DEF Undisturbed, Base
<1>2. \A v \in Writers \ {u} : Rests(v)
  BY DEF Frame
<1>3. Undisturbed
  <2>1. PICK v1, v2 \in Writers : \A x \in Writers : x \in {v1, v2} \/ pc'[x] = "start"
    BY DEF Undisturbed, Pair
  <2>2. pc'[u] # "start"
    BY NeverBack DEF Base
  <2>3. \A x \in Writers : x \in {v1, v2} \/ pc[x] = "start"
    BY <1>2, <2>1, <2>2 DEF Rests
  <2>. QED  BY <1>1, <2>3 DEF Undisturbed, Pair
<1>4. bundle' = bundle /\ bundle[w] \in Bundles /\ \A v \in Writers : bundle[v] \in Bundles
  BY DEF Frame, Base, Typed
<1>5. CASE ~Won(w)
  BY <1>1, <1>2, <1>5, WonStep DEF Won, Rests
<1>6. CASE Won(w) /\ output = bundle[w]
  <2>1. CASE u = w
    BY <1>1, <1>6, <2>1, WonStep
  <2>2. CASE u # w
    BY <1>1, <1>4, <1>6, <2>2, WonStep DEF Outdone
  <2>. QED  BY <2>1, <2>2
<1>7. ASSUME Won(w), NEW v \in Writers \ {w}, Outdone(w, v)
      PROVE  output' = bundle[w] \/ Outdone(w, v)'
  <2>1. u = v \/ u = w
    <3>1. pc'[u] # "start" /\ pc'[v] # "start" /\ pc'[w] # "start"
      BY <1>2, <1>7, NeverBack DEF Won, Outdone, Rests, Base
    <3>. QED  BY <3>1 DEF Undisturbed, Pair
  <2>2. CASE u = w
    <3>1. output' = output
      BY <1>1, <1>7, <2>2, WonStep
    <3>. QED  BY <1>2, <1>4, <1>7, <2>2, <3>1 DEF Outdone, Rests, Won
  <2>3. CASE u = v
    BY <1>1, <1>4, <1>7, <2>3, WonStep DEF Outdone
  <2>. QED  BY <2>1, <2>2, <2>3
<1>. QED  BY <1>3, <1>5, <1>6, <1>7 DEF Duel

-----------------------------------------------------------------------------
(* The whole invariant, and what follows from it. *)

BundleInv == Base /\ Sound /\ Safe /\ Solo /\ Duel

LEMMA BundleInvStep ==
    ASSUME BundleInv, [Next]_vars
    PROVE  BundleInv'
<1>. USE DEF BundleInv
<1>1. Base'
  BY BaseStep
<1>2. CASE UNCHANGED vars
  <2>1. Sound' /\ Safe'
    BY <1>2 DEF vars, Sound, Mending, Safe, Wanted, Carries
  <2>2. Solo'
    BY <1>2 DEF vars, Solo, Alone, SoloStep, Replacing, Failed, Survives
  <2>3. Duel'
    BY <1>2 DEF vars, Duel, Undisturbed, Pair, Won, Outdone
  <2>. QED  BY <1>1, <2>1, <2>2, <2>3
<1>3. ASSUME NEW w \in Writers, Step(w) \/ Crash(w) PROVE BundleInv'
  <2>1. Frame(w) /\ Effect(w)
    BY <1>3, StepEffect DEF Base
  <2>. QED  BY <1>1, <2>1, SoundStep, SafeStep, SoloKept, DuelStep
<1>. QED  BY <1>2, <1>3 DEF Next

(* The state of every writer and of the output is one the code can be in:  *)
(* what each step of write_historical_study_bundle relies on, what the     *)
(* directories hold, and what stands when writers meet.                    *)
THEOREM BundleInvariant == Spec => []BundleInv
<1>1. Init => BundleInv
  BY BaseInit, SoundInit, SafeInit, SoloInit, DuelInit DEF BundleInv
<1>2. BundleInv /\ [Next]_vars => BundleInv'
  BY BundleInvStep
<1>. QED  BY <1>1, <1>2, PTL DEF Spec

(* The output never shows part of a bundle, unless a step has failed and   *)
(* writers met, or three have: no stage that is not whole is promoted, and *)
(* no half-removed backup is put back.                                     *)
THEOREM OutputWhole == Spec => []NeverPartial
<1>1. BundleInv => NeverPartial
  <2>. SUFFICES ASSUME BundleInv, faults = 0 \/ (Alone /\ faults <= 2)
                PROVE  output # Damaged
    BY DEF NeverPartial
  <2>1. CASE faults = 0
    BY <2>1 DEF BundleInv, Sound
  <2>2. CASE Alone /\ faults <= 2 /\ \A w \in Writers : pc[w] = "start"
    BY <2>2 DEF BundleInv, Solo, Base, AllKnown
  <2>3. ASSUME Alone, faults <= 2, NEW w \in Writers, pc[w] # "start" PROVE output # Damaged
    <3>1. Survives(w)
      BY <2>3, SoloSurvives DEF BundleInv, Solo
    <3>. QED  BY <2>3, <3>1 DEF Survives, BundleInv, Base, Typed
  <2>. QED  BY <2>1, <2>2, <2>3
<1>. QED  BY <1>1, BundleInvariant, PTL

(* A bundle that a call reported as written is what the output shows when  *)
(* the calls have ended, whatever failed if no other call came, and beside *)
(* one other call if nothing failed.                                       *)
THEOREM ReportedStands == Spec => []AcknowledgedStands
<1>1. BundleInv => AcknowledgedStands
  <2>. SUFFICES ASSUME BundleInv, Alone \/ Undisturbed,
                       \A w \in Writers : pc[w] \in {"start", "done"},
                       NEW w \in Writers, result[w] = "ok"
                PROVE  \E v \in Writers : result[v] = "ok" /\ output = bundle[v]
    BY DEF AcknowledgedStands, Undisturbed
  <2>1. pc[w] = "done"
    BY DEF BundleInv, Base, Fields
  <2>2. CASE Alone
    BY <2>1, <2>2 DEF BundleInv, Solo, SoloStep
  <2>3. CASE Undisturbed
    <3>1. output = bundle[w] \/ \E v \in Writers \ {w} : Outdone(w, v)
      BY <2>1, <2>3 DEF BundleInv, Duel, Won
    <3>. QED  BY <3>1 DEF Outdone, Won
  <2>. QED  BY <2>2, <2>3
<1>. QED  BY <1>1, BundleInvariant, PTL

(* A call that failed or was refused left what it found, unless a second   *)
(* step failed on the way back.                                            *)
THEOREM FoundRestored == Spec => []FailureRestores
<1>1. BundleInv => FailureRestores
  <2>. SUFFICES ASSUME BundleInv, Alone, faults <= 1, NEW w \in Writers, pc[w] = "done",
                       result[w] \in {"error", "refused"}
                PROVE  output = found
    BY DEF FailureRestores
  <2>1. SoloStep(w) /\ faults \in Nat
    BY DEF BundleInv, Solo, Base, Typed
  <2>. QED  BY <2>1 DEF SoloStep, Failed
<1>. QED  BY <1>1, BundleInvariant, PTL

(* What is not a bundle is never touched; and at no moment is the disk     *)
(* without the bundle that was found and every one that was to replace it. *)
THEOREM SomethingKept == Spec => []NothingLost
<1>1. BundleInv => NothingLost
  <2>. SUFFICES ASSUME BundleInv, found \in Bundles, faults <= 1 \/ (Alone /\ faults <= 2)
                PROVE  output \in Wanted \/ \E v \in Writers, r \in Roles : dirs[v][r] \in Wanted
    BY DEF NothingLost, Wanted, BundleInv, Base, ForeignStays
  <2>1. CASE faults <= 1
    BY <2>1 DEF BundleInv, Safe, Carries, Roles
  <2>2. CASE Alone /\ faults <= 2 /\ \A w \in Writers : pc[w] = "start"
    BY <2>2 DEF BundleInv, Solo, Wanted
  <2>3. ASSUME Alone, faults <= 2, NEW w \in Writers, pc[w] # "start"
        PROVE  output \in Wanted \/ \E v \in Writers, r \in Roles : dirs[v][r] \in Wanted
    <3>1. Survives(w) /\ faults \in Nat
      BY <2>3, SoloSurvives DEF BundleInv, Solo, Base, Typed
    <3>2. found \in Wanted /\ bundle[w] \in Wanted
      BY <2>3 DEF Wanted
    <3>. QED  BY <2>3, <3>1, <3>2 DEF Survives
  <2>. QED  BY <2>1, <2>2, <2>3
<1>. QED  BY <1>1, BundleInvariant, PTL

(* A call takes a bundle out of the output only if it was told to          *)
(* overwrite, the restoring steps included.                                *)
LEMMA Overwrites ==
    ASSUME BundleInv, [Next]_vars, Alone', NEW w \in Writers,
           output \in Bundles, output' # output, dirs'[w] # dirs[w]
    PROVE  overwrite[w]
<1>1. PICK u \in Writers : Step(u) \/ Crash(u)
  BY DEF Next, vars
<1>2. Frame(u) /\ Effect(u)
  BY <1>1, StepEffect DEF BundleInv, Base
<1>3. u = w
  BY <1>2 DEF Frame, Rests
<1>4. Absent \notin Bundles
  BY StudyAssumption
<1>5. pc[w] \in {"setAside", "restoreAside"}
  BY <1>2, <1>3, <1>4 DEF Effect, Prepares, Replaces, Restores, Finishes, Dies, BringsOr, TakesOr,
     MakesOr, WritesOr, DropsOr, Same, Changes, Brought, Taken
<1>6. Alone
  BY <1>2, <1>3, NeverBack DEF Alone, Frame, Rests, BundleInv, Base
<1>. QED  BY <1>5, <1>6 DEF BundleInv, Solo, SoloStep, Replacing

(* A bundle that differs is only replaced by a call with --overwrite. *)
THEOREM OverwriteAsked == Spec => OnlyOverwriteReplaces
<1>1. BundleInv /\ [Next]_vars =>
          [Alone' => \A w \in Writers :
              output \in Bundles /\ output' # output /\ dirs'[w] # dirs[w] => overwrite[w]]_vars
  BY Overwrites
<1>. QED  BY <1>1, BundleInvariant, PTL DEF Spec, OnlyOverwriteReplaces
=============================================================================
