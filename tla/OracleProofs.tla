---------------------------- MODULE OracleProofs ----------------------------
(***************************************************************************)
(* Oracle archives, for any number of calls, ingestions and contents.      *)
(*                                                                         *)
(* Acquiring them, whether or not somebody ingests what is there: types    *)
(* hold of any calls; that what is stored stays and is described truly     *)
(* needs that the calls for one key do not overlap (FetchInv).             *)
(*                                                                         *)
(* What is stored of them, for fetching calls that may overlap: disputed   *)
(* prices are marked but at the times of rows that calls differed about,   *)
(* archives are stored whole, and revisions point to the first.  Each has  *)
(* an inductive invariant of its own (the marks need the whole archives);  *)
(* they share Parsed (what an ingestion parsed is content the exchange     *)
(* published) and OneWriter (who is about to commit holds the write lock). *)
(***************************************************************************)
EXTENDS OracleIngestion, SequenceTheorems, TLAPS

(* What holds of any calls, overlapping or not. *)
Downloaded(c) == pc[c] \in {"compare", "place", "open", "write"} => temp[c] \in Bytes
Typed == FetchTypeOK /\ \A c \in Calls : Downloaded(c)

Active(c) == pc[c] \notin {"start", "done"}

OneActive == \A c, d \in Calls : Active(c) /\ Active(d) => c = d

(* What a call knows of the files at each of its steps, nobody else being  *)
(* at work: where it goes is free or holds the same, and whose manifest is *)
(* torn.                                                                   *)
Acquiring(c) ==
    /\ pc[c] \in {"compare", "place", "open", "write"} => temp[c] \in Bytes
    /\ pc[c] = "place" => original[c] = files["original"]
    /\ pc[c] \in {"place", "open", "write"} /\ IsRevision(c) =>
            original[c] = files["original"] /\ original[c] # temp[c]
    /\ pc[c] \in {"open", "write"} => files[FinalPath(c)] = temp[c]
    /\ pc[c] = "write" => manifests[FinalPath(c)] = Torn

(* A revision is named by its hash, and no manifest is without its file. *)
Named ==
    /\ \A b \in Bytes : files[b] \in {None, b}
    /\ \A p \in Paths : manifests[p] # None => files[p] # None

FetchInv ==
    /\ FetchTypeOK
    /\ OneActive
    /\ \A c \in Calls : Acquiring(c)
    /\ Named
    /\ ProvenanceTrue

Kept ==
    \A p \in Paths :
        /\ files[p] # None => files'[p] = files[p]
        /\ manifests[p] \in Manifest => manifests'[p] = manifests[p]

-----------------------------------------------------------------------------
LEMMA FetchInit == Init => FetchInv
<1>. SUFFICES ASSUME Init PROVE FetchInv
  OBVIOUS
<1>. USE FetchAssumption DEF Init
<1>1. FetchTypeOK
  BY DEF FetchTypeOK, Steps, Results
<1>2. OneActive /\ \A c \in Calls : Acquiring(c)
  BY DEF OneActive, Active, Acquiring
<1>3. Named /\ ProvenanceTrue
  BY DEF Named, ProvenanceTrue, Paths
<1>. QED
  BY <1>1, <1>2, <1>3 DEF FetchInv

(* A step leaves the other calls where they were, and at most one call is  *)
(* at work afterwards.                                                     *)
LEMMA StillOneActive ==
    ASSUME FetchInv, ~Shared, Next
    PROVE  OneActive'
<1>1. ASSUME NEW c \in Calls,
             Download(c) \/ Compare(c) \/ Place(c) \/ OpenManifest(c) \/ WriteManifest(c) \/ Crash(c)
      PROVE  /\ Active(c)
             /\ \A d \in Calls \ {c} : pc'[d] = pc[d]
  BY <1>1 DEF FetchInv, FetchTypeOK, Active, Download, Compare, Place, OpenManifest,
              WriteManifest, Crash, Goto, Ends
<1>2. ASSUME NEW c \in Calls, Inspect(c)
      PROVE  \A d \in Calls \ {c} : pc'[d] = pc[d] /\ ~Active(d)
  BY <1>2 DEF FetchInv, FetchTypeOK, Active, Inspect, Goto, Ends
<1>3. CASE Republish
  BY <1>3 DEF Republish, FetchInv, OneActive, Active
<1>. QED
  BY <1>1, <1>2, <1>3 DEF Next, FetchInv, OneActive, Active

LEMMA StillTyped ==
    ASSUME Typed, Next
    PROVE  FetchTypeOK'
<1>. USE FetchAssumption DEF Typed, FetchTypeOK, Steps, Results, Goto, Ends, Fault, NoFault
<1>1. CASE Republish
  BY <1>1 DEF Republish
<1>2. ASSUME NEW c \in Calls, Inspect(c) PROVE FetchTypeOK'
  BY <1>2 DEF Inspect
<1>3. ASSUME NEW c \in Calls, Download(c) PROVE FetchTypeOK'
  BY <1>3 DEF Download
<1>4. ASSUME NEW c \in Calls, Compare(c) PROVE FetchTypeOK'
  BY <1>4 DEF Compare, Paths
<1>5. ASSUME NEW c \in Calls, Place(c) PROVE FetchTypeOK'
  <2>1. temp[c] \in Bytes
    BY <1>5 DEF Place, Downloaded
  <2>. QED
    BY <1>5, <2>1 DEF Place
<1>6. ASSUME NEW c \in Calls, OpenManifest(c) PROVE FetchTypeOK'
  BY <1>6 DEF OpenManifest
<1>7. ASSUME NEW c \in Calls, WriteManifest(c) PROVE FetchTypeOK'
  <2>1. Provenance(c) \in Manifest
    BY <1>7 DEF WriteManifest, Downloaded, Provenance, Manifest
  <2>. QED
    BY <1>7, <2>1 DEF WriteManifest
<1>8. ASSUME NEW c \in Calls, Crash(c) PROVE FetchTypeOK'
  BY <1>8 DEF Crash
<1>. QED
  BY <1>1, <1>2, <1>3, <1>4, <1>5, <1>6, <1>7, <1>8 DEF Next

LEMMA TypedInit == Init => Typed
<1>. SUFFICES ASSUME Init PROVE Typed
  OBVIOUS
<1>1. FetchTypeOK
  BY FetchAssumption DEF Init, FetchTypeOK, Steps, Results
<1>. QED  BY <1>1 DEF Typed, Downloaded, Init

LEMMA TypedStep ==
    ASSUME Typed, [Next]_vars
    PROVE  Typed'
<1>1. CASE UNCHANGED vars
  BY <1>1 DEF vars, Typed, FetchTypeOK, Downloaded
<1>2. CASE Republish
  BY <1>2, StillTyped DEF Next, Republish, Typed, Downloaded
<1>3. ASSUME NEW c \in Calls,
             Inspect(c) \/ Download(c) \/ Compare(c) \/ Place(c)
                \/ OpenManifest(c) \/ WriteManifest(c) \/ Crash(c)
      PROVE  Typed'
  <2>1. FetchTypeOK'
    BY <1>3, StillTyped DEF Next
  <2>2. ASSUME NEW d \in Calls \ {c} PROVE Downloaded(d)'
    <3>1. pc'[d] = pc[d] /\ temp'[d] = temp[d]
      BY <1>3 DEF Typed, FetchTypeOK, Inspect, Download, Compare, Place,
                  OpenManifest, WriteManifest, Crash, Goto, Ends
    <3>. QED  BY <3>1 DEF Typed, Downloaded
  <2>3. Downloaded(c)'
    <3>1. CASE Download(c)
      <4>1. /\ pc \in [Calls -> Steps] /\ remote \in Bytes
            /\ temp \in [Calls -> Bytes \cup {None}]
        BY DEF Typed, FetchTypeOK
      <4>2. CASE temp' = [temp EXCEPT ![c] = remote]
        BY <4>1, <4>2 DEF Downloaded
      <4>3. CASE Goto(c, "done")
        BY <4>1, <4>3 DEF Goto, Downloaded
      <4>. QED  BY <3>1, <4>2, <4>3 DEF Download, Ends
    <3>2. CASE Inspect(c) \/ Crash(c)
      <4>1. pc'[c] \in {"download", "done"}
        BY <3>2 DEF Typed, FetchTypeOK, Inspect, Crash, Goto, Ends
      <4>. QED  BY <4>1 DEF Downloaded
    <3>3. CASE Compare(c) \/ Place(c) \/ OpenManifest(c) \/ WriteManifest(c)
      <4>1. temp' = temp /\ pc[c] \in {"compare", "place", "open", "write"}
        BY <3>3 DEF Compare, Place, OpenManifest, WriteManifest
      <4>. QED  BY <4>1 DEF Typed, Downloaded
    <3>. QED  BY <1>3, <3>1, <3>2, <3>3
  <2>. QED  BY <2>1, <2>2, <2>3 DEF Typed
<1>. QED  BY <1>1, <1>2, <1>3 DEF Next

(* Where a call goes is a path. *)
LEMMA FinalPathIsPath ==
    ASSUME FetchInv, NEW c \in Calls, pc[c] \in {"place", "open", "write"}
    PROVE  FinalPath(c) \in Paths
BY DEF FetchInv, Acquiring, FinalPath, Paths

(* The steps that touch no file: what the call knows is true at its next   *)
(* step.                                                                   *)
LEMMA InspectStep ==
    ASSUME FetchInv, NEW c \in Calls, Inspect(c) \/ Crash(c)
    PROVE  Acquiring(c)'
<1>1. pc'[c] \in {"download", "done"}
  BY DEF Inspect, Crash, Goto, Ends, FetchInv, FetchTypeOK
<1>. QED  BY <1>1 DEF Acquiring

LEMMA DownloadStep ==
    ASSUME FetchInv, NEW c \in Calls, Download(c)
    PROVE  Acquiring(c)'
<1>1. /\ pc \in [Calls -> Steps] /\ remote \in Bytes
      /\ temp \in [Calls -> Bytes \cup {None}]
  BY DEF FetchInv, FetchTypeOK
<1>2. pc'[c] = "done" \/ (pc'[c] = "compare" /\ temp'[c] \in Bytes)
  <2>1. CASE temp' = [temp EXCEPT ![c] = remote] /\ Goto(c, "compare")
    BY <1>1, <2>1 DEF Goto
  <2>2. CASE Goto(c, "done")
    BY <1>1, <2>2 DEF Goto
  <2>. QED  BY <2>1, <2>2 DEF Download, Ends
<1>. QED  BY <1>2 DEF Acquiring

LEMMA CompareStep ==
    ASSUME FetchInv, NEW c \in Calls, Compare(c)
    PROVE  Acquiring(c)'
<1>1. /\ temp[c] \in Bytes /\ temp' = temp
      /\ original'[c] = files'["original"]
      /\ pc'[c] = "done" \/ (pc'[c] = "place" /\ original'[c] # temp'[c])
  <2>1. /\ pc \in [Calls -> Steps] /\ temp[c] \in Bytes
        /\ original \in [Calls -> Bytes \cup {None}]
    BY DEF FetchInv, FetchTypeOK, Acquiring, Compare
  <2>2. /\ temp' = temp /\ files' = files
        /\ original'[c] = files["original"]
    BY <2>1 DEF Compare
  <2>3. CASE Goto(c, "done")
    BY <2>1, <2>2, <2>3 DEF Goto
  <2>4. CASE Goto(c, "place") /\ files["original"] # temp[c]
    BY <2>1, <2>2, <2>4 DEF Goto
  <2>. QED  BY <2>3, <2>4 DEF Compare, Ends
<1>. QED  BY <1>1 DEF Acquiring

(* The steps of one call: what is stored is kept, named and true, and the  *)
(* call knows what it has to know at its next step.                        *)
LEMMA CallStep ==
    ASSUME FetchInv, FetchTypeOK', ~Shared, NEW c \in Calls,
           Inspect(c) \/ Download(c) \/ Compare(c) \/ Place(c)
              \/ OpenManifest(c) \/ WriteManifest(c) \/ Crash(c)
    PROVE  Kept /\ Acquiring(c)' /\ Named' /\ ProvenanceTrue'
<1>. USE FetchAssumption DEF FetchInv, FetchTypeOK, Goto, Ends
<1>1. CASE Inspect(c) \/ Download(c) \/ Compare(c) \/ Crash(c)
  <2>1. UNCHANGED <<files, manifests>>
    BY <1>1 DEF Inspect, Download, Compare, Crash
  <2>2. Kept /\ Named' /\ ProvenanceTrue'
    BY <2>1 DEF Kept, Named, ProvenanceTrue
  <2>. QED
    BY <1>1, <2>2, InspectStep, DownloadStep, CompareStep
<1>2. CASE Place(c)
  <2>. USE <1>2, FinalPathIsPath DEF Place
  <2>1. CASE files' = files
    <3>1. UNCHANGED <<files, manifests, temp, original>> /\ pc'[c] \in {"open", "done"}
      BY <2>1
    <3>2. Kept /\ Named' /\ ProvenanceTrue'
      BY <3>1 DEF Kept, Named, ProvenanceTrue
    <3>3. pc'[c] = "open" => files[FinalPath(c)] = temp[c]
      BY <2>1
    <3>4. Acquiring(c)'
      BY <3>1, <3>3 DEF Acquiring, FinalPath, IsRevision
    <3>. QED  BY <3>2, <3>4
  <2>2. CASE files' # files
    <3>1. /\ files' = [files EXCEPT ![FinalPath(c)] = temp[c]]
          /\ pc'[c] = "open" /\ temp[c] \in Bytes
          /\ UNCHANGED <<manifests, temp, original>>
      BY <2>2 DEF Acquiring
    <3>2. files[FinalPath(c)] = None
      BY <2>2, <3>1 DEF Acquiring, FinalPath, IsRevision, Named, Paths
    <3>3. Kept
      BY <3>1, <3>2 DEF Kept, Paths
    <3>4. Named'
      BY <3>1 DEF Named, FinalPath, IsRevision, Acquiring, Paths
    <3>5. Acquiring(c)'
      BY <3>1 DEF Acquiring, FinalPath, IsRevision, Paths
    <3>6. ProvenanceTrue'
      <4>1. CASE IsRevision(c)
        <5>1. /\ FinalPath(c) = temp[c] /\ manifests[temp[c]] = None
              /\ files["original"] \notin {None, temp[c]}
          BY <4>1, <3>1, <3>2 DEF FinalPath, IsRevision, Acquiring, Named
        <5>2. \A p \in Paths \ {temp[c]} : files'[p] = files[p]
          BY <5>1, <3>1
        <5>3. files'["original"] = files["original"]
          BY <5>2, <3>1 DEF Paths
        <5>. QED  BY <5>1, <5>2, <5>3, <3>1 DEF ProvenanceTrue, Paths
      <4>2. CASE ~IsRevision(c)
        BY <4>2, <3>1, <3>2 DEF ProvenanceTrue, Named, FinalPath, IsRevision, Acquiring, Paths
      <4>. QED  BY <4>1, <4>2
    <3>. QED  BY <3>3, <3>4, <3>5, <3>6
  <2>. QED  BY <2>1, <2>2
<1>3. CASE OpenManifest(c)
  <2>. USE <1>3, FinalPathIsPath DEF OpenManifest
  <2>1. Kept
    BY DEF Kept
  <2>2. Acquiring(c)'
    BY DEF Acquiring, FinalPath, IsRevision
  <2>3. /\ files' = files
        /\ \A p \in Paths : manifests'[p] # manifests[p] => p = FinalPath(c) /\ manifests'[p] = Torn
    OBVIOUS
  <2>4. files[FinalPath(c)] # None
    BY DEF Acquiring
  <2>5. Named'
    BY <2>3, <2>4 DEF Named
  <2>6. ProvenanceTrue'
    BY <2>3 DEF ProvenanceTrue, Paths
  <2>. QED  BY <2>1, <2>2, <2>5, <2>6
<1>4. CASE WriteManifest(c)
  <2>. USE <1>4, FinalPathIsPath DEF WriteManifest
  <2>1. manifests[FinalPath(c)] = Torn /\ files[FinalPath(c)] = temp[c] /\ temp[c] \in Bytes
    BY DEF Acquiring
  <2>2. Kept
    BY <2>1 DEF Kept
  <2>3. Acquiring(c)'
    BY DEF Acquiring
  <2>4. Named'
    BY <2>1 DEF Named
  <2>5. ProvenanceTrue'
    BY <2>1 DEF ProvenanceTrue, Provenance, Manifest, FinalPath, IsRevision, Acquiring, Paths
  <2>. QED  BY <2>2, <2>3, <2>4, <2>5
<1>. QED  BY <1>1, <1>2, <1>3, <1>4

LEMMA Typing == FetchInv => Typed
BY DEF FetchInv, Typed, Acquiring, Downloaded

LEMMA FetchStep ==
    ASSUME FetchInv, ~Shared, [Next]_vars
    PROVE  FetchInv' /\ Kept
<1>1. CASE UNCHANGED vars
  BY <1>1 DEF vars, FetchInv, FetchTypeOK, OneActive, Active, Acquiring, IsRevision,
              FinalPath, Named, ProvenanceTrue, Kept
<1>2. CASE Republish
  <2>1. FetchTypeOK' /\ OneActive'
    BY <1>2, Typing, StillTyped, StillOneActive DEF Next
  <2>2. \A c \in Calls : Acquiring(c)'
    BY <1>2 DEF Republish, FetchInv, Acquiring, IsRevision, FinalPath
  <2>3. Named' /\ ProvenanceTrue' /\ Kept
    BY <1>2 DEF Republish, FetchInv, Named, ProvenanceTrue, Kept
  <2>. QED  BY <2>1, <2>2, <2>3 DEF FetchInv
<1>3. ASSUME NEW c \in Calls,
             Inspect(c) \/ Download(c) \/ Compare(c) \/ Place(c)
                \/ OpenManifest(c) \/ WriteManifest(c) \/ Crash(c)
      PROVE  FetchInv' /\ Kept
  <2>1. Next
    BY <1>3 DEF Next
  <2>2. FetchTypeOK' /\ OneActive'
    BY <2>1, Typing, StillTyped, StillOneActive
  <2>3. Kept /\ Acquiring(c)' /\ Named' /\ ProvenanceTrue'
    BY <1>3, <2>2, CallStep
  <2>4. ASSUME NEW d \in Calls \ {c} PROVE Acquiring(d)'
    <3>1. ~Active(d)
      BY <1>3 DEF FetchInv, OneActive, Active, Inspect, Download, Compare, Place,
                  OpenManifest, WriteManifest, Crash
    <3>2. pc'[d] = pc[d]
      BY <1>3 DEF FetchInv, FetchTypeOK, Inspect, Download, Compare, Place,
                  OpenManifest, WriteManifest, Crash, Goto, Ends
    <3>. QED  BY <3>1, <3>2 DEF Active, Acquiring
  <2>. QED  BY <2>2, <2>3, <2>4 DEF FetchInv
<1>. QED  BY <1>1, <1>2, <1>3 DEF Next

LEMMA FetchInvariant == ASSUME ~Shared PROVE Spec => []FetchInv
<1>1. Init => FetchInv
  BY FetchInit
<1>2. FetchInv /\ [Next]_vars => FetchInv'
  BY FetchStep
<1>. QED  BY <1>1, <1>2, PTL DEF Spec

(* When the calls of fetch_archive for one key do not overlap, then after  *)
(* any crashes, failed writes and replacements by the exchange, each       *)
(* complete manifest describes the bytes beside it and each revision the   *)
(* original it revises.                                                    *)
THEOREM ProvenanceIsTrue == ASSUME ~Shared PROVE Spec => []ProvenanceTrue
<1>1. FetchInv => ProvenanceTrue
  BY DEF FetchInv
<1>. QED  BY <1>1, FetchInvariant, PTL

(* Nor is an acquired object or a complete manifest ever changed: what is  *)
(* renamed into place only ever meets a free path.                         *)
THEOREM ObjectsNeverMutated == ASSUME ~Shared PROVE Spec => NeverMutated
<1>1. FetchInv /\ [Next]_vars =>
        [\A p \in Paths :
            /\ files[p] # None => files'[p] = files[p]
            /\ manifests[p] \in Manifest => manifests'[p] = manifests[p]]_vars
  BY FetchStep DEF Kept
<1>. QED  BY <1>1, FetchInvariant, PTL DEF Spec, NeverMutated

(* Whoever fetches at the same time, every variable stays in its range: in *)
(* particular the files hold contents the exchange has published.          *)
THEOREM FetchTypeCorrect == Spec => []FetchTypeOK
<1>1. Typed => FetchTypeOK
  BY DEF Typed
<1>. QED  BY <1>1, TypedInit, TypedStep, PTL DEF Spec

(* Ingesting beside it leaves acquisition what it is: every behaviour of   *)
(* the two together is one of acquisition, so that both theorems hold of   *)
(* an archive directory that is being ingested.                            *)
THEOREM FetchImplemented == OracleSpec => Spec
<1>1. OracleInit => Init
  BY DEF OracleInit
<1>2. [OracleNext]_<<vars, storeVars>> => [Next]_vars
  BY DEF OracleNext
<1>. QED  BY <1>1, <1>2, PTL DEF OracleSpec, Spec

-----------------------------------------------------------------------------
(* What is stored. *)

allVars == <<vars, storeVars>>

Provenances == [sha256 : Bytes, retrieved_at : Calls \cup {None}, revision : BOOLEAN]

Parsed ==
    \A i \in Ingesters :
        step[i] \in {"look", "insert", "add", "commit"} => provenance[i] \in Provenances

OneWriter ==
    /\ step \in [Ingesters -> {"idle", "parse", "look", "insert", "add", "commit",
                               "finish", "fail", "over"}]
    /\ provenance = [i \in Ingesters |-> provenance[i]]
    /\ earlier = [i \in Ingesters |-> earlier[i]]
    /\ glimpse = [i \in Ingesters |-> glimpse[i]]
    /\ \A i \in Ingesters : step[i] = "commit" => lock = i

Working == Typed /\ Parsed /\ OneWriter

(* The steps of an ingestion that commit nothing. *)
Elsewhere(i) ==
    \/ StartRun(i) \/ Parse(i) \/ Look(i) \/ Insert(i) \/ Add(i)
    \/ Finish(i) \/ Fail(i)

-----------------------------------------------------------------------------
LEMMA WorkingInit == OracleInit => Working
<1>. SUFFICES ASSUME OracleInit PROVE Working
  OBVIOUS
<1>1. Typed
  BY TypedInit DEF OracleInit
<1>. QED  BY <1>1 DEF OracleInit, IngestionInit, Working, Parsed, OneWriter

(* A step of one ingestion leaves the others where they were. *)
LEMMA OthersStand ==
    ASSUME Working, NEW i \in Ingesters, Elsewhere(i) \/ Commit(i)
    PROVE  \A j \in Ingesters \ {i} : 
               /\ step'[j] = step[j] /\ provenance'[j] = provenance[j]
               /\ earlier'[j] = earlier[j] /\ glimpse'[j] = glimpse[j]
BY DEF Working, OneWriter, Elsewhere, StartRun, Parse, Look, LookFor, Insert, Add, Commit, Finish, Fail,
       Close, Proceed

LEMMA WorkingShape ==
    ASSUME Working, NEW i \in Ingesters, Elsewhere(i) \/ Commit(i)
    PROVE  /\ step' \in [Ingesters -> {"idle", "parse", "look", "insert", "add", "commit",
                                       "finish", "fail", "over"}]
           /\ provenance' = [j \in Ingesters |-> provenance'[j]]
           /\ earlier' = [j \in Ingesters |-> earlier'[j]]
           /\ glimpse' = [j \in Ingesters |-> glimpse'[j]]
BY DEF Working, OneWriter, Elsewhere, StartRun, Parse, Look, LookFor, Insert, Add, Commit, Finish, Fail,
       Close, Proceed

LEMMA WorkingStep ==
    ASSUME Working, [OracleNext]_allVars
    PROVE  Working'
<1>1. CASE [Next]_vars /\ UNCHANGED storeVars
  <2>1. Typed'
    BY <1>1, TypedStep DEF Working
  <2>. QED  BY <1>1, <2>1 DEF storeVars, Working, Parsed, OneWriter
<1>2. ASSUME NEW i \in Ingesters, Elsewhere(i) \/ Commit(i), UNCHANGED vars
      PROVE  Working'
  <2>1. Typed'
    BY <1>2, TypedStep DEF Working
  <2>2. (step'[i] = "commit" => lock' = i) /\ (step[i] # "commit" /\ lock # None => lock' = lock)
    BY <1>2 DEF Working, OneWriter, Elsewhere, StartRun, Parse, Look, LookFor, Insert, Add, Commit,
                Finish, Fail, Close, Proceed
  <2>3. \A j \in Ingesters \ {i} : step'[j] = "commit" => lock' = j
    BY <1>2, <2>2, OthersStand, IngestionAssumption DEF Working, OneWriter
  <2>4. step'[i] \in {"look", "insert", "add", "commit"} => provenance'[i] \in Provenances
    <3>1. CASE Parse(i)
      <4>1. CASE step'[i] = "look"
        <5>1. PICK p \in Paths : /\ files[p] # None /\ ProvenanceLoads(p)
                                 /\ provenance' = [provenance EXCEPT ![i] = Loaded(p)]
          BY <3>1, <4>1 DEF Parse, Proceed, Working, OneWriter
        <5>2. files[p] \in Bytes /\ manifests[p] \in Manifest \cup {None}
          BY <5>1 DEF Working, Typed, FetchTypeOK, ProvenanceLoads
        <5>3. Loaded(p) \in Provenances
          <6>1. CASE manifests[p] = None
            BY <5>2, <6>1 DEF Loaded, Derived, Provenances
          <6>2. CASE manifests[p] \in Manifest
            BY <5>2, <6>2, FetchAssumption DEF Loaded, Provenances, Manifest
          <6>. QED  BY <5>2, <6>1, <6>2
        <5>. QED  BY <5>1, <5>3 DEF Working, OneWriter
      <4>. QED  BY <3>1, <4>1 DEF Parse, Proceed, Working, OneWriter
    <3>2. CASE Look(i) \/ Insert(i) \/ Add(i) \/ Commit(i)
      BY <3>2 DEF Look, LookFor, Insert, Add, Commit, Working, Parsed
    <3>3. CASE StartRun(i) \/ Finish(i) \/ Fail(i)
      BY <3>3 DEF StartRun, Finish, Fail, Close, Proceed, Working, OneWriter
    <3>. QED  BY <1>2, <3>1, <3>2, <3>3 DEF Elsewhere
  <2>. QED  BY <1>2, <2>1, <2>2, <2>3, <2>4, OthersStand, WorkingShape
            DEF Working, Parsed, OneWriter
<1>. QED  BY <1>1, <1>2 DEF OracleNext, allVars, Elsewhere

(* A step commits what its ingestion parsed, or leaves the store as it is. *)
Committed(i) ==
    /\ step[i] = "commit"
    /\ archives' = IF Known(provenance[i].sha256) THEN archives ELSE Append(archives, Archive(i))
    /\ observations' = Observations(i)
    /\ links' = links \cup {<<provenance[i].sha256, n>> : n \in Observed(provenance[i])}
    /\ quarantine' = quarantine \cup {<<provenance[i].sha256, n>> : n \in Malformed(provenance[i])}

LEMMA CommitsOrStands ==
    ASSUME [OracleNext]_allVars
    PROVE  \/ \E i \in Ingesters : Committed(i)
           \/ UNCHANGED <<archives, observations, links, quarantine>>
BY DEF OracleNext, allVars, storeVars, StartRun, Parse, Look, LookFor, Insert, Add, Commit, Committed,
       Finish, Fail, Close

LEMMA RowsAreRows ==
    ASSUME Working, NEW i \in Ingesters, step[i] = "commit"
    PROVE  /\ provenance[i].sha256 \in Bytes
           /\ \A n \in DOMAIN Content[provenance[i].sha256] : Content[provenance[i].sha256][n] \in Row
BY IngestionAssumption DEF Working, Parsed, Provenances

-----------------------------------------------------------------------------
(* What a commit makes of the observations *)

Flagged ==
    \A o \in observations :
        /\ o = [time |-> o.time, price |-> o.price, conflicting |-> o.conflicting]
        /\ o.conflicting \in BOOLEAN

Added(i) == Said(i) \ Values

Compared(i) == (Values \ Unseen(i)) \cup Added(i)

Disputed(i, v) == \E w \in Compared(i) : w.time = v.time /\ w.price # v.price

Touched(i, o) == Value(o) \in Compared(i) /\ \E w \in Added(i) : w.time = o.time

Marked(i, o) == [o EXCEPT !.conflicting = o.conflicting \/ (Touched(i, o) /\ Disputed(i, o))]

New(i, v) == [time |-> v.time, price |-> v.price, conflicting |-> Disputed(i, v)]

LEMMA ObservationsAre ==
    ASSUME NEW i \in Ingesters
    PROVE  Observations(i) =
               {Marked(i, o) : o \in observations} \cup {New(i, v) : v \in Added(i)}
BY DEF Observations, Marked, New, Added, Compared, Disputed, Touched, Value

(* The values afterwards are those before and those added: what is marked  *)
(* keeps its time and price.                                               *)
LEMMA ValuesAfter ==
    ASSUME Flagged, NEW i \in Ingesters, Committed(i)
    PROVE  /\ \A o \in observations :
                 /\ Marked(i, o) \in observations'
                 /\ Marked(i, o).time = o.time /\ Marked(i, o).price = o.price
                 /\ Marked(i, o).conflicting \in BOOLEAN
                 /\ Marked(i, o).conflicting <=>
                       o.conflicting \/ (Touched(i, o) /\ Disputed(i, o))
           /\ \A v \in Added(i) : New(i, v) \in observations'
           /\ \A p \in observations' :
                 \/ \E o \in observations : p = Marked(i, o)
                 \/ \E v \in Added(i) : p = New(i, v)
<1>1. observations' = {Marked(i, o) : o \in observations} \cup {New(i, v) : v \in Added(i)}
  BY ObservationsAre DEF Committed
<1>2. ASSUME NEW o \in observations
      PROVE  /\ Marked(i, o).time = o.time /\ Marked(i, o).price = o.price
             /\ Marked(i, o).conflicting \in BOOLEAN
             /\ Marked(i, o).conflicting <=>
                   o.conflicting \/ (Touched(i, o) /\ Disputed(i, o))
  <2>. DEFINE c == o.conflicting \/ (Touched(i, o) /\ Disputed(i, o))
  <2>1. o = [time |-> o.time, price |-> o.price, conflicting |-> o.conflicting]
    BY DEF Flagged
  <2>2. Marked(i, o) = [time |-> o.time, price |-> o.price, conflicting |-> c]
    BY <2>1 DEF Marked
  <2>3. c \in BOOLEAN
    BY DEF Flagged
  <2>4. Marked(i, o).time = o.time /\ Marked(i, o).price = o.price
    BY <2>2
  <2>. HIDE DEF c
  <2>5. Marked(i, o).conflicting = c
    BY <2>2
  <2>6. Marked(i, o).conflicting \in BOOLEAN /\ (Marked(i, o).conflicting <=> c)
    BY <2>3, <2>5
  <2>. QED  BY <2>4, <2>6 DEF c
<1>. QED  BY <1>1, <1>2

LEMMA FlaggedStep ==
    ASSUME Flagged, NEW i \in Ingesters, Committed(i)
    PROVE  Flagged'
<1>1. ASSUME NEW o \in observations
      PROVE  /\ Marked(i, o) = [time |-> Marked(i, o).time, price |-> Marked(i, o).price,
                                conflicting |-> Marked(i, o).conflicting]
             /\ Marked(i, o).conflicting \in BOOLEAN
  <2>1. o = [time |-> o.time, price |-> o.price, conflicting |-> o.conflicting]
    BY DEF Flagged
  <2>. QED  BY <2>1, ValuesAfter DEF Marked
<1>2. ASSUME NEW v \in Added(i)
      PROVE  /\ New(i, v) = [time |-> New(i, v).time, price |-> New(i, v).price,
                             conflicting |-> New(i, v).conflicting]
             /\ New(i, v).conflicting \in BOOLEAN
  BY DEF New, Disputed
<1>. QED  BY <1>1, <1>2, ValuesAfter DEF Flagged

-----------------------------------------------------------------------------
(* Revisions *)

Objects ==
    [sha256 : Bytes, retrieved_at : Calls \cup {None}, overtaken : BOOLEAN,
     revision : BOOLEAN, of : Bytes \cup {None}]

First == IF archives = <<>> THEN None ELSE archives[1].sha256

(* Unless overtaken, an ingestion that inserts knows the first archive.    *)
RevisionInv ==
    /\ archives \in Seq(Objects)
    /\ \A i \in Ingesters : step[i] \in {"insert", "add", "commit"} =>
            earlier[i] \in Bytes \cup {None} /\ (i \in overtaken \/ earlier[i] = First)
    /\ RevisionsPointToFirst

LEMMA FirstTyped ==
    ASSUME archives \in Seq(Objects)
    PROVE  /\ First \in Bytes \cup {None}
           /\ \A n \in 1..Len(archives) : archives[n].sha256 \in Bytes
<1>1. \A n \in 1..Len(archives) : archives[n] \in Objects
  BY ElementOfSeq
<1>2. archives # <<>> => 1 \in 1..Len(archives)
  BY EmptySeq, LenProperties
<1>. QED  BY <1>1, <1>2 DEF First, Objects

LEMMA RevisionStands ==
    ASSUME Working, RevisionInv, NEW i \in Ingesters, Elsewhere(i)
    PROVE  RevisionInv'
<1>1. archives' = archives /\ First' = First
  BY DEF Elsewhere, StartRun, Parse, Look, LookFor, Insert, Add, Finish, Fail, Close, First
<1>2. \A j \in Ingesters \ {i} : j \in overtaken => j \in overtaken'
  BY DEF Elsewhere, StartRun, Parse, Look, LookFor, Insert, Add, Finish, Fail, Close
<1>3. step'[i] \in {"insert", "add", "commit"} =>
          earlier'[i] \in Bytes \cup {None} /\ (i \in overtaken' \/ earlier'[i] = First)
  <2>1. CASE Look(i)
    <3>1. earlier'[i] = First
      BY <2>1 DEF Look, LookFor, First, Working, OneWriter
    <3>. QED  BY <3>1, FirstTyped DEF RevisionInv
  <2>2. CASE Insert(i) \/ Add(i)
    BY <2>2 DEF Insert, Add, RevisionInv
  <2>3. CASE StartRun(i) \/ Parse(i) \/ Finish(i) \/ Fail(i)
    BY <2>3 DEF StartRun, Parse, Finish, Fail, Close, Proceed, Working, OneWriter
  <2>. QED  BY <2>1, <2>2, <2>3 DEF Elsewhere
<1>. QED  BY <1>1, <1>2, <1>3, OthersStand DEF RevisionInv, RevisionsPointToFirst

LEMMA RevisionCommits ==
    ASSUME Working, RevisionInv, NEW i \in Ingesters, Commit(i)
    PROVE  RevisionInv'
<1>1. step[i] = "commit" /\ step'[i] \in {"finish", "fail"}
  BY DEF Commit, Proceed, Working, OneWriter
<1>2. \A j \in Ingesters \ {i} : step[j] # "commit"
  BY <1>1, IngestionAssumption DEF Working, OneWriter
<1>3. CASE archives' = archives
  <2>1. First' = First /\ \A j \in overtaken : j \in overtaken'
    BY <1>3 DEF First, Commit
  <2>. QED  BY <1>1, <1>3, <2>1, OthersStand DEF RevisionInv, RevisionsPointToFirst
<1>4. CASE archives' # archives
  <2>1. /\ archives' = Append(archives, Archive(i))
        /\ overtaken' = overtaken \cup {j \in Ingesters : step[j] \in {"insert", "add"}}
    BY <1>4 DEF Commit
  <2>2. /\ provenance[i] \in Provenances /\ earlier[i] \in Bytes \cup {None}
        /\ i \in overtaken \/ earlier[i] = First
    BY <1>1 DEF Working, Parsed, RevisionInv
  <2>3. Archive(i) \in Objects
    BY <2>2 DEF Archive, Objects, Provenances
  <2>4. archives' \in Seq(Objects)
    BY <2>1, <2>3 DEF RevisionInv
  <2>5. \A j \in Ingesters : step'[j] \in {"insert", "add", "commit"} =>
            earlier'[j] \in Bytes \cup {None} /\ j \in overtaken'
    BY <1>1, <1>2, <2>1, OthersStand DEF RevisionInv
  <2>6. RevisionsPointToFirst'
    <3>1. SUFFICES ASSUME NEW n \in 2..Len(archives'), ~archives'[n].overtaken
                   PROVE  archives'[n].revision /\ archives'[n].of = archives'[1].sha256
      BY DEF RevisionsPointToFirst
    <3>2. /\ Len(archives) \in Nat /\ Len(archives') = Len(archives) + 1
          /\ \A k \in 1..Len(archives) : archives'[k] = archives[k]
          /\ archives'[Len(archives) + 1] = Archive(i)
      BY <2>1, <2>3 DEF RevisionInv
    <3>3. CASE n <= Len(archives)
      BY <3>1, <3>2, <3>3 DEF RevisionInv, RevisionsPointToFirst
    <3>4. CASE n = Len(archives) + 1
      <4>1. archives # <<>> /\ archives'[1] = archives[1] /\ archives[1].sha256 \in Bytes
        <5>1. 1 \in 1..Len(archives) /\ archives # <<>>
          BY <3>1, <3>2, <3>4
        <5>. QED  BY <3>2, <5>1, FirstTyped DEF RevisionInv
      <4>2. earlier[i] = archives[1].sha256
        <5>1. archives'[n].overtaken = (i \in overtaken)
          BY <3>2, <3>4 DEF Archive
        <5>. QED  BY <2>2, <3>1, <4>1, <5>1 DEF First
      <4>3. /\ archives'[n].of = earlier[i]
            /\ archives'[n].revision = (earlier[i] # None \/ provenance[i].revision)
        BY <3>2, <3>4 DEF Archive
      <4>4. earlier[i] # None
        BY <4>1, <4>2, FetchAssumption
      <4>. QED  BY <4>1, <4>2, <4>3, <4>4
    <3>. QED  BY <3>2, <3>3, <3>4
  <2>. QED  BY <2>4, <2>5, <2>6 DEF RevisionInv
<1>. QED  BY <1>3, <1>4

(* An ingestion into whose queries no other committed stores its archive   *)
(* as a revision of the first of the key, or as that first one.            *)
THEOREM RevisionsDo == OracleSpec => []RevisionsPointToFirst
<1>1. OracleInit => RevisionInv
  BY DEF OracleInit, IngestionInit, RevisionInv, RevisionsPointToFirst
<1>2. Working /\ RevisionInv /\ [OracleNext]_allVars => RevisionInv'
  <2>1. ASSUME RevisionInv, UNCHANGED storeVars PROVE RevisionInv'
    BY <2>1 DEF storeVars, RevisionInv, RevisionsPointToFirst, First
  <2>. QED  BY <2>1, RevisionStands, RevisionCommits DEF OracleNext, allVars, Elsewhere
<1>3. RevisionInv => RevisionsPointToFirst
  BY DEF RevisionInv
<1>. QED  BY <1>1, <1>2, <1>3, WorkingInit, WorkingStep, PTL DEF OracleSpec, allVars

-----------------------------------------------------------------------------
(* Whole archives *)

(* What is linked or quarantined is a row of some content. *)
RowsOf(pairs, not) ==
    \A l \in pairs : \E b \in Bytes : \E n \in DOMAIN Content[b] :
        l = <<b, n>> /\ Content[b][n] \in Row /\ Content[b][n].kind # not

RowsInv == RowsOf(links, "malformed") /\ RowsOf(quarantine, "valid") /\ RowsAccounted

LEMMA RowsCommit ==
    ASSUME Working, archives \in Seq(Objects), Flagged, RowsInv,
           NEW i \in Ingesters, Committed(i)
    PROVE  RowsInv'
<1>. DEFINE b == provenance[i].sha256
            Seen == {<<b, n>> : n \in Observed(provenance[i])}
            Bad == {<<b, n>> : n \in Malformed(provenance[i])}
<1>1. /\ b \in Bytes
      /\ provenance[i] \in Provenances
      /\ \A n \in DOMAIN Content[b] : Content[b][n] \in Row
  BY RowsAreRows DEF Committed, Working, Parsed
<1>2. /\ Observed(provenance[i]) \cup Malformed(provenance[i]) = DOMAIN Content[b]
      /\ \A n \in Observed(provenance[i]) : Content[b][n].kind # "malformed"
      /\ \A n \in Malformed(provenance[i]) : Content[b][n].kind # "valid"
  BY <1>1 DEF Observed, Malformed
<1>3. links' = links \cup Seen /\ quarantine' = quarantine \cup Bad
  BY DEF Committed
<1>4. RowsOf(links', "malformed") /\ RowsOf(quarantine', "valid")
  <2>1. RowsOf(Seen, "malformed") /\ RowsOf(Bad, "valid")
    BY <1>1, <1>2 DEF RowsOf
  <2>. HIDE DEF Seen, Bad
  <2>. QED  BY <2>1, <1>3 DEF RowsInv, RowsOf
<1>5. \A a \in DOMAIN archives' : \A n \in DOMAIN Content[archives'[a].sha256] :
          <<archives'[a].sha256, n>> \in links' \cup quarantine'
  <2>1. \A n \in DOMAIN Content[b] : <<b, n>> \in links' \cup quarantine'
    BY <1>2, <1>3
  <2>2. \A a \in DOMAIN archives' : \/ a \in DOMAIN archives /\ archives'[a] = archives[a]
                                   \/ archives'[a].sha256 = b
    <3>1. CASE archives' = archives
      BY <3>1
    <3>2. CASE archives' = Append(archives, Archive(i))
      <4>1. Archive(i).sha256 = b
        BY DEF Archive
      <4>2. \A a \in 1..(Len(archives) + 1) :
                archives'[a] = IF a <= Len(archives) THEN archives[a] ELSE Archive(i)
        BY <3>2, LenProperties
      <4>3. Len(archives) \in Nat /\ DOMAIN archives' = 1..(Len(archives) + 1) /\ DOMAIN archives = 1..Len(archives)
        BY <3>2, LenProperties
      <4>. QED  BY <4>1, <4>2, <4>3
    <3>. QED  BY <3>1, <3>2 DEF Committed
  <2>. HIDE DEF b, Seen, Bad
  <2>. QED  BY <2>1, <2>2, <1>3 DEF RowsInv, RowsAccounted
<1>6. \A l \in links' \cap quarantine' : Content[l[1]][l[2]].kind = "future"
  <2>1. SUFFICES ASSUME NEW l \in links', l \in quarantine'
                 PROVE  Content[l[1]][l[2]].kind = "future"
    OBVIOUS
  <2>2. PICK c \in Bytes : \E n \in DOMAIN Content[c] :
            l = <<c, n>> /\ Content[c][n] \in Row /\ Content[c][n].kind # "malformed"
    BY <1>4 DEF RowsOf
  <2>3. PICK n \in DOMAIN Content[c] :
            l = <<c, n>> /\ Content[c][n] \in Row /\ Content[c][n].kind # "malformed"
    BY <2>2
  <2>4. Content[c][n].kind # "valid"
    BY <1>4, <2>1, <2>3 DEF RowsOf
  <2>. QED  BY <2>3, <2>4 DEF Row
<1>7. ASSUME NEW v \in Values \cup Said(i)
      PROVE  \E o \in observations' : o.time = v.time /\ o.price = v.price
  <2>1. CASE v \in Added(i)
    BY <2>1, ValuesAfter DEF New
  <2>2. CASE v \in Values
    <3>1. PICK o \in observations : v = [time |-> o.time, price |-> o.price]
      BY <2>2 DEF Values, Value
    <3>2. Marked(i, o) \in observations' /\ Marked(i, o).time = v.time /\ Marked(i, o).price = v.price
      BY <3>1, ValuesAfter
    <3>. QED  BY <3>2
  <2>. QED  BY <2>1, <2>2 DEF Added
<1>8. ASSUME NEW o \in observations
      PROVE  \E p \in observations' : p.time = o.time /\ p.price = o.price
  BY ValuesAfter
<1>9. \A l \in links' : \E o \in observations' :
          o.time = Content[l[1]][l[2]].time /\ o.price = Content[l[1]][l[2]].price
  <2>1. ASSUME NEW l \in links
        PROVE  \E o \in observations' :
                  o.time = Content[l[1]][l[2]].time /\ o.price = Content[l[1]][l[2]].price
    <3>1. PICK o \in observations :
              o.time = Content[l[1]][l[2]].time /\ o.price = Content[l[1]][l[2]].price
      BY DEF RowsInv, RowsAccounted
    <3>. QED  BY <1>8, <3>1
  <2>2. ASSUME NEW n \in NewObserved(i)
        PROVE  \E o \in observations' :
                  o.time = Content[b][n].time /\ o.price = Content[b][n].price
    <3>. DEFINE v == [time |-> Content[b][n].time, price |-> Content[b][n].price]
    <3>1. v \in Said(i) /\ v.time = Content[b][n].time /\ v.price = Content[b][n].price
      BY DEF Said, ValueOf, Value
    <3>. HIDE DEF v
    <3>. QED  BY <1>7, <3>1
  <2>3. \A l \in links' : l \in links \/ \E n \in NewObserved(i) : l = <<b, n>>
    BY <1>3 DEF NewObserved
  <2>. QED  BY <2>1, <2>2, <2>3
<1>10. \A o \in observations' : \E l \in links' :
          Content[l[1]][l[2]].time = o.time /\ Content[l[1]][l[2]].price = o.price
  <2>1. ASSUME NEW o \in observations
        PROVE  \E l \in links' :
                  Content[l[1]][l[2]].time = o.time /\ Content[l[1]][l[2]].price = o.price
    BY <1>3 DEF RowsInv, RowsAccounted
  <2>2. ASSUME NEW v \in Added(i)
        PROVE  \E l \in links' :
                  Content[l[1]][l[2]].time = v.time /\ Content[l[1]][l[2]].price = v.price
    <3>1. PICK n \in NewObserved(i) : v = [time |-> Content[b][n].time, price |-> Content[b][n].price]
      BY DEF Added, Said, ValueOf, Value
    <3>2. <<b, n>> \in links' /\ <<b, n>>[1] = b /\ <<b, n>>[2] = n
      BY <1>3 DEF NewObserved
    <3>3. v.time = Content[b][n].time /\ v.price = Content[b][n].price
      BY <3>1
    <3>. HIDE DEF b
    <3>. QED  BY <3>2, <3>3
  <2>3. ASSUME NEW p \in observations'
        PROVE  \/ \E o \in observations : p.time = o.time /\ p.price = o.price
               \/ \E v \in Added(i) : p.time = v.time /\ p.price = v.price
    BY ValuesAfter DEF New
  <2>. HIDE DEF Seen, b, Bad
  <2>. QED  BY <2>1, <2>2, <2>3
<1>. HIDE DEF Seen, Bad, b
<1>. QED  BY <1>4, <1>5, <1>6, <1>9, <1>10 DEF RowsInv, RowsAccounted

(* The inductive invariant of what is stored. *)
Stored == RevisionInv /\ Flagged /\ RowsInv

LEMMA StoredInvariant == OracleSpec => [](Working /\ Stored)
<1>1. OracleInit => Stored
  <2>. SUFFICES ASSUME OracleInit PROVE Stored
    OBVIOUS
  <2>1. archives = <<>> /\ observations = {} /\ links = {} /\ quarantine = {}
        /\ \A i \in Ingesters : step[i] = "idle"
    BY DEF OracleInit, IngestionInit
  <2>. QED  BY <2>1 DEF Stored, RevisionInv, RevisionsPointToFirst, Flagged, RowsInv, RowsOf,
                        RowsAccounted
<1>2. Working /\ Stored /\ [OracleNext]_allVars => Stored'
  <2>. SUFFICES ASSUME Working, Stored, [OracleNext]_allVars PROVE Stored'
    OBVIOUS
  <2>1. RevisionInv'
    <3>1. ASSUME UNCHANGED storeVars PROVE RevisionInv'
      BY <3>1 DEF Stored, storeVars, RevisionInv, RevisionsPointToFirst, First
    <3>. QED  BY <3>1, RevisionStands, RevisionCommits DEF OracleNext, allVars, Elsewhere, Stored
  <2>2. CASE UNCHANGED <<archives, observations, links, quarantine>>
    BY <2>1, <2>2 DEF Stored, Flagged, RowsInv, RowsOf, RowsAccounted
  <2>3. ASSUME NEW i \in Ingesters, Committed(i) PROVE Stored'
    BY <2>1, <2>3, FlaggedStep, RowsCommit DEF Stored, RevisionInv
  <2>. QED  BY <2>2, <2>3, CommitsOrStands
<1>. QED  BY <1>1, <1>2, WorkingInit, WorkingStep, PTL DEF OracleSpec, allVars

(* Whatever calls fail, and whoever commits between a call's queries and   *)
(* its insertions, an archive is in the database with all of its rows, and *)
(* an observation only with a row that says it.                            *)
THEOREM RowsAreAccounted == OracleSpec => []RowsAccounted
<1>1. Stored => RowsAccounted
  BY DEF Stored, RowsInv
<1>. QED  BY <1>1, StoredInvariant, PTL

-----------------------------------------------------------------------------
(* Disputed prices *)

(* A row that is used and that an ingestion has looked at without the lock *)
(* is quarantined: its archive is stored, and it is not linked.            *)
Glimpsed ==
    \A i \in Ingesters :
        \/ glimpse[i] = None
        \/ /\ step[i] \in {"add", "commit", "finish", "fail"}
           /\ glimpse[i].row \in Observed(provenance[i]) =>
                  <<provenance[i].sha256, glimpse[i].row>> \in quarantine

LEMMA GlimpsedStep ==
    ASSUME Working, Stored, Glimpsed, [OracleNext]_allVars
    PROVE  Glimpsed'
<1>1. quarantine \subseteq quarantine'
  BY CommitsOrStands DEF Committed
<1>2. ASSUME NEW i \in Ingesters, Elsewhere(i) \/ Commit(i) PROVE Glimpsed'
  <2>1. ASSUME NEW j \in Ingesters \ {i}
        PROVE  \/ glimpse'[j] = None
               \/ /\ step'[j] \in {"add", "commit", "finish", "fail"}
                  /\ glimpse'[j].row \in Observed(provenance[j])' =>
                         <<provenance'[j].sha256, glimpse'[j].row>> \in quarantine'
    BY <1>1, <1>2, OthersStand DEF Glimpsed, Observed, Malformed
  <2>2. CASE UNCHANGED <<glimpse, provenance>> /\ (step[i] = "add" \/ step[i] = "commit" \/ glimpse[i] = None)
    <3>1. step[i] \in {"add", "commit"} => step'[i] \in {"commit", "finish", "fail"}
      BY <1>2 DEF Elsewhere, StartRun, Parse, Look, LookFor, Insert, Add, Commit, Finish, Fail,
                  Close, Proceed, Working, OneWriter
    <3>. QED  BY <1>1, <2>1, <2>2, <3>1 DEF Glimpsed, Observed, Malformed
  <2>3. CASE glimpse'[i] = None
    BY <2>1, <2>3 DEF Glimpsed, Observed, Malformed
  <2>4. ASSUME NEW n \in NewMalformed(i) \cup NewObserved(i), Look(i), Known(provenance[i].sha256),
               glimpse'[i].row = n, step'[i] = "add"
        PROVE  Glimpsed'
    <3>1. n \in Observed(provenance[i]) => <<provenance[i].sha256, n>> \in quarantine
      <4>1. SUFFICES ASSUME n \in Observed(provenance[i])
                     PROVE  <<provenance[i].sha256, n>> \in quarantine
        OBVIOUS
      <4>2. n \in DOMAIN Content[provenance[i].sha256] /\ <<provenance[i].sha256, n>> \notin links
        BY <2>4, <4>1 DEF Observed, NewMalformed, NewObserved
      <4>3. PICK a \in DOMAIN archives : archives[a].sha256 = provenance[i].sha256
        BY <2>4 DEF Known
      <4>4. <<archives[a].sha256, n>> \in links \cup quarantine
        BY <4>2, <4>3 DEF Stored, RowsInv, RowsAccounted
      <4>. QED  BY <4>2, <4>3, <4>4
    <3>2. provenance' = provenance /\ quarantine' = quarantine
      BY <2>4 DEF Look, LookFor
    <3>. QED  BY <2>1, <2>4, <3>1, <3>2 DEF Glimpsed, Observed, Malformed
  <2>5. CASE Look(i)
    <3>1. step[i] = "look" /\ glimpse[i] = None /\ provenance' = provenance
      BY <2>5 DEF Look, LookFor, Glimpsed
    <3>2. CASE UNCHANGED glimpse
      BY <2>3, <3>1, <3>2
    <3>3. ASSUME NEW n \in NewMalformed(i) \cup NewObserved(i), NEW v,
                 Known(provenance[i].sha256), Proceed(i, "add"),
                 glimpse' = [glimpse EXCEPT ![i] = [row |-> n, seen |-> v]]
          PROVE  Glimpsed'
      <4>1. glimpse'[i].row = n /\ step'[i] = "add"
        BY <3>3 DEF Proceed, Working, OneWriter
      <4>. QED  BY <2>4, <2>5, <3>3, <4>1
    <3>. QED  BY <2>5, <3>2, <3>3 DEF Look, LookFor
  <2>6. CASE StartRun(i) \/ Insert(i) \/ Add(i) \/ Commit(i)
    <3>1. UNCHANGED <<glimpse, provenance>> /\ (step[i] \in {"add", "commit"} \/ step[i] \in {"idle", "insert"})
      BY <2>6 DEF StartRun, Insert, Add, Commit
    <3>. QED  BY <2>2, <3>1 DEF Glimpsed
  <2>7. CASE Parse(i) \/ Finish(i) \/ Fail(i)
    <3>1. glimpse'[i] = None
      BY <2>7 DEF Parse, Finish, Fail, Close, Working, OneWriter, Glimpsed
    <3>. QED  BY <2>3, <3>1
  <2>. QED  BY <1>2, <2>5, <2>6, <2>7 DEF Elsewhere
<1>3. ASSUME UNCHANGED storeVars PROVE Glimpsed'
  BY <1>3 DEF storeVars, Glimpsed, Observed, Malformed
<1>. QED  BY <1>2, <1>3 DEF OracleNext, allVars, Elsewhere

(* A value that is stored and not compared is of such a time.              *)
LEMMA UnseenIsExcepted ==
    ASSUME Glimpsed, NEW i \in Ingesters, Committed(i), NEW v \in Unseen(i)
    PROVE  \E l \in links' \cap quarantine' : Content[l[1]][l[2]].time = v.time
<1>. DEFINE l == <<provenance[i].sha256, glimpse[i].row>>
<1>1. /\ glimpse[i] # None /\ glimpse[i].row \in Observed(provenance[i])
      /\ v.time = Content[provenance[i].sha256][glimpse[i].row].time
  BY DEF Unseen, ValueOf, Value
<1>2. l \in links' \cap quarantine'
  BY <1>1 DEF Glimpsed, Committed
<1>3. l[1] = provenance[i].sha256 /\ l[2] = glimpse[i].row
  OBVIOUS
<1>. HIDE DEF l
<1>. QED  BY <1>1, <1>2, <1>3

LEMMA DisputesStep ==
    ASSUME Glimpsed, Flagged, DisputesMarked, NEW i \in Ingesters, Committed(i)
    PROVE  DisputesMarked'
<1>. DEFINE Conflicting(x) == \E p \in observations' : p.time = x.time /\ p.price # x.price
            Excused(x) == \E l \in links' \cap quarantine' : Content[l[1]][l[2]].time = x.time
<1>1. ASSUME NEW v \in Values \cup Added(i)
      PROVE  \E p \in observations' : p.time = v.time /\ p.price = v.price
  <2>1. CASE v \in Added(i)
    BY <2>1, ValuesAfter DEF New
  <2>2. CASE v \in Values
    <3>1. PICK o \in observations : v = [time |-> o.time, price |-> o.price]
      BY <2>2 DEF Values, Value
    <3>2. Marked(i, o) \in observations' /\ Marked(i, o).time = v.time /\ Marked(i, o).price = v.price
      BY <3>1, ValuesAfter
    <3>. QED  BY <3>2
  <2>. QED  BY <2>1, <2>2
<1>2. ASSUME NEW p \in observations'
      PROVE  \/ \E o \in observations : p = Marked(i, o)
             \/ \E w \in Added(i) : p.time = w.time /\ p.price = w.price
  BY ValuesAfter DEF New
<1>3. ASSUME NEW x, Disputed(i, x) PROVE Conflicting(x)
  BY <1>1, <1>3 DEF Disputed, Compared
<1>4. ASSUME NEW o \in observations, ~Excused(o)
      PROVE  /\ Value(o) \in Compared(i)
             /\ Value(o).time = o.time /\ Value(o).price = o.price
  <2>1. Value(o) \in Values /\ Value(o).time = o.time /\ Value(o).price = o.price
    BY DEF Values, Value
  <2>. QED  BY <1>4, <2>1, UnseenIsExcepted DEF Compared
<1>5. ASSUME NEW x, Conflicting(x), ~Excused(x) PROVE Disputed(i, x)
  <2>1. PICK p \in observations' : p.time = x.time /\ p.price # x.price
    BY <1>5
  <2>2. CASE \E w \in Added(i) : p.time = w.time /\ p.price = w.price
    BY <2>1, <2>2 DEF Disputed, Compared
  <2>3. ASSUME NEW o \in observations, p = Marked(i, o) PROVE Disputed(i, x)
    <3>1. p.time = o.time /\ p.price = o.price
      BY <2>3, ValuesAfter
    <3>. QED  BY <1>4, <1>5, <2>1, <3>1 DEF Disputed
  <2>. QED  BY <1>2, <2>2, <2>3
<1>6. ASSUME NEW v \in Added(i)
      PROVE  /\ New(i, v).conflicting => Conflicting(New(i, v))
             /\ Conflicting(New(i, v)) => New(i, v).conflicting \/ Excused(New(i, v))
  <2>1. /\ New(i, v).conflicting = Disputed(i, v)
        /\ New(i, v).time = v.time /\ New(i, v).price = v.price
    BY DEF New
  <2>2. Disputed(i, v) => Conflicting(v)
    BY <1>3
  <2>3. Conflicting(v) => Disputed(i, v) \/ Excused(v)
    BY <1>5
  <2>. QED  BY <2>1, <2>2, <2>3
<1>7. ASSUME NEW o \in observations
      PROVE  /\ Marked(i, o).conflicting => Conflicting(Marked(i, o))
             /\ Conflicting(Marked(i, o)) => Marked(i, o).conflicting \/ Excused(Marked(i, o))
  <2>1. /\ Marked(i, o).time = o.time /\ Marked(i, o).price = o.price
        /\ Marked(i, o).conflicting <=> o.conflicting \/ (Touched(i, o) /\ Disputed(i, o))
    BY ValuesAfter
  <2>2. /\ Conflicting(Marked(i, o)) <=> Conflicting(o)
        /\ Excused(Marked(i, o)) <=> Excused(o)
    BY <2>1
  <2>3. ASSUME o.conflicting PROVE Conflicting(o)
    <3>1. PICK p \in observations : p.time = o.time /\ p.price # o.price
      BY <2>3 DEF DisputesMarked
    <3>2. /\ Marked(i, p) \in observations'
          /\ Marked(i, p).time = p.time /\ Marked(i, p).price = p.price
      BY ValuesAfter
    <3>. QED  BY <3>1, <3>2
  <2>4. ASSUME Conflicting(o), ~Excused(o), ~o.conflicting PROVE Touched(i, o)
    <3>1. PICK p \in observations' : p.time = o.time /\ p.price # o.price
      BY <2>4
    <3>2. ASSUME NEW q \in observations, p = Marked(i, q) PROVE FALSE
      <4>1. q.time = o.time /\ q.price # o.price
        BY <3>1, <3>2, ValuesAfter
      <4>2. \E l \in links \cap quarantine : Content[l[1]][l[2]].time = o.time
        BY <4>1, <2>4 DEF DisputesMarked
      <4>. QED  BY <4>2, <2>4 DEF Committed
    <3>. QED  BY <1>2, <1>4, <2>4, <3>1, <3>2 DEF Touched
  <2>5. Disputed(i, o) => Conflicting(o)
    BY <1>3
  <2>6. Conflicting(o) => Disputed(i, o) \/ Excused(o)
    BY <1>5
  <2>. HIDE DEF Conflicting, Excused
  <2>. QED  BY <2>1, <2>2, <2>3, <2>4, <2>5, <2>6
<1>8. ASSUME NEW p \in observations'
      PROVE  /\ p.conflicting => Conflicting(p)
             /\ Conflicting(p) => p.conflicting \/ Excused(p)
  <2>1. CASE \E o \in observations : p = Marked(i, o)
    BY <1>7, <2>1
  <2>2. CASE \E v \in Added(i) : p = New(i, v)
    BY <1>6, <2>2
  <2>. QED  BY <2>1, <2>2, ValuesAfter
<1>. QED  BY <1>8 DEF DisputesMarked

(* However many calls ingest, in whatever order and with whatever          *)
(* failures, no price that is alone is marked, and two prices of one time  *)
(* stand unmarked only at the time of a row that was quarantined by one    *)
(* call and used by another.                                               *)
THEOREM DisputesAreMarked == OracleSpec => []DisputesMarked
<1>1. OracleInit => Glimpsed /\ DisputesMarked
  BY DEF OracleInit, IngestionInit, Glimpsed, DisputesMarked
<1>2. Working /\ Stored /\ Glimpsed /\ DisputesMarked /\ [OracleNext]_allVars
        => (Glimpsed /\ DisputesMarked)'
  <2>1. ASSUME Stored, Glimpsed, DisputesMarked, NEW i \in Ingesters, Committed(i)
        PROVE  DisputesMarked'
    BY <2>1, DisputesStep DEF Stored
  <2>2. ASSUME DisputesMarked, UNCHANGED <<observations, links, quarantine>> PROVE DisputesMarked'
    BY <2>2 DEF DisputesMarked
  <2>. QED  BY <2>1, <2>2, CommitsOrStands, GlimpsedStep
<1>. QED  BY <1>1, <1>2, StoredInvariant, PTL DEF OracleSpec, allVars
=============================================================================
