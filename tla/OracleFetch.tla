----------------------------- MODULE OracleFetch -----------------------------
(***************************************************************************)
(* Acquiring one official archive object (oracle_archive.py,               *)
(* fetch_archive).  The first bytes seen under the official key become the *)
(* original; other bytes are kept beside it as revisions named by their    *)
(* hash; each file gets a provenance manifest that is created exclusively  *)
(* and never rewritten.  The exchange may publish new bytes at any time.   *)
(*                                                                         *)
(* Bytes stand for their SHA-256 (hashes, and the 12 digits of them that   *)
(* name a revision, do not collide).  A call is its retrieval time.        *)
(***************************************************************************)
EXTENDS Integers, FiniteSets

CONSTANTS
    Calls,          \* calls of fetch_archive for one object key
    Bytes,          \* contents the exchange may publish
    Size,           \* their lengths: S3 metadata shows nothing else of them
    None, Torn,
    Shared,         \* whether calls may run at the same time
    MaxFaults,      \* bound: writes and transfers that fail
    MaxCrashes      \* bound: calls that die

Manifest == [sha256 : Bytes, retrieved_at : Calls, revision_of : Bytes \cup {None}]

ASSUME FetchAssumption ==
    /\ Size \in [Bytes -> Nat]
    /\ None # Torn /\ {None, Torn} \cap Bytes = {} /\ {None, Torn} \cap Manifest = {}
    /\ "original" \notin Bytes
    /\ Shared \in BOOLEAN /\ MaxFaults \in Nat /\ MaxCrashes \in Nat

VARIABLES
    remote,     \* what the official key holds
    files,      \* the archive files: the original, and a revision per hash
    manifests,  \* the provenance beside each file
    pc,
    metadata,   \* the length head_object showed each call
    temp,       \* what each call has downloaded
    original,   \* the hash of the original each call compared with
    result, faults, crashes

vars == <<remote, files, manifests, pc, metadata, temp, original, result, faults, crashes>>

Paths == {"original"} \cup Bytes
Steps == {"start", "download", "compare", "place", "open", "write", "done"}
Results == {"none", "idempotent", "stored", "provenance", "size", "acquisition", "died"}

FetchTypeOK ==
    /\ remote \in Bytes
    /\ files \in [Paths -> Bytes \cup {None}]
    /\ manifests \in [Paths -> Manifest \cup {None, Torn}]
    /\ pc \in [Calls -> Steps]
    /\ metadata \in [Calls -> Nat]
    /\ temp \in [Calls -> Bytes \cup {None}]
    /\ original \in [Calls -> Bytes \cup {None}]
    /\ result \in [Calls -> Results]
    /\ faults \in 0..MaxFaults /\ crashes \in 0..MaxCrashes

Init ==
    /\ remote \in Bytes
    /\ files = [p \in Paths |-> None]
    /\ manifests = [p \in Paths |-> None]
    /\ pc = [c \in Calls |-> "start"]
    /\ metadata = [c \in Calls |-> 0]
    /\ temp = [c \in Calls |-> None]
    /\ original = [c \in Calls |-> None]
    /\ result = [c \in Calls |-> "none"]
    /\ faults = 0 /\ crashes = 0

-----------------------------------------------------------------------------
Goto(c, step) == pc' = [pc EXCEPT ![c] = step]
Ends(c, r) == Goto(c, "done") /\ result' = [result EXCEPT ![c] = r]
Fault == faults < MaxFaults /\ faults' = faults + 1
NoFault == UNCHANGED faults

(* The path of what a call downloaded, once compared with the original. *)
IsRevision(c) == original[c] # None
FinalPath(c) == IF IsRevision(c) THEN temp[c] ELSE "original"

Provenance(c) ==
    [sha256 |-> temp[c], retrieved_at |-> c, revision_of |-> original[c]]

(* load_archive_provenance of the original, by the hash just computed. *)
ProvenanceLoads(p) ==
    \/ manifests[p] = None
    \/ manifests[p] # Torn /\ manifests[p].sha256 = files[p]

(* The exchange replaces the object. *)
Republish ==
    /\ \E b \in Bytes \ {remote} : remote' = b
    /\ UNCHANGED <<files, manifests, pc, metadata, temp, original, result, faults, crashes>>

Inspect(c) ==
    /\ pc[c] = "start"
    /\ Shared \/ \A d \in Calls : pc[d] \in {"start", "done"}
    /\ \/ /\ NoFault
          /\ metadata' = [metadata EXCEPT ![c] = Size[remote]]
          /\ Goto(c, "download") /\ UNCHANGED result
       \/ /\ Fault
          /\ Ends(c, "acquisition") /\ UNCHANGED metadata
    /\ UNCHANGED <<remote, files, manifests, temp, original, crashes>>

(* The body may not be the one that was inspected; a length that differs   *)
(* from the metadata is refused.  A failed call leaves no temporary file.  *)
Download(c) ==
    /\ pc[c] = "download"
    /\ \/ /\ NoFault /\ Size[remote] = metadata[c]
          /\ temp' = [temp EXCEPT ![c] = remote]
          /\ Goto(c, "compare") /\ UNCHANGED result
       \/ /\ NoFault /\ Size[remote] # metadata[c]
          /\ Ends(c, "size") /\ UNCHANGED temp
       \/ /\ Fault
          /\ Ends(c, "acquisition") /\ UNCHANGED temp
    /\ UNCHANGED <<remote, files, manifests, metadata, original, crashes>>

(* Variant: the download is not compared with the original. *)
CompareBlind(c) ==
    /\ pc[c] = "compare"
    /\ original' = [original EXCEPT ![c] = files["original"]]
    /\ Goto(c, "place")
    /\ UNCHANGED <<remote, files, manifests, metadata, temp, result, faults, crashes>>

(* The original is hashed if there is one.  The same bytes end the call    *)
(* with the provenance that is on disk, if it can be read and is true.     *)
Compare(c) ==
    /\ pc[c] = "compare"
    /\ original' = [original EXCEPT ![c] = files["original"]]
    /\ \/ /\ files["original"] = temp[c]
          /\ Ends(c, IF ProvenanceLoads("original") THEN "idempotent" ELSE "provenance")
       \/ /\ files["original"] # temp[c]
          /\ Goto(c, "place") /\ UNCHANGED result
    /\ UNCHANGED <<remote, files, manifests, metadata, temp, faults, crashes>>

(* A revision that is there already is left alone; otherwise the download  *)
(* is renamed to its path, over whatever the path then holds.              *)
Place(c) ==
    /\ pc[c] = "place"
    /\ \/ /\ NoFault
          /\ files' = [files EXCEPT ![FinalPath(c)] = temp[c]]
          /\ Goto(c, "open") /\ UNCHANGED result
       \/ /\ Fault
          /\ Ends(c, "acquisition") /\ UNCHANGED files
    /\ UNCHANGED <<remote, manifests, metadata, temp, original, crashes>>

(* Variant: a manifest that exists is written anew. *)
OpenTruncating(c) ==
    /\ pc[c] = "open"
    /\ manifests' = [manifests EXCEPT ![FinalPath(c)] = Torn]
    /\ Goto(c, "write")
    /\ UNCHANGED <<remote, files, metadata, temp, original, result, faults, crashes>>

(* _write_new_json: the manifest is created exclusively.  One that exists  *)
(* must be the very same, and another call's never is: its retrieval time  *)
(* differs.                                                                *)
OpenManifest(c) ==
    /\ pc[c] = "open"
    /\ \/ /\ manifests[FinalPath(c)] = None
          /\ manifests' = [manifests EXCEPT ![FinalPath(c)] = Torn]
          /\ Goto(c, "write") /\ UNCHANGED result
       \/ /\ manifests[FinalPath(c)] # None
          /\ Ends(c, "provenance")
          /\ UNCHANGED manifests
    /\ UNCHANGED <<remote, files, metadata, temp, original, faults, crashes>>

WriteManifest(c) ==
    /\ pc[c] = "write"
    /\ \/ /\ NoFault
          /\ manifests' = [manifests EXCEPT ![FinalPath(c)] = Provenance(c)]
          /\ Ends(c, "stored")
       \/ /\ Fault
          /\ Ends(c, "acquisition") /\ UNCHANGED manifests
    /\ UNCHANGED <<remote, files, metadata, temp, original, crashes>>

(* The process dies; files and manifests stay as they are. *)
Crash(c) ==
    /\ pc[c] \notin {"start", "done"}
    /\ crashes < MaxCrashes /\ crashes' = crashes + 1
    /\ Ends(c, "died")
    /\ UNCHANGED <<remote, files, manifests, metadata, temp, original, faults>>

Next ==
    \/ Republish
    \/ \E c \in Calls :
          \/ Inspect(c) \/ Download(c) \/ Compare(c) \/ Place(c)
          \/ OpenManifest(c) \/ WriteManifest(c) \/ Crash(c)

Spec == Init /\ [][Next]_vars

-----------------------------------------------------------------------------
(* PROPERTIES *)

(* An acquired object is never changed or removed, and neither is a        *)
(* complete manifest: later bytes under the key go elsewhere.              *)
NeverMutated ==
    [][\A p \in Paths :
          /\ files[p] # None => files'[p] = files[p]
          /\ manifests[p] \in Manifest => manifests'[p] = manifests[p]]_vars

(* A complete manifest describes the bytes beside it, and a revision's     *)
(* names the original that is in place; no revision repeats the original.  *)
ProvenanceTrue ==
    /\ \A p \in Paths : manifests[p] \in Manifest => manifests[p].sha256 = files[p]
    /\ \A b \in Bytes :
          files[b] # None =>
              /\ files["original"] \notin {None, b}
              /\ manifests[b] \in Manifest =>
                    manifests[b].revision_of = files["original"]

(* What the README says of acquisition: identical bytes are idempotent.  A *)
(* call that downloads bytes already stored never ends in an integrity     *)
(* error.  Meant for runs where nothing fails.                             *)
IdenticalIdempotent == \A c \in Calls : result[c] # "provenance"
=============================================================================
