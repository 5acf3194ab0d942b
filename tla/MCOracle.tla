------------------------------- MODULE MCOracle -------------------------------
(* OracleIngestion on small instances: three contents, two of one length, that *)
(* repeat and contradict each other and themselves; a row that is malformed, and *)
(* two dated after any retrieval, which are used when the retrieval is unknown. *)
EXTENDS OracleIngestion, TLC

CONSTANTS b1, b2, b3, before
MCBytes == {b1, b2, b3}
MCSize == b1 :> 1 @@ b2 :> 1 @@ b3 :> 2

Says(kind, time, price) == [kind |-> kind, time |-> time, price |-> price]
MCContent ==
    b1 :> <<Says("valid", 1, 1), Says("malformed", 1, 2), Says("future", 3, 1)>>
    @@ b2 :> <<Says("valid", 1, 2), Says("valid", 2, 1), Says("valid", 2, 1), Says("future", 3, 2)>>
    @@ b3 :> <<Says("valid", 1, 1), Says("valid", 2, 1), Says("valid", 2, 2)>>

(* What the steps to come depend on: not what a call answered or a run shows, *)
(* nor the values a call that is over had of its own. *)
Live(of, c) == IF pc[c] = "done" THEN None ELSE of[c]
Relevant ==
    <<remote, files, manifests, pc, faults, crashes,
      [c \in Calls |-> <<Live(metadata, c), Live(temp, c), Live(original, c)>>],
      archives, observations, links, quarantine, lock, step, provenance, earlier, glimpse, overtaken>>

(* At the start: the call before has failed, or it has acquired b1, and that is stored. *)
Before ==
    /\ pc = [c \in Calls |-> IF c = before THEN "done" ELSE "start"]
    /\ result = [c \in Calls |-> IF c = before /\ b1 \in {files["original"]} THEN "stored"
                                 ELSE IF c = before THEN "acquisition" ELSE "none"]

(* Some ingestions have parsed b1 before its manifest was written, which    *)
(* another has stored since.                                                *)
Parsed(early) ==
    /\ runs = [i \in Ingesters |-> IF i \in early THEN "running" ELSE "none"]
    /\ step = [i \in Ingesters |-> IF i \in early THEN "look" ELSE "idle"]
    /\ provenance = [i \in Ingesters |->
            IF i \in early THEN [sha256 |-> b1, retrieved_at |-> None, revision |-> FALSE] ELSE None]

MCInit ==
    /\ remote \in Bytes
    /\ metadata = [c \in Calls |-> 0]
    /\ temp = [c \in Calls |-> None]
    /\ original = [c \in Calls |-> None]
    /\ faults = 0 /\ crashes = 0
    /\ lock = None
    /\ earlier = [i \in Ingesters |-> None]
    /\ glimpse = [i \in Ingesters |-> None]
    /\ overtaken = {}
    /\ \/ /\ files = [p \in Paths |-> None]
          /\ manifests = [p \in Paths |-> None]
          /\ archives = <<>> /\ observations = {} /\ links = {} /\ quarantine = {}
          /\ Parsed({})
       \/ /\ files = [p \in Paths |-> IF p = "original" THEN b1 ELSE None]
          /\ manifests = [p \in Paths |->
                IF p = "original"
                THEN [sha256 |-> b1, retrieved_at |-> before, revision_of |-> None] ELSE None]
          /\ archives = <<[sha256 |-> b1, retrieved_at |-> before, overtaken |-> FALSE,
                           revision |-> FALSE, of |-> None]>>
          /\ observations = {[time |-> 1, price |-> 1, conflicting |-> FALSE]}
          /\ links = {<<b1, 1>>} /\ quarantine = {<<b1, 2>>, <<b1, 3>>}
          /\ \E early \in {{}} \cup {{i} : i \in Ingesters} : Parsed(early)
    /\ Before

(* The bound on failures: one step fails, or one process dies. *)
OneFailure == faults + crashes <= 1

MCSpec == MCInit /\ [][OracleNext]_<<vars, storeVars>>

Symmetry == Permutations(Calls \ {before}) \cup Permutations(Ingesters)
=============================================================================
