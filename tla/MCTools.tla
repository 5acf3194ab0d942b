------------------------------- MODULE MCTools -------------------------------
(* Databases, studies and researchers for the model checker. *)
EXTENDS ToolInvocation, TLC

CONSTANTS p1, p2

TwoProcesses == {p1, p2}
Symmetry == Permutations(TwoProcesses)

NoFiles == [files |-> "none"]
SomeFiles == [files |-> "some"]

\* The second version changes the funding alone, the third what else a study selects.
ThreeVersions == <<"some", "some", "more">>
TwoFundings == <<"first", "second", "first">>

StudyOutcomes ==
    [some |-> [status |-> "complete", warnings |-> {"acknowledgment"}],
     more |-> [status |-> "incomplete", warnings |-> {"acknowledgment", "blocking"}]]

Decision(n, acknowledged) ==
    [statement |-> n, status |-> "accepted", supports |-> TRUE, acknowledged |-> acknowledged,
     resolved |-> {}]

\* A researcher asks for a study to be accepted on the last conclusion, or asks what
\* may be said of it.
SomeDrafts(H) ==
    LET studies == {n \in Results(H) : H[n].tool \in StudyTools}
        conclusions == {n \in 1..Len(H) : H[n].kind = "conclusion"}
        decisions == IF conclusions = {} THEN {None}
                     ELSE {Decision(Max(conclusions), {"acknowledgment"})}
    IN  {[prefix |-> Len(H), target |-> n,
          claims |-> {[type |-> "status", subject |-> None, value |-> "complete", cites |-> n]},
          completion |-> d # None, decision |-> d] : n \in studies, d \in decisions}

=============================================================================
