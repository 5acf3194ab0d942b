--------------------------- MODULE ToolInvocation ---------------------------
(***************************************************************************)
(* A research tool invoked through a session (research_tools/sessions.py   *)
(* invoke_research_tool, research_tools/registry.py): the call verifies    *)
(* the session, identifies the files it will read, returns an earlier      *)
(* result if the same inputs already have one, else executes, and appends  *)
(* its result to the session it started from, holding SQLite's writer lock *)
(* (the barrier) from the hash of the database until the result is stored. *)
(* Between any two steps other calls, the researcher, collectors and other *)
(* programs may change the files, or the process may die.                  *)
(*                                                                         *)
(* The content of a file stands for its hash.  A database is a version,    *)
(* from which a study selects some evidence; two versions may give the     *)
(* same.  The session is the log of whole batches, appended by             *)
(* compare-and-swap on its length, which is what SessionStore establishes. *)
(* Each tool is requested with one fixed set of arguments.                 *)
(***************************************************************************)
EXTENDS Evaluation, FiniteSetsExt

CONSTANTS
    Processes,
    Free,           \* the barrier is not held
    Absent, Damaged,\* contents
    Evidence,       \* the market data a study selects from each version of the database
    Lineage,        \* the funding a baseline selects from each version
    Outcome,        \* the status and the warnings of a study of that evidence
    Drafts(_),      \* the evaluation requests a researcher may write of a session
    MaxCalls,       \* bound: calls
    MaxChanges      \* bound: changes of files by others, and processes that die

Versions == DOMAIN Evidence

ASSUME ToolAssumption ==
    /\ Free \notin Processes
    /\ Versions = 1..Cardinality(Versions) /\ Versions \subseteq Nat /\ 1 \in Versions
    /\ DOMAIN Lineage = Versions
    /\ \A v \in Versions : Outcome[Evidence[v]].status \in {"complete", "incomplete", "failed"}
    /\ \A v \in Versions : Outcome[Evidence[v]].warnings \subseteq Classes
    /\ MaxCalls \in Nat /\ MaxChanges \in Nat

\* What is absent or damaged has nothing of what a specification, a bundle or a request has.
ASSUME ContentAssumption ==
    /\ Absent # Damaged
    /\ \A x \in {Absent, Damaged} : DOMAIN x \cap {"rev", "policy", "spec", "request"} = {}

Tools == {"run", "generate", "verifyStudy", "verifyBaseline", "evaluate", "verifyEvaluation"}

\* The files a tool identifies, and those of them no later call may find changed.
Inputs ==
    [run |-> {"spec", "baseline"}, generate |-> {"policy"}, verifyStudy |-> {"study"},
     verifyBaseline |-> {"baseline"}, evaluate |-> {"request"}, verifyEvaluation |-> {"evaluation"}]
Immutable ==
    [run |-> {"baseline"}, generate |-> {}, verifyStudy |-> {"study"},
     verifyBaseline |-> {}, evaluate |-> {}, verifyEvaluation |-> {"evaluation"}]
ReadsDatabase == {"run", "generate", "verifyBaseline"}
Output == [run |-> "study", generate |-> "baseline", evaluate |-> "evaluation"]

\* What each tool does once its inputs are identified and no result is reused.
Plan ==
    [run |-> <<"before", "compute", "after", "publish", "bind", "append">>,
     generate |-> <<"before", "compute", "publish", "after", "bind", "append">>,
     verifyStudy |-> <<"compute", "append">>,
     verifyBaseline |-> <<"before", "compute", "after", "append">>,
     evaluate |-> <<"before", "compute", "stable", "publish", "settled", "after", "bind", "append">>,
     verifyEvaluation |-> <<"before", "compute", "stable", "after", "append">>]

VARIABLES
    disk,       \* the content of each path
    log,        \* the results and conclusions of the session
    barrier,    \* the process that holds the database still, or Free
    pc,         \* the step each process takes next
    call,       \* what the running call of each process has read and made
    meddled,    \* the files others changed in each running call, against the rules
    calls, changes

world == <<meddled, calls, changes>>
vars == <<disk, log, barrier, pc, call, world>>

Nothing == [tool |-> None, base |-> 0, resolved |-> <<>>, draft |-> None, sources |-> <<>>,
            made |-> None]

BaselineOf(policy, version) == [policy |-> policy, funding |-> Lineage[version]]
StudyOf(spec, version) == [spec |-> spec, market |-> Evidence[version]]

Result(c, status, category, says, warnings) ==
    [kind |-> "result", tool |-> c.tool, status |-> status, category |-> category,
     resolved |-> c.resolved, says |-> says, warnings |-> warnings]

\* A result describes the bundle that was made or read.
Success(c, says) ==
    IF c.tool \in StudyTools
    THEN Result(c, Outcome[says.market].status, None, says, Outcome[says.market].warnings)
    ELSE Result(c, "complete", None, says, {})

Numbered(n, result) ==
    [x \in {"attempt"} \cup DOMAIN result |-> IF x = "attempt" THEN n ELSE result[x]]
Conclusion == [kind |-> "conclusion"]

\* What the model begins with: nothing made; or a baseline made on the command line,
\* a study specified for it, and perhaps run and concluded on, the database changed
\* since and an evaluation asked for.
FirstPolicy == [rev |-> 1]
FirstBaseline == BaselineOf(FirstPolicy, 1)
FirstSpec == [rev |-> 1, baseline |-> FirstBaseline]
FirstStudy == StudyOf(FirstSpec, 1)
FirstRun ==
    Success([Nothing EXCEPT !.tool = "run",
                            !.resolved = [spec |-> FirstSpec, baseline |-> FirstBaseline, db |-> 1]],
            FirstStudy)

Studied == <<Numbered(1, FirstRun), Conclusion>>

DiskOf(version, baseline, spec, study, request) ==
    [db |-> version, policy |-> FirstPolicy, spec |-> spec, baseline |-> baseline, study |-> study,
     request |-> request, evaluation |-> Absent]

Init ==
    /\ \/ disk = DiskOf(1, Absent, Absent, Absent, Absent) /\ log = <<>>
       \/ disk = DiskOf(1, FirstBaseline, FirstSpec, Absent, Absent) /\ log = <<>>
       \/ /\ Outcome[Evidence[1]].status # "failed"
          /\ log = Studied
          /\ disk \in {DiskOf(v, FirstBaseline, FirstSpec, FirstStudy, r) :
                            v \in Versions, r \in {Absent} \cup Drafts(Studied)}
    /\ barrier = Free
    /\ pc = [p \in Processes |-> "idle"]
    /\ call = [p \in Processes |-> Nothing]
    /\ meddled = [p \in Processes |-> {}]
    /\ calls = 0 /\ changes = 0

-----------------------------------------------------------------------------
(* Helpers *)

IsBundle(content) == content \notin {Absent, Damaged}
Results(H) == {n \in 1..Len(H) : H[n].kind = "result"}
Succeeded(e) == e.kind = "result" /\ e.status # "failed"

\* The artifacts a logged result refers to, that no one may have changed since.
References(e) ==
    {<<x, e.resolved[x]>> : x \in Immutable[e.tool]}
        \cup (IF Succeeded(e) /\ e.tool \in DOMAIN Output THEN {<<Output[e.tool], e.says>>} ELSE {})

ArtifactsHold(H) == \A n \in Results(H) : \A a \in References(H[n]) : disk[a[1]] = a[2]

\* A session whose attempts of a request are not numbered from one is refused.
Loads(H) ==
    \A n \in Results(H) :
        H[n].attempt = Cardinality({m \in Results(SubSeq(H, 1, n)) : H[m].tool = H[n].tool})

\* Whether a baseline bundle is the one its policy gives on a database.
Attests(bundle, version) == IsBundle(bundle) /\ bundle.funding = Lineage[version]

\* The study a request is about and its artifacts, read from disk.
Target(H, r) == H[r.target]
EvidenceHolds(H, r) ==
    Usable(H, r) =>
        /\ disk.study = Target(H, r).says
        /\ Target(H, r).tool = "run" => disk.baseline = Target(H, r).resolved.baseline

Sources(H, r) ==
    [x \in IF ~Usable(H, r) THEN {}
           ELSE IF Target(H, r).tool = "run" THEN {"study", "baseline", "db", "spec"}
           ELSE {"study"} |-> disk[x]]

\* Which mutable sources are not what the result names.
Changed(H, r) ==
    {x \in {"db", "spec"} :
        Usable(H, r) /\ Target(H, r).tool = "run" /\ disk[x] # Target(H, r).resolved[x]}

\* Variant: an evaluation reads the session as it stands.
WholeSession(H, r) == H

\* An evaluation reads the prefix its request froze.
Frozen(H, r) == SubSeq(H, 1, r.prefix)

Evaluated(r) ==
    LET H == Frozen(log, r)
    IN  [request |-> r, verdict |-> Verdict(H, r, Changed(H, r))]

Reverifies(bundle) ==
    /\ IsBundle(bundle)
    /\ bundle.request.prefix <= Len(log)
    /\ EvidenceHolds(Frozen(log, bundle.request), bundle.request)
    /\ Evaluated(bundle.request) = bundle

\* Variant: the database is not hashed again.
StableFiles(c) == \A x \in DOMAIN c.resolved \ {"db"} : disk[x] = c.resolved[x]

\* What was identified has not changed.
Stable(c) == \A x \in DOMAIN c.resolved : disk[x] = c.resolved[x]

\* Whether a logged result of the same inputs may stand for this call's: a success is
\* returned only while its bundle is the one it describes.
GenerationIsCurrent(c, e) ==
    /\ Stable(c)
    /\ IF Succeeded(e) THEN disk.baseline = e.says /\ Attests(disk.baseline, c.resolved.db)
                       ELSE e.category \notin {"operational", "conflict"}

VerificationIsCurrent(c, e) ==
    /\ Stable(c)
    /\ IF Succeeded(e) THEN Attests(disk.baseline, c.resolved.db) ELSE e.category # "operational"

EvaluationIsCurrent(c, e) ==
    Succeeded(e) => Stable(c) /\ disk.evaluation = e.says /\ Reverifies(disk.evaluation)

ReverificationIsCurrent(c, e) == Succeeded(e) => Stable(c) /\ Reverifies(disk.evaluation)

CanReuse(c, e) ==
    CASE c.tool \in {"run", "verifyStudy"} -> TRUE
      [] c.tool = "generate" -> GenerationIsCurrent(c, e)
      [] c.tool = "verifyBaseline" -> VerificationIsCurrent(c, e)
      [] c.tool = "evaluate" -> EvaluationIsCurrent(c, e)
      [] c.tool = "verifyEvaluation" -> ReverificationIsCurrent(c, e)

-----------------------------------------------------------------------------
(* One call of a process *)

At(p, step) == pc[p] = step
Successor(p) ==
    LET plan == Plan[call[p].tool]
    IN  plan[1 + CHOOSE i \in DOMAIN plan : plan[i] = pc[p]]

Goto(p, step) == pc' = [pc EXCEPT ![p] = step]
Keep(p, field, value) == call' = [call EXCEPT ![p][field] = value]

\* Variant: the barrier is released once the result is known.
AdvanceReleasing(p) ==
    /\ Goto(p, Successor(p))
    /\ barrier' = IF Successor(p) = "append" /\ barrier = p THEN Free ELSE barrier

\* The next step of the plan; the barrier stays where it is.
Advance(p) == Goto(p, Successor(p)) /\ UNCHANGED barrier

\* A failure of the execution is a result too.
Fail(p, category) ==
    /\ Keep(p, "made", Result(call[p], "failed", category, None, {}))
    /\ Goto(p, "append")
    /\ UNCHANGED barrier

\* The call returns, or dies, and the barrier is released.
Leave(p) ==
    /\ Goto(p, "idle")
    /\ call' = [call EXCEPT ![p] = Nothing]
    /\ meddled' = [meddled EXCEPT ![p] = {}]
    /\ barrier' = IF barrier = p THEN Free ELSE barrier

\* The session is loaded and what it refers to verified; a mutable source may
\* have changed.
Open(p) ==
    /\ At(p, "idle") /\ calls < MaxCalls
    /\ Loads(log) /\ ArtifactsHold(log)
    /\ \E tool \in Tools \cup {"conclude"} :
        /\ call' = [call EXCEPT ![p] = [Nothing EXCEPT !.tool = tool, !.base = Len(log)]]
        /\ Goto(p, IF tool = "conclude" THEN "append" ELSE "identify")
    /\ calls' = calls + 1
    /\ UNCHANGED <<disk, log, barrier, meddled, changes>>

\* The files of a request are read; it is refused if one is missing or of no use.
Resolve(p, tool, refused, next) ==
    /\ At(p, "identify") /\ call[p].tool = tool
    /\ \/ refused /\ Leave(p)
       \/ /\ ~refused
          /\ Keep(p, "resolved", [x \in Inputs[tool] |-> disk[x]])
          /\ Goto(p, next)
          /\ UNCHANGED <<barrier, meddled>>
    /\ UNCHANGED <<disk, log, calls, changes>>

ResolveRun(p) == Resolve(p, "run", disk.spec = Absent \/ ~IsBundle(disk.baseline), "acquire")
ResolveGenerate(p) == Resolve(p, "generate", disk.policy = Absent, "acquire")
ResolveVerify(p) == Resolve(p, "verifyStudy", disk.study = Absent, "reuse")
ResolveEvaluate(p) == Resolve(p, "evaluate", disk.request = Absent, "reuse")
ResolveEvaluationVerify(p) == Resolve(p, "verifyEvaluation", disk.evaluation = Absent, "reuse")

\* A bundle that cannot be read needs no database to be found wanting.
ResolveBaselineVerify(p) ==
    Resolve(p, "verifyBaseline", disk.baseline = Absent,
            IF disk.baseline = Damaged THEN "reuse" ELSE "acquire")

\* A study runs on the baseline its specification was written for, which must be
\* the one this database gives.
Provenance(p, version) ==
    LET c == call[p]
    IN  c.tool = "run" => /\ Attests(c.resolved.baseline, version)
                          /\ c.resolved.spec.baseline = c.resolved.baseline

\* The database is locked, without waiting, and hashed.
Acquire(p) ==
    /\ At(p, "acquire")
    /\ IF barrier = Free /\ Provenance(p, disk.db)
       THEN /\ barrier' = p
            /\ Keep(p, "resolved", [x \in Inputs[call[p].tool] \cup {"db"} |->
                                        IF x = "db" THEN disk.db ELSE call[p].resolved[x]])
            /\ Goto(p, "reuse")
            /\ UNCHANGED meddled
       ELSE Leave(p)
    /\ UNCHANGED <<disk, log, calls, changes>>

\* Variant: an evaluation is not refused because the session has grown.
AnyHead(p) == TRUE

FreezesHead(p) == call[p].tool = "evaluate" => call[p].resolved.request.prefix = call[p].base

\* An earlier result of the same inputs is returned, or the execution begins.
Reuse(p) ==
    /\ At(p, "reuse")
    /\ LET c == call[p]
           earlier == {n \in 1..c.base : /\ log[n].kind = "result" /\ log[n].tool = c.tool
                                         /\ log[n].resolved = c.resolved}
           reusable == \E n \in earlier : CanReuse(c, log[n])
       IN  \/ (reusable \/ ~FreezesHead(p)) /\ Leave(p)
           \/ /\ ~reusable /\ FreezesHead(p)
              /\ Goto(p, Head(Plan[c.tool]))
              /\ UNCHANGED <<barrier, call, meddled>>
    /\ UNCHANGED <<disk, log, calls, changes>>

\* What was identified is hashed again.
Confirm(p, tool) ==
    /\ pc[p] \in {"before", "after"} /\ call[p].tool = tool
    /\ IF Stable(call[p]) THEN Advance(p) /\ UNCHANGED call ELSE Fail(p, "operational")
    /\ UNCHANGED <<disk, log, world>>

CheckRun(p) == Confirm(p, "run")
CheckBaselineSource(p) == Confirm(p, "generate")
CheckRequest(p) == Confirm(p, "evaluate")
CheckEvaluation(p) == Confirm(p, "verifyEvaluation")

CheckBaseline(p) ==
    /\ pc[p] \in {"before", "after"} /\ call[p].tool = "verifyBaseline"
    /\ call[p].resolved.baseline # Damaged
    /\ Confirm(p, "verifyBaseline")

\* A bundle that could not be read is refused without being read again.
RejectBaseline(p) ==
    /\ At(p, "before") /\ call[p].tool = "verifyBaseline"
    /\ call[p].resolved.baseline = Damaged
    /\ Fail(p, "integrity")
    /\ UNCHANGED <<disk, log, world>>

-----------------------------------------------------------------------------
(* The executors: what is computed, or read and verified *)

ComputeStudy(p) ==
    /\ At(p, "compute") /\ call[p].tool = "run"
    /\ LET study == StudyOf(call[p].resolved.spec, disk.db)
       IN  IF Outcome[study.market].status = "failed" THEN Fail(p, "data")
           ELSE Keep(p, "draft", study) /\ Advance(p)
    /\ UNCHANGED <<disk, log, world>>

ComputeBaseline(p) ==
    /\ At(p, "compute") /\ call[p].tool = "generate"
    /\ Keep(p, "draft", BaselineOf(call[p].resolved.policy, call[p].resolved.db))
    /\ Advance(p)
    /\ UNCHANGED <<disk, log, world>>

\* A verified study is the one on disk now.
ReadStudy(p) ==
    /\ At(p, "compute") /\ call[p].tool = "verifyStudy"
    /\ IF IsBundle(disk.study) THEN Keep(p, "made", Success(call[p], disk.study)) /\ Advance(p)
                               ELSE Fail(p, "integrity")
    /\ UNCHANGED <<disk, log, world>>

ReadBaseline(p) ==
    /\ At(p, "compute") /\ call[p].tool = "verifyBaseline"
    /\ IF Attests(disk.baseline, call[p].resolved.db)
       THEN Keep(p, "made", Success(call[p], disk.baseline)) /\ Advance(p)
       ELSE Fail(p, "integrity")
    /\ UNCHANGED <<disk, log, world>>

Evaluate(p) ==
    /\ At(p, "compute") /\ call[p].tool = "evaluate"
    /\ LET r == call[p].resolved.request
           H == Frozen(log, r)
       IN  IF EvidenceHolds(H, r)
           THEN /\ call' = [call EXCEPT ![p].draft = Evaluated(r), ![p].sources = Sources(H, r)]
                /\ Advance(p)
           ELSE Fail(p, "integrity")
    /\ UNCHANGED <<disk, log, world>>

ReadEvaluation(p) ==
    /\ At(p, "compute") /\ call[p].tool = "verifyEvaluation"
    /\ IF Reverifies(disk.evaluation)
       THEN LET r == disk.evaluation.request
            IN  /\ call' = [call EXCEPT ![p].made = Success(call[p], disk.evaluation),
                                        ![p].sources = Sources(Frozen(log, r), r)]
                /\ Advance(p)
       ELSE Fail(p, "integrity")
    /\ UNCHANGED <<disk, log, world>>

\* Variant: the evidence is not read again.
SettleBlind(p) ==
    /\ pc[p] \in {"stable", "settled"}
    /\ IF At(p, "settled") => disk.evaluation = call[p].draft THEN Advance(p) /\ UNCHANGED call
                                                             ELSE Fail(p, "integrity")
    /\ UNCHANGED <<disk, log, world>>

\* The evidence is read again, before and after the bundle is in place.
Settle(p) ==
    /\ pc[p] \in {"stable", "settled"}
    /\ LET c == call[p]
       IN  IF /\ \A x \in DOMAIN c.sources : disk[x] = c.sources[x]
              /\ At(p, "settled") => disk.evaluation = c.draft
           THEN Advance(p) /\ UNCHANGED call
           ELSE Fail(p, "integrity")
    /\ UNCHANGED <<disk, log, world>>

\* Variant: a bundle replaces what is at its path.
Overwriting(p, out) == TRUE

Vacant(p, out) == disk[out] \in {Absent, call[p].draft}

\* An equal bundle is left alone, another one is a conflict.
Publish(p, tool) ==
    /\ At(p, "publish") /\ call[p].tool = tool
    /\ LET out == Output[tool]
       IN  IF Vacant(p, out)
           THEN disk' = [disk EXCEPT ![out] = call[p].draft] /\ Advance(p) /\ UNCHANGED call
           ELSE Fail(p, "conflict") /\ UNCHANGED disk
    /\ UNCHANGED <<log, world>>

PublishStudy(p) == Publish(p, "run")
PublishBaseline(p) == Publish(p, "generate")
PublishEvaluation(p) == Publish(p, "evaluate")

\* The result is bound to the files of the bundle: a study is loaded again as it is now,
\* another bundle must be the one that was published.
BindStudy(p) ==
    /\ At(p, "bind") /\ call[p].tool = "run"
    /\ IF IsBundle(disk.study) THEN Keep(p, "made", Success(call[p], disk.study)) /\ Advance(p)
                               ELSE Fail(p, "integrity")
    /\ UNCHANGED <<disk, log, world>>

Bind(p, tool) ==
    /\ At(p, "bind") /\ call[p].tool = tool
    /\ LET c == call[p]
       IN  IF disk[Output[tool]] = c.draft THEN Keep(p, "made", Success(c, c.draft)) /\ Advance(p)
                                           ELSE Fail(p, "operational")
    /\ UNCHANGED <<disk, log, world>>

BindBaseline(p) == Bind(p, "generate")
BindEvaluation(p) == Bind(p, "evaluate")

-----------------------------------------------------------------------------
(* The session *)

\* The number of the attempt, in the session the call began with.
Attempt(c) ==
    1 + Max({0} \cup {log[n].attempt : n \in {n \in Results(SubSeq(log, 1, c.base)) :
                                                log[n].tool = c.tool}})

\* Variant: the event is added to whatever the session has become.
AnySession(p) == TRUE

HeadUnmoved(p) == Len(log) = call[p].base

\* The result is stored if the session is still the one the call began with.
Store(p) ==
    /\ At(p, "append")
    /\ LET c == call[p]
           event == IF c.tool = "conclude" THEN Conclusion
                    ELSE Numbered(Attempt(c), c.made)
       IN  log' = IF HeadUnmoved(p) THEN Append(log, event) ELSE log
    /\ Leave(p)
    /\ UNCHANGED <<disk, calls, changes>>

Crash(p) ==
    /\ pc[p] # "idle" /\ changes < MaxChanges
    /\ changes' = changes + 1
    /\ Leave(p)
    /\ UNCHANGED <<disk, log, calls>>

-----------------------------------------------------------------------------
(* The others *)

\* A file is changed; a rewrite is one no other program should make.
Write(x, content, rewrite) ==
    /\ changes < MaxChanges /\ content # disk[x]
    /\ changes' = changes + 1
    /\ disk' = [disk EXCEPT ![x] = content]
    /\ meddled' = [p \in Processes |->
                     IF rewrite /\ pc[p] # "idle" THEN meddled[p] \cup {x} ELSE meddled[p]]
    /\ UNCHANGED <<log, barrier, pc, call, calls>>

\* A collector commits, or a program that ignores SQLite's lock writes.
ChangeDatabase == \E v \in Versions : v > disk.db /\ Write("db", v, barrier # Free)

EditPolicy == Write("policy", [rev |-> disk.policy.rev + 1], FALSE)

EditSpec ==
    /\ IsBundle(disk.baseline)
    /\ Write("spec", [rev |-> IF disk.spec = Absent THEN 1 ELSE disk.spec.rev + 1,
                      baseline |-> disk.baseline], FALSE)

WriteRequest == \E r \in Drafts(log) : Write("request", r, FALSE)

\* An artifact is damaged, or a study made and put there on the command line.
Replace ==
    \/ \E x \in {"study", "baseline", "evaluation"} : disk[x] # Absent /\ Write(x, Damaged, TRUE)
    \/ IsBundle(disk.study) /\ disk.spec # Absent
        /\ Write("study", StudyOf(disk.spec, disk.db), TRUE)

Next ==
    \/ \E p \in Processes :
        \/ Open(p) \/ Acquire(p) \/ Reuse(p) \/ Settle(p) \/ Store(p) \/ Crash(p)
        \/ ResolveRun(p) \/ CheckRun(p) \/ ComputeStudy(p) \/ PublishStudy(p) \/ BindStudy(p)
        \/ ResolveGenerate(p) \/ CheckBaselineSource(p) \/ ComputeBaseline(p)
        \/ PublishBaseline(p) \/ BindBaseline(p)
        \/ ResolveVerify(p) \/ ReadStudy(p)
        \/ ResolveBaselineVerify(p) \/ RejectBaseline(p) \/ CheckBaseline(p) \/ ReadBaseline(p)
        \/ ResolveEvaluate(p) \/ CheckRequest(p) \/ Evaluate(p) \/ PublishEvaluation(p)
        \/ BindEvaluation(p)
        \/ ResolveEvaluationVerify(p) \/ CheckEvaluation(p) \/ ReadEvaluation(p)
    \/ ChangeDatabase \/ EditPolicy \/ EditSpec \/ WriteRequest \/ Replace

Spec == Init /\ [][Next]_vars
-----------------------------------------------------------------------------
(* Properties *)

\* What is about to be stored as a success of process p.
Concluding(p) == At(p, "append") /\ call[p].made # None /\ call[p].made.status # "failed"

\* A successful result describes exactly the inputs its identity names, whatever
\* was written to them while it was computed, unless the bundle itself was replaced
\* by others (resolvers and executors of registry.py).
ResultsDescribeInputs ==
    \A p \in Processes : Concluding(p) =>
        LET c == call[p]
            says == c.made.says
        IN  CASE c.tool = "run" -> says = StudyOf(c.resolved.spec, c.resolved.db)
                                   \/ "study" \in meddled[p]
              [] c.tool = "generate" -> says = BaselineOf(c.resolved.policy, c.resolved.db)
              [] c.tool = "verifyStudy" -> says = c.resolved.study \/ "study" \in meddled[p]
              [] c.tool = "verifyBaseline" -> /\ says = c.resolved.baseline
                                              /\ says.funding = Lineage[c.resolved.db]
              [] c.tool = "evaluate" -> says.request = c.resolved.request
              [] c.tool = "verifyEvaluation" -> says = c.resolved.evaluation

\* When a result that rests on the database is stored, the database is still the one
\* it names, if writers respect SQLite's lock (_SQLiteReadBarrier, held until the
\* session's head is replaced).
CommittedWhileTrue ==
    \A p \in Processes :
        Concluding(p) /\ "db" \in DOMAIN call[p].resolved /\ "db" \notin meddled[p] =>
            disk.db = call[p].resolved.db

\* A session always loads again: attempts of a request are numbered from one in its order,
\* or the session would be refused for ever. And no two attempts have the same inputs where
\* a result is always reused (invoke_research_tool, append_event_batch with the expected
\* head).
NoRepeat ==
    /\ Loads(log)
    /\ \A m, n \in Results(log) :
        m < n /\ log[m].tool = log[n].tool /\ log[m].tool \in {"run", "verifyStudy", "evaluate"}
            => log[m].resolved # log[n].resolved

\* No step of a tool changes an artifact a successful result of the session refers to.
OutputsStand ==
    [][\A n \in Results(log) :
        \A a \in References(log[n]) :
            pc' # pc /\ disk[a[1]] = a[2] => disk'[a[1]] = a[2]]_vars

\* An evaluation judges the whole session that precedes it, and nothing else.
EvaluationsJudgeTheirHead ==
    \A n \in Results(log) :
        log[n].tool = "evaluate" /\ Succeeded(log[n]) => log[n].says.request.prefix = n - 1

\* A study may be tested further, if only provisionally, when it is complete, no later
\* attempt of its request found other inputs, a conclusion that follows it acknowledges
\* each of its warnings (no decision is asked for where there are none), and no claim about
\* its status is false; without reserve, only when none of its sources had changed and no
\* warning was a provisional one.
StandingIsEarned ==
    \A n \in Results(log) :
        LET e == log[n]
            r == e.says.request
            study == log[r.target]
        IN  /\ e.tool = "evaluate" /\ Succeeded(e)
            /\ e.says.verdict.effective \in {"accepted", "provisional"}
            => /\ study.kind = "result" /\ study.tool \in StudyTools /\ study.status = "complete"
               /\ ~\E m \in Results(log) :
                    /\ m > r.target /\ m < n
                    /\ log[m].tool = study.tool /\ log[m].resolved # study.resolved
               /\ \/ r.decision = None /\ study.warnings = {}
                  \/ /\ r.decision.statement \in (r.target + 1)..(n - 1)
                     /\ log[r.decision.statement].kind = "conclusion"
                     /\ study.warnings \subseteq
                            r.decision.acknowledged \cap {"acknowledgment", "provisional"}
               /\ \A k \in r.claims : k.type = "status" => k.value = study.status
               /\ e.says.verdict.effective = "accepted" =>
                    e.says.verdict.changed = {} /\ "provisional" \notin study.warnings

\* A verdict stands however the session grows: while its artifacts are intact and the same
\* sources are changed that were when it was given, the bundle verifies again; of one more,
\* or one fewer, it would tell (verify_research_evaluation against the frozen prefix).
VerdictStands ==
    \A n \in Results(log) :
        LET r == log[n].says.request
        IN  /\ log[n].tool = "evaluate" /\ Succeeded(log[n])
            /\ EvidenceHolds(Frozen(log, r), r)
            /\ Changed(SubSeq(log, 1, n - 1), r) = log[n].says.verdict.changed
            => Reverifies(log[n].says)

\* What an evaluation, or its verification, has judged from files read one after another
\* would be judged the same from the files as they are when it goes on, to be published and
\* to be recorded: no source is changed unseen in between (_assert_evidence_stable).
Judged(c) == IF c.tool = "evaluate" THEN c.draft ELSE c.made.says

VerdictsSettle ==
    [][\A p \in Processes :
        pc[p] \in {"stable", "settled"} /\ pc'[p] \in {"publish", "after"} =>
            Reverifies(Judged(call[p]))]_vars
=============================================================================
