------------------------------ MODULE ToolProofs ------------------------------
(***************************************************************************)
(* The safety of tool invocation, for any number of processes, calls,      *)
(* deaths and changes by others.  CallInv says how a call holds the        *)
(* database still and what its evaluation was asked of; Carrying says what *)
(* it has identified, drafted and made, step by step of its plan; Recorded *)
(* and LogInv say what a session has recorded.  ToolInv is all of them;    *)
(* SettleInv adds what an evaluation has read.                             *)
(***************************************************************************)
EXTENDS ToolInvocation, SequenceTheorems, FiniteSetTheorems, TLAPS

\* The steps of the plans before the last.
Working == {"before", "compute", "stable", "publish", "settled", "after", "bind"}

CallShape(c) ==
    c = [tool |-> c.tool, base |-> c.base, resolved |-> c.resolved, draft |-> c.draft,
         sources |-> c.sources, made |-> c.made]

\* A process that executes is somewhere in the plan of its tool.
OnPlan(p) ==
    /\ pc[p] \notin {"idle", "append"} => call[p].tool \in Tools
    /\ pc[p] \in Working =>
        \E i \in 1..Len(Plan[call[p].tool]) : Plan[call[p].tool][i] = pc[p]

Framed ==
    /\ "db" \in DOMAIN disk
    /\ pc = [p \in Processes |-> pc[p]]
    /\ meddled = [p \in Processes |-> meddled[p]]
    /\ call = [p \in Processes |-> call[p]]
    /\ \A p \in Processes : CallShape(call[p]) /\ OnPlan(p)

Makers == {"run", "generate", "evaluate"}

\* What a call has made is a result of its tool.
Made(tool, result) ==
    /\ DOMAIN result = {"kind", "tool", "status", "category", "resolved", "says", "warnings"}
    /\ result.tool = tool

-----------------------------------------------------------------------------
\* What the steps of a process come to

Apart(p) ==
    /\ pc' = [pc EXCEPT ![p] = pc'[p]]
    /\ call' = [call EXCEPT ![p] = call'[p]]
    /\ CallShape(call'[p])
    /\ OnPlan(p)'

\* It goes on with what it has identified.
Continues(p) ==
    /\ Apart(p)
    /\ pc[p] \in Working /\ pc'[p] \in Working \cup {"append"}
    /\ call'[p].tool = call[p].tool /\ call'[p].base = call[p].base
    /\ call'[p].resolved = call[p].resolved
    /\ "db" \in DOMAIN disk' /\ disk'["db"] = disk["db"]
    /\ UNCHANGED <<log, barrier, meddled>>

\* It goes on by failing, by making its draft or nothing, or by making its result.
Fails(p) ==
    /\ Continues(p) /\ pc'[p] = "append" /\ Made(call[p].tool, call'[p].made)
    /\ call'[p].made.kind = "result" /\ call'[p].made.status = "failed"
    /\ call'[p].made.resolved = call[p].resolved

Prepares(p) ==
    /\ Continues(p) /\ pc'[p] = Successor(p)
    /\ pc[p] # "bind" /\ (pc[p] = "compute" => call[p].tool \in Makers)
    /\ call'[p].made = call[p].made
    /\ call[p].tool = "evaluate" =>
          IF pc[p] = "compute" THEN call'[p].draft.request = call[p].resolved.request
                               ELSE call'[p].draft = call[p].draft

Makes(p) ==
    /\ Continues(p) /\ pc'[p] = Successor(p)
    /\ pc[p] = (IF call[p].tool \in Makers THEN "bind" ELSE "compute")
    /\ Made(call[p].tool, call'[p].made)
    /\ call[p].tool = "evaluate" => call'[p].made.says = call[p].draft

LEMMA PlanShape ==
    \A t \in Tools :
        /\ Len(Plan[t]) \in Nat
        /\ \A i \in 1..Len(Plan[t]) :
              /\ Plan[t][i] \in Working \cup {"append"}
              /\ Plan[t][i] # "append" => i + 1 \in 1..Len(Plan[t])
        /\ DOMAIN Plan[t] = 1..Len(Plan[t])
<1>1. ASSUME NEW t \in Tools
      PROVE  /\ Len(Plan[t]) \in Nat
             /\ \A i \in 1..Len(Plan[t]) :
                   /\ Plan[t][i] \in Working \cup {"append"}
                   /\ Plan[t][i] # "append" => i + 1 \in 1..Len(Plan[t])
             /\ DOMAIN Plan[t] = 1..Len(Plan[t])
  <2>1. CASE t = "run"  BY <2>1 DEF Plan, Working
  <2>2. CASE t = "generate"  BY <2>2 DEF Plan, Working
  <2>3. CASE t = "verifyStudy"  BY <2>3 DEF Plan, Working
  <2>4. CASE t = "verifyBaseline"  BY <2>4 DEF Plan, Working
  <2>5. CASE t = "evaluate"  BY <2>5 DEF Plan, Working
  <2>6. CASE t = "verifyEvaluation"  BY <2>6 DEF Plan, Working
  <2>. QED  BY <2>1, <2>2, <2>3, <2>4, <2>5, <2>6 DEF Tools
<1>. QED  BY <1>1

\* The plan never ends early, nor leads back to a step outside it.
LEMMA SuccessorOnPlan ==
    ASSUME Framed, NEW p \in Processes, pc[p] \in Working
    PROVE  /\ Successor(p) \in Working \cup {"append"}
           /\ call[p].tool \in Tools
           /\ \E i \in 1..Len(Plan[call[p].tool]) : Plan[call[p].tool][i] = Successor(p)
<1>. DEFINE t == call[p].tool
            k == CHOOSE i \in DOMAIN Plan[t] : Plan[t][i] = pc[p]
<1>1. t \in Tools /\ \E i \in DOMAIN Plan[t] : Plan[t][i] = pc[p]
  BY PlanShape DEF Framed, OnPlan, Working
<1>2. k \in DOMAIN Plan[t] /\ Plan[t][k] = pc[p]
  BY <1>1
<1>3. Successor(p) = Plan[t][1 + k]
  BY DEF Successor
<1>4. pc[p] # "append"
  BY DEF Working
<1>. HIDE DEF k
<1>5. k + 1 \in 1..Len(Plan[t]) /\ 1 + k = k + 1
  BY <1>1, <1>2, <1>4, PlanShape
<1>. QED  BY <1>1, <1>3, <1>5, PlanShape

LEMMA HeadOnPlan ==
    ASSUME NEW t \in Tools
    PROVE  /\ Head(Plan[t]) \in Working
           /\ \E i \in 1..Len(Plan[t]) : Plan[t][i] = Head(Plan[t])
<1>1. CASE t \in {"run", "generate", "verifyBaseline", "evaluate", "verifyEvaluation"}
  <2>1. Plan[t][1] = "before" /\ Len(Plan[t]) >= 1 /\ Head(Plan[t]) = Plan[t][1]
    BY <1>1 DEF Plan
  <2>. QED  BY <2>1, PlanShape DEF Working
<1>2. CASE t = "verifyStudy"
  BY <1>2 DEF Plan, Working
<1>. QED  BY <1>1, <1>2 DEF Tools

\* A field is kept, and the process goes to a step of its plan.
LEMMA Keeping ==
    ASSUME Framed, NEW p \in Processes, NEW field \in {"draft", "sources", "made", "resolved"},
           NEW value, Keep(p, field, value)
    PROVE  /\ call' = [call EXCEPT ![p] = call'[p]]
           /\ CallShape(call'[p])
           /\ \A f \in {"tool", "base", "resolved", "draft", "sources", "made"} \ {field} :
                 call'[p][f] = call[p][f]
           /\ call'[p][field] = value
<1>1. call'[p] = [call[p] EXCEPT ![field] = value]
  BY DEF Keep, Framed
<1>2. CallShape(call[p])
  BY DEF Framed
<1>3. call' = [call EXCEPT ![p] = call'[p]]
  BY <1>1 DEF Keep, Framed
<1>. QED  BY <1>1, <1>2, <1>3 DEF CallShape

LEMMA Failing ==
    ASSUME Framed, NEW p \in Processes, NEW category, Fail(p, category),
           pc[p] \in Working, disk' = disk, UNCHANGED <<log, meddled>>
    PROVE  Fails(p)
<1>1. Keep(p, "made", Result(call[p], "failed", category, None, {}))
  BY DEF Fail
<1>2. /\ call' = [call EXCEPT ![p] = call'[p]] /\ CallShape(call'[p])
      /\ call'[p].tool = call[p].tool /\ call'[p].base = call[p].base
      /\ call'[p].resolved = call[p].resolved /\ call'[p].draft = call[p].draft
      /\ call'[p].made = Result(call[p], "failed", category, None, {})
  BY <1>1, Keeping
<1>3. pc' = [pc EXCEPT ![p] = pc'[p]] /\ pc'[p] = "append"
  BY DEF Fail, Goto, Framed
<1>4. OnPlan(p)'
  BY <1>3 DEF OnPlan, Working
<1>5. /\ Result(call[p], "failed", category, None, {}).status = "failed"
      /\ Result(call[p], "failed", category, None, {}).kind = "result"
      /\ Result(call[p], "failed", category, None, {}).resolved = call[p].resolved
      /\ Made(call[p].tool, Result(call[p], "failed", category, None, {}))
  BY DEF Result, Made
<1>6. Continues(p)
  BY <1>2, <1>3, <1>4 DEF Fail, Continues, Apart, Framed
<1>. QED  BY <1>2, <1>3, <1>5, <1>6 DEF Fails

LEMMA Advancing ==
    ASSUME Framed, NEW p \in Processes, Advance(p), pc[p] \in Working,
           call' = [call EXCEPT ![p] = call'[p]], CallShape(call'[p]),
           call'[p].tool = call[p].tool, call'[p].base = call[p].base,
           call'[p].resolved = call[p].resolved,
           "db" \in DOMAIN disk', disk'["db"] = disk["db"], UNCHANGED <<log, meddled>>
    PROVE  Continues(p) /\ pc'[p] = Successor(p)
<1>1. pc' = [pc EXCEPT ![p] = pc'[p]] /\ pc'[p] = Successor(p)
  BY DEF Advance, Goto, Framed
<1>2. OnPlan(p)'
  BY <1>1, SuccessorOnPlan DEF OnPlan
<1>. QED  BY <1>1, <1>2, SuccessorOnPlan DEF Advance, Continues, Apart

\* Going on changes only what is kept.
LEMMA Standing ==
    ASSUME Framed, NEW p \in Processes, call' = call
    PROVE  call' = [call EXCEPT ![p] = call'[p]] /\ CallShape(call'[p])
BY DEF Framed

Confirms(p) ==
    CheckRun(p) \/ CheckBaselineSource(p) \/ CheckRequest(p) \/ CheckEvaluation(p) \/ CheckBaseline(p)

LEMMA ConfirmStep ==
    ASSUME Framed, NEW p \in Processes, Confirms(p)
    PROVE  Fails(p) \/ Prepares(p)
<1>1. /\ pc[p] \in {"before", "after"}
      /\ \/ Advance(p) /\ UNCHANGED call
         \/ Fail(p, "operational")
      /\ UNCHANGED <<disk, log, world>>
  BY DEF Confirms, CheckRun, CheckBaselineSource, CheckRequest, CheckEvaluation, CheckBaseline,
         Confirm
<1>2. pc[p] \in Working /\ UNCHANGED <<disk, log, meddled>>
  BY <1>1 DEF Working, world
<1>3. CASE Fail(p, "operational")
  BY <1>1, <1>2, <1>3, Failing
<1>4. CASE Advance(p) /\ UNCHANGED call
  <2>1. Continues(p) /\ pc'[p] = Successor(p)
    BY <1>1, <1>2, <1>4, Advancing, Standing DEF Framed
  <2>. QED  BY <1>1, <1>4, <2>1 DEF Prepares
<1>. QED  BY <1>1, <1>3, <1>4

LEMMA SettleStep ==
    ASSUME Framed, NEW p \in Processes, Settle(p)
    PROVE  Fails(p) \/ Prepares(p)
<1>1. /\ pc[p] \in {"stable", "settled"}
      /\ \/ Advance(p) /\ UNCHANGED call
         \/ Fail(p, "integrity")
      /\ UNCHANGED <<disk, log, world>>
  BY DEF Settle
<1>2. pc[p] \in Working /\ UNCHANGED <<disk, log, meddled>>
  BY <1>1 DEF Working, world
<1>3. CASE Fail(p, "integrity")
  BY <1>1, <1>2, <1>3, Failing
<1>4. CASE Advance(p) /\ UNCHANGED call
  <2>1. Continues(p) /\ pc'[p] = Successor(p)
    BY <1>1, <1>2, <1>4, Advancing, Standing DEF Framed
  <2>. QED  BY <1>1, <1>4, <2>1 DEF Prepares
<1>. QED  BY <1>1, <1>3, <1>4

LEMMA PublishStep ==
    ASSUME Framed, NEW p \in Processes, NEW tool \in Makers, Publish(p, tool)
    PROVE  Fails(p) \/ Prepares(p)
<1>1. /\ pc[p] = "publish" /\ pc[p] \in Working
      /\ UNCHANGED <<log, meddled>>
      /\ \/ Advance(p) /\ UNCHANGED call /\ disk' = [disk EXCEPT ![Output[tool]] = call[p].draft]
         \/ Fail(p, "conflict") /\ UNCHANGED disk
  BY DEF Publish, At, Working, world
<1>2. CASE Fail(p, "conflict") /\ UNCHANGED disk
  BY <1>1, <1>2, Failing
<1>3. CASE Advance(p) /\ UNCHANGED call /\ disk' = [disk EXCEPT ![Output[tool]] = call[p].draft]
  <2>1. Output[tool] # "db"
    BY DEF Output, Makers
  <2>2. "db" \in DOMAIN disk' /\ disk'["db"] = disk["db"]
    BY <1>3, <2>1 DEF Framed
  <2>3. Continues(p) /\ pc'[p] = Successor(p)
    BY <1>1, <1>3, <2>2, Advancing, Standing DEF Framed
  <2>. QED  BY <1>1, <1>3, <2>3 DEF Prepares
<1>. QED  BY <1>1, <1>2, <1>3

\* A result is kept as what has been made.
LEMMA Making ==
    ASSUME Framed, NEW p \in Processes, NEW says, Keep(p, "made", Success(call[p], says)), Advance(p),
           pc[p] \in Working, pc[p] = (IF call[p].tool \in Makers THEN "bind" ELSE "compute"),
           call[p].tool = "evaluate" => says = call[p].draft,
           disk' = disk, UNCHANGED <<log, meddled>>
    PROVE  Makes(p)
<1>1. /\ call' = [call EXCEPT ![p] = call'[p]] /\ CallShape(call'[p])
      /\ call'[p].tool = call[p].tool /\ call'[p].base = call[p].base
      /\ call'[p].resolved = call[p].resolved
      /\ call'[p].made = Success(call[p], says)
  BY Keeping
<1>2. Continues(p) /\ pc'[p] = Successor(p)
  BY <1>1, Advancing DEF Framed
<1>3. Made(call[p].tool, Success(call[p], says)) /\ Success(call[p], says).says = says
  BY DEF Made, Success, Result
<1>. QED  BY <1>1, <1>2, <1>3 DEF Makes

LEMMA BindStep ==
    ASSUME Framed, NEW p \in Processes, BindStudy(p) \/ BindBaseline(p) \/ BindEvaluation(p)
    PROVE  Fails(p) \/ Makes(p)
<1>1. /\ pc[p] = "bind" /\ pc[p] \in Working /\ UNCHANGED <<disk, log, meddled>>
      /\ call[p].tool \in Makers
  BY DEF BindStudy, BindBaseline, BindEvaluation, Bind, At, Working, world, Makers
<1>2. CASE Fail(p, "integrity") \/ Fail(p, "operational")
  BY <1>1, <1>2, Failing
<1>3. CASE /\ call[p].tool = "run"
           /\ Keep(p, "made", Success(call[p], disk.study)) /\ Advance(p)
  BY <1>1, <1>3, Making
<1>4. CASE Keep(p, "made", Success(call[p], call[p].draft)) /\ Advance(p)
  BY <1>1, <1>4, Making
<1>. QED  BY <1>2, <1>3, <1>4 DEF BindStudy, BindBaseline, BindEvaluation, Bind

LEMMA RejectStep ==
    ASSUME Framed, NEW p \in Processes, RejectBaseline(p)
    PROVE  Fails(p)
<1>1. /\ pc[p] \in Working /\ UNCHANGED <<disk, log, meddled>>
      /\ Fail(p, "integrity")
  BY DEF RejectBaseline, At, Working, world
<1>. QED  BY <1>1, Failing

Computes(p) ==
    \/ ComputeStudy(p) \/ ComputeBaseline(p) \/ ReadStudy(p) \/ ReadBaseline(p)
    \/ Evaluate(p) \/ ReadEvaluation(p)

LEMMA ComputeStep ==
    ASSUME Framed, NEW p \in Processes, Computes(p)
    PROVE  Fails(p) \/ Prepares(p) \/ Makes(p)
<1>1. /\ pc[p] = "compute" /\ pc[p] \in Working /\ UNCHANGED <<disk, log, meddled>>
  BY DEF Computes, ComputeStudy, ComputeBaseline, ReadStudy, ReadBaseline, Evaluate,
         ReadEvaluation, At, Working, world
<1>2. CASE Fail(p, "integrity") \/ Fail(p, "data")
  BY <1>1, <1>2, Failing
<1>3. ASSUME call[p].tool \in {"run", "generate"}, NEW draft, Keep(p, "draft", draft), Advance(p)
      PROVE  Prepares(p)
  <2>1. /\ call' = [call EXCEPT ![p] = call'[p]] /\ CallShape(call'[p])
        /\ call'[p].tool = call[p].tool /\ call'[p].base = call[p].base
        /\ call'[p].resolved = call[p].resolved /\ call'[p].made = call[p].made
    BY <1>3, Keeping
  <2>2. Continues(p) /\ pc'[p] = Successor(p)
    BY <1>1, <1>3, <2>1, Advancing DEF Framed
  <2>. QED  BY <1>1, <1>3, <2>1, <2>2 DEF Prepares, Makers
<1>4. CASE ComputeStudy(p)
  BY <1>2, <1>3, <1>4 DEF ComputeStudy
<1>5. CASE ComputeBaseline(p)
  BY <1>3, <1>5 DEF ComputeBaseline
<1>6. ASSUME call[p].tool \in {"verifyStudy", "verifyBaseline"}, NEW says,
             Keep(p, "made", Success(call[p], says)), Advance(p)
      PROVE  Makes(p)
  <2>1. call[p].tool \notin Makers /\ call[p].tool # "evaluate"
    BY <1>6 DEF Makers
  <2>. QED  BY <1>1, <1>6, <2>1, Making
<1>7. CASE ReadStudy(p) \/ ReadBaseline(p)
  BY <1>2, <1>6, <1>7 DEF ReadStudy, ReadBaseline
<1>8. CASE Evaluate(p)
  <2>. DEFINE r == call[p].resolved.request
              H == Frozen(log, r)
  <2>1. ASSUME call' = [call EXCEPT ![p].draft = Evaluated(r), ![p].sources = Sources(H, r)],
               Advance(p)
        PROVE  Prepares(p)
    <3>1. CallShape(call[p]) /\ call = [q \in Processes |-> call[q]]
      BY DEF Framed
    <3>. HIDE DEF r, H
    <3>2. call'[p] = [tool |-> call[p].tool, base |-> call[p].base, resolved |-> call[p].resolved,
                      draft |-> Evaluated(r), sources |-> Sources(H, r), made |-> call[p].made]
      BY <2>1, <3>1 DEF CallShape
    <3>3. call' = [call EXCEPT ![p] = call'[p]]
      BY <2>1, <3>1
    <3>4. /\ CallShape(call'[p]) /\ call'[p].draft = Evaluated(r)
          /\ call'[p].tool = call[p].tool /\ call'[p].base = call[p].base
          /\ call'[p].resolved = call[p].resolved /\ call'[p].made = call[p].made
      BY <3>2 DEF CallShape
    <3>5. Continues(p) /\ pc'[p] = Successor(p)
      BY <1>1, <2>1, <3>3, <3>4, Advancing DEF Framed
    <3>6. Evaluated(r).request = r
      BY DEF Evaluated
    <3>. QED  BY <1>1, <1>8, <3>4, <3>5, <3>6 DEF Prepares, Makers, r, Evaluate
  <2>. QED  BY <1>2, <1>8, <2>1 DEF Evaluate
<1>9. CASE ReadEvaluation(p)
  <2>. DEFINE made == Success(call[p], disk.evaluation)
              r == disk.evaluation.request
              sources == Sources(Frozen(log, r), r)
  <2>1. ASSUME call' = [call EXCEPT ![p].made = made, ![p].sources = sources], Advance(p)
        PROVE  Makes(p)
    <3>1. CallShape(call[p]) /\ call = [q \in Processes |-> call[q]]
      BY DEF Framed
    <3>2. Made(call[p].tool, made)
      BY <1>9 DEF Made, Success, Result
    <3>. HIDE DEF made, r, sources
    <3>3. call'[p] = [tool |-> call[p].tool, base |-> call[p].base, resolved |-> call[p].resolved,
                      draft |-> call[p].draft, sources |-> sources, made |-> made]
      BY <2>1, <3>1 DEF CallShape
    <3>4. call' = [call EXCEPT ![p] = call'[p]]
      BY <2>1, <3>1
    <3>5. /\ CallShape(call'[p]) /\ call'[p].made = made
          /\ call'[p].tool = call[p].tool /\ call'[p].base = call[p].base
          /\ call'[p].resolved = call[p].resolved
      BY <3>3 DEF CallShape
    <3>6. Continues(p) /\ pc'[p] = Successor(p)
      BY <1>1, <2>1, <3>4, <3>5, Advancing DEF Framed
    <3>7. call[p].tool \notin Makers /\ call[p].tool # "evaluate"
      BY <1>9 DEF ReadEvaluation, Makers
    <3>. QED  BY <1>1, <3>2, <3>5, <3>6, <3>7 DEF Makes
  <2>. QED  BY <1>2, <1>9, <2>1 DEF ReadEvaluation
<1>. QED  BY <1>4, <1>5, <1>7, <1>8, <1>9 DEF Computes

\* Nothing is stored before it is made, and nothing made before its inputs are confirmed.
LEMMA Successors ==
    ASSUME Framed, NEW p \in Processes, pc[p] \in Working
    PROVE  /\ pc[p] = "before" => Successor(p) = "compute"
           /\ call[p].tool \in Makers /\ Successor(p) = "append" => pc[p] = "bind"
           /\ call[p].tool \notin Makers => pc[p] \in {"before", "compute", "stable", "after"}
           /\ pc[p] = "bind" => Successor(p) = "append"
<1>. DEFINE t == call[p].tool
            k == CHOOSE i \in DOMAIN Plan[t] : Plan[t][i] = pc[p]
<1>1. t \in Tools /\ \E i \in DOMAIN Plan[t] : Plan[t][i] = pc[p]
  BY PlanShape DEF Framed, OnPlan, Working
<1>2. k \in DOMAIN Plan[t] /\ Plan[t][k] = pc[p] /\ Successor(p) = Plan[t][1 + k]
  BY <1>1 DEF Successor
<1>. HIDE DEF k
<1>3. CASE t = "run"  BY <1>2, <1>3 DEF Plan, Makers, Working
<1>4. CASE t = "generate"  BY <1>2, <1>4 DEF Plan, Makers, Working
<1>5. CASE t = "verifyStudy"  BY <1>2, <1>5 DEF Plan, Makers, Working
<1>6. CASE t = "verifyBaseline"  BY <1>2, <1>6 DEF Plan, Makers, Working
<1>7. CASE t = "evaluate"  BY <1>2, <1>7 DEF Plan, Makers, Working
<1>8. CASE t = "verifyEvaluation"  BY <1>2, <1>8 DEF Plan, Makers, Working
<1>. QED  BY <1>1, <1>3, <1>4, <1>5, <1>6, <1>7, <1>8 DEF Tools

-----------------------------------------------------------------------------
\* The invariants

\* Who has hashed the database holds it still: it is what was hashed, unless somebody
\* ignored the barrier.
Barred(p) ==
    "db" \in DOMAIN call[p].resolved =>
        /\ pc[p] # "idle" /\ barrier = p
        /\ "db" \in meddled[p] \/ disk["db"] = call[p].resolved["db"]

\* An evaluation that executes was asked of the session its call began with, and what it
\* makes is an evaluation of that request.
Judging(p) ==
    LET c == call[p]
    IN  /\ pc[p] = "append" => c.tool \in Tools \cup {"conclude"}
        /\ c.tool = "evaluate" /\ pc[p] \in Working \cup {"append"} =>
              c.resolved.request.prefix = c.base
        /\ c.tool = "evaluate" /\ pc[p] \in Working \ {"before", "compute"} =>
              c.draft.request = c.resolved.request
        /\ c.tool \in Makers /\ pc[p] = "append" => Made(c.tool, c.made)
        /\ c.tool \in Tools \ Makers /\ pc[p] \in {"stable", "after", "append"} => Made(c.tool, c.made)
        /\ c.tool = "evaluate" /\ pc[p] = "append" /\ c.made.status # "failed" =>
              c.made.says.request.prefix = c.base

CallInv == Framed /\ \A p \in Processes : Barred(p) /\ Judging(p)

Works(p) == Fails(p) \/ Prepares(p) \/ Makes(p)

LEMMA WorkStep ==
    ASSUME CallInv, NEW p \in Processes, Works(p)
    PROVE  Framed' /\ Barred(p)' /\ Judging(p)'
<1>1. Continues(p) /\ Framed
  BY DEF Works, Fails, Prepares, Makes, CallInv
<1>2. Framed'
  <2>1. \A q \in Processes \ {p} : pc'[q] = pc[q] /\ call'[q] = call[q]
    BY <1>1 DEF Continues, Apart, Framed
  <2>2. \A q \in Processes \ {p} : CallShape(call'[q]) /\ OnPlan(q)'
    BY <1>1, <2>1 DEF Framed, OnPlan
  <2>. QED  BY <1>1, <2>2 DEF Continues, Apart, Framed
<1>3. Barred(p)'
  BY <1>1 DEF CallInv, Barred, Continues, Working
<1>4. call[p].tool \in Tools /\ call'[p].tool = call[p].tool
  BY <1>1 DEF Continues, Framed, OnPlan, Working
<1>5. /\ pc[p] \in Working /\ pc'[p] \in Working \cup {"append"}
      /\ call'[p].base = call[p].base /\ call'[p].resolved = call[p].resolved
      /\ call[p].tool = "evaluate" => call[p].resolved.request.prefix = call[p].base
  BY <1>1 DEF CallInv, Judging, Continues
<1>6. CASE Fails(p)
  <2>1. /\ pc'[p] = "append" /\ Made(call'[p].tool, call'[p].made)
        /\ call'[p].made.status = "failed"
    BY <1>4, <1>6 DEF Fails
  <2>. QED  BY <1>2, <1>3, <1>4, <1>5, <2>1 DEF Judging, Working
<1>7. CASE Prepares(p)
  <2>1. pc'[p] = Successor(p) /\ call'[p].made = call[p].made /\ pc[p] # "bind"
    BY <1>7 DEF Prepares
  <2>2. /\ call[p].tool \in Makers => pc'[p] # "append"
        /\ call[p].tool \notin Makers /\ pc'[p] \in {"stable", "after", "append"}
              => pc[p] \in {"stable", "after"}
    BY <1>1, <1>5, <1>7, <2>1, Successors DEF Prepares
  <2>3. call[p].tool \notin Makers /\ pc'[p] \in {"stable", "after", "append"}
              => Made(call'[p].tool, call'[p].made)
    BY <1>4, <2>1, <2>2 DEF CallInv, Judging
  <2>4. call[p].tool = "evaluate" /\ pc'[p] \in Working \ {"before", "compute"}
              => call'[p].draft.request = call'[p].resolved.request
    <3>1. CASE pc[p] = "compute"
      BY <1>5, <1>7, <3>1 DEF Prepares
    <3>2. CASE pc[p] = "before"
      BY <1>1, <1>5, <2>1, <3>2, Successors
    <3>3. CASE pc[p] \in Working \ {"before", "compute"}
      BY <1>5, <1>7, <3>3 DEF Prepares, CallInv, Judging
    <3>. QED  BY <1>5, <3>1, <3>2, <3>3
  <2>5. call[p].tool = "evaluate" => call[p].tool \in Makers
    BY DEF Makers
  <2>. QED  BY <1>2, <1>3, <1>4, <1>5, <2>2, <2>3, <2>4, <2>5 DEF Judging
<1>8. CASE Makes(p)
  <2>1. /\ pc'[p] = Successor(p) /\ Made(call'[p].tool, call'[p].made)
        /\ pc[p] = (IF call[p].tool \in Makers THEN "bind" ELSE "compute")
        /\ call[p].tool = "evaluate" => call'[p].made.says = call[p].draft
    BY <1>4, <1>8 DEF Makes
  <2>2. call[p].tool = "evaluate" => pc[p] = "bind" /\ call[p].draft.request = call[p].resolved.request
    BY <2>1 DEF Makers, CallInv, Judging, Working
  <2>3. call[p].tool = "evaluate" => pc'[p] = "append"
    <3>1. call[p].tool = "evaluate" => Successor(p) = "append"
      BY <1>1, <1>5, <2>2, Successors
    <3>. QED  BY <2>1, <3>1
  <2>. QED  BY <1>2, <1>3, <1>4, <1>5, <2>1, <2>2, <2>3 DEF Judging, Working
<1>. QED  BY <1>6, <1>7, <1>8 DEF Works

\* A step of one process leaves the others and what they hold as they are.
Aside(p) ==
    /\ "db" \in DOMAIN disk' /\ disk'["db"] = disk["db"]
    /\ pc' = [pc EXCEPT ![p] = pc'[p]]
    /\ call' = [call EXCEPT ![p] = call'[p]]
    /\ meddled' = [meddled EXCEPT ![p] = meddled'[p]]
    /\ barrier' = barrier \/ barrier \in {p, Free}

LEMMA AsideKeeps ==
    ASSUME CallInv, NEW p \in Processes, Aside(p),
           CallShape(call'[p]), OnPlan(p)', Barred(p)', Judging(p)'
    PROVE  CallInv'
<1>1. \A q \in Processes \ {p} : pc'[q] = pc[q] /\ call'[q] = call[q] /\ meddled'[q] = meddled[q]
  BY DEF CallInv, Framed, Aside
<1>2. ASSUME NEW q \in Processes \ {p}
      PROVE  CallShape(call'[q]) /\ OnPlan(q)' /\ Barred(q)' /\ Judging(q)'
  <2>1. CallShape(call'[q]) /\ OnPlan(q)' /\ Judging(q)'
    BY <1>1 DEF CallInv, Framed, OnPlan, Judging
  <2>2. Barred(q)'
    BY <1>1, ToolAssumption DEF CallInv, Barred, Aside
  <2>. QED  BY <2>1, <2>2
<1>3. Framed'
  BY <1>1, <1>2 DEF CallInv, Framed, Aside
<1>. QED  BY <1>2, <1>3 DEF CallInv

LEMMA WorkKeeps ==
    ASSUME CallInv, NEW p \in Processes, Works(p)
    PROVE  CallInv'
<1>1. Continues(p)
  BY DEF Works, Fails, Prepares, Makes
<1>2. meddled' = [meddled EXCEPT ![p] = meddled'[p]]
  BY <1>1 DEF Continues, CallInv, Framed
<1>3. Aside(p)
  BY <1>1, <1>2 DEF Continues, Apart, Aside
<1>. QED  BY <1>1, <1>3, WorkStep, AsideKeeps DEF Continues, Apart

LEMMA LeaveKeeps ==
    ASSUME CallInv, NEW p \in Processes, Leave(p), disk' = disk
    PROVE  CallInv'
<1>1. /\ pc'[p] = "idle" /\ call'[p] = Nothing
      /\ pc' = [pc EXCEPT ![p] = pc'[p]]
      /\ call' = [call EXCEPT ![p] = call'[p]]
      /\ meddled' = [meddled EXCEPT ![p] = meddled'[p]]
  BY DEF Leave, Goto, CallInv, Framed
<1>2. Aside(p)
  BY <1>1 DEF Aside, Leave, CallInv, Framed
<1>3. CallShape(call'[p]) /\ OnPlan(p)' /\ Barred(p)' /\ Judging(p)'
  BY <1>1 DEF CallShape, Nothing, OnPlan, Barred, Judging, Working
<1>. QED  BY <1>2, <1>3, AsideKeeps

LEMMA OpenKeeps ==
    ASSUME CallInv, NEW p \in Processes, Open(p)
    PROVE  CallInv'
<1>1. PICK tool \in Tools \cup {"conclude"} :
          /\ call' = [call EXCEPT ![p] = [Nothing EXCEPT !.tool = tool, !.base = Len(log)]]
          /\ Goto(p, IF tool = "conclude" THEN "append" ELSE "identify")
  BY DEF Open
<1>2. /\ call'[p] = [tool |-> tool, base |-> Len(log), resolved |-> <<>>, draft |-> None,
                    sources |-> <<>>, made |-> None]
      /\ pc'[p] = (IF tool = "conclude" THEN "append" ELSE "identify")
      /\ pc' = [pc EXCEPT ![p] = pc'[p]]
      /\ call' = [call EXCEPT ![p] = call'[p]]
  BY <1>1 DEF Goto, CallInv, Framed, Nothing
<1>3. Aside(p)
  BY <1>2 DEF Aside, Open, CallInv, Framed
<1>4. CallShape(call'[p]) /\ OnPlan(p)' /\ Barred(p)' /\ Judging(p)'
  BY <1>2 DEF CallShape, OnPlan, Barred, Judging, Working, Tools, Makers
<1>. QED  BY <1>3, <1>4, AsideKeeps

LEMMA ResolveKeeps ==
    ASSUME CallInv, NEW p \in Processes, NEW tool \in Tools, NEW refused,
           NEW next \in {"acquire", "reuse"}, Resolve(p, tool, refused, next)
    PROVE  CallInv'
<1>1. CASE Leave(p)
  BY <1>1, LeaveKeeps DEF Resolve
<1>2. CASE /\ Keep(p, "resolved", [x \in Inputs[tool] |-> disk[x]])
           /\ Goto(p, next) /\ UNCHANGED <<barrier, meddled>>
  <2>1. /\ call' = [call EXCEPT ![p] = call'[p]] /\ CallShape(call'[p])
        /\ call'[p].tool = call[p].tool
        /\ call'[p].resolved = [x \in Inputs[tool] |-> disk[x]]
    BY <1>2, Keeping DEF CallInv
  <2>2. pc'[p] = next /\ pc' = [pc EXCEPT ![p] = pc'[p]] /\ call[p].tool = tool /\ disk' = disk
    BY <1>2 DEF Goto, CallInv, Framed, Resolve
  <2>3. Aside(p)
    BY <1>2, <2>1, <2>2 DEF Aside, CallInv, Framed
  <2>4. "db" \notin Inputs[tool]
    BY DEF Inputs, Tools
  <2>5. OnPlan(p)' /\ Barred(p)' /\ Judging(p)'
    BY <2>1, <2>2, <2>4 DEF OnPlan, Barred, Judging, Working
  <2>. QED  BY <2>1, <2>3, <2>5, AsideKeeps
<1>. QED  BY <1>1, <1>2 DEF Resolve

LEMMA AcquireKeeps ==
    ASSUME CallInv, NEW p \in Processes, Acquire(p)
    PROVE  CallInv'
<1>1. CASE Leave(p)
  BY <1>1, LeaveKeeps DEF Acquire
<1>2. CASE ~Leave(p)
  <2>. DEFINE resolved == [x \in Inputs[call[p].tool] \cup {"db"} |->
                              IF x = "db" THEN disk.db ELSE call[p].resolved[x]]
  <2>1. /\ barrier = Free /\ barrier' = p /\ Keep(p, "resolved", resolved)
        /\ Goto(p, "reuse") /\ UNCHANGED <<meddled, disk>> /\ pc[p] = "acquire"
    BY <1>2 DEF Acquire, At
  <2>2. resolved["db"] = disk["db"]
    OBVIOUS
  <2>. HIDE DEF resolved
  <2>3. /\ call' = [call EXCEPT ![p] = call'[p]] /\ CallShape(call'[p])
        /\ call'[p].tool = call[p].tool /\ call'[p].resolved = resolved
    BY <2>1, Keeping DEF CallInv
  <2>4. pc'[p] = "reuse" /\ pc' = [pc EXCEPT ![p] = pc'[p]]
    BY <2>1 DEF Goto, CallInv, Framed
  <2>5. Aside(p)
    BY <2>1, <2>3, <2>4 DEF Aside, CallInv, Framed
  <2>6. OnPlan(p)' /\ Judging(p)'
    BY <2>1, <2>3, <2>4 DEF OnPlan, Judging, Working, CallInv, Framed
  <2>7. Barred(p)'
    BY <2>1, <2>2, <2>3, <2>4 DEF Barred
  <2>. QED  BY <2>3, <2>5, <2>6, <2>7, AsideKeeps
<1>. QED  BY <1>1, <1>2

LEMMA ReuseKeeps ==
    ASSUME CallInv, NEW p \in Processes, Reuse(p)
    PROVE  CallInv'
<1>1. CASE Leave(p)
  BY <1>1, LeaveKeeps DEF Reuse
<1>2. CASE FreezesHead(p) /\ Goto(p, Head(Plan[call[p].tool])) /\ UNCHANGED <<barrier, call, meddled>>
  <2>1. call[p].tool \in Tools /\ disk' = disk /\ pc[p] = "reuse"
    BY DEF Reuse, At, CallInv, Framed, OnPlan, Working
  <2>2. /\ pc'[p] = Head(Plan[call[p].tool]) /\ pc' = [pc EXCEPT ![p] = pc'[p]]
        /\ call'[p] = call[p]
    BY <1>2 DEF Goto, CallInv, Framed
  <2>3. pc'[p] \in {"before", "compute"}
    BY <2>1, <2>2 DEF Plan, Tools
  <2>4. OnPlan(p)' /\ Aside(p) /\ CallShape(call'[p])
    <3>1. OnPlan(p)'
      BY <2>1, <2>2, HeadOnPlan DEF OnPlan
    <3>2. Aside(p)
      BY <1>2, <2>1, <2>2 DEF Aside, CallInv, Framed
    <3>3. CallShape(call'[p])
      BY <2>2 DEF CallInv, Framed
    <3>. QED  BY <3>1, <3>2, <3>3
  <2>5. Barred(p)'
    BY <1>2, <2>1, <2>2, <2>3 DEF Barred, CallInv
  <2>6. Judging(p)'
    BY <1>2, <2>2, <2>3 DEF Judging, FreezesHead
  <2>. QED  BY <2>4, <2>5, <2>6, AsideKeeps
<1>. QED  BY <1>1, <1>2 DEF Reuse

LEMMA WriteKeeps ==
    ASSUME CallInv, NEW x, NEW content, NEW rewrite \in BOOLEAN, Write(x, content, rewrite),
           x = "db" => rewrite = (barrier # Free)
    PROVE  CallInv'
<1>1. /\ UNCHANGED <<pc, call, barrier>> /\ disk' = [disk EXCEPT ![x] = content]
      /\ meddled' = [p \in Processes |->
                       IF rewrite /\ pc[p] # "idle" THEN meddled[p] \cup {x} ELSE meddled[p]]
  BY DEF Write
<1>2. "db" \in DOMAIN disk' /\ (x # "db" => disk'["db"] = disk["db"])
  BY <1>1 DEF CallInv, Framed
<1>3. Framed'
  BY <1>1, <1>2 DEF CallInv, Framed, OnPlan
<1>4. ASSUME NEW p \in Processes PROVE Barred(p)' /\ Judging(p)'
  <2>1. Judging(p)'
    BY <1>1 DEF CallInv, Judging
  <2>2. Barred(p)'
    BY <1>1, <1>2, ToolAssumption DEF CallInv, Barred
  <2>. QED  BY <2>1, <2>2
<1>. QED  BY <1>3, <1>4 DEF CallInv

LEMMA CallInit == Init => CallInv
<1>. SUFFICES ASSUME Init PROVE CallInv
  OBVIOUS
<1>1. /\ pc = [p \in Processes |-> "idle"] /\ call = [p \in Processes |-> Nothing]
      /\ meddled = [p \in Processes |-> {}] /\ "db" \in DOMAIN disk
  BY DEF Init, DiskOf
<1>. QED  BY <1>1 DEF CallInv, Framed, CallShape, Nothing, OnPlan, Barred, Judging, Working

\* What the others do is a change of one file; who respects the barrier leaves the database
\* alone while it is held.
Others == ChangeDatabase \/ EditPolicy \/ EditSpec \/ WriteRequest \/ Replace

LEMMA OthersKeep ==
    ASSUME CallInv, Others
    PROVE  CallInv' /\ log' = log
<1>1. CASE ChangeDatabase
  <2>1. PICK v \in Versions : Write("db", v, barrier # Free)
    BY <1>1 DEF ChangeDatabase
  <2>. QED  BY <2>1, WriteKeeps DEF Write
<1>2. CASE EditPolicy
  BY <1>2, WriteKeeps DEF EditPolicy, Write
<1>3. CASE EditSpec
  BY <1>3, WriteKeeps DEF EditSpec, Write
<1>4. CASE WriteRequest
  <2>1. PICK r \in Drafts(log) : Write("request", r, FALSE)
    BY <1>4 DEF WriteRequest
  <2>. QED  BY <2>1, WriteKeeps DEF Write
<1>5. CASE Replace
  <2>1. \/ \E x \in {"study", "baseline", "evaluation"} : Write(x, Damaged, TRUE)
        \/ Write("study", StudyOf(disk.spec, disk.db), TRUE)
    BY <1>5 DEF Replace
  <2>2. CASE \E x \in {"study", "baseline", "evaluation"} : Write(x, Damaged, TRUE)
    <3>1. PICK x \in {"study", "baseline", "evaluation"} : Write(x, Damaged, TRUE)
      BY <2>2
    <3>. QED  BY <3>1, WriteKeeps DEF Write
  <2>3. CASE Write("study", StudyOf(disk.spec, disk.db), TRUE)
    BY <2>3, WriteKeeps DEF Write
  <2>. QED  BY <2>1, <2>2, <2>3
<1>. QED  BY <1>1, <1>2, <1>3, <1>4, <1>5 DEF Others

Publishes(p) == PublishStudy(p) \/ PublishBaseline(p) \/ PublishEvaluation(p)
Binds(p) == BindStudy(p) \/ BindBaseline(p) \/ BindEvaluation(p)

\* The steps of an execution.
Executes(p) == Confirms(p) \/ Settle(p) \/ RejectBaseline(p) \/ Computes(p) \/ Publishes(p) \/ Binds(p)

LEMMA ExecutionWorks ==
    ASSUME CallInv, NEW p \in Processes, Executes(p)
    PROVE  Works(p)
<1>1. CASE Publishes(p)
  <2>1. \E tool \in Makers : Publish(p, tool)
    BY <1>1 DEF Publishes, PublishStudy, PublishBaseline, PublishEvaluation, Makers
  <2>. QED  BY <2>1, PublishStep DEF Works, CallInv
<1>2. CASE Confirms(p)  BY <1>2, ConfirmStep DEF Works, CallInv
<1>3. CASE Settle(p)  BY <1>3, SettleStep DEF Works, CallInv
<1>4. CASE RejectBaseline(p)  BY <1>4, RejectStep DEF Works, CallInv
<1>5. CASE Computes(p)  BY <1>5, ComputeStep DEF Works, CallInv
<1>6. CASE Binds(p)  BY <1>6, BindStep DEF Works, CallInv, Binds
<1>. QED  BY <1>1, <1>2, <1>3, <1>4, <1>5, <1>6 DEF Executes

\* The steps of a process that store nothing.
Steps(p) ==
    \/ Open(p) \/ Acquire(p) \/ Reuse(p) \/ Settle(p) \/ Crash(p)
    \/ ResolveRun(p) \/ CheckRun(p) \/ ComputeStudy(p) \/ PublishStudy(p) \/ BindStudy(p)
    \/ ResolveGenerate(p) \/ CheckBaselineSource(p) \/ ComputeBaseline(p)
    \/ PublishBaseline(p) \/ BindBaseline(p)
    \/ ResolveVerify(p) \/ ReadStudy(p)
    \/ ResolveBaselineVerify(p) \/ RejectBaseline(p) \/ CheckBaseline(p) \/ ReadBaseline(p)
    \/ ResolveEvaluate(p) \/ CheckRequest(p) \/ Evaluate(p) \/ PublishEvaluation(p)
    \/ BindEvaluation(p)
    \/ ResolveEvaluationVerify(p) \/ CheckEvaluation(p) \/ ReadEvaluation(p)

LEMMA StepsKeep ==
    ASSUME CallInv, NEW p \in Processes, Steps(p)
    PROVE  CallInv' /\ log' = log
<1>1. CASE Open(p) \/ Acquire(p) \/ Reuse(p)
  BY <1>1, OpenKeeps, AcquireKeeps, ReuseKeeps DEF Open, Acquire, Reuse
<1>2. CASE Crash(p)
  BY <1>2, LeaveKeeps DEF Crash
<1>3. CASE \/ ResolveRun(p) \/ ResolveGenerate(p) \/ ResolveVerify(p) \/ ResolveBaselineVerify(p)
           \/ ResolveEvaluate(p) \/ ResolveEvaluationVerify(p)
  <2>1. \E tool \in Tools, refused \in BOOLEAN, next \in {"acquire", "reuse"} :
            Resolve(p, tool, refused, next)
    <3>1. CASE ResolveRun(p)  BY <3>1 DEF ResolveRun, Tools, Resolve
    <3>2. CASE ResolveGenerate(p)  BY <3>2 DEF ResolveGenerate, Tools, Resolve
    <3>3. CASE ResolveVerify(p)  BY <3>3 DEF ResolveVerify, Tools, Resolve
    <3>4. CASE ResolveBaselineVerify(p)  BY <3>4 DEF ResolveBaselineVerify, Tools, Resolve
    <3>5. CASE ResolveEvaluate(p)  BY <3>5 DEF ResolveEvaluate, Tools, Resolve
    <3>6. CASE ResolveEvaluationVerify(p)  BY <3>6 DEF ResolveEvaluationVerify, Tools, Resolve
    <3>. QED  BY <1>3, <3>1, <3>2, <3>3, <3>4, <3>5, <3>6
  <2>. QED  BY <2>1, ResolveKeeps DEF Resolve
<1>4. CASE Executes(p)
  <2>1. Works(p)
    BY <1>4, ExecutionWorks
  <2>. QED  BY <2>1, WorkKeeps DEF Works, Fails, Prepares, Makes, Continues
<1>. QED  BY <1>1, <1>2, <1>3, <1>4
          DEF Steps, Executes, Confirms, Computes, Publishes, Binds

-----------------------------------------------------------------------------
\* The log

LogInv == (\E S : log \in Seq(S)) /\ EvaluationsJudgeTheirHead

LEMMA LogInit == Init => LogInv
<1>. SUFFICES ASSUME Init PROVE LogInv
  OBVIOUS
<1>1. CASE log = <<>>
  BY <1>1 DEF LogInv, EvaluationsJudgeTheirHead, Results
<1>2. CASE log = Studied
  <2>. DEFINE first == Numbered(1, FirstRun)
  <2>1. first.tool = "run"
    BY DEF Numbered, FirstRun, Success, Result, StudyTools, Nothing
  <2>2. Conclusion.kind = "conclusion"
    BY DEF Conclusion
  <2>. HIDE DEF first
  <2>3. log = <<first, Conclusion>>
    BY <1>2 DEF Studied, first
  <2>4. log \in Seq({first, Conclusion}) /\ Len(log) = 2 /\ log[1] = first /\ log[2] = Conclusion
    BY <2>3
  <2>5. \A n \in Results(log) : n = 1
    BY <2>2, <2>4 DEF Results
  <2>. QED  BY <2>1, <2>4, <2>5 DEF LogInv, EvaluationsJudgeTheirHead
<1>. QED  BY <1>1, <1>2 DEF Init

LEMMA StoreKeeps ==
    ASSUME CallInv, LogInv, NEW p \in Processes, Store(p)
    PROVE  CallInv' /\ LogInv'
<1>1. CallInv'
  BY LeaveKeeps DEF Store
<1>. DEFINE c == call[p]
            event == IF c.tool = "conclude" THEN Conclusion ELSE Numbered(Attempt(c), c.made)
<1>2. CASE log' = log
  BY <1>1, <1>2 DEF LogInv, EvaluationsJudgeTheirHead, Results
<1>3. CASE Len(log) = c.base /\ log' = Append(log, event)
  <2>1. PICK S : log \in Seq(S)
    BY DEF LogInv
  <2>2. ASSUME event.kind = "result", event.tool = "evaluate", event.status # "failed"
        PROVE  event.says.request.prefix = c.base
    <3>1. c.tool # "conclude" /\ pc[p] = "append"
      BY <2>2 DEF Conclusion, Store, At
    <3>2. Made(c.tool, c.made)
      BY <3>1 DEF CallInv, Judging
    <3>3. event.tool = c.made.tool /\ event.status = c.made.status /\ event.says = c.made.says
      BY <3>1, <3>2 DEF Made, Numbered
    <3>. QED  BY <2>2, <3>1, <3>2, <3>3 DEF CallInv, Judging, Made
  <2>. HIDE DEF event
  <2>3. /\ log \in Seq(S \cup {event}) /\ log' \in Seq(S \cup {event})
        /\ Len(log) \in Nat /\ Len(log') = Len(log) + 1 /\ log'[Len(log) + 1] = event
        /\ \A n \in 1..Len(log) : log'[n] = log[n]
    BY <1>3, <2>1
  <2>4. EvaluationsJudgeTheirHead'
    <3>. SUFFICES ASSUME NEW n \in Results(log'), log'[n].tool = "evaluate", Succeeded(log'[n])
                  PROVE  log'[n].says.request.prefix = n - 1
      BY DEF EvaluationsJudgeTheirHead
    <3>1. CASE n \in 1..Len(log)
      BY <2>3, <3>1 DEF LogInv, EvaluationsJudgeTheirHead, Results
    <3>2. CASE n = Len(log) + 1
      BY <1>3, <2>2, <2>3, <3>2 DEF Results, Succeeded
    <3>. QED  BY <2>3, <3>1, <3>2 DEF Results
  <2>. QED  BY <1>1, <2>3, <2>4 DEF LogInv
<1>. QED  BY <1>1, <1>2, <1>3 DEF Store, HeadUnmoved

LEMMA ToolStep ==
    ASSUME CallInv, LogInv, [Next]_vars
    PROVE  CallInv' /\ LogInv'
<1>1. CASE UNCHANGED vars
  BY <1>1 DEF vars, world, CallInv, Framed, OnPlan, Barred, Judging, LogInv,
              EvaluationsJudgeTheirHead, Results
<1>2. ASSUME CallInv', log' = log PROVE CallInv' /\ LogInv'
  BY <1>2 DEF LogInv, EvaluationsJudgeTheirHead, Results
<1>3. ASSUME NEW p \in Processes, Steps(p) \/ Store(p) PROVE CallInv' /\ LogInv'
  BY <1>2, <1>3, StepsKeep, StoreKeeps
<1>. QED  BY <1>1, <1>2, <1>3, OthersKeep DEF Next, Steps, Others

\* When a result that rests on the database reaches the session, the database is still
\* the version it names, however many processes work and die, if writers respect
\* the barrier: it is never let go between the hash and the append.
THEOREM StoredWhileTrue == Spec => []CommittedWhileTrue
<1>1. CallInv => CommittedWhileTrue
  BY DEF CallInv, Barred, CommittedWhileTrue, Concluding
<1>2. Init => CallInv /\ LogInv
  BY CallInit, LogInit
<1>3. CallInv /\ LogInv /\ [Next]_vars => (CallInv /\ LogInv)'
  BY ToolStep
<1>. QED  BY <1>1, <1>2, <1>3, PTL DEF Spec

\* Each evaluation in a session judges the whole of the session before it: the prefix its
\* request froze was the head its call began with, and is the head it is appended to.
THEOREM WholeHeadJudged == Spec => []EvaluationsJudgeTheirHead
<1>1. LogInv => EvaluationsJudgeTheirHead
  BY DEF LogInv
<1>2. Init => CallInv /\ LogInv
  BY CallInit, LogInit
<1>3. CallInv /\ LogInv /\ [Next]_vars => (CallInv /\ LogInv)'
  BY ToolStep
<1>. QED  BY <1>1, <1>2, <1>3, PTL DEF Spec

-----------------------------------------------------------------------------
\* What a call has read and made, step by step

Paths == {"db", "policy", "spec", "baseline", "study", "request", "evaluation"}

\* The database is a version, and a study that can be read was made from one.
DiskInv ==
    /\ DOMAIN disk = Paths /\ disk.db \in Versions
    /\ IsBundle(disk.study) => \E v \in Versions : disk.study.market = Evidence[v]

\* A call whose files have been identified.
Identified(p) == call[p].tool \in Tools /\ pc[p] \in {"acquire", "reuse", "append"} \cup Working

\* Databases only grow, and a bundle that was there stays or is damaged.
Holding(p) ==
    LET c == call[p]
    IN  Identified(p) =>
        /\ Inputs[c.tool] \subseteq DOMAIN c.resolved
        /\ "db" \in DOMAIN c.resolved => c.resolved.db \in Versions /\ c.resolved.db <= disk.db
        /\ c.tool \in {"run", "generate"} /\ pc[p] # "acquire" => "db" \in DOMAIN c.resolved
        /\ c.tool \in {"run", "verifyBaseline"} =>
              /\ c.resolved.baseline # Absent
              /\ disk.baseline \in {c.resolved.baseline, Damaged}
        /\ c.tool = "verifyStudy" =>
              /\ c.resolved.study # Absent
              /\ disk.study = c.resolved.study \/ "study" \in meddled[p]
        /\ c.tool = "verifyEvaluation" =>
              /\ c.resolved.evaluation # Absent
              /\ disk.evaluation \in {c.resolved.evaluation, Damaged}

\* An evaluation is the verdict of the policy over a session.
IsJudgement(x, H) == x = [request |-> x.request, verdict |-> Verdict(H, x.request, x.verdict.changed)]

Drafting(p) ==
    LET c == call[p]
    IN  /\ c.tool = "run" /\ pc[p] = "after" =>
              \E v \in Versions : /\ c.draft = StudyOf(c.resolved.spec, v)
                                  /\ c.resolved.db <= v /\ v <= disk.db
        /\ c.tool = "run" /\ pc[p] \in {"publish", "bind"} =>
              c.draft = StudyOf(c.resolved.spec, c.resolved.db)
        /\ c.tool = "run" /\ pc[p] = "bind" => disk.study = c.draft \/ "study" \in meddled[p]
        /\ c.tool = "generate" /\ pc[p] \in {"publish", "after", "bind"} =>
              c.draft = BaselineOf(c.resolved.policy, c.resolved.db)
        /\ c.tool = "evaluate" /\ pc[p] \in Working \ {"before", "compute"} =>
              IsJudgement(c.draft, SubSeq(log, 1, c.base))

\* What is said of the inputs.
Describes(c, says, changed) ==
    CASE c.tool = "run" -> says = StudyOf(c.resolved.spec, c.resolved.db) \/ "study" \in changed
      [] c.tool = "generate" -> says = BaselineOf(c.resolved.policy, c.resolved.db)
      [] c.tool = "verifyStudy" -> says = c.resolved.study \/ "study" \in changed
      [] c.tool = "verifyBaseline" -> /\ says = c.resolved.baseline
                                      /\ says.funding = Lineage[c.resolved.db]
      [] c.tool = "evaluate" -> says.request = c.resolved.request
      [] c.tool = "verifyEvaluation" -> says = c.resolved.evaluation

\* A result that may enter the session.
Worth(tool, status, says, warnings, H) ==
    status # "failed" =>
        /\ tool \in StudyTools => status \in {"complete", "incomplete"} /\ warnings \subseteq Classes
        /\ tool \in Makers => IsBundle(says)
        /\ tool = "evaluate" => IsJudgement(says, H)

Bearing(p) ==
    LET c == call[p]
        m == c.made
    IN  /\ pc[p] = "append" /\ c.tool = "conclude" => m = None
        /\ c.tool \in Tools /\ pc[p] \in (IF c.tool \in Makers THEN {"append"}
                                          ELSE {"stable", "after", "append"}) =>
              /\ m.kind = "result" /\ m.tool = c.tool /\ m.resolved = c.resolved
              /\ Worth(c.tool, m.status, m.says, m.warnings, SubSeq(log, 1, c.base))
              /\ m.status # "failed" => Describes(c, m.says, meddled[p])

\* Who reuses every earlier result has found none of these inputs.
Fresh(p) ==
    LET c == call[p]
    IN  /\ pc[p] # "idle" => c.base \in 0..Len(log)
        /\ c.tool \in {"run", "verifyStudy"} /\ pc[p] \in Working \cup {"append"} =>
              \A n \in Results(log) : n <= c.base /\ log[n].tool = c.tool => log[n].resolved # c.resolved

Carrying(p) == Holding(p) /\ Drafting(p) /\ Bearing(p) /\ Fresh(p)

\* What a session has recorded.
Entry(n) ==
    LET e == log[n]
    IN  /\ e.tool \in Tools
        /\ e.tool = "evaluate" => e.resolved.request.prefix = n - 1
        /\ \A x \in Immutable[e.tool] : e.resolved[x] # Absent
        /\ Worth(e.tool, e.status, e.says, e.warnings, SubSeq(log, 1, n - 1))

Attempts(t) == {n \in Results(log) : log[n].tool = t}

\* Attempts are numbered in their order, from one.
Numbering ==
    \A t \in Tools :
        /\ \A n \in Attempts(t) : log[n].attempt = Cardinality({m \in Attempts(t) : m <= n})
        /\ Attempts(t) # {} => \E n \in Attempts(t) : log[n].attempt = Cardinality(Attempts(t))

Distinct ==
    \A m, n \in Results(log) :
        m < n /\ log[m].tool = log[n].tool /\ log[m].tool \in {"run", "verifyStudy", "evaluate"}
            => log[m].resolved # log[n].resolved

Recorded == (\A n \in Results(log) : Entry(n)) /\ Numbering /\ Distinct

-----------------------------------------------------------------------------
\* What other calls and other programs leave of it

\* What may happen to the files of a running call.
Evolves(p) ==
    /\ DOMAIN disk' = Paths /\ disk'.db \in Versions /\ disk.db <= disk'.db
    /\ \A x \in {"baseline", "evaluation"} : disk[x] = Absent \/ disk'[x] \in {disk[x], Damaged}
    /\ disk.study = Absent \/ disk'.study = disk.study \/ "study" \in meddled'[p]
    /\ meddled[p] \subseteq meddled'[p]

\* A session only grows.
Grows ==
    /\ Len(log) \in Nat /\ Len(log') \in Nat /\ Len(log) <= Len(log')
    /\ \A n \in 1..Len(log) : log'[n] = log[n]
    /\ \A k \in 0..Len(log) : SubSeq(log', 1, k) = SubSeq(log, 1, k)

LEMMA PrefixStays ==
    ASSUME NEW S, NEW s \in Seq(S), NEW t \in Seq(S), Len(s) <= Len(t),
           \A n \in 1..Len(s) : t[n] = s[n], NEW k \in 0..Len(s)
    PROVE  SubSeq(t, 1, k) = SubSeq(s, 1, k)
<1>1. Len(s) \in Nat /\ Len(t) \in Nat
  BY LenProperties
<1>2. k \in 1-1..Len(s) /\ k \in 1-1..Len(t) /\ 1 \in 1..Len(s)+1 /\ 1 \in 1..Len(t)+1
  BY <1>1
<1>3. /\ SubSeq(s, 1, k) \in Seq(S) /\ Len(SubSeq(s, 1, k)) = k-1+1
      /\ \A i \in 1..k-1+1 : SubSeq(s, 1, k)[i] = s[1+i-1]
  BY <1>2, SubSeqProperties
<1>4. /\ SubSeq(t, 1, k) \in Seq(S) /\ Len(SubSeq(t, 1, k)) = k-1+1
      /\ \A i \in 1..k-1+1 : SubSeq(t, 1, k)[i] = t[1+i-1]
  BY <1>2, SubSeqProperties
<1>5. \A i \in 1..k-1+1 : 1+i-1 = i /\ i \in 1..Len(s)
  BY <1>1
<1>. QED  BY <1>3, <1>4, <1>5, SeqEqual

LEMMA GrowsByEvent ==
    ASSUME NEW S, log \in Seq(S), NEW e, log' = log \/ log' = Append(log, e)
    PROVE  Grows
<1>1. /\ log \in Seq(S \cup {e}) /\ log' \in Seq(S \cup {e}) /\ Len(log) \in Nat
      /\ Len(log') \in {Len(log), Len(log) + 1} /\ \A n \in 1..Len(log) : log'[n] = log[n]
  OBVIOUS
<1>2. Len(log) <= Len(log') /\ Len(log') \in Nat
  BY <1>1
<1>. QED  BY <1>1, <1>2, PrefixStays DEF Grows

LEMMA VersionsOrdered ==
    ASSUME NEW u \in Versions, NEW v \in Versions, NEW w \in Versions
    PROVE  u \in Nat /\ (u <= v /\ v <= w => u <= w)
BY ToolAssumption

LEMMA HoldingStays ==
    ASSUME DiskInv, NEW p \in Processes, Holding(p), Evolves(p),
           call'[p].tool = call[p].tool, call'[p].resolved = call[p].resolved,
           Identified(p)' => Identified(p) /\ (pc'[p] # "acquire" => pc[p] # "acquire")
    PROVE  Holding(p)'
<1>. SUFFICES ASSUME Identified(p)' PROVE Holding(p)'
  BY DEF Holding
<1>1. "db" \in DOMAIN call[p].resolved => call[p].resolved.db <= disk'.db
  BY VersionsOrdered DEF Holding, Evolves, DiskInv
<1>2. Absent # Damaged
  BY ContentAssumption
<1>. QED  BY <1>1, <1>2 DEF Holding, Evolves

LEMMA FreshStays ==
    ASSUME NEW p \in Processes, Fresh(p), Grows,
           call'[p].tool = call[p].tool, call'[p].resolved = call[p].resolved,
           call'[p].base = call[p].base, pc'[p] # "idle" => pc[p] # "idle",
           pc'[p] \in Working \cup {"append"} => pc[p] \in Working \cup {"append"}
    PROVE  Fresh(p)'
<1>1. pc'[p] # "idle" => call[p].base \in 0..Len(log) /\ call[p].base \in 0..Len(log')
  BY DEF Fresh, Grows
<1>2. "idle" \notin Working \cup {"append"}
  BY DEF Working
<1>. QED  BY <1>1, <1>2 DEF Fresh, Grows, Results

LEMMA DescribesStill ==
    ASSUME NEW c, c.tool \in Tools, NEW says, NEW a, NEW b, a \subseteq b,
           Describes(c, says, a)
    PROVE  Describes(c, says, b)
<1>1. CASE c.tool = "run"  BY <1>1 DEF Describes
<1>2. CASE c.tool = "generate"  BY <1>2 DEF Describes
<1>3. CASE c.tool = "verifyStudy"  BY <1>3 DEF Describes
<1>4. CASE c.tool = "verifyBaseline"  BY <1>4 DEF Describes
<1>5. CASE c.tool = "evaluate"  BY <1>5 DEF Describes
<1>6. CASE c.tool = "verifyEvaluation"  BY <1>6 DEF Describes
<1>. QED  BY <1>1, <1>2, <1>3, <1>4, <1>5, <1>6 DEF Tools

\* What is done beside a call does not touch it.
LEMMA CarryingStays ==
    ASSUME DiskInv, NEW p \in Processes, Carrying(p), Evolves(p), Grows,
           pc'[p] = pc[p], call'[p] = call[p]
    PROVE  Carrying(p)'
<1>1. Holding(p)' /\ Fresh(p)'
  BY HoldingStays, FreshStays DEF Carrying, Identified
<1>2. pc[p] # "idle" => SubSeq(log', 1, call[p].base) = SubSeq(log, 1, call[p].base)
  BY DEF Carrying, Fresh, Grows
<1>3. Drafting(p)'
  <2>1. ASSUME NEW v \in Versions, v <= disk.db PROVE v <= disk'.db
    BY <2>1, VersionsOrdered DEF Evolves, DiskInv
  <2>2. call[p].tool = "run" /\ pc[p] = "bind" => call[p].draft # Absent
    BY ContentAssumption DEF Carrying, Drafting, StudyOf
  <2>3. pc[p] \in Working => SubSeq(log', 1, call[p].base) = SubSeq(log, 1, call[p].base)
    BY <1>2 DEF Working
  <2>. QED  BY <2>1, <2>2, <2>3 DEF Carrying, Drafting, Evolves
<1>4. Bearing(p)'
  <2>1. pc[p] \in {"stable", "after", "append"} =>
            SubSeq(log', 1, call[p].base) = SubSeq(log, 1, call[p].base)
    BY <1>2
  <2>2. meddled[p] \subseteq meddled'[p]
    BY DEF Evolves
  <2>3. ASSUME NEW says, call[p].tool \in Tools, Describes(call[p], says, meddled[p])
        PROVE  Describes(call[p], says, meddled'[p])
    BY <2>2, <2>3, DescribesStill
  <2>. QED  BY <2>1, <2>3 DEF Carrying, Bearing
<1>. QED  BY <1>1, <1>3, <1>4 DEF Carrying

-----------------------------------------------------------------------------
\* What each step of the plan adds

LEMMA NextStep ==
    ASSUME Framed, NEW p \in Processes, pc[p] \in Working
    PROVE  LET t == call[p].tool
           IN  /\ t \in Tools
               /\ pc[p] = "before" => Successor(p) = "compute"
               /\ t = "run" => /\ pc[p] \in {"before", "compute", "after", "publish", "bind"}
                               /\ pc[p] = "compute" => Successor(p) = "after"
                               /\ pc[p] = "after" => Successor(p) = "publish"
                               /\ pc[p] = "publish" => Successor(p) = "bind"
                               /\ pc[p] = "bind" => Successor(p) = "append"
               /\ t = "generate" => /\ pc[p] \in {"before", "compute", "publish", "after", "bind"}
                                    /\ pc[p] = "compute" => Successor(p) = "publish"
                                    /\ pc[p] = "publish" => Successor(p) = "after"
                                    /\ pc[p] = "after" => Successor(p) = "bind"
                                    /\ pc[p] = "bind" => Successor(p) = "append"
               /\ t = "verifyStudy" => pc[p] = "compute" /\ Successor(p) = "append"
               /\ t = "verifyBaseline" => /\ pc[p] \in {"before", "compute", "after"}
                                          /\ pc[p] = "compute" => Successor(p) = "after"
                                          /\ pc[p] = "after" => Successor(p) = "append"
               /\ t = "evaluate" => /\ pc[p] = "compute" => Successor(p) = "stable"
                                    /\ pc[p] \in {"stable", "publish", "settled", "after"} =>
                                          Successor(p) \in {"publish", "settled", "after", "bind"}
                                    /\ pc[p] = "bind" => Successor(p) = "append"
               /\ t = "verifyEvaluation" =>
                     /\ pc[p] \in {"before", "compute", "stable", "after"}
                     /\ pc[p] = "compute" => Successor(p) = "stable"
                     /\ pc[p] = "stable" => Successor(p) = "after"
                     /\ pc[p] = "after" => Successor(p) = "append"
<1>. DEFINE t == call[p].tool
            k == CHOOSE i \in DOMAIN Plan[t] : Plan[t][i] = pc[p]
<1>1. t \in Tools /\ \E i \in DOMAIN Plan[t] : Plan[t][i] = pc[p]
  BY PlanShape DEF Framed, OnPlan, Working
<1>2. k \in DOMAIN Plan[t] /\ Plan[t][k] = pc[p] /\ Successor(p) = Plan[t][1 + k]
  BY <1>1 DEF Successor
<1>. HIDE DEF k
<1>3. CASE t = "run"  BY <1>2, <1>3 DEF Plan, Tools, Working
<1>4. CASE t = "generate"  BY <1>2, <1>4 DEF Plan, Tools, Working
<1>5. CASE t = "verifyStudy"  BY <1>2, <1>5 DEF Plan, Tools, Working
<1>6. CASE t = "verifyBaseline"  BY <1>2, <1>6 DEF Plan, Tools, Working
<1>7. CASE t = "evaluate"  BY <1>2, <1>7 DEF Plan, Tools, Working
<1>8. CASE t = "verifyEvaluation"  BY <1>2, <1>8 DEF Plan, Tools, Working
<1>. QED  BY <1>1, <1>3, <1>4, <1>5, <1>6, <1>7, <1>8 DEF Tools

\* What was drafted or made stays while its inputs are confirmed and it is published.
LEMMA AdvanceCarries ==
    ASSUME Framed, DiskInv, NEW p \in Processes, Carrying(p), pc[p] \in Working \ {"compute", "bind"},
           call' = call, pc'[p] = Successor(p), log' = log, meddled' = meddled,
           disk'.db = disk.db,
           call[p].tool = "run" /\ pc[p] = "after" => Stable(call[p]),
           call[p].tool = "run" /\ pc[p] = "publish" => disk'.study = call[p].draft
    PROVE  Drafting(p)' /\ Bearing(p)'
<1>1. call[p].tool \in Tools
  BY NextStep
<1>2. ASSUME call[p].tool = "run", pc[p] = "after"
      PROVE  call[p].draft = StudyOf(call[p].resolved.spec, call[p].resolved.db)
  <2>1. PICK v \in Versions : /\ call[p].draft = StudyOf(call[p].resolved.spec, v)
                              /\ call[p].resolved.db <= v /\ v <= disk.db
    BY <1>2 DEF Carrying, Drafting
  <2>2. Identified(p) /\ "db" \in DOMAIN call[p].resolved
    BY <1>1, <1>2 DEF Carrying, Holding, Identified, Working
  <2>3. call[p].resolved.db = disk.db /\ disk.db \in Versions
    BY <1>2, <2>2 DEF Stable, DiskInv
  <2>4. v = disk.db
    BY <2>1, <2>3, VersionsOrdered
  <2>. QED  BY <2>1, <2>3, <2>4
<1>3. CASE call[p].tool = "run"
  BY <1>1, <1>2, <1>3, NextStep DEF Carrying, Drafting, Bearing, Makers, Working
<1>4. CASE call[p].tool = "generate"
  BY <1>1, <1>4, NextStep DEF Carrying, Drafting, Bearing, Makers, Working
<1>5. CASE call[p].tool = "evaluate"
  <2>1. pc'[p] \in {"compute", "publish", "settled", "after", "bind"}
    BY <1>5, NextStep DEF Working
  <2>2. pc'[p] # "compute" => pc[p] \in Working \ {"before", "compute"}
    BY <1>5, NextStep DEF Working
  <2>. QED  BY <1>5, <2>1, <2>2 DEF Carrying, Drafting, Bearing, Makers
<1>6. CASE call[p].tool \in {"verifyStudy", "verifyBaseline", "verifyEvaluation"}
  <2>1. /\ pc[p] \in {"before", "stable", "after"} /\ call[p].tool \notin Makers
        /\ pc'[p] \in {"compute", "after", "append"}
        /\ pc[p] = "before" => pc'[p] = "compute"
    BY <1>6, NextStep DEF Makers
  <2>. QED  BY <1>1, <1>6, <2>1 DEF Carrying, Drafting, Bearing, Tools
<1>. QED  BY <1>1, <1>3, <1>4, <1>5, <1>6 DEF Tools

LEMMA FailCarries ==
    ASSUME Framed, NEW p \in Processes, Fails(p)
    PROVE  Drafting(p)' /\ Bearing(p)'
<1>1. call'[p].tool \in Tools /\ pc'[p] = "append"
  BY NextStep DEF Fails, Continues
<1>2. Drafting(p)'
  BY <1>1 DEF Drafting, Working
<1>3. Bearing(p)'
  BY <1>1 DEF Bearing, Fails, Continues, Made, Worth, Tools
<1>. QED  BY <1>2, <1>3

\* A result of a tool that succeeded says what it is given.
LEMMA SuccessShape ==
    ASSUME NEW c, NEW says
    PROVE  /\ Success(c, says).kind = "result" /\ Success(c, says).tool = c.tool
           /\ Success(c, says).resolved = c.resolved /\ Success(c, says).says = says
           /\ c.tool \in StudyTools =>
                 /\ Success(c, says).status = Outcome[says.market].status
                 /\ Success(c, says).warnings = Outcome[says.market].warnings
BY DEF Success, Result

LEMMA StudyWorth ==
    ASSUME DiskInv, IsBundle(disk.study), NEW c, c.tool \in StudyTools, NEW H
    PROVE  LET m == Success(c, disk.study) IN Worth(c.tool, m.status, m.says, m.warnings, H)
<1>1. PICK v \in Versions : disk.study.market = Evidence[v]
  BY DEF DiskInv
<1>2. /\ Outcome[disk.study.market].status \in {"complete", "incomplete", "failed"}
      /\ Outcome[disk.study.market].warnings \subseteq Classes
  BY <1>1, ToolAssumption
<1>. QED  BY <1>2, SuccessShape DEF Worth, StudyTools

\* The step that makes the result, and what the result must say.
LEMMA SuccessBears ==
    ASSUME NEW p \in Processes, NEW says, call[p].tool \in Tools,
           call'[p].tool = call[p].tool, call'[p].resolved = call[p].resolved,
           call'[p].made = Success(call[p], says), call'[p].base = call[p].base, log' = log,
           meddled' = meddled,
           LET m == Success(call[p], says)
           IN  Worth(call[p].tool, m.status, m.says, m.warnings, SubSeq(log, 1, call[p].base)),
           Describes(call[p], says, meddled[p])
    PROVE  Bearing(p)'
<1>1. Describes(call'[p], says, meddled'[p])
  <2>1. CASE call[p].tool = "run"  BY <2>1 DEF Describes
  <2>2. CASE call[p].tool = "generate"  BY <2>2 DEF Describes
  <2>3. CASE call[p].tool = "verifyStudy"  BY <2>3 DEF Describes
  <2>4. CASE call[p].tool = "verifyBaseline"  BY <2>4 DEF Describes
  <2>5. CASE call[p].tool = "evaluate"  BY <2>5 DEF Describes
  <2>6. CASE call[p].tool = "verifyEvaluation"  BY <2>6 DEF Describes
  <2>. QED  BY <2>1, <2>2, <2>3, <2>4, <2>5, <2>6 DEF Tools
<1>2. call[p].tool # "conclude"
  BY DEF Tools
<1>. QED  BY <1>1, <1>2, SuccessShape DEF Bearing

\* A verifier says what it has read, if it is what it identified.
LEMMA VerifierCarries ==
    ASSUME Framed, DiskInv, NEW p \in Processes, Carrying(p), disk' = disk, log' = log, meddled' = meddled,
           call[p].tool \in {"verifyStudy", "verifyBaseline", "verifyEvaluation"},
           pc[p] = "compute", pc'[p] = Successor(p), NEW says,
           call'[p].tool = call[p].tool, call'[p].resolved = call[p].resolved,
           call'[p].base = call[p].base, call'[p].made = Success(call[p], says),
           call[p].tool = "verifyStudy" => IsBundle(disk.study) /\ says = disk.study,
           call[p].tool = "verifyBaseline" =>
                says = disk.baseline /\ Attests(disk.baseline, call[p].resolved.db),
           call[p].tool = "verifyEvaluation" => says = disk.evaluation /\ IsBundle(disk.evaluation)
    PROVE  Drafting(p)' /\ Bearing(p)'
<1>1. Drafting(p)'
  BY DEF Drafting
<1>2. Identified(p) /\ call[p].tool \in Tools
  BY DEF Identified, Working, Tools
<1>3. Describes(call[p], says, meddled[p])
  <2>1. CASE call[p].tool = "verifyStudy"
    BY <1>2, <2>1 DEF Carrying, Holding, Describes
  <2>2. CASE call[p].tool = "verifyBaseline"
    BY <1>2, <2>2 DEF Carrying, Holding, Describes, Attests, IsBundle
  <2>3. CASE call[p].tool = "verifyEvaluation"
    BY <1>2, <2>3 DEF Carrying, Holding, Describes, IsBundle
  <2>. QED  BY <2>1, <2>2, <2>3
<1>4. LET m == Success(call[p], says)
      IN  Worth(call[p].tool, m.status, m.says, m.warnings, SubSeq(log, 1, call[p].base))
  <2>1. CASE call[p].tool = "verifyStudy"
    BY <2>1, StudyWorth DEF StudyTools
  <2>2. CASE call[p].tool \in {"verifyBaseline", "verifyEvaluation"}
    BY <2>2 DEF Worth, StudyTools, Makers
  <2>. QED  BY <2>1, <2>2
<1>. QED  BY <1>1, <1>2, <1>3, <1>4, SuccessBears

LEMMA JudgementMade ==
    ASSUME NEW r, NEW H, NEW changed
    PROVE  LET x == [request |-> r, verdict |-> Verdict(H, r, changed)]
           IN  IsJudgement(x, H) /\ x.request = r
<1>1. Verdict(H, r, changed).changed = changed
  BY DEF Verdict
<1>. QED  BY <1>1 DEF IsJudgement

\* A bundle that is made is one.
LEMMA BundlesReadable ==
    /\ \A policy, v : IsBundle(BaselineOf(policy, v))
    /\ \A spec, v : IsBundle(StudyOf(spec, v))
    /\ \A x, H : IsJudgement(x, H) => IsBundle(x)
<1>1. ASSUME NEW x, DOMAIN x \cap {"policy", "spec", "request"} # {} PROVE IsBundle(x)
  BY <1>1, ContentAssumption DEF IsBundle
<1>2. ASSUME NEW policy, NEW v PROVE IsBundle(BaselineOf(policy, v))
  <2>1. "policy" \in DOMAIN BaselineOf(policy, v)
    BY DEF BaselineOf
  <2>. QED  BY <1>1, <2>1
<1>3. ASSUME NEW spec, NEW v PROVE IsBundle(StudyOf(spec, v))
  <2>1. "spec" \in DOMAIN StudyOf(spec, v)
    BY DEF StudyOf
  <2>. QED  BY <1>1, <2>1
<1>4. ASSUME NEW x, NEW H, IsJudgement(x, H) PROVE IsBundle(x)
  <2>1. "request" \in DOMAIN [request |-> x.request, verdict |-> Verdict(H, x.request, x.verdict.changed)]
    OBVIOUS
  <2>2. "request" \in DOMAIN x
    BY <1>4, <2>1 DEF IsJudgement
  <2>. QED  BY <1>1, <2>2
<1>. QED  BY <1>2, <1>3, <1>4

\* The result of a maker is bound to what is in place.
LEMMA BindCarries ==
    ASSUME Framed, DiskInv, NEW p \in Processes, Carrying(p), Judging(p),
           disk' = disk, log' = log, meddled' = meddled,
           call[p].tool \in Makers, pc[p] = "bind", pc'[p] = Successor(p), NEW says,
           call'[p].tool = call[p].tool, call'[p].resolved = call[p].resolved,
           call'[p].base = call[p].base, call'[p].made = Success(call[p], says),
           IF call[p].tool = "run" THEN IsBundle(disk.study) /\ says = disk.study
                                   ELSE says = call[p].draft
    PROVE  Drafting(p)' /\ Bearing(p)'
<1>1. pc'[p] = "append" /\ call[p].tool \in Tools
  BY NextStep DEF Makers, Working
<1>2. Drafting(p)'
  BY <1>1 DEF Drafting, Working
<1>3. Describes(call[p], says, meddled[p])
  <2>1. CASE call[p].tool = "run"
    BY <2>1 DEF Carrying, Drafting, Describes
  <2>2. CASE call[p].tool = "generate"
    BY <2>2 DEF Carrying, Drafting, Describes
  <2>3. CASE call[p].tool = "evaluate"
    BY <2>3 DEF Judging, Describes, Working
  <2>. QED  BY <2>1, <2>2, <2>3 DEF Makers
<1>4. LET m == Success(call[p], says)
      IN  Worth(call[p].tool, m.status, m.says, m.warnings, SubSeq(log, 1, call[p].base))
  <2>1. CASE call[p].tool = "run"
    BY <2>1, StudyWorth DEF StudyTools
  <2>2. CASE call[p].tool = "generate"
    BY <2>2, SuccessShape, BundlesReadable DEF Worth, StudyTools, Carrying, Drafting
  <2>3. CASE call[p].tool = "evaluate"
    BY <2>3, SuccessShape, BundlesReadable DEF Worth, StudyTools, Carrying, Drafting, Working
  <2>. QED  BY <2>1, <2>2, <2>3 DEF Makers
<1>. QED  BY <1>1, <1>2, <1>3, <1>4, SuccessBears

LEMMA ConfirmCarries ==
    ASSUME CallInv, DiskInv, NEW p \in Processes, Carrying(p), Confirms(p) \/ Settle(p)
    PROVE  Drafting(p)' /\ Bearing(p)'
<1>1. /\ pc[p] \in {"before", "after", "stable", "settled"} /\ pc[p] \in Working
      /\ UNCHANGED <<disk, log, meddled>>
      /\ \/ Advance(p) /\ call' = call /\ (pc[p] = "after" /\ call[p].tool = "run" => Stable(call[p]))
         \/ Fail(p, "operational")
         \/ Fail(p, "integrity")
  BY DEF Confirms, CheckRun, CheckBaselineSource, CheckRequest, CheckEvaluation, CheckBaseline,
         Confirm, Settle, world, Working
<1>2. CASE Fail(p, "operational") \/ Fail(p, "integrity")
  BY <1>1, <1>2, Failing, FailCarries DEF CallInv
<1>3. CASE Advance(p) /\ call' = call /\ (pc[p] = "after" /\ call[p].tool = "run" => Stable(call[p]))
  <2>1. pc'[p] = Successor(p)
    BY <1>3 DEF Advance, Goto, CallInv, Framed
  <2>. QED  BY <1>1, <1>3, <2>1, AdvanceCarries DEF CallInv
<1>. QED  BY <1>1, <1>2, <1>3

LEMMA PublishCarries ==
    ASSUME CallInv, DiskInv, NEW p \in Processes, Carrying(p), Publishes(p)
    PROVE  Drafting(p)' /\ Bearing(p)'
<1>1. PICK tool \in Makers : Publish(p, tool)
  BY DEF Publishes, PublishStudy, PublishBaseline, PublishEvaluation, Makers
<1>2. /\ pc[p] = "publish" /\ pc[p] \in Working /\ call[p].tool = tool /\ UNCHANGED <<log, meddled>>
      /\ \/ Advance(p) /\ call' = call /\ disk' = [disk EXCEPT ![Output[tool]] = call[p].draft]
         \/ Fail(p, "conflict") /\ disk' = disk
  BY <1>1 DEF Publish, At, Working, world
<1>3. CASE Fail(p, "conflict") /\ disk' = disk
  BY <1>2, <1>3, Failing, FailCarries DEF CallInv
<1>4. CASE Advance(p) /\ call' = call /\ disk' = [disk EXCEPT ![Output[tool]] = call[p].draft]
  <2>1. pc'[p] = Successor(p)
    BY <1>4 DEF Advance, Goto, CallInv, Framed
  <2>2. disk'.db = disk.db /\ (tool = "run" => disk'.study = call[p].draft)
    BY <1>1, <1>4 DEF DiskInv, Paths, Output, Makers
  <2>. QED  BY <1>2, <1>4, <2>1, <2>2, AdvanceCarries DEF CallInv
<1>. QED  BY <1>2, <1>3, <1>4

LEMMA BindsCarry ==
    ASSUME CallInv, DiskInv, NEW p \in Processes, Carrying(p), Binds(p)
    PROVE  Drafting(p)' /\ Bearing(p)'
<1>1. /\ pc[p] = "bind" /\ pc[p] \in Working /\ UNCHANGED <<disk, log, meddled>>
      /\ call[p].tool \in Makers
  BY DEF Binds, BindStudy, BindBaseline, BindEvaluation, Bind, At, Working, world, Makers
<1>2. CASE Fail(p, "integrity") \/ Fail(p, "operational")
  BY <1>1, <1>2, Failing, FailCarries DEF CallInv
<1>3. ASSUME NEW says, Keep(p, "made", Success(call[p], says)), Advance(p),
             IF call[p].tool = "run" THEN IsBundle(disk.study) /\ says = disk.study
                                     ELSE says = call[p].draft
      PROVE  Drafting(p)' /\ Bearing(p)'
  <2>1. /\ call'[p].tool = call[p].tool /\ call'[p].base = call[p].base
        /\ call'[p].resolved = call[p].resolved /\ call'[p].made = Success(call[p], says)
    BY <1>3, Keeping DEF CallInv
  <2>2. pc'[p] = Successor(p)
    BY <1>3 DEF Advance, Goto, CallInv, Framed
  <2>. QED  BY <1>1, <1>3, <2>1, <2>2, BindCarries DEF CallInv
<1>. QED  BY <1>2, <1>3 DEF Binds, BindStudy, BindBaseline, BindEvaluation, Bind

LEMMA DraftsCarry ==
    ASSUME CallInv, DiskInv, NEW p \in Processes, Carrying(p),
           ComputeStudy(p) \/ ComputeBaseline(p) \/ Evaluate(p)
    PROVE  Drafting(p)' /\ Bearing(p)'
<1>1. /\ pc[p] = "compute" /\ pc[p] \in Working /\ UNCHANGED <<disk, log, meddled>> /\ Framed
  BY DEF ComputeStudy, ComputeBaseline, Evaluate, At, Working, world, CallInv
<1>2. CASE Fail(p, "integrity") \/ Fail(p, "data")
  BY <1>1, <1>2, Failing, FailCarries
<1>3. ASSUME ~(Fail(p, "integrity") \/ Fail(p, "data")) PROVE pc'[p] = Successor(p)
  BY <1>3 DEF ComputeStudy, ComputeBaseline, Evaluate, Advance, Goto, CallInv, Framed
<1>4. CASE ComputeStudy(p) /\ ~Fail(p, "data") /\ ~Fail(p, "integrity")
  <2>1. call[p].tool = "run" /\ Keep(p, "draft", StudyOf(call[p].resolved.spec, disk.db))
    BY <1>4 DEF ComputeStudy
  <2>2. /\ call'[p].tool = call[p].tool /\ call'[p].resolved = call[p].resolved
        /\ call'[p].draft = StudyOf(call[p].resolved.spec, disk.db)
    BY <1>1, <2>1, Keeping
  <2>3. pc'[p] = "after"
    BY <1>1, <1>3, <1>4, <2>1, NextStep
  <2>4. call[p].resolved.db <= disk.db /\ disk.db \in Versions
    BY <1>1, <2>1 DEF Carrying, Holding, Identified, Tools, DiskInv
  <2>5. disk.db <= disk.db
    BY <2>4, VersionsOrdered
  <2>. QED  BY <1>1, <2>1, <2>2, <2>3, <2>4, <2>5 DEF Drafting, Bearing, Makers
<1>5. CASE ComputeBaseline(p)
  <2>1. /\ call[p].tool = "generate"
        /\ Keep(p, "draft", BaselineOf(call[p].resolved.policy, call[p].resolved.db))
        /\ pc'[p] = Successor(p)
    BY <1>5 DEF ComputeBaseline, Advance, Goto, CallInv, Framed
  <2>2. /\ call'[p].tool = call[p].tool /\ call'[p].resolved = call[p].resolved
        /\ call'[p].draft = BaselineOf(call[p].resolved.policy, call[p].resolved.db)
    BY <1>1, <2>1, Keeping
  <2>3. pc'[p] = "publish"
    BY <1>1, <2>1, NextStep
  <2>. QED  BY <2>1, <2>2, <2>3 DEF Drafting, Bearing, Makers
<1>6. CASE Evaluate(p) /\ ~Fail(p, "data") /\ ~Fail(p, "integrity")
  <2>. DEFINE r == call[p].resolved.request
              H == SubSeq(log, 1, call[p].base)
              sources == Sources(Frozen(log, r), r)
              changed == Changed(Frozen(log, r), r)
  <2>1. /\ call[p].tool = "evaluate"
        /\ call' = [call EXCEPT ![p].draft = Evaluated(r), ![p].sources = sources]
    BY <1>6 DEF Evaluate
  <2>2. r.prefix = call[p].base
    BY <1>1, <2>1 DEF CallInv, Judging
  <2>3. Evaluated(r) = [request |-> r, verdict |-> Verdict(H, r, changed)]
    BY <2>2 DEF Evaluated, Frozen
  <2>4. IsJudgement(Evaluated(r), H)
    BY <2>3, JudgementMade
  <2>5. CallShape(call[p]) /\ call = [q \in Processes |-> call[q]]
    BY <1>1 DEF Framed
  <2>. HIDE DEF r, sources, changed
  <2>6. call'[p] = [tool |-> call[p].tool, base |-> call[p].base, resolved |-> call[p].resolved,
                    draft |-> Evaluated(r), sources |-> sources, made |-> call[p].made]
    BY <2>1, <2>5 DEF CallShape
  <2>7. call'[p].tool = "evaluate" /\ call'[p].base = call[p].base /\ call'[p].draft = Evaluated(r)
    BY <2>1, <2>6
  <2>8. pc'[p] = "stable"
    BY <1>1, <1>3, <1>6, <2>1, NextStep
  <2>. QED  BY <1>1, <2>4, <2>7, <2>8 DEF Drafting, Bearing, Makers
<1>. QED  BY <1>2, <1>4, <1>5, <1>6

LEMMA VerifiersCarry ==
    ASSUME CallInv, DiskInv, NEW p \in Processes, Carrying(p),
           ReadStudy(p) \/ ReadBaseline(p) \/ ReadEvaluation(p)
    PROVE  Drafting(p)' /\ Bearing(p)'
<1>1. /\ pc[p] = "compute" /\ pc[p] \in Working /\ UNCHANGED <<disk, log, meddled>> /\ Framed
  BY DEF ReadStudy, ReadBaseline, ReadEvaluation, At, Working, world, CallInv
<1>2. CASE Fail(p, "integrity")
  BY <1>1, <1>2, Failing, FailCarries
<1>3. ASSUME ReadStudy(p) \/ ReadBaseline(p), ~Fail(p, "integrity")
      PROVE  Drafting(p)' /\ Bearing(p)'
  <2>1. PICK says : /\ Keep(p, "made", Success(call[p], says)) /\ Advance(p)
                    /\ \/ call[p].tool = "verifyStudy" /\ IsBundle(disk.study) /\ says = disk.study
                       \/ /\ call[p].tool = "verifyBaseline" /\ says = disk.baseline
                          /\ Attests(disk.baseline, call[p].resolved.db)
    BY <1>3 DEF ReadStudy, ReadBaseline
  <2>2. /\ call'[p].tool = call[p].tool /\ call'[p].base = call[p].base
        /\ call'[p].resolved = call[p].resolved /\ call'[p].made = Success(call[p], says)
    BY <1>1, <2>1, Keeping
  <2>3. pc'[p] = Successor(p)
    BY <1>1, <2>1 DEF Advance, Goto, Framed
  <2>. QED  BY <1>1, <2>1, <2>2, <2>3, VerifierCarries
<1>4. ASSUME ReadEvaluation(p), ~Fail(p, "integrity")
      PROVE  Drafting(p)' /\ Bearing(p)'
  <2>. DEFINE r == disk.evaluation.request
              made == Success(call[p], disk.evaluation)
              sources == Sources(Frozen(log, r), r)
  <2>1. /\ call[p].tool = "verifyEvaluation" /\ IsBundle(disk.evaluation) /\ Advance(p)
        /\ call' = [call EXCEPT ![p].made = made, ![p].sources = sources]
    BY <1>4 DEF ReadEvaluation, Reverifies
  <2>2. CallShape(call[p]) /\ call = [q \in Processes |-> call[q]]
    BY <1>1 DEF Framed
  <2>3. pc'[p] = Successor(p)
    BY <1>1, <2>1 DEF Advance, Goto, Framed
  <2>. HIDE DEF r, made, sources
  <2>4. call'[p] = [tool |-> call[p].tool, base |-> call[p].base, resolved |-> call[p].resolved,
                    draft |-> call[p].draft, sources |-> sources, made |-> made]
    BY <2>1, <2>2 DEF CallShape
  <2>5. /\ call'[p].tool = call[p].tool /\ call'[p].base = call[p].base
        /\ call'[p].resolved = call[p].resolved /\ call'[p].made = made
    BY <2>4
  <2>6. call'[p].made = Success(call[p], disk.evaluation)
    BY <2>5 DEF made
  <2>. QED  BY <1>1, <2>1, <2>3, <2>5, <2>6, VerifierCarries
<1>. QED  BY <1>2, <1>3, <1>4

LEMMA FilesStay ==
    ASSUME DiskInv, disk' = disk, NEW q \in Processes, meddled[q] \subseteq meddled'[q]
    PROVE  DiskInv' /\ Evolves(q)
<1>1. disk.db <= disk.db
  BY VersionsOrdered DEF DiskInv
<1>. QED  BY <1>1 DEF DiskInv, Evolves

\* A bundle is published where there is none, or where it is.
LEMMA PublishEvolves ==
    ASSUME CallInv, DiskInv, NEW p \in Processes, Carrying(p), Publishes(p), NEW q \in Processes
    PROVE  DiskInv' /\ Evolves(q)
<1>1. PICK tool \in Makers : Publish(p, tool)
  BY DEF Publishes, PublishStudy, PublishBaseline, PublishEvaluation, Makers
<1>2. /\ pc[p] = "publish" /\ call[p].tool = tool /\ meddled' = meddled
      /\ \/ /\ disk[Output[tool]] \in {Absent, call[p].draft}
            /\ disk' = [disk EXCEPT ![Output[tool]] = call[p].draft]
         \/ disk' = disk
  BY <1>1 DEF Publish, At, world, Vacant
<1>3. CASE disk' = disk
  BY <1>2, <1>3, FilesStay
<1>4. CASE /\ disk[Output[tool]] \in {Absent, call[p].draft}
           /\ disk' = [disk EXCEPT ![Output[tool]] = call[p].draft]
  <2>1. Output[tool] = (IF tool = "run" THEN "study"
                        ELSE IF tool = "generate" THEN "baseline" ELSE "evaluation")
    BY DEF Output, Makers
  <2>2. ASSUME tool = "run" PROVE \E v \in Versions : call[p].draft.market = Evidence[v]
    <3>1. call[p].draft = StudyOf(call[p].resolved.spec, call[p].resolved.db)
      BY <1>2, <2>2 DEF Carrying, Drafting
    <3>2. call[p].resolved.db \in Versions
      BY <1>2, <2>2 DEF Carrying, Holding, Identified, Working, Tools
    <3>. QED  BY <3>1, <3>2 DEF StudyOf
  <2>3. disk.db <= disk.db
    BY VersionsOrdered DEF DiskInv
  <2>4. DOMAIN disk' = Paths /\ disk'.db = disk.db
    BY <1>4, <2>1 DEF DiskInv, Paths
  <2>5. \A x \in Paths : disk'[x] = IF x = Output[tool] THEN call[p].draft ELSE disk[x]
    BY <1>4 DEF DiskInv
  <2>6. DiskInv'
    BY <2>1, <2>2, <2>4, <2>5 DEF DiskInv, Paths
  <2>7. Evolves(q)
    BY <1>2, <1>4, <2>1, <2>3, <2>4, <2>5 DEF DiskInv, Evolves, Paths
  <2>. QED  BY <2>6, <2>7
<1>. QED  BY <1>2, <1>3, <1>4

\* What a step of p leaves of the files and of the other calls.
Beside(p) ==
    /\ DiskInv'
    /\ \A q \in Processes \ {p} : Evolves(q) /\ pc'[q] = pc[q] /\ call'[q] = call[q]

LEMMA ExecutionCarries ==
    ASSUME CallInv, DiskInv, Grows, NEW p \in Processes, Carrying(p), Executes(p)
    PROVE  Carrying(p)' /\ Beside(p)
<1>1. Continues(p)
  BY ExecutionWorks DEF Works, Fails, Prepares, Makes
<1>2. Drafting(p)' /\ Bearing(p)'
  <2>1. CASE RejectBaseline(p)
    BY <2>1, RejectStep, FailCarries DEF CallInv
  <2>2. CASE Computes(p)
    BY <2>2, DraftsCarry, VerifiersCarry DEF Computes
  <2>. QED  BY <2>1, <2>2, ConfirmCarries, PublishCarries, BindsCarry DEF Executes
<1>3. DiskInv' /\ \A q \in Processes : Evolves(q)
  <2>1. CASE Publishes(p)
    BY <2>1, PublishEvolves
  <2>2. CASE ~Publishes(p)
    <3>1. disk' = disk /\ meddled' = meddled
      BY <2>2 DEF Executes, Confirms, CheckRun, CheckBaselineSource, CheckRequest, CheckEvaluation,
                  CheckBaseline, Confirm, Settle, RejectBaseline, Computes, ComputeStudy,
                  ComputeBaseline, ReadStudy, ReadBaseline, Evaluate, ReadEvaluation, Binds,
                  BindStudy, BindBaseline, BindEvaluation, Bind, world
    <3>. QED  BY <3>1, FilesStay
  <2>. QED  BY <2>1, <2>2
<1>4. \A q \in Processes \ {p} : pc'[q] = pc[q] /\ call'[q] = call[q]
  BY <1>1 DEF Continues, Apart, CallInv, Framed
<1>5. Holding(p)'
  BY <1>1, <1>3, HoldingStays DEF Continues, Identified, Working, Carrying, CallInv, Framed, OnPlan
<1>6. Fresh(p)'
  BY <1>1, FreshStays DEF Continues, Working, Carrying
<1>. QED  BY <1>2, <1>3, <1>4, <1>5, <1>6 DEF Carrying, Beside

\* A call that has ended holds nothing.
LEMMA IdleCarries ==
    ASSUME NEW p \in Processes, pc'[p] = "idle"
    PROVE  Carrying(p)'
BY DEF Carrying, Holding, Identified, Drafting, Bearing, Fresh, Makers, Working

\* A step that reads, and touches nothing but its call.
LEMMA BesideReading ==
    ASSUME CallInv, DiskInv, NEW p \in Processes, disk' = disk,
           pc' = [pc EXCEPT ![p] = pc'[p]], call' = [call EXCEPT ![p] = call'[p]],
           meddled' = [meddled EXCEPT ![p] = meddled'[p]]
    PROVE  Beside(p)
<1>1. \A q \in Processes \ {p} : pc'[q] = pc[q] /\ call'[q] = call[q] /\ meddled'[q] = meddled[q]
  BY DEF CallInv, Framed
<1>2. \A q \in Processes \ {p} : Evolves(q)
  BY <1>1, FilesStay
<1>3. DiskInv'
  BY DEF DiskInv
<1>. QED  BY <1>1, <1>2, <1>3 DEF Beside

LEMMA LeaveCarries ==
    ASSUME CallInv, DiskInv, NEW p \in Processes, Leave(p), disk' = disk
    PROVE  Carrying(p)' /\ Beside(p)
<1>1. /\ pc'[p] = "idle"
      /\ pc' = [pc EXCEPT ![p] = pc'[p]]
      /\ call' = [call EXCEPT ![p] = call'[p]]
      /\ meddled' = [meddled EXCEPT ![p] = meddled'[p]]
  BY DEF Leave, Goto, CallInv, Framed
<1>. QED  BY <1>1, IdleCarries, BesideReading

LEMMA OpenCarries ==
    ASSUME CallInv, DiskInv, Grows, NEW p \in Processes, Open(p)
    PROVE  Carrying(p)' /\ Beside(p)
<1>1. PICK tool \in Tools \cup {"conclude"} :
          /\ call' = [call EXCEPT ![p] = [Nothing EXCEPT !.tool = tool, !.base = Len(log)]]
          /\ Goto(p, IF tool = "conclude" THEN "append" ELSE "identify")
  BY DEF Open
<1>2. /\ call'[p].tool = tool /\ call'[p].base = Len(log) /\ call'[p].made = None
      /\ pc'[p] = (IF tool = "conclude" THEN "append" ELSE "identify")
      /\ pc' = [pc EXCEPT ![p] = pc'[p]] /\ call' = [call EXCEPT ![p] = call'[p]]
      /\ meddled' = [meddled EXCEPT ![p] = meddled'[p]]
  BY <1>1 DEF Goto, CallInv, Framed, Nothing, Open
<1>3. Holding(p)' /\ Drafting(p)' /\ Bearing(p)'
  BY <1>2 DEF Holding, Identified, Drafting, Bearing, Working, Tools, Makers
<1>4. Fresh(p)'
  BY <1>2 DEF Fresh, Grows, Working
<1>. QED  BY <1>2, <1>3, <1>4, BesideReading DEF Carrying, Open

\* What has been identified is what was on disk.
LEMMA ResolveCarries ==
    ASSUME CallInv, DiskInv, Grows, NEW p \in Processes, Carrying(p), log' = log,
           NEW tool \in Tools, NEW refused,
           NEW next \in {"acquire", "reuse"}, Resolve(p, tool, refused, next),
           tool \in {"run", "generate"} => next = "acquire",
           ~refused /\ tool \in {"run", "verifyBaseline"} => disk.baseline # Absent,
           ~refused /\ tool = "verifyStudy" => disk.study # Absent,
           ~refused /\ tool = "verifyEvaluation" => disk.evaluation # Absent
    PROVE  Carrying(p)' /\ Beside(p)
<1>1. CASE Leave(p)
  BY <1>1, LeaveCarries DEF Resolve
<1>2. CASE ~Leave(p)
  <2>1. /\ pc[p] = "identify" /\ call[p].tool = tool /\ ~refused /\ disk' = disk /\ meddled' = meddled
        /\ Keep(p, "resolved", [x \in Inputs[tool] |-> disk[x]]) /\ Goto(p, next)
    BY <1>2 DEF Resolve, At
  <2>2. /\ call' = [call EXCEPT ![p] = call'[p]]
        /\ call'[p].tool = call[p].tool /\ call'[p].base = call[p].base
        /\ call'[p].resolved = [x \in Inputs[tool] |-> disk[x]]
    BY <2>1, Keeping DEF CallInv
  <2>3. /\ pc'[p] = next /\ pc' = [pc EXCEPT ![p] = pc'[p]]
        /\ meddled' = [meddled EXCEPT ![p] = meddled'[p]]
    BY <2>1 DEF Goto, CallInv, Framed
  <2>4. Holding(p)'
    <3>1. \A x \in Inputs[tool] : call'[p].resolved[x] = disk[x] /\ x \in DOMAIN call'[p].resolved
      BY <2>2
    <3>2. DOMAIN call'[p].resolved = Inputs[tool] /\ "db" \notin Inputs[tool]
      BY <2>2 DEF Inputs, Tools
    <3>3. /\ tool \in {"run", "verifyBaseline"} => "baseline" \in Inputs[tool]
          /\ tool = "verifyStudy" => "study" \in Inputs[tool]
          /\ tool = "verifyEvaluation" => "evaluation" \in Inputs[tool]
      BY DEF Inputs
    <3>. QED  BY <2>1, <2>2, <2>3, <3>1, <3>2, <3>3 DEF Holding
  <2>5. Drafting(p)' /\ Bearing(p)'
    BY <2>3 DEF Drafting, Bearing, Working, Makers
  <2>6. Fresh(p)'
    BY <2>1, <2>2, <2>3 DEF Carrying, Fresh, Working
  <2>. QED  BY <2>1, <2>2, <2>3, <2>4, <2>5, <2>6, BesideReading DEF Carrying
<1>. QED  BY <1>1, <1>2

LEMMA IdentifyCarries ==
    ASSUME CallInv, DiskInv, Grows, NEW p \in Processes, Carrying(p),
           \/ ResolveRun(p) \/ ResolveGenerate(p) \/ ResolveVerify(p) \/ ResolveBaselineVerify(p)
           \/ ResolveEvaluate(p) \/ ResolveEvaluationVerify(p)
    PROVE  Carrying(p)' /\ Beside(p)
<1>1. log' = log
  BY DEF ResolveRun, ResolveGenerate, ResolveVerify, ResolveBaselineVerify, ResolveEvaluate,
         ResolveEvaluationVerify, Resolve
<1>2. CASE ResolveRun(p)
  BY <1>1, <1>2, ResolveCarries DEF ResolveRun, Tools, IsBundle
<1>3. CASE ResolveGenerate(p)
  BY <1>1, <1>3, ResolveCarries DEF ResolveGenerate, Tools
<1>4. CASE ResolveVerify(p)
  BY <1>1, <1>4, ResolveCarries DEF ResolveVerify, Tools
<1>5. CASE ResolveBaselineVerify(p)
  BY <1>1, <1>5, ResolveCarries DEF ResolveBaselineVerify, Tools
<1>6. CASE ResolveEvaluate(p)
  BY <1>1, <1>6, ResolveCarries DEF ResolveEvaluate, Tools
<1>7. CASE ResolveEvaluationVerify(p)
  BY <1>1, <1>7, ResolveCarries DEF ResolveEvaluationVerify, Tools
<1>. QED  BY <1>2, <1>3, <1>4, <1>5, <1>6, <1>7

LEMMA AcquireCarries ==
    ASSUME CallInv, DiskInv, Grows, NEW p \in Processes, Carrying(p), Acquire(p)
    PROVE  Carrying(p)' /\ Beside(p)
<1>1. CASE Leave(p)
  BY <1>1, LeaveCarries DEF Acquire
<1>2. CASE ~Leave(p)
  <2>. DEFINE inputs == Inputs[call[p].tool]
              resolved == [x \in inputs \cup {"db"} |->
                              IF x = "db" THEN disk.db ELSE call[p].resolved[x]]
  <2>1. /\ Keep(p, "resolved", resolved)
        /\ Goto(p, "reuse") /\ UNCHANGED <<meddled, disk, log>> /\ pc[p] = "acquire"
    BY <1>2 DEF Acquire, At
  <2>2. call[p].tool \in Tools
    BY <2>1 DEF CallInv, Framed, OnPlan
  <2>3. /\ DOMAIN resolved = inputs \cup {"db"} /\ resolved.db = disk.db
        /\ \A x \in inputs : resolved[x] = call[p].resolved[x]
    BY <2>2 DEF Inputs, Tools
  <2>. HIDE DEF resolved
  <2>4. /\ call' = [call EXCEPT ![p] = call'[p]]
        /\ call'[p].tool = call[p].tool /\ call'[p].base = call[p].base
        /\ call'[p].resolved = resolved
    BY <2>1, Keeping DEF CallInv
  <2>5. /\ pc'[p] = "reuse" /\ pc' = [pc EXCEPT ![p] = pc'[p]]
        /\ meddled' = [meddled EXCEPT ![p] = meddled'[p]]
    BY <2>1 DEF Goto, CallInv, Framed
  <2>6. Identified(p)
    BY <2>1, <2>2 DEF Identified
  <2>7. disk.db \in Versions /\ disk.db <= disk.db
    BY VersionsOrdered DEF DiskInv
  <2>8. /\ call[p].tool \in {"run", "verifyBaseline"} => "baseline" \in inputs
        /\ call[p].tool = "verifyStudy" => "study" \in inputs
        /\ call[p].tool = "verifyEvaluation" => "evaluation" \in inputs
    BY DEF Inputs
  <2>9. Holding(p)'
    BY <2>1, <2>3, <2>4, <2>5, <2>6, <2>7, <2>8 DEF Carrying, Holding
  <2>10. Drafting(p)' /\ Bearing(p)'
    BY <2>5 DEF Drafting, Bearing, Working, Makers
  <2>11. Fresh(p)'
    BY <2>1, <2>4, <2>5 DEF Carrying, Fresh, Working
  <2>. QED  BY <2>1, <2>4, <2>5, <2>9, <2>10, <2>11, BesideReading DEF Carrying
<1>. QED  BY <1>1, <1>2

LEMMA ReuseCarries ==
    ASSUME CallInv, DiskInv, Grows, NEW p \in Processes, Carrying(p), Reuse(p)
    PROVE  Carrying(p)' /\ Beside(p)
<1>1. CASE Leave(p)
  BY <1>1, LeaveCarries DEF Reuse
<1>2. CASE ~Leave(p)
  <2>. DEFINE c == call[p]
              earlier == {n \in 1..c.base : /\ log[n].kind = "result" /\ log[n].tool = c.tool
                                            /\ log[n].resolved = c.resolved}
  <2>1. /\ pc[p] = "reuse" /\ ~(\E n \in earlier : CanReuse(c, log[n]))
        /\ Goto(p, Head(Plan[c.tool])) /\ UNCHANGED <<disk, log, call, meddled>>
    BY <1>2 DEF Reuse, At
  <2>2. c.tool \in Tools
    BY <2>1 DEF CallInv, Framed, OnPlan, Working
  <2>3. /\ pc'[p] = Head(Plan[c.tool]) /\ pc' = [pc EXCEPT ![p] = pc'[p]]
        /\ call' = [call EXCEPT ![p] = call'[p]] /\ meddled' = [meddled EXCEPT ![p] = meddled'[p]]
    BY <2>1 DEF Goto, CallInv, Framed
  <2>4. pc'[p] \in {"before", "compute"}
    BY <2>2, <2>3 DEF Plan, Tools
  <2>5. Identified(p)
    BY <2>1, <2>2 DEF Identified
  <2>6. Holding(p)'
    BY <2>1, <2>5 DEF Carrying, Holding
  <2>7. Drafting(p)' /\ Bearing(p)'
    BY <2>2, <2>4 DEF Drafting, Bearing, Working, Makers
  <2>8. ASSUME c.tool \in {"run", "verifyStudy"}
        PROVE  \A n \in Results(log) : n <= c.base /\ log[n].tool = c.tool => log[n].resolved # c.resolved
    <3>1. \A n : CanReuse(c, log[n])
      BY <2>8 DEF CanReuse
    <3>2. earlier = {}
      BY <2>1, <3>1
    <3>3. ASSUME NEW n \in Results(log), n <= c.base PROVE n \in 1..c.base /\ log[n].kind = "result"
      <4>1. c.base \in Nat
        BY <2>1 DEF Carrying, Fresh, Grows
      <4>. QED  BY <3>3, <4>1 DEF Results, Grows
    <3>. QED  BY <3>2, <3>3
  <2>9. Fresh(p)'
    BY <2>1, <2>8 DEF Carrying, Fresh
  <2>. QED  BY <2>1, <2>3, <2>6, <2>7, <2>9, BesideReading DEF Carrying
<1>. QED  BY <1>1, <1>2

\* A change by others that keeps to the rules: databases grow, bundles are only damaged or,
\* for a study, made again; and who rewrites a bundle is known to have done so.
LEMMA WriteCarries ==
    ASSUME CallInv, DiskInv, Grows, NEW x \in Paths, NEW content, NEW rewrite \in BOOLEAN,
           Write(x, content, rewrite),
           x = "db" => content \in Versions /\ disk.db <= content,
           x \in {"baseline", "evaluation"} => content = Damaged,
           x = "study" => rewrite /\ (content = Damaged
                                        \/ \E v \in Versions : content.market = Evidence[v])
    PROVE  DiskInv' /\ \A p \in Processes : Carrying(p) => Carrying(p)'
<1>1. /\ disk' = [disk EXCEPT ![x] = content] /\ pc' = pc /\ call' = call
      /\ meddled' = [p \in Processes |->
                       IF rewrite /\ pc[p] # "idle" THEN meddled[p] \cup {x} ELSE meddled[p]]
  BY DEF Write
<1>2. disk.db <= disk.db
  BY VersionsOrdered DEF DiskInv
<1>3. DOMAIN disk' = Paths /\ \A y \in Paths : disk'[y] = IF y = x THEN content ELSE disk[y]
  BY <1>1 DEF DiskInv
<1>4. DiskInv'
  BY <1>3 DEF DiskInv, Paths, IsBundle
<1>5. ASSUME NEW p \in Processes, pc[p] # "idle" PROVE Evolves(p)
  <2>1. /\ meddled[p] \subseteq meddled'[p]
        /\ x = "study" => "study" \in meddled'[p]
    BY <1>1, <1>5
  <2>. QED  BY <1>2, <1>3, <2>1 DEF Evolves, DiskInv, Paths
<1>6. ASSUME NEW p \in Processes, Carrying(p) PROVE Carrying(p)'
  <2>1. CASE pc[p] = "idle"
    BY <1>1, <2>1, IdleCarries
  <2>2. CASE pc[p] # "idle"
    BY <1>1, <1>5, <1>6, <2>2, CarryingStays
  <2>. QED  BY <2>1, <2>2
<1>. QED  BY <1>4, <1>6

LEMMA OthersCarry ==
    ASSUME CallInv, DiskInv, Grows, Others
    PROVE  DiskInv' /\ \A p \in Processes : Carrying(p) => Carrying(p)'
<1>1. CASE ChangeDatabase
  <2>1. PICK v \in Versions : v > disk.db /\ Write("db", v, barrier # Free)
    BY <1>1 DEF ChangeDatabase
  <2>2. v \in Versions /\ disk.db <= v
    <3>1. v \in Nat /\ disk.db \in Nat
      BY ToolAssumption DEF DiskInv
    <3>. QED  BY <2>1, <3>1
  <2>. QED  BY <2>1, <2>2, WriteCarries DEF Paths
<1>2. CASE EditPolicy
  BY <1>2, WriteCarries DEF EditPolicy, Paths
<1>3. CASE EditSpec
  BY <1>3, WriteCarries DEF EditSpec, Paths
<1>4. CASE WriteRequest
  <2>1. PICK r \in Drafts(log) : Write("request", r, FALSE)
    BY <1>4 DEF WriteRequest
  <2>. QED  BY <2>1, WriteCarries DEF Paths
<1>5. CASE Replace
  <2>1. CASE \E x \in {"study", "baseline", "evaluation"} : Write(x, Damaged, TRUE)
    BY <2>1, WriteCarries DEF Paths
  <2>2. CASE Write("study", StudyOf(disk.spec, disk.db), TRUE)
    <3>1. \E v \in Versions : StudyOf(disk.spec, disk.db).market = Evidence[v]
      BY DEF StudyOf, DiskInv
    <3>. QED  BY <2>2, <3>1, WriteCarries DEF Paths
  <2>. QED  BY <1>5, <2>1, <2>2 DEF Replace
<1>. QED  BY <1>1, <1>2, <1>3, <1>4, <1>5 DEF Others

\* All calls go on as they were where one of them steps.
LEMMA StepsCarry ==
    ASSUME CallInv, DiskInv, Grows, NEW p \in Processes, \A q \in Processes : Carrying(q), Steps(p)
    PROVE  DiskInv' /\ \A q \in Processes : Carrying(q)'
<1>1. Carrying(p)' /\ Beside(p)
  <2>1. CASE Open(p)  BY <2>1, OpenCarries
  <2>2. CASE Acquire(p)  BY <2>2, AcquireCarries
  <2>3. CASE Reuse(p)  BY <2>3, ReuseCarries
  <2>4. CASE Crash(p)  BY <2>4, LeaveCarries DEF Crash
  <2>5. CASE \/ ResolveRun(p) \/ ResolveGenerate(p) \/ ResolveVerify(p) \/ ResolveBaselineVerify(p)
             \/ ResolveEvaluate(p) \/ ResolveEvaluationVerify(p)
    BY <2>5, IdentifyCarries
  <2>6. CASE Executes(p)  BY <2>6, ExecutionCarries
  <2>. QED  BY <2>1, <2>2, <2>3, <2>4, <2>5, <2>6
            DEF Steps, Executes, Confirms, Computes, Publishes, Binds
<1>2. \A q \in Processes \ {p} : Carrying(q)'
  BY <1>1, CarryingStays DEF Beside
<1>. QED  BY <1>1, <1>2 DEF Beside

-----------------------------------------------------------------------------
\* What a session has recorded stays true as it grows

\* The event of a call that ends with a result.
LEMMA EventMade ==
    ASSUME CallInv, NEW p \in Processes, Carrying(p), pc[p] = "append", call[p].tool \in Tools,
           NEW n
    PROVE  LET e == Numbered(n, call[p].made)
           IN  /\ e.kind = "result" /\ e.tool = call[p].tool /\ e.resolved = call[p].resolved
               /\ e.status = call[p].made.status /\ e.says = call[p].made.says
               /\ e.warnings = call[p].made.warnings /\ e.attempt = n
<1>1. Made(call[p].tool, call[p].made)
  <2>1. CASE call[p].tool \in Makers
    BY <2>1 DEF CallInv, Judging
  <2>2. CASE call[p].tool \in Tools \ Makers
    BY <2>2 DEF CallInv, Judging
  <2>. QED  BY <2>1, <2>2
<1>2. call[p].made.kind = "result" /\ call[p].made.tool = call[p].tool
      /\ call[p].made.resolved = call[p].resolved
  BY DEF Carrying, Bearing
<1>. QED  BY <1>1, <1>2 DEF Made, Numbered

\* An entry may be added: of the call's inputs as they were identified, judging the session
\* as it is.
LEMMA EntryMade ==
    ASSUME CallInv, NEW p \in Processes, Carrying(p), pc[p] = "append", call[p].tool \in Tools
    PROVE  LET c == call[p]
           IN  /\ c.tool = "evaluate" => c.resolved.request.prefix = c.base
               /\ \A x \in Immutable[c.tool] : c.resolved[x] # Absent
               /\ Worth(c.tool, c.made.status, c.made.says, c.made.warnings, SubSeq(log, 1, c.base))
<1>1. Identified(p)
  BY DEF Identified
<1>2. call[p].tool = "evaluate" => call[p].resolved.request.prefix = call[p].base
  BY DEF CallInv, Judging
<1>3. \A x \in Immutable[call[p].tool] : call[p].resolved[x] # Absent
  BY <1>1 DEF Carrying, Holding, Immutable, Tools
<1>. QED  BY <1>2, <1>3 DEF Carrying, Bearing

LEMMA AttemptsFinite ==
    ASSUME Len(log) \in Nat, NEW t
    PROVE  IsFiniteSet(Attempts(t)) /\ Cardinality(Attempts(t)) \in Nat
<1>1. IsFiniteSet(1..Len(log)) /\ Attempts(t) \in SUBSET (1..Len(log))
  BY FS_Interval DEF Attempts, Results
<1>. QED  BY <1>1, FS_Subset, FS_CardinalityType

\* The number of an attempt is one more than there are.
LEMMA AttemptNumber ==
    ASSUME NEW S, log \in Seq(S), Numbering, NEW c, c.tool \in Tools, c.base = Len(log)
    PROVE  Attempt(c) = 1 + Cardinality(Attempts(c.tool))
<1>. DEFINE A == Attempts(c.tool)
            numbers == {0} \cup {log[n].attempt : n \in A}
<1>1. SubSeq(log, 1, c.base) = log /\ Len(log) \in Nat
  BY SubSeqFull
<1>2. Attempt(c) = 1 + Max(numbers)
  BY <1>1 DEF Attempt, Attempts
<1>3. IsFiniteSet(A) /\ Cardinality(A) \in Nat
  BY <1>1, AttemptsFinite
<1>4. ASSUME NEW n \in A PROVE log[n].attempt \in Nat /\ log[n].attempt <= Cardinality(A)
  <2>1. log[n].attempt = Cardinality({m \in A : m <= n})
    BY DEF Numbering
  <2>2. {m \in A : m <= n} \in SUBSET A
    OBVIOUS
  <2>3. /\ IsFiniteSet({m \in A : m <= n})
        /\ Cardinality({m \in A : m <= n}) <= Cardinality(A)
    BY <1>3, <2>2, FS_Subset
  <2>. QED  BY <2>1, <2>3, FS_CardinalityType
<1>5. Cardinality(A) \in numbers
  <2>1. CASE A = {}
    BY <2>1, FS_EmptySet
  <2>2. CASE A # {}
    BY <2>2 DEF Numbering
  <2>. QED  BY <2>1, <2>2
<1>6. \A k \in numbers : k \in Nat /\ k <= Cardinality(A)
  BY <1>3, <1>4
<1>. HIDE DEF numbers, A
<1>7. Max(numbers) = Cardinality(A)
  <2>1. Max(numbers) \in numbers /\ \A k \in numbers : Max(numbers) >= k
    BY <1>3, <1>5, <1>6 DEF Max
  <2>. QED  BY <1>3, <1>5, <1>6, <2>1
<1>. QED  BY <1>2, <1>7 DEF A

\* What is said of the events of a session does not change when one is added.
LEMMA EntriesStay ==
    ASSUME Grows, NEW n \in Results(log), Entry(n)
    PROVE  n \in Results(log') /\ log'[n] = log[n] /\ Entry(n)'
<1>1. n \in 1..Len(log) /\ n - 1 \in 0..Len(log) /\ n \in 1..Len(log')
  BY DEF Results, Grows
<1>2. log'[n] = log[n] /\ SubSeq(log', 1, n - 1) = SubSeq(log, 1, n - 1)
  BY <1>1 DEF Grows
<1>. QED  BY <1>1, <1>2 DEF Entry, Results

\* A conclusion is no attempt.
LEMMA ConclusionRecorded ==
    ASSUME NEW S, log \in Seq(S), Grows, Recorded, log' = Append(log, Conclusion)
    PROVE  Recorded'
<1>1. /\ Len(log) \in Nat /\ Len(log') = Len(log) + 1 /\ log'[Len(log) + 1].kind = "conclusion"
      /\ \A n \in 1..Len(log) : log'[n] = log[n]
  BY DEF Conclusion
<1>2. Results(log') = Results(log) /\ \A n \in Results(log) : log'[n] = log[n]
  BY <1>1 DEF Results
<1>3. \A t : Attempts(t)' = Attempts(t)
  BY <1>2 DEF Attempts
<1>4. \A t : \A n \in Attempts(t) : log'[n] = log[n]
  BY <1>2 DEF Attempts
<1>5. Numbering'
  BY <1>3, <1>4 DEF Recorded, Numbering
<1>6. Distinct'
  <2>. SUFFICES \A m, n \in Results(log') :
                    m < n /\ log'[m].tool = log'[n].tool
                          /\ log'[m].tool \in {"run", "verifyStudy", "evaluate"}
                        => log'[m].resolved # log'[n].resolved
    BY Zenon DEF Distinct
  <2>. TAKE m, n \in Results(log')
  <2>. HAVE /\ m < n /\ log'[m].tool = log'[n].tool
            /\ log'[m].tool \in {"run", "verifyStudy", "evaluate"}
  <2>1. log'[m] = log[m] /\ log'[n] = log[n] /\ m \in Results(log) /\ n \in Results(log)
    BY <1>2
  <2>2. Distinct
    BY DEF Recorded
  <2>. QED  BY <2>1, <2>2 DEF Distinct
<1>7. \A n \in Results(log') : Entry(n)'
  BY <1>2, EntriesStay DEF Recorded
<1>. QED  BY <1>5, <1>6, <1>7 DEF Recorded

\* A result is recorded once: it is the next attempt of its request, and where results are
\* always reused it is the first of its inputs.
LEMMA ResultRecorded ==
    ASSUME CallInv, NEW S, log \in Seq(S), Grows, Recorded, NEW p \in Processes, Carrying(p),
           pc[p] = "append", call[p].tool \in Tools, call[p].base = Len(log), NEW e,
           e = Numbered(Attempt(call[p]), call[p].made), log' = Append(log, e)
    PROVE  Recorded'
<1>. DEFINE c == call[p]
<1>0. PICK N \in Nat : N = Len(log) + 1
  OBVIOUS
<1>1. /\ e.kind = "result" /\ e.tool = c.tool /\ e.resolved = c.resolved
      /\ e.status = c.made.status /\ e.says = c.made.says /\ e.warnings = c.made.warnings
      /\ e.attempt = Attempt(c)
  BY EventMade
<1>2. Attempt(c) = 1 + Cardinality(Attempts(c.tool))
  BY AttemptNumber DEF Recorded
<1>3. Len(log) \in Nat /\ Len(log') = N /\ log'[N] = e /\ \A n \in 1..Len(log) : log'[n] = log[n]
  BY <1>0
<1>4. /\ Results(log') = Results(log) \cup {N} /\ \A n \in Results(log) : log'[n] = log[n]
      /\ \A n \in Results(log) : n \in 1..Len(log)
  BY <1>0, <1>1, <1>3 DEF Results
<1>5. Entry(N)'
  <2>1. N - 1 = Len(log) /\ Len(log) \in 0..Len(log)
    BY <1>0, <1>3
  <2>2. SubSeq(log', 1, N - 1) = SubSeq(log, 1, c.base)
    BY <2>1 DEF Grows
  <2>3. /\ c.tool = "evaluate" => c.resolved.request.prefix = c.base
        /\ \A x \in Immutable[c.tool] : c.resolved[x] # Absent
        /\ Worth(c.tool, c.made.status, c.made.says, c.made.warnings, SubSeq(log, 1, c.base))
    BY EntryMade
  <2>4. /\ log'[N].tool = c.tool /\ log'[N].resolved = c.resolved
        /\ log'[N].status = c.made.status /\ log'[N].says = c.made.says
        /\ log'[N].warnings = c.made.warnings
    BY <1>1, <1>3
  <2>. HIDE DEF c
  <2>5. Worth(log'[N].tool, log'[N].status, log'[N].says, log'[N].warnings, SubSeq(log', 1, N - 1))
    BY <2>2, <2>3, <2>4
  <2>6. log'[N].tool \in Tools
    BY <2>4 DEF c
  <2>7. log'[N].tool = "evaluate" => log'[N].resolved.request.prefix = N - 1
    BY <2>1, <2>3, <2>4 DEF c
  <2>8. \A x \in Immutable[log'[N].tool] : log'[N].resolved[x] # Absent
    BY <2>3, <2>4
  <2>. QED  BY <2>5, <2>6, <2>7, <2>8 DEF Entry
<1>6. \A n \in Results(log') : Entry(n)'
  BY <1>4, <1>5, EntriesStay DEF Recorded
<1>7. Numbering'
  <2>. SUFFICES ASSUME NEW t \in Tools
                PROVE  /\ \A n \in Attempts(t)' :
                              log'[n].attempt = Cardinality({m \in Attempts(t)' : m <= n})
                       /\ Attempts(t)' # {} =>
                              \E n \in Attempts(t)' : log'[n].attempt = Cardinality(Attempts(t)')
    BY DEF Numbering
  <2>. DEFINE A == Attempts(t)
  <2>1. \A n \in A : n \in 1..Len(log) /\ log'[n] = log[n] /\ n \in Int /\ n < N
    BY <1>0, <1>3, <1>4 DEF Attempts
  <2>2. IsFiniteSet(A) /\ Cardinality(A) \in Nat
    BY <1>3, AttemptsFinite
  <2>3. /\ \A n \in A : log[n].attempt = Cardinality({m \in A : m <= n})
        /\ A # {} => \E n \in A : log[n].attempt = Cardinality(A)
    BY DEF Recorded, Numbering
  <2>4. CASE t # c.tool
    <3>1. Attempts(t)' = A
      BY <1>1, <1>3, <1>4, <2>4 DEF Attempts
    <3>. QED  BY <2>1, <2>3, <3>1
  <2>5. CASE t = c.tool
    <3>1. Attempts(t)' = A \cup {N} /\ N \notin A /\ N \in Int
      BY <1>1, <1>3, <1>4, <2>1, <2>5 DEF Attempts
    <3>2. \A n \in A : {m \in A \cup {N} : m <= n} = {m \in A : m <= n}
      BY <2>1, <3>1
    <3>3. {m \in A \cup {N} : m <= N} = A \cup {N}
      BY <2>1, <3>1
    <3>4. Cardinality(A \cup {N}) = Cardinality(A) + 1
      BY <2>2, <3>1, FS_AddElement
    <3>5. log'[N].attempt = Cardinality(A \cup {N})
      BY <1>1, <1>2, <1>3, <2>2, <2>5, <3>4
    <3>6. \A n \in A : log'[n].attempt = Cardinality({m \in A \cup {N} : m <= n})
      BY <2>1, <2>3, <3>2
    <3>. HIDE DEF A
    <3>. QED  BY <3>1, <3>3, <3>5, <3>6
  <2>. QED  BY <2>4, <2>5
<1>8. Distinct'
  <2>. SUFFICES \A m, n \in Results(log') :
                    m < n /\ log'[m].tool = log'[n].tool
                          /\ log'[m].tool \in {"run", "verifyStudy", "evaluate"}
                        => log'[m].resolved # log'[n].resolved
    BY Zenon DEF Distinct
  <2>. TAKE m, n \in Results(log')
  <2>. HAVE /\ m < n /\ log'[m].tool = log'[n].tool
            /\ log'[m].tool \in {"run", "verifyStudy", "evaluate"}
  <2>1. CASE n \in Results(log) /\ m \in Results(log)
    BY <1>4, <2>1 DEF Recorded, Distinct
  <2>2. CASE n = N
    <3>1. m \in Results(log) /\ m \in 1..Len(log) /\ log'[m] = log[m]
      <4>1. m # N
        BY <1>0, <2>2
      <4>. QED  BY <1>4, <4>1
    <3>2. CASE c.tool = "evaluate"
      <4>1. log[m].resolved.request.prefix = m - 1
        BY <1>1, <1>3, <2>2, <3>1, <3>2 DEF Recorded, Entry
      <4>2. c.resolved.request.prefix = Len(log)
        BY <3>2, EntryMade
      <4>. QED  BY <1>0, <1>1, <1>3, <2>2, <3>1, <4>1, <4>2
    <3>3. CASE c.tool \in {"run", "verifyStudy"}
      BY <1>0, <1>1, <1>3, <2>2, <3>1, <3>3 DEF Carrying, Fresh
    <3>. QED  BY <1>1, <1>3, <2>2, <3>2, <3>3
  <2>3. m = N => n \in Results(log)
    BY <1>4
  <2>4. m # N
    BY <1>0, <1>3, <1>4, <2>3
  <2>. QED  BY <1>4, <2>1, <2>2, <2>4
<1>. QED  BY <1>6, <1>7, <1>8 DEF Recorded

LEMMA StoreRecords ==
    ASSUME CallInv, NEW S, log \in Seq(S), DiskInv, Recorded, NEW p \in Processes,
           \A q \in Processes : Carrying(q), Store(p)
    PROVE  Recorded' /\ Grows /\ DiskInv' /\ \A q \in Processes : Carrying(q)'
<1>1. PICK e : /\ e = IF call[p].tool = "conclude" THEN Conclusion
                      ELSE Numbered(Attempt(call[p]), call[p].made)
               /\ log' = IF Len(log) = call[p].base THEN Append(log, e) ELSE log
  BY DEF Store, HeadUnmoved
<1>2. Grows
  BY <1>1, GrowsByEvent
<1>3. Carrying(p)' /\ Beside(p)
  BY LeaveCarries DEF Store
<1>4. \A q \in Processes \ {p} : Carrying(q)'
  BY <1>2, <1>3, CarryingStays DEF Beside
<1>5. Recorded'
  <2>1. CASE log' = log
    <3>1. /\ Numbering' <=> Numbering
          /\ Distinct' <=> Distinct
      BY <2>1 DEF Numbering, Distinct, Attempts
    <3>2. \A n \in Results(log') : Entry(n)'
      BY <2>1 DEF Recorded, Entry
    <3>. QED  BY <3>1, <3>2 DEF Recorded
  <2>2. CASE Len(log) = call[p].base /\ log' = Append(log, e) /\ call[p].tool = "conclude"
    BY <1>1, <1>2, <2>2, ConclusionRecorded
  <2>3. CASE Len(log) = call[p].base /\ log' = Append(log, e) /\ call[p].tool # "conclude"
    <3>1. pc[p] = "append" /\ call[p].tool \in Tools
      BY <2>3 DEF Store, At, CallInv, Judging
    <3>. QED  BY <1>1, <1>2, <2>3, <3>1, ResultRecorded
  <2>. QED  BY <1>1, <2>1, <2>2, <2>3
<1>. QED  BY <1>2, <1>3, <1>4, <1>5 DEF Beside

-----------------------------------------------------------------------------
\* All of it holds together

ToolInv == CallInv /\ LogInv /\ DiskInv /\ Recorded /\ \A p \in Processes : Carrying(p)

\* The study a session may begin with is one.
LEMMA StudiedRecorded ==
    ASSUME log = Studied, Outcome[Evidence[1]].status # "failed"
    PROVE  Recorded
<1>. DEFINE e == Numbered(1, FirstRun)
<1>1. /\ e.kind = "result" /\ e.tool = "run" /\ e.attempt = 1 /\ e.says = FirstStudy
      /\ e.resolved = [spec |-> FirstSpec, baseline |-> FirstBaseline, db |-> 1]
      /\ e.status = Outcome[Evidence[1]].status /\ e.warnings = Outcome[Evidence[1]].warnings
  BY DEF Numbered, FirstRun, Success, Result, StudyTools, Nothing, FirstStudy, StudyOf
<1>. HIDE DEF e
<1>2. log = <<e, Conclusion>>
  BY DEF Studied, e
<1>3. Conclusion.kind = "conclusion"
  BY DEF Conclusion
<1>4. Len(log) = 2 /\ log[1] = e /\ log[2] = Conclusion
  BY <1>2
<1>5. Results(log) = {1}
  BY <1>1, <1>3, <1>4 DEF Results
<1>6. Entry(1)
  <2>1. FirstBaseline # Absent /\ IsBundle(FirstStudy)
    BY BundlesReadable DEF FirstBaseline, FirstStudy, IsBundle
  <2>2. /\ Outcome[Evidence[1]].status \in {"complete", "incomplete"}
        /\ Outcome[Evidence[1]].warnings \subseteq Classes
    BY ToolAssumption
  <2>3. Worth(e.tool, e.status, e.says, e.warnings, SubSeq(log, 1, 1 - 1))
    BY <1>1, <2>1, <2>2 DEF Worth, Makers, StudyTools
  <2>4. \A x \in Immutable[e.tool] : e.resolved[x] # Absent
    BY <1>1, <2>1 DEF Immutable
  <2>. QED  BY <1>1, <1>4, <2>3, <2>4 DEF Entry, Tools
<1>7. Numbering
  <2>. SUFFICES ASSUME NEW t \in Tools
                PROVE  /\ \A n \in Attempts(t) : log[n].attempt = Cardinality({m \in Attempts(t) : m <= n})
                       /\ Attempts(t) # {} =>
                              \E n \in Attempts(t) : log[n].attempt = Cardinality(Attempts(t))
    BY DEF Numbering
  <2>1. Attempts(t) = IF t = "run" THEN {1} ELSE {}
    BY <1>1, <1>4, <1>5 DEF Attempts
  <2>2. {m \in {1} : m <= 1} = {1} /\ Cardinality({1}) = 1
    BY FS_Singleton
  <2>. QED  BY <1>1, <1>4, <2>1, <2>2
<1>8. Distinct
  BY <1>5 DEF Distinct
<1>. QED  BY <1>5, <1>6, <1>7, <1>8 DEF Recorded

LEMMA ToolInit == Init => ToolInv
<1>. SUFFICES ASSUME Init PROVE ToolInv
  OBVIOUS
<1>1. CallInv /\ LogInv
  BY CallInit, LogInit
<1>2. \E v \in Versions, study \in {Absent, FirstStudy} :
          disk.db = v /\ disk.study = study /\ DOMAIN disk = Paths
  BY ToolAssumption DEF Init, DiskOf, Paths
<1>3. DiskInv
  BY <1>2, ToolAssumption DEF DiskInv, IsBundle, FirstStudy, StudyOf
<1>4. Recorded
  <2>1. CASE log = <<>>
    <3>1. Results(log) = {}
      BY <2>1 DEF Results
    <3>. QED  BY <3>1 DEF Recorded, Numbering, Distinct, Attempts
  <2>. QED  BY <2>1, StudiedRecorded DEF Init
<1>5. ASSUME NEW p \in Processes PROVE Carrying(p)
  <2>1. pc[p] = "idle"
    BY DEF Init
  <2>. QED  BY <2>1 DEF Carrying, Holding, Identified, Drafting, Bearing, Fresh, Makers, Working
<1>. QED  BY <1>1, <1>3, <1>4, <1>5 DEF ToolInv

LEMMA ToolNext ==
    ASSUME ToolInv, [Next]_vars
    PROVE  ToolInv'
<1>1. PICK S : log \in Seq(S)
  BY DEF ToolInv, LogInv
<1>2. CallInv' /\ LogInv'
  BY ToolStep DEF ToolInv
<1>3. ASSUME log' = log PROVE Grows /\ (Recorded' <=> Recorded)
  <2>1. Grows
    BY <1>1, <1>3, GrowsByEvent
  <2>2. Numbering' <=> Numbering
    BY <1>3 DEF Numbering, Attempts
  <2>3. Distinct' <=> Distinct
    BY <1>3 DEF Distinct
  <2>4. (\A n \in Results(log) : Entry(n)) <=> (\A n \in Results(log') : Entry(n)')
    BY <1>3 DEF Entry
  <2>. QED  BY <2>1, <2>2, <2>3, <2>4 DEF Recorded
<1>4. CASE UNCHANGED vars
  <2>1. UNCHANGED <<disk, log, pc, call, meddled>>
    BY <1>4 DEF vars, world
  <2>2. \A p \in Processes : Evolves(p)
    BY <2>1, FilesStay DEF ToolInv
  <2>3. DiskInv'
    BY <2>1 DEF ToolInv, DiskInv
  <2>4. \A p \in Processes : Carrying(p)'
    BY <1>3, <2>1, <2>2, CarryingStays DEF ToolInv
  <2>. QED  BY <1>2, <1>3, <2>1, <2>3, <2>4 DEF ToolInv
<1>5. CASE \E p \in Processes : Steps(p)
  <2>1. PICK p \in Processes : Steps(p)
    BY <1>5
  <2>2. log' = log
    BY <2>1, StepsKeep DEF ToolInv
  <2>3. DiskInv' /\ \A q \in Processes : Carrying(q)'
    BY <1>3, <2>1, <2>2, StepsCarry DEF ToolInv
  <2>. QED  BY <1>2, <1>3, <2>2, <2>3 DEF ToolInv
<1>6. CASE \E p \in Processes : Store(p)
  BY <1>1, <1>2, <1>6, StoreRecords DEF ToolInv
<1>7. CASE Others
  <2>1. log' = log
    BY <1>7, OthersKeep DEF ToolInv
  <2>2. DiskInv' /\ \A q \in Processes : Carrying(q)'
    BY <1>3, <1>7, <2>1, OthersCarry DEF ToolInv
  <2>. QED  BY <1>2, <1>3, <2>1, <2>2 DEF ToolInv
<1>. QED  BY <1>4, <1>5, <1>6, <1>7 DEF Next, Steps, Others

\* A successful result describes exactly what its identity names, whoever else works, dies or
\* changes files meanwhile; only a study somebody replaced between its publication and its
\* verification is described as it was found.
THEOREM InputsDescribed == Spec => []ResultsDescribeInputs
<1>1. ASSUME ToolInv PROVE ResultsDescribeInputs
  <2>. SUFFICES ASSUME NEW p \in Processes, Concluding(p)
                PROVE  Describes(call[p], call[p].made.says, meddled[p])
    BY DEF ResultsDescribeInputs, Describes
  <2>1. Carrying(p) /\ pc[p] = "append" /\ call[p].made # None
    BY <1>1 DEF ToolInv, Concluding, At
  <2>2. call[p].tool \in Tools
    BY <1>1, <2>1 DEF ToolInv, CallInv, Judging, Carrying, Bearing
  <2>. QED  BY <2>1, <2>2 DEF Carrying, Bearing, Concluding
<1>. QED  BY <1>1, ToolInit, ToolNext, PTL DEF Spec

\* A session always loads again, for any number of processes appending to it: its attempts are
\* numbered from one without a gap, and no result is computed twice from the same inputs where
\* an earlier one is always reused.
THEOREM SessionLoads == Spec => []NoRepeat
<1>1. ASSUME ToolInv PROVE NoRepeat
  <2>1. PICK S : log \in Seq(S)
    BY <1>1 DEF ToolInv, LogInv
  <2>2. ASSUME NEW n \in Results(log)
        PROVE  log[n].attempt = Cardinality({m \in Results(SubSeq(log, 1, n)) : log[m].tool = log[n].tool})
    <3>1. n \in 1..Len(log) /\ Len(log) \in Nat /\ log[n].tool \in Tools
      BY <1>1, <2>1 DEF Results, ToolInv, Recorded, Entry
    <3>2. \A i \in 1..n : log[i] \in S
      BY <2>1, <3>1
    <3>3. /\ Len(SubSeq(log, 1, n)) = n /\ \A i \in 1..n : SubSeq(log, 1, n)[i] = log[i]
      BY <3>1, <3>2, SubSeqProperties
    <3>4. Results(SubSeq(log, 1, n)) = {m \in Results(log) : m <= n}
      BY <3>1, <3>3 DEF Results
    <3>5. n \in Attempts(log[n].tool)
      BY DEF Attempts
    <3>6. log[n].attempt = Cardinality({m \in Attempts(log[n].tool) : m <= n})
      BY <1>1, <3>1, <3>5 DEF ToolInv, Recorded, Numbering
    <3>7. {m \in Attempts(log[n].tool) : m <= n}
            = {m \in Results(SubSeq(log, 1, n)) : log[m].tool = log[n].tool}
      BY <3>4 DEF Attempts
    <3>. QED  BY <3>6, <3>7
  <2>3. Distinct
    BY <1>1 DEF ToolInv, Recorded
  <2>. QED  BY <2>2, <2>3 DEF NoRepeat, Loads, Distinct
<1>. QED  BY <1>1, ToolInit, ToolNext, PTL DEF Spec

\* A tool never replaces an artifact the session relies on: it publishes where nothing is, or
\* what is there already.
THEOREM ArtifactsStay == Spec => OutputsStand
<1>1. ASSUME ToolInv, [Next]_vars
      PROVE  [\A n \in Results(log) :
                 \A a \in References(log[n]) :
                     pc' # pc /\ disk[a[1]] = a[2] => disk'[a[1]] = a[2]]_vars
  <2>. SUFFICES ASSUME NEW n \in Results(log), NEW a \in References(log[n]),
                       pc' # pc, disk[a[1]] = a[2], disk' # disk
                PROVE  disk'[a[1]] = a[2]
    OBVIOUS
  <2>1. a[2] # Absent /\ a[1] \in Paths
    <3>1. Entry(n)
      BY <1>1 DEF ToolInv, Recorded
    <3>2. log[n].tool \in Tools
      BY <3>1 DEF Entry
    <3>3. CASE \E x \in Immutable[log[n].tool] : a = <<x, log[n].resolved[x]>>
      <4>1. PICK x \in Immutable[log[n].tool] : a = <<x, log[n].resolved[x]>>
        BY <3>3
      <4>2. x \in Paths
        BY <3>2, <4>1 DEF Immutable, Tools, Paths
      <4>. QED  BY <3>1, <4>1, <4>2 DEF Entry
    <3>4. CASE /\ Succeeded(log[n]) /\ log[n].tool \in DOMAIN Output
               /\ a = <<Output[log[n].tool], log[n].says>>
      <4>1. log[n].tool \in Makers /\ Output[log[n].tool] \in Paths
        BY <3>4 DEF Output, Makers, Paths
      <4>2. IsBundle(log[n].says)
        BY <3>1, <3>4, <4>1 DEF Entry, Worth, Succeeded
      <4>. QED  BY <3>4, <4>1, <4>2 DEF IsBundle
    <3>. QED  BY <3>3, <3>4 DEF References
  <2>2. PICK p \in Processes : Steps(p) \/ Store(p)
    <3>1. Others => pc' = pc
      BY DEF Others, ChangeDatabase, EditPolicy, EditSpec, WriteRequest, Replace, Write
    <3>2. UNCHANGED vars => pc' = pc
      BY DEF vars
    <3>. QED  BY <1>1, <3>1, <3>2 DEF Next, Steps, Others
  <2>3. Publishes(p)
    BY <2>2 DEF Steps, Store, Open, Acquire, Reuse, Settle, Crash, ResolveRun, ResolveGenerate,
                ResolveVerify, ResolveBaselineVerify, ResolveEvaluate, ResolveEvaluationVerify,
                Resolve, CheckRun, CheckBaselineSource, CheckRequest, CheckEvaluation, CheckBaseline,
                Confirm, RejectBaseline, ComputeStudy, ComputeBaseline, ReadStudy, ReadBaseline,
                Evaluate, ReadEvaluation, BindStudy, BindBaseline, BindEvaluation, Bind, Publishes
  <2>4. PICK tool \in Makers : Publish(p, tool)
    BY <2>3 DEF Publishes, PublishStudy, PublishBaseline, PublishEvaluation, Makers
  <2>5. /\ disk[Output[tool]] \in {Absent, call[p].draft}
        /\ disk' = [disk EXCEPT ![Output[tool]] = call[p].draft]
    BY <2>4 DEF Publish, Vacant
  <2>. QED  BY <1>1, <2>1, <2>5 DEF ToolInv, DiskInv
<1>. QED  BY <1>1, ToolInit, ToolNext, PTL DEF Spec, OutputsStand

-----------------------------------------------------------------------------
\* What the policy lets a status stand for

\* A favourable status rests on a favourable recommendation, and acceptance on acceptance.
LEMMA EffectiveWithinRecommended ==
    ASSUME NEW H, NEW r, NEW changed,
           Verdict(H, r, changed).effective \in {"accepted", "provisional"}
    PROVE  LET recommended == Recommendation(Findings(H, r), Warnings(H, r), changed)
           IN  /\ recommended \in {"accepted", "provisional"}
               /\ Verdict(H, r, changed).effective = "accepted" => recommended = "accepted"
<1>1. PICK recommended : recommended = Recommendation(Findings(H, r), Warnings(H, r), changed)
  OBVIOUS
<1>2. recommended \in Statuses
  BY <1>1 DEF Recommendation, Statuses
<1>3. PICK permitted \in BOOLEAN : permitted <=> (DecisionValid(H, r) /\ WithinCeiling(r, recommended))
  OBVIOUS
<1>4. \/ WithinCeiling(r, recommended) /\ Verdict(H, r, changed).effective = Selected(r)
      \/ Verdict(H, r, changed).effective = recommended
  BY <1>1, <1>3 DEF Verdict
<1>5. ASSUME WithinCeiling(r, recommended), Selected(r) \in {"accepted", "provisional"}
      PROVE  /\ recommended \in {"accepted", "provisional"}
             /\ Selected(r) = "accepted" => recommended = "accepted"
  BY <1>2, <1>5 DEF WithinCeiling, Permissions, Statuses
<1>. QED  BY <1>1, <1>4, <1>5

\* It is given only where nothing was found against the study.
LEMMA FavourableFindings ==
    ASSUME NEW F, NEW W, NEW changed, Recommendation(F, W, changed) \in {"accepted", "provisional"}
    PROVE  /\ F = {} /\ "blocking" \notin W
           /\ Recommendation(F, W, changed) = "accepted" => changed = {} /\ "provisional" \notin W
BY DEF Recommendation

\* The selected study is complete, and no later attempt supersedes it.
LEMMA TargetStands ==
    ASSUME NEW H, NEW r, TargetFindings(H, r) = {}
    PROVE  /\ r.target \in 1..Len(H) /\ H[r.target].kind = "result"
           /\ H[r.target].tool \in StudyTools
           /\ H[r.target].status \notin {"failed", "incomplete"}
           /\ Usable(H, r) /\ ~Superseded(H, r)
<1>1. HasTarget(H, r) /\ Supported(H, r) /\ Usable(H, r)
  BY DEF TargetFindings
<1>2. /\ {f \in {<<"study_incomplete", "study_completeness">>} : H[r.target].status = "incomplete"} = {}
      /\ {f \in {<<"study_superseded", "study_target">>} : Superseded(H, r)} = {}
  BY <1>1 DEF TargetFindings
<1>. QED  BY <1>1, <1>2 DEF Usable, Supported, HasTarget, IsResult

\* A claim about its status is true.
LEMMA ClaimsTrue ==
    ASSUME NEW H, NEW r, CitationFindings(H, r) = {}, ClaimFindings(H, r) = {},
           NEW k \in r.claims, k.type = "status"
    PROVE  k.value = H[r.target].status
<1>1. Unresolved(H, r) = {}
  BY DEF CitationFindings
<1>2. k.cites \in Cited(r)
  BY DEF Cited
<1>3. k.cites \in 1..Len(H)
  BY <1>1, <1>2 DEF Unresolved
<1>4. ClaimResolves(H, k)
  BY <1>1, <1>3 DEF Unresolved, ClaimResolves
<1>5. {j \in r.claims : ClaimResolves(H, j) /\ ~(ClaimSupported(H, r, j) /\ Actual(H, j) = j.value)} = {}
  BY DEF ClaimFindings
<1>6. ClaimSupported(H, r, k) /\ Actual(H, k) = k.value
  BY <1>4, <1>5
<1>. QED  BY <1>6 DEF ClaimSupported, Actual

\* A decision is a conclusion after the study, and acknowledges what it warned of.
LEMMA DecisionAcknowledges ==
    ASSUME NEW H, NEW r, DecisionFindings(H, r) = {}, WarningFindings(H, r) = {},
           Usable(H, r), H[r.target].warnings \subseteq Classes, "blocking" \notin Warnings(H, r)
    PROVE  \/ r.decision = None /\ H[r.target].warnings = {}
           \/ /\ r.decision # None
              /\ r.decision.statement \in 1..Len(H) /\ r.decision.statement > r.target
              /\ H[r.decision.statement].kind = "conclusion"
              /\ H[r.target].warnings \subseteq r.decision.acknowledged \cap {"acknowledgment", "provisional"}
<1>. DEFINE W == H[r.target].warnings
            gate == "warning_acknowledgment"
<1>1. Warnings(H, r) = W
  BY DEF Warnings
<1>2. /\ W \cap {"unclassified"} = {}
      /\ W \ ({"unclassified"} \cup Acknowledged(H, r) \cup Resolved(H, r)) = {}
      /\ (W \ {"unclassified"}) \cap Resolved(H, r) = {}
  BY <1>1 DEF WarningFindings
<1>3. W \subseteq Acknowledged(H, r) \cap {"acknowledgment", "provisional"}
  BY <1>1, <1>2 DEF Classes
<1>4. CASE r.decision = None
  BY <1>3, <1>4 DEF Acknowledged, Disposed
<1>5. CASE r.decision # None
  <2>1. {f \in {<<"researcher_decision_missing", "researcher_completion">>} :
            IF r.decision = None THEN r.completion ELSE ~Typed(H, r.decision)} = {}
    BY DEF DecisionFindings
  <2>2. {f \in {<<"researcher_decision_stale", "researcher_completion">>} :
            r.decision # None /\ Typed(H, r.decision) /\ ~Follows(H, r)} = {}
    BY DEF DecisionFindings
  <2>3. {f \in {<<"researcher_support_missing", "researcher_completion">>} :
            IF r.decision = None THEN r.completion ELSE ~Cites(r)} = {}
    BY DEF DecisionFindings
  <2>4. Typed(H, r.decision) /\ Follows(H, r) /\ Cites(r)
    BY <1>5, <2>1, <2>2, <2>3
  <2>5. Acknowledged(H, r) = r.decision.acknowledged
    BY <1>5, <2>4 DEF Acknowledged, Disposed, DecisionValid
  <2>. QED  BY <1>3, <1>5, <2>4, <2>5 DEF Typed, Follows
<1>. QED  BY <1>4, <1>5

\* An evaluation in the session is the verdict on the session before it.
LEMMA JudgedPrefix ==
    ASSUME ToolInv, NEW n \in Results(log), log[n].tool = "evaluate", Succeeded(log[n])
    PROVE  LET H == SubSeq(log, 1, n - 1)
               x == log[n].says
           IN  /\ n - 1 \in 0..Len(log) /\ n \in 1..Len(log) /\ Len(log) \in Nat
               /\ Len(H) = n - 1 /\ (\A i \in 1..(n - 1) : H[i] = log[i])
               /\ IsJudgement(x, H) /\ x.verdict = Verdict(H, x.request, x.verdict.changed)
               /\ x.request.prefix = n - 1
<1>1. PICK S : log \in Seq(S)
  BY DEF ToolInv, LogInv
<1>2. n \in 1..Len(log) /\ Len(log) \in Nat
  BY <1>1 DEF Results
<1>3. n - 1 \in 0..Len(log) /\ n - 1 \in Nat /\ \A i \in 1..(n - 1) : i \in 1..Len(log) /\ log[i] \in S
  BY <1>1, <1>2
<1>4. /\ Len(SubSeq(log, 1, n - 1)) = (IF 1 <= n - 1 THEN n - 1 - 1 + 1 ELSE 0)
      /\ \A i \in 1..n - 1 - 1 + 1 : SubSeq(log, 1, n - 1)[i] = log[1 + i - 1]
  BY <1>3, SubSeqProperties
<1>5. /\ Len(SubSeq(log, 1, n - 1)) = n - 1
      /\ \A i \in 1..(n - 1) : SubSeq(log, 1, n - 1)[i] = log[i]
  BY <1>2, <1>3, <1>4
<1>6. IsJudgement(log[n].says, SubSeq(log, 1, n - 1))
  BY DEF ToolInv, Recorded, Entry, Worth, Succeeded
<1>7. log[n].says.verdict = Verdict(SubSeq(log, 1, n - 1), log[n].says.request, log[n].says.verdict.changed)
  BY <1>6 DEF IsJudgement
<1>8. log[n].says.request.prefix = n - 1
  BY DEF ToolInv, LogInv, EvaluationsJudgeTheirHead
<1>. QED  BY <1>2, <1>3, <1>5, <1>6, <1>7, <1>8

\* Later attempts have greater numbers.
LEMMA AttemptsGrow ==
    ASSUME Len(log) \in Nat, Numbering, NEW k \in Results(log), NEW m \in Results(log), k < m,
           log[k].tool = log[m].tool, log[k].tool \in Tools
    PROVE  log[m].attempt > log[k].attempt
<1>. DEFINE A == Attempts(log[k].tool)
            To(i) == {j \in A : j <= i}
<1>1. IsFiniteSet(A)
  BY AttemptsFinite
<1>2. \A i \in A : i \in Int
  BY DEF Attempts, Results
<1>3. k \in A /\ m \in A
  BY DEF Attempts
<1>4. To(k) \in SUBSET To(m) /\ m \in To(m) /\ m \notin To(k)
  BY <1>2, <1>3
<1>5. To(m) \in SUBSET A
  OBVIOUS
<1>6. IsFiniteSet(To(m))
  BY <1>1, <1>5, FS_Subset
<1>7. /\ IsFiniteSet(To(k)) /\ Cardinality(To(k)) <= Cardinality(To(m))
      /\ Cardinality(To(m)) = Cardinality(To(k)) => To(m) = To(k)
  BY <1>4, <1>6, FS_Subset
<1>8. Cardinality(To(k)) \in Nat /\ Cardinality(To(m)) \in Nat
  BY <1>6, <1>7, FS_CardinalityType
<1>9. log[k].attempt = Cardinality(To(k)) /\ log[m].attempt = Cardinality(To(m))
  BY <1>3 DEF Numbering
<1>. QED  BY <1>4, <1>7, <1>8, <1>9

\* No study stands that was not earned: a favourable verdict in a session is of a complete study,
\* the last found of its request, with its warnings acknowledged by a conclusion after it and
\* nothing false said of its status.
THEOREM StandingEarned == Spec => []StandingIsEarned
<1>1. ASSUME ToolInv PROVE StandingIsEarned
  <2>. SUFFICES ASSUME NEW n \in Results(log), log[n].tool = "evaluate", Succeeded(log[n]),
                       log[n].says.verdict.effective \in {"accepted", "provisional"}
                PROVE  LET e == log[n]
                           r == e.says.request
                           study == log[r.target]
                       IN  /\ study.kind = "result" /\ study.tool \in StudyTools
                           /\ study.status = "complete"
                           /\ ~\E m \in Results(log) :
                                /\ m > r.target /\ m < n
                                /\ log[m].tool = study.tool /\ log[m].resolved # study.resolved
                           /\ \/ r.decision = None /\ study.warnings = {}
                              \/ /\ r.decision.statement \in (r.target + 1)..(n - 1)
                                 /\ log[r.decision.statement].kind = "conclusion"
                                 /\ study.warnings \subseteq
                                        r.decision.acknowledged \cap {"acknowledgment", "provisional"}
                           /\ \A k \in r.claims : k.type = "status" => k.value = study.status
                           /\ e.says.verdict.effective = "accepted" =>
                                e.says.verdict.changed = {} /\ "provisional" \notin study.warnings
    BY DEF StandingIsEarned
  <2>1. PICK H : H = SubSeq(log, 1, n - 1)
    OBVIOUS
  <2>2. PICK r : r = log[n].says.request
    OBVIOUS
  <2>3. PICK changed : changed = log[n].says.verdict.changed
    OBVIOUS
  <2>4. /\ n \in 1..Len(log) /\ Len(log) \in Nat /\ Len(H) = n - 1
        /\ \A i \in 1..(n - 1) : H[i] = log[i]
        /\ log[n].says.verdict = Verdict(H, r, changed)
    BY <1>1, <2>1, <2>2, <2>3, JudgedPrefix
  <2>5. PICK given : given = Recommendation(Findings(H, r), Warnings(H, r), changed)
    OBVIOUS
  <2>6. /\ given \in {"accepted", "provisional"}
        /\ Verdict(H, r, changed).effective = "accepted" => given = "accepted"
    BY <2>4, <2>5, EffectiveWithinRecommended
  <2>7. /\ Findings(H, r) = {} /\ "blocking" \notin Warnings(H, r)
        /\ given = "accepted" => changed = {} /\ "provisional" \notin Warnings(H, r)
    BY <2>5, <2>6, FavourableFindings
  <2>8. /\ CitationFindings(H, r) = {} /\ TargetFindings(H, r) = {} /\ ClaimFindings(H, r) = {}
        /\ DecisionFindings(H, r) = {} /\ WarningFindings(H, r) = {}
    BY <2>7 DEF Findings
  <2>9. /\ r.target \in 1..(n - 1) /\ H[r.target] = log[r.target]
        /\ log[r.target].kind = "result" /\ log[r.target].tool \in StudyTools
        /\ log[r.target].status \notin {"failed", "incomplete"}
        /\ Usable(H, r) /\ ~Superseded(H, r)
    BY <2>4, <2>8, TargetStands
  <2>10. r.target \in Results(log) /\ Entry(r.target)
    BY <1>1, <2>4, <2>9 DEF Results, ToolInv, Recorded
  <2>11. log[r.target].status = "complete" /\ log[r.target].warnings \subseteq Classes
    BY <2>9, <2>10 DEF Entry, Worth
  <2>12. \A k \in r.claims : k.type = "status" => k.value = log[r.target].status
    BY <2>8, <2>9, ClaimsTrue
  <2>13. \/ r.decision = None /\ log[r.target].warnings = {}
         \/ /\ r.decision.statement \in (r.target + 1)..(n - 1)
            /\ log[r.decision.statement].kind = "conclusion"
            /\ log[r.target].warnings \subseteq r.decision.acknowledged \cap {"acknowledgment", "provisional"}
    <3>1. \/ r.decision = None /\ H[r.target].warnings = {}
          \/ /\ r.decision.statement \in 1..Len(H) /\ r.decision.statement > r.target
             /\ H[r.decision.statement].kind = "conclusion"
             /\ H[r.target].warnings \subseteq r.decision.acknowledged \cap {"acknowledgment", "provisional"}
      BY <2>7, <2>8, <2>9, <2>11, DecisionAcknowledges
    <3>. QED  BY <2>4, <2>9, <3>1
  <2>14. Warnings(H, r) = log[r.target].warnings
    BY <2>9 DEF Warnings
  <2>15. ASSUME NEW m \in Results(log), m > r.target, m < n, log[m].tool = log[r.target].tool,
                log[m].resolved # log[r.target].resolved
         PROVE  FALSE
    <3>1. m \in (r.target + 1)..Len(H) /\ H[m] = log[m] /\ m \in 1..Len(H)
      BY <2>4, <2>9, <2>15 DEF Results
    <3>2. Numbering /\ log[r.target].tool \in Tools
      BY <1>1, <2>10 DEF ToolInv, Recorded, Entry
    <3>3. r.target < m
      BY <2>4, <2>9, <3>1
    <3>4. log[m].attempt > log[r.target].attempt
      BY <2>4, <2>10, <2>15, <3>2, <3>3, AttemptsGrow
    <3>5. IsResult(H, m)
      BY <3>1 DEF IsResult, Results
    <3>. QED  BY <2>9, <2>15, <3>1, <3>4, <3>5 DEF Superseded
  <2>. QED  BY <2>2, <2>3, <2>4, <2>6, <2>7, <2>9, <2>11, <2>12, <2>13, <2>14, <2>15
<1>. QED  BY <1>1, ToolInit, ToolNext, PTL DEF Spec

\* A verdict outlives the growth of the session: it was taken from the prefix its request froze,
\* which never changes, so that while the same sources are changed it is found again.
THEOREM VerdictsReverify == Spec => []VerdictStands
<1>1. ASSUME ToolInv PROVE VerdictStands
  <2>. SUFFICES ASSUME NEW n \in Results(log), log[n].tool = "evaluate", Succeeded(log[n]),
                       EvidenceHolds(Frozen(log, log[n].says.request), log[n].says.request),
                       Changed(SubSeq(log, 1, n - 1), log[n].says.request)
                           = log[n].says.verdict.changed
                PROVE  Reverifies(log[n].says)
    BY DEF VerdictStands
  <2>1. PICK x : x = log[n].says
    OBVIOUS
  <2>2. PICK H : H = SubSeq(log, 1, n - 1)
    OBVIOUS
  <2>3. /\ n - 1 \in 0..Len(log) /\ n \in 1..Len(log) /\ Len(log) \in Nat
        /\ IsJudgement(x, H) /\ x.request.prefix = n - 1
    BY <1>1, <2>1, <2>2, JudgedPrefix
  <2>4. Frozen(log, x.request) = H
    BY <2>2, <2>3 DEF Frozen
  <2>5. Evaluated(x.request) = [request |-> x.request, verdict |-> Verdict(H, x.request, x.verdict.changed)]
    BY <2>1, <2>2, <2>4 DEF Evaluated
  <2>6. Evaluated(x.request) = x
    BY <2>3, <2>5 DEF IsJudgement
  <2>7. x.request.prefix <= Len(log)
    BY <2>3
  <2>8. IsBundle(x)
    BY <2>3, BundlesReadable
  <2>. QED  BY <2>1, <2>6, <2>7, <2>8 DEF Reverifies
<1>. QED  BY <1>1, ToolInit, ToolNext, PTL DEF Spec

-----------------------------------------------------------------------------
\* What an evaluation has read, from its judgement to its last look at the evidence

Judges == {"evaluate", "verifyEvaluation"}
Weighs(p) == call[p].tool \in Judges /\ pc[p] \in {"stable", "publish", "settled"}

\* A bundle is what the policy says of the evidence that was read.
WeighedOn(x, read, H) ==
    LET r == x.request
        run == Target(H, r).tool = "run"
    IN  /\ IsBundle(x)
        /\ Usable(H, r) => /\ "study" \in DOMAIN read /\ read["study"] = Target(H, r).says
                           /\ run => /\ {"baseline", "db", "spec"} \subseteq DOMAIN read
                                     /\ read["baseline"] = Target(H, r).resolved.baseline
        /\ x.verdict.changed =
              {y \in {"db", "spec"} : Usable(H, r) /\ run /\ read[y] # Target(H, r).resolved[y]}
        /\ IsJudgement(x, H)

Weighing(p) ==
    Weighs(p) =>
        LET x == Judged(call[p])
        IN  x.request.prefix \in 0..Len(log) /\ WeighedOn(x, call[p].sources, Frozen(log, x.request))

\* An evaluation on disk names a prefix.
Filed == IsBundle(disk.evaluation) => disk.evaluation.request.prefix \in Nat

SettleInv == Filed /\ \A p \in Processes : Weighing(p)

\* Evidence that was read, and is on disk unchanged, gives the same verdict.
LEMMA ReadAgain ==
    ASSUME NEW x, NEW read, WeighedOn(x, read, Frozen(log, x.request)), Len(log) \in Nat,
           x.request.prefix \in 0..Len(log), \A y \in DOMAIN read : disk[y] = read[y]
    PROVE  Reverifies(x)
<1>1. PICK r : r = x.request
  OBVIOUS
<1>2. PICK H : H = Frozen(log, r)
  OBVIOUS
<1>3. EvidenceHolds(H, r)
  BY <1>1, <1>2 DEF WeighedOn, EvidenceHolds
<1>4. Changed(H, r) = x.verdict.changed
  BY <1>1, <1>2 DEF WeighedOn, Changed
<1>5. Evaluated(r) = [request |-> r, verdict |-> Verdict(H, r, x.verdict.changed)]
  BY <1>2, <1>4 DEF Evaluated
<1>6. Evaluated(r) = x
  BY <1>1, <1>2, <1>5 DEF WeighedOn, IsJudgement
<1>7. r.prefix <= Len(log)
  BY <1>1
<1>. QED  BY <1>1, <1>2, <1>3, <1>6, <1>7 DEF Reverifies, WeighedOn

\* An evaluation is what the policy says of the evidence on disk when it is made.
LEMMA ReadOnce ==
    ASSUME NEW r, NEW H, H = Frozen(log, r), EvidenceHolds(H, r)
    PROVE  /\ WeighedOn(Evaluated(r), Sources(H, r), H)
           /\ Evaluated(r).request = r
<1>1. PICK x : x = Evaluated(r)
  OBVIOUS
<1>2. x = [request |-> r, verdict |-> Verdict(H, r, Changed(H, r))]
  BY <1>1 DEF Evaluated
<1>3. x.request = r /\ IsJudgement(x, H) /\ x.verdict.changed = Changed(H, r)
  <2>1. Verdict(H, r, Changed(H, r)).changed = Changed(H, r)
    BY DEF Verdict
  <2>. QED  BY <1>2, <2>1 DEF IsJudgement
<1>4. IsBundle(x)
  BY <1>3, BundlesReadable
<1>5. ASSUME Usable(H, r)
      PROVE  /\ "study" \in DOMAIN Sources(H, r) /\ Sources(H, r)["study"] = Target(H, r).says
             /\ Target(H, r).tool = "run" =>
                    /\ {"baseline", "db", "spec"} \subseteq DOMAIN Sources(H, r)
                    /\ Sources(H, r)["baseline"] = Target(H, r).resolved.baseline
                    /\ \A y \in {"db", "spec"} : Sources(H, r)[y] = disk[y]
  BY <1>5 DEF Sources, EvidenceHolds
<1>6. x.verdict.changed = {y \in {"db", "spec"} : /\ Usable(H, r) /\ Target(H, r).tool = "run"
                                                   /\ Sources(H, r)[y] # Target(H, r).resolved[y]}
  BY <1>3, <1>5 DEF Changed
<1>. QED  BY <1>1, <1>3, <1>4, <1>5, <1>6 DEF WeighedOn

\* It stays so while the session grows.
LEMMA WeighingStays ==
    ASSUME Grows, NEW p \in Processes, Weighing(p), call'[p] = call[p], Weighs(p)' => Weighs(p)
    PROVE  Weighing(p)'
<1>. SUFFICES ASSUME Weighs(p)'
              PROVE  LET x == Judged(call[p])
                     IN  /\ x.request.prefix \in 0..Len(log')
                         /\ WeighedOn(x, call[p].sources, SubSeq(log', 1, x.request.prefix))
  BY DEF Weighing, Frozen
<1>1. PICK x : x = Judged(call[p])
  OBVIOUS
<1>2. x.request.prefix \in 0..Len(log) /\ WeighedOn(x, call[p].sources, SubSeq(log, 1, x.request.prefix))
  BY <1>1 DEF Weighing, Frozen
<1>3. /\ SubSeq(log', 1, x.request.prefix) = SubSeq(log, 1, x.request.prefix)
      /\ x.request.prefix \in 0..Len(log')
  BY <1>2 DEF Grows
<1>. QED  BY <1>1, <1>2, <1>3

\* Nobody else writes an evaluation than who damages it.
LEMMA FiledStays ==
    ASSUME Filed, disk'["evaluation"] \in {disk["evaluation"], Damaged}
    PROVE  Filed'
BY DEF Filed, IsBundle

LEMMA OthersWeigh ==
    ASSUME DiskInv, Grows, Others, SettleInv
    PROVE  SettleInv'
<1>1. \E x \in Paths :
        \E content : /\ disk' = [disk EXCEPT ![x] = content]
                     /\ x = "evaluation" => content = Damaged
  <2>1. CASE ChangeDatabase
    <3>1. PICK v \in Versions : Write("db", v, barrier # Free)
      BY <2>1 DEF ChangeDatabase
    <3>. QED  BY <3>1 DEF Write, Paths
  <2>2. CASE EditPolicy
    BY <2>2 DEF EditPolicy, Write, Paths
  <2>3. CASE EditSpec
    BY <2>3 DEF EditSpec, Write, Paths
  <2>4. CASE WriteRequest
    <3>1. PICK r \in Drafts(log) : Write("request", r, FALSE)
      BY <2>4 DEF WriteRequest
    <3>. QED  BY <3>1 DEF Write, Paths
  <2>5. CASE Replace
    BY <2>5 DEF Replace, Write, Paths
  <2>. QED  BY <2>1, <2>2, <2>3, <2>4, <2>5 DEF Others
<1>2. UNCHANGED <<pc, call>>
  BY DEF Others, ChangeDatabase, EditPolicy, EditSpec, WriteRequest, Replace, Write
<1>3. Filed'
  <2>1. PICK x \in Paths :
            \E content : /\ disk' = [disk EXCEPT ![x] = content]
                         /\ x = "evaluation" => content = Damaged
    BY <1>1
  <2>2. "evaluation" \in DOMAIN disk
    BY DEF DiskInv, Paths
  <2>3. disk'["evaluation"] = IF x = "evaluation" THEN Damaged ELSE disk["evaluation"]
    BY <2>1, <2>2
  <2>. QED  BY <2>1, <2>3, FiledStays DEF SettleInv
<1>4. \A p \in Processes : Weighing(p)'
  BY <1>2, WeighingStays DEF SettleInv, Weighs
<1>. QED  BY <1>3, <1>4 DEF SettleInv

\* What is weighed was read by this step, or had been weighed before it.
LEMMA WeighingBegins ==
    ASSUME Framed, NEW p \in Processes, Executes(p), Weighs(p)'
    PROVE  \/ Evaluate(p) /\ ~Fail(p, "integrity")
           \/ ReadEvaluation(p) /\ ~Fail(p, "integrity")
           \/ call'[p] = call[p] /\ Weighs(p)
<1>1. pc'[p] # "append"
  BY DEF Weighs
<1>2. \A category : ~Fail(p, category)
  BY <1>1 DEF Fail, Goto, Framed
<1>3. CASE Confirms(p)
  <2>1. pc[p] \in {"before", "after"} /\ Advance(p) /\ UNCHANGED call
    BY <1>2, <1>3 DEF Confirms, CheckRun, CheckBaselineSource, CheckRequest, CheckEvaluation,
                      CheckBaseline, Confirm
  <2>2. pc'[p] = Successor(p) /\ pc[p] \in Working /\ call[p].tool \in Judges
    BY <2>1 DEF Advance, Goto, Framed, Working, Weighs
  <2>3. CASE call[p].tool = "evaluate"
    <3>1. pc[p] = "after" => Successor(p) = "bind"
      <4>. DEFINE k == CHOOSE i \in DOMAIN Plan["evaluate"] : Plan["evaluate"][i] = pc[p]
      <4>1. \E i \in DOMAIN Plan["evaluate"] : Plan["evaluate"][i] = pc[p]
        BY <2>2, <2>3, PlanShape DEF Framed, OnPlan, Working
      <4>2. k \in DOMAIN Plan["evaluate"] /\ Plan["evaluate"][k] = pc[p]
        BY <4>1
      <4>3. Successor(p) = Plan["evaluate"][1 + k]
        BY <2>3 DEF Successor
      <4>. HIDE DEF k
      <4>. QED  BY <4>2, <4>3 DEF Plan
    <3>. QED  BY <2>1, <2>2, <3>1, NextStep DEF Weighs
  <2>4. CASE call[p].tool = "verifyEvaluation"
    BY <2>1, <2>2, <2>4, NextStep DEF Weighs
  <2>. QED  BY <2>2, <2>3, <2>4 DEF Judges
<1>4. CASE Settle(p)
  <2>1. pc[p] \in {"stable", "settled"} /\ call'[p] = call[p]
    BY <1>2, <1>4 DEF Settle
  <2>. QED  BY <2>1 DEF Weighs
<1>5. CASE RejectBaseline(p)
  BY <1>2, <1>5 DEF RejectBaseline
<1>6. CASE Computes(p)
  <2>1. CASE Evaluate(p) \/ ReadEvaluation(p)
    BY <1>2, <2>1
  <2>2. CASE ComputeStudy(p) \/ ComputeBaseline(p) \/ ReadStudy(p) \/ ReadBaseline(p)
    <3>1. /\ pc[p] \in Working /\ UNCHANGED <<disk, log, meddled>>
          /\ call[p].tool \notin Judges
      BY <2>2 DEF ComputeStudy, ComputeBaseline, ReadStudy, ReadBaseline, At, Working, world, Judges
    <3>2. call'[p].tool = call[p].tool
      BY <1>6, ComputeStep DEF Fails, Prepares, Makes, Continues
    <3>. QED  BY <3>1, <3>2 DEF Weighs
  <2>. QED  BY <1>6, <2>1, <2>2 DEF Computes
<1>7. CASE Publishes(p)
  <2>1. pc[p] = "publish" /\ call'[p] = call[p]
    BY <1>2, <1>7 DEF Publishes, PublishStudy, PublishBaseline, PublishEvaluation, Publish, At
  <2>. QED  BY <2>1 DEF Weighs
<1>8. CASE Binds(p)
  <2>1. pc[p] = "bind" /\ pc[p] \in Working /\ Advance(p)
    BY <1>2, <1>8 DEF Binds, BindStudy, BindBaseline, BindEvaluation, Bind, At, Working
  <2>2. pc'[p] = Successor(p) /\ Successor(p) = "append"
    BY <2>1, Successors DEF Advance, Goto, Framed
  <2>. QED  BY <1>1, <2>2
<1>. QED  BY <1>3, <1>4, <1>5, <1>6, <1>7, <1>8 DEF Executes

\* The evidence is weighed as it is read.
LEMMA WeighingHolds ==
    ASSUME ToolInv, Filed, Grows, NEW p \in Processes, Weighing(p), Executes(p)
    PROVE  Weighing(p)'
<1>. SUFFICES ASSUME Weighs(p)' PROVE Weighing(p)'
  BY DEF Weighing
<1>1. Framed /\ CallShape(call[p]) /\ call = [q \in Processes |-> call[q]]
  BY DEF ToolInv, CallInv, Framed
<1>2. CASE Evaluate(p) /\ ~Fail(p, "integrity")
  <2>. DEFINE r == call[p].resolved.request
              H == Frozen(log, r)
              x == Evaluated(r)
              read == Sources(H, r)
  <2>1. /\ call[p].tool = "evaluate" /\ pc[p] = "compute" /\ EvidenceHolds(H, r)
        /\ call' = [call EXCEPT ![p].draft = x, ![p].sources = read]
        /\ UNCHANGED <<disk, log>>
    BY <1>2 DEF Evaluate, At
  <2>2. r.prefix = call[p].base /\ call[p].base \in 0..Len(log)
    BY <2>1 DEF ToolInv, CallInv, Judging, Working, Carrying, Fresh
  <2>3. WeighedOn(x, read, H) /\ x.request = r
    BY <2>1, ReadOnce
  <2>. HIDE DEF r, read, x
  <2>4. call'[p] = [tool |-> call[p].tool, base |-> call[p].base, resolved |-> call[p].resolved,
                    draft |-> x, sources |-> read, made |-> call[p].made]
    BY <1>1, <2>1 DEF CallShape
  <2>5. Judged(call'[p]) = x /\ call'[p].sources = read
    BY <2>1, <2>4 DEF Judged
  <2>. QED  BY <2>1, <2>2, <2>3, <2>5 DEF Weighing, Frozen
<1>3. CASE ReadEvaluation(p) /\ ~Fail(p, "integrity")
  <2>. DEFINE x == disk.evaluation
              r == x.request
              H == Frozen(log, r)
              read == Sources(H, r)
              made == Success(call[p], x)
  <2>1. /\ call[p].tool = "verifyEvaluation" /\ Reverifies(x)
        /\ call' = [call EXCEPT ![p].made = made, ![p].sources = read]
        /\ UNCHANGED <<disk, log>>
    BY <1>3 DEF ReadEvaluation
  <2>2. IsBundle(x) /\ r.prefix <= Len(log) /\ EvidenceHolds(H, r) /\ Evaluated(r) = x
    BY <2>1 DEF Reverifies
  <2>3. r.prefix \in 0..Len(log)
    BY <2>2 DEF Filed, Grows
  <2>4. WeighedOn(x, read, H)
    BY <2>2, ReadOnce
  <2>. HIDE DEF x, made, read
  <2>5. call'[p] = [tool |-> call[p].tool, base |-> call[p].base, resolved |-> call[p].resolved,
                    draft |-> call[p].draft, sources |-> read, made |-> made]
    BY <1>1, <2>1 DEF CallShape
  <2>6. made.says = x
    BY SuccessShape DEF made
  <2>7. Judged(call'[p]) = x /\ call'[p].sources = read
    BY <2>1, <2>5, <2>6 DEF Judged
  <2>. QED  BY <2>1, <2>3, <2>4, <2>7 DEF Weighing, Frozen
<1>4. CASE call'[p] = call[p] /\ Weighs(p)
  BY <1>4, WeighingStays
<1>. QED  BY <1>1, <1>2, <1>3, <1>4, WeighingBegins

\* An evaluation that is published names the prefix its call began with.
LEMMA FiledHolds ==
    ASSUME ToolInv, Filed, NEW p \in Processes, Steps(p) \/ Store(p)
    PROVE  Filed'
<1>1. CASE Publishes(p)
  <2>1. PICK tool \in Makers : Publish(p, tool)
    BY <1>1 DEF Publishes, PublishStudy, PublishBaseline, PublishEvaluation, Makers
  <2>2. /\ pc[p] = "publish" /\ call[p].tool = tool
        /\ disk' = [disk EXCEPT ![Output[tool]] = call[p].draft] \/ disk' = disk
    BY <2>1 DEF Publish, At
  <2>3. CASE disk' = disk
    BY <2>3, FiledStays
  <2>4. CASE tool = "evaluate" /\ disk' = [disk EXCEPT ![Output[tool]] = call[p].draft]
    <3>1. disk'["evaluation"] = call[p].draft
      BY <2>4 DEF Output, ToolInv, DiskInv, Paths
    <3>2. call[p].draft.request = call[p].resolved.request /\ call[p].resolved.request.prefix = call[p].base
      BY <2>2, <2>4 DEF ToolInv, CallInv, Judging, Working
    <3>3. call[p].base \in 0..Len(log)
      BY <2>2 DEF ToolInv, Carrying, Fresh
    <3>. QED  BY <3>1, <3>2, <3>3 DEF Filed
  <2>5. CASE tool # "evaluate" /\ disk' = [disk EXCEPT ![Output[tool]] = call[p].draft]
    <3>1. Output[tool] # "evaluation"
      BY <2>1, <2>5 DEF Output, Makers
    <3>2. disk'["evaluation"] = disk["evaluation"]
      BY <2>5, <3>1 DEF ToolInv, DiskInv, Paths
    <3>. QED  BY <3>2, FiledStays
  <2>. QED  BY <2>2, <2>3, <2>4, <2>5
<1>2. CASE ~Publishes(p)
  <2>1. disk' = disk
    BY <1>2 DEF Steps, Store, Open, Acquire, Reuse, Settle, Crash, ResolveRun, ResolveGenerate,
                ResolveVerify, ResolveBaselineVerify, ResolveEvaluate, ResolveEvaluationVerify,
                Resolve, CheckRun, CheckBaselineSource, CheckRequest, CheckEvaluation, CheckBaseline,
                Confirm, RejectBaseline, ComputeStudy, ComputeBaseline, ReadStudy, ReadBaseline,
                Evaluate, ReadEvaluation, BindStudy, BindBaseline, BindEvaluation, Bind, Publishes
  <2>. QED  BY <2>1, FiledStays
<1>. QED  BY <1>1, <1>2

\* No step of a process is one of another.
LEMMA BesideSteps ==
    ASSUME CallInv, NEW p \in Processes, Steps(p) \/ Store(p)
    PROVE  \A q \in Processes \ {p} : pc'[q] = pc[q] /\ call'[q] = call[q]
<1>1. Framed
  BY DEF CallInv
<1>2. CASE Executes(p)
  <2>1. Continues(p)
    BY <1>2, ExecutionWorks DEF Works, Fails, Prepares, Makes
  <2>. QED  BY <1>1, <2>1 DEF Continues, Apart, Framed
<1>3. CASE Open(p) \/ Acquire(p) \/ Reuse(p) \/ Store(p) \/ Crash(p)
  BY <1>1, <1>3 DEF Open, Acquire, Reuse, Store, Crash, Leave, Goto, Keep, Framed
<1>4. CASE \/ ResolveRun(p) \/ ResolveGenerate(p) \/ ResolveVerify(p) \/ ResolveBaselineVerify(p)
           \/ ResolveEvaluate(p) \/ ResolveEvaluationVerify(p)
  BY <1>1, <1>4 DEF ResolveRun, ResolveGenerate, ResolveVerify, ResolveBaselineVerify,
                    ResolveEvaluate, ResolveEvaluationVerify, Resolve, Leave, Goto, Keep, Framed
<1>. QED  BY <1>2, <1>3, <1>4 DEF Steps, Executes, Confirms, Computes, Publishes, Binds

\* A step that does not execute weighs nothing of its own.
LEMMA StepsWeigh ==
    ASSUME ToolInv, SettleInv, Grows, NEW p \in Processes, Steps(p) \/ Store(p)
    PROVE  SettleInv'
<1>1. Framed
  BY DEF ToolInv, CallInv
<1>2. Filed'
  BY FiledHolds DEF SettleInv
<1>3. Weighing(p)'
  <2>1. CASE Executes(p)
    BY <2>1, WeighingHolds DEF SettleInv
  <2>2. CASE ~Executes(p)
    <3>1. pc'[p] \in {"idle", "append", "identify", "acquire", "reuse", "before", "compute"}
      <4>1. CASE Open(p) \/ Acquire(p) \/ Store(p) \/ Crash(p)
        BY <1>1, <4>1 DEF Open, Acquire, Store, Crash, Leave, Goto, Keep, Framed
      <4>2. CASE Reuse(p)
        <5>1. call[p].tool \in Tools
          BY <1>1, <4>2 DEF Reuse, At, Framed, OnPlan
        <5>2. Head(Plan[call[p].tool]) \in {"before", "compute"}
          BY <5>1 DEF Plan, Tools
        <5>. QED  BY <1>1, <4>2, <5>2 DEF Reuse, Leave, Goto, Framed
      <4>3. CASE \/ ResolveRun(p) \/ ResolveGenerate(p) \/ ResolveVerify(p) \/ ResolveBaselineVerify(p)
                 \/ ResolveEvaluate(p) \/ ResolveEvaluationVerify(p)
        BY <1>1, <4>3 DEF ResolveRun, ResolveGenerate, ResolveVerify, ResolveBaselineVerify,
                          ResolveEvaluate, ResolveEvaluationVerify, Resolve, Leave, Goto, Keep, Framed
      <4>. QED  BY <2>2, <4>1, <4>2, <4>3
                DEF Steps, Executes, Confirms, Computes, Publishes, Binds
    <3>. QED  BY <3>1 DEF Weighing, Weighs
  <2>. QED  BY <2>1, <2>2
<1>4. ASSUME NEW q \in Processes \ {p} PROVE Weighing(q)'
  <2>1. pc'[q] = pc[q] /\ call'[q] = call[q]
    BY BesideSteps DEF ToolInv
  <2>. QED  BY <2>1, WeighingStays DEF SettleInv, Weighs
<1>. QED  BY <1>2, <1>3, <1>4 DEF SettleInv

\* A verdict that goes on, to be published or recorded, would be given again at that moment:
\* what an evaluation read one file after another, and found unchanged at its second look, is
\* evidence it could have read at once.
THEOREM VerdictsAreSettled == Spec => VerdictsSettle
<1>1. Init => SettleInv
  BY DEF Init, DiskOf, SettleInv, Filed, IsBundle, Weighing, Weighs
<1>2. ASSUME ToolInv, SettleInv, [Next]_vars PROVE SettleInv'
  <2>1. CASE UNCHANGED vars
    BY <1>2, <2>1 DEF vars, SettleInv, Filed, Weighing, Weighs, Frozen
  <2>2. ASSUME log' = log PROVE Grows
    BY <1>2, <2>2, GrowsByEvent DEF ToolInv, LogInv
  <2>3. CASE Others
    BY <1>2, <2>2, <2>3, OthersKeep, OthersWeigh DEF ToolInv
  <2>4. ASSUME NEW p \in Processes, Steps(p) PROVE SettleInv'
    BY <1>2, <2>2, <2>4, StepsKeep, StepsWeigh DEF ToolInv
  <2>5. ASSUME NEW p \in Processes, Store(p) PROVE SettleInv'
    BY <1>2, <2>5, StoreRecords, StepsWeigh DEF ToolInv, LogInv
  <2>. QED  BY <1>2, <2>1, <2>3, <2>4, <2>5 DEF Next, Steps, Others
<1>3. ASSUME ToolInv, SettleInv, [Next]_vars,
             NEW p \in Processes, pc[p] \in {"stable", "settled"}, pc'[p] \in {"publish", "after"}
      PROVE  Reverifies(Judged(call[p]))
  <2>1. Framed /\ Len(log) \in Nat
    BY <1>3 DEF ToolInv, CallInv, LogInv
  <2>2. Settle(p)
    <3>1. pc'[p] # pc[p] /\ pc[p] \notin {"idle", "append", "identify", "acquire", "reuse", "before",
                                          "compute", "publish", "after", "bind"}
      BY <1>3
    <3>2. ASSUME NEW q \in Processes \ {p}, Steps(q) \/ Store(q) PROVE pc'[p] = pc[p]
      BY <1>3, <3>2, BesideSteps DEF ToolInv
    <3>3. Steps(p)
      BY <1>3, <3>1, <3>2 DEF Next, Steps, Others, Store, At, ChangeDatabase, EditPolicy, EditSpec,
                              WriteRequest, Replace, Write, vars
    <3>4. ~Crash(p)
      BY <1>3, <2>1 DEF Crash, Leave, Goto, Framed
    <3>. QED  BY <3>1, <3>3, <3>4
              DEF Steps, Open, Acquire, Reuse, ResolveRun, ResolveGenerate, ResolveVerify,
                  ResolveBaselineVerify, ResolveEvaluate, ResolveEvaluationVerify, Resolve, CheckRun,
                  CheckBaselineSource, CheckRequest, CheckEvaluation, CheckBaseline, Confirm,
                  RejectBaseline, ComputeStudy, ComputeBaseline, ReadStudy, ReadBaseline, Evaluate,
                  ReadEvaluation, PublishStudy, PublishBaseline, PublishEvaluation, Publish,
                  BindStudy, BindBaseline, BindEvaluation, Bind, At
  <2>3. \A y \in DOMAIN call[p].sources : disk[y] = call[p].sources[y]
    BY <1>3, <2>1, <2>2 DEF Settle, Fail, Goto, Framed
  <2>4. call[p].tool \in Judges
    <3>1. pc[p] \in Working /\ pc[p] \in {"stable", "settled"}
      BY <1>3 DEF Working
    <3>. QED  BY <2>1, <3>1, NextStep DEF Tools, Judges
  <2>5. Weighing(p) /\ Weighs(p)
    BY <1>3, <2>4 DEF SettleInv, Weighs
  <2>. QED  BY <2>1, <2>3, <2>5, ReadAgain DEF Weighing
<1>4. ToolInv /\ SettleInv /\ [Next]_vars =>
          (\A p \in Processes :
              pc[p] \in {"stable", "settled"} /\ pc'[p] \in {"publish", "after"} =>
                  Reverifies(Judged(call[p]))) \/ UNCHANGED vars
  BY <1>3
<1>. QED  BY <1>1, <1>2, <1>4, ToolInit, ToolNext, PTL DEF Spec, VerdictsSettle
=============================================================================
