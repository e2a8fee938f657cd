-------------------------- MODULE PipelineExecutor --------------------------
(***************************************************************************)
(* One run of a sequential pipeline: executePipeline, the dependency       *)
(* layers it resolves, and executeStageWithRetry / executeStage for every  *)
(* stage, over the shared context store and the policy engine.             *)
(*                                                                         *)
(* The executor is one JavaScript thread and the context store answers     *)
(* synchronously, so a stage only lets other code run while it waits for   *)
(* its agent loop, a backoff timer or a person.  Everything else is a      *)
(* micro step: micro steps of the stages of a layer interleave with each   *)
(* other, and no timer, reply or click is delivered while one is pending   *)
(* (Busy).                                                                 *)
(***************************************************************************)
EXTENDS Naturals, Sequences, FiniteSets

CONSTANTS
    Stages,          \* names of the stages of the pipeline
    Graphs,          \* the depends_on maps considered, [Stages -> sets of names]
    MaxRetries,      \* on_fail.max_retries per stage, 0 when there is no on_fail
    MaxFallbacks,    \* number of fallback_models per stage
    InjectKey,       \* on_fail.inject_context per stage, or NoKey
    MayWrite,        \* stages whose context.write covers "<stage>.output"
    Provided,        \* stages whose provider is configured
    Sandboxed,       \* stages that run with permissions: sandbox
    HasErrorHandler, \* whether the caller passes onStageError
    HasReview,       \* whether the caller passes onSandboxReview
    RateMax,         \* policies.rate_limit tokens, 0 when there is no limit
    CostLimit,       \* policies.cost_limit
    Costs,           \* the costs an attempt can have
    ExtraKeys,       \* context keys that are not stage outputs
    Prompt,          \* the key "input.prompt"
    SeedKeys,        \* persistent.learned / persistent.history, when present
    NoKey,           \* no inject_context
    NoSnap,          \* no auto-snapshot of this stage in the database
    Databases        \* what context.db can hold when a run opens it

(* "<stage>.output" is written s: the output key of a stage is its name.   *)
Keys == Stages \cup ExtraKeys

(* The provenance of a value: absent, left by an earlier run, of this run. *)
Values == {"none", "old", "new"}

Stores == [Keys -> Values]

(* What the earlier runs of a project can have left: entries, and the      *)
(* newest snapshot of each stage.                                          *)
Earlier == [Keys -> {"none", "old"}]

ASSUME ConstantsAssumption ==
    /\ \A g \in Graphs : DOMAIN g = Stages
    /\ MaxRetries \in [Stages -> Nat] /\ MaxFallbacks \in [Stages -> Nat]
    /\ InjectKey \in [Stages -> ExtraKeys \cup {NoKey}]
    /\ MayWrite \subseteq Stages /\ Provided \subseteq Stages
    /\ Sandboxed \subseteq Stages
    /\ HasErrorHandler \in BOOLEAN /\ HasReview \in BOOLEAN
    /\ Databases \subseteq [entries : Earlier, snapshots : [Stages -> Earlier \cup {NoSnap}]]
    /\ RateMax \in Nat /\ CostLimit \in Nat /\ Costs \subseteq Nat
    /\ Stages \cap ExtraKeys = {} /\ Prompt \in ExtraKeys
    /\ SeedKeys \subseteq ExtraKeys \ {Prompt}
    /\ NoKey \notin Keys
    /\ NoSnap \notin Stores

VARIABLES
    deps,       \* depends_on of every stage; fixed by the YAML
    phase,      \* ordering, invalid, running, returned or thrown
    layers,     \* the layers resolveExecutionOrder has produced
    cur,        \* index of the layer being executed, 0 before the first
    pc,         \* where executeStageWithRetry stands for each stage
    result,     \* status of the last StageResult of each stage
    err,        \* kind of the error in that result
    attempts,   \* on_fail retries taken
    fallbacks,  \* fallback models tried
    asked,      \* whether onStageError was called
    store,      \* the context entries
    snap,       \* newest snapshot named auto:before:<stage>
    tokens,     \* tokens left in the policy engine's bucket
    spent,      \* total of the policy engine's cost tracker
    aborted,    \* deps.signal.aborted
    open,       \* whether the context database is open
    taken,      \* history: the stages this run has taken a snapshot of
    reverted,   \* history: those rolled back to a snapshot of an earlier run
    runStatus   \* status of the PipelineRunResult

control == <<pc, result, err, attempts, fallbacks, asked>>
context == <<store, snap, open, taken, reverted>>
policy  == <<tokens, spent>>
run     == <<deps, phase, layers, cur, runStatus>>
vars    == <<run, control, context, policy, aborted>>

(***************************************************************************)
(* Layers.                                                                 *)
(***************************************************************************)
Resolved  == UNION {layers[i] : i \in DOMAIN layers}
Remaining == Stages \ Resolved
NextLayer == {s \in Remaining : deps[s] \subseteq Resolved}
Unknown   == {s \in Stages : ~(deps[s] \subseteq Stages)}

Current == IF cur = 0 THEN {} ELSE layers[cur]

(* Mutant: Promise.race instead of Promise.all.                            *)
LayerRaced == Current # {} => \E s \in Current : pc[s] = "done"

(* Promise.all of the current layer has resolved.                          *)
LayerSettled == \A s \in Current : pc[s] = "done"

PipelineFailed == \E s \in Stages : pc[s] = "done" /\ result[s] = "failed"

(* A micro step is pending, so no timer, reply or click is delivered.      *)
Busy ==
    \/ phase = "ordering" /\ layers # <<>>
    \/ phase = "running" /\ LayerSettled
    \/ \E s \in Stages : pc[s] \in {"ready", "seeding", "diff", "returned"}

Init ==
    /\ deps \in Graphs
    /\ phase = "ordering" /\ layers = <<>> /\ cur = 0 /\ runStatus = "none"
    /\ pc = [s \in Stages |-> "idle"]
    /\ result = [s \in Stages |-> "none"]
    /\ err = [s \in Stages |-> "none"]
    /\ attempts = [s \in Stages |-> 0]
    /\ fallbacks = [s \in Stages |-> 0]
    /\ asked = [s \in Stages |-> FALSE]
    /\ \E db \in Databases :
          /\ store = [db.entries EXCEPT ![Prompt] = "new"]
          /\ snap = db.snapshots
    /\ taken = {} /\ reverted = {}
    /\ tokens = RateMax /\ spent = 0
    /\ aborted = FALSE /\ open = TRUE

(***************************************************************************)
(* resolveExecutionOrder: one action per round of its while loop.          *)
(***************************************************************************)
RejectUnknown ==
    /\ phase = "ordering" /\ layers = <<>> /\ Unknown # {}
    /\ phase' = "invalid"
    /\ UNCHANGED <<deps, layers, cur, runStatus, control, context, policy, aborted>>

TakeLayer ==
    /\ phase = "ordering" /\ Unknown = {} /\ NextLayer # {}
    /\ layers' = Append(layers, NextLayer)
    /\ UNCHANGED <<deps, phase, cur, runStatus, control, context, policy, aborted>>

RejectCycle ==
    /\ phase = "ordering" /\ Unknown = {} /\ NextLayer = {} /\ Remaining # {}
    /\ phase' = "invalid"
    /\ UNCHANGED <<deps, layers, cur, runStatus, control, context, policy, aborted>>

OrderResolved ==
    /\ phase = "ordering" /\ Unknown = {} /\ Remaining = {}
    /\ phase' = "running"
    /\ UNCHANGED <<deps, layers, cur, runStatus, control, context, policy, aborted>>

(***************************************************************************)
(* executePipeline: the loop over the layers.                              *)
(***************************************************************************)
RunLayer ==
    /\ phase = "running" /\ LayerSettled /\ cur < Len(layers)
    /\ ~PipelineFailed /\ ~aborted
    /\ cur' = cur + 1
    /\ pc' = [s \in Stages |-> IF s \in layers[cur + 1] THEN "ready" ELSE pc[s]]
    /\ UNCHANGED <<deps, phase, layers, runStatus, result, err, attempts, fallbacks,
                   asked, context, policy, aborted>>

SkipLayer ==
    /\ phase = "running" /\ LayerSettled /\ cur < Len(layers)
    /\ PipelineFailed \/ aborted
    /\ cur' = cur + 1
    /\ pc' = [s \in Stages |-> IF s \in layers[cur + 1] THEN "done" ELSE pc[s]]
    /\ result' = [s \in Stages |->
                    IF s \notin layers[cur + 1] THEN result[s]
                    ELSE IF aborted THEN "cancelled" ELSE "skipped"]
    /\ UNCHANGED <<deps, phase, layers, runStatus, err, attempts, fallbacks, asked,
                   context, policy, aborted>>

FinalStatus ==
    IF aborted THEN "failed"
    ELSE IF \A s \in Stages : result[s] = "success" THEN "success"
    ELSE IF \E s \in Stages : result[s] = "success" THEN "partial"
    ELSE "failed"

Finish ==
    /\ phase = "running" /\ LayerSettled /\ cur = Len(layers)
    /\ phase' = "returned"
    /\ runStatus' = FinalStatus
    /\ UNCHANGED <<deps, layers, cur, control, context, policy, aborted>>

(***************************************************************************)
(* executeStage.                                                           *)
(***************************************************************************)

(* contextStore.set, saveSnapshot and restoreSnapshot, which fail on a     *)
(* database that is closed.                                                *)
Entered(k) == IF open THEN [store EXCEPT ![k] = "new"] ELSE store

SaveSnapshot(s) ==
    /\ snap' = IF open THEN [snap EXCEPT ![s] = store] ELSE snap
    /\ taken' = IF open THEN taken \cup {s} ELSE taken
    /\ UNCHANGED <<store, open, reverted>>

Restored(saved) == IF open /\ saved # NoSnap THEN saved ELSE store

(* policyEngine.tryConsumeRate, and recordCost of what is affordable.      *)
HasToken == RateMax > 0 => tokens > 0

Consumed == IF RateMax > 0 THEN tokens - 1 ELSE tokens

Affordable(c) == spent + c <= CostLimit

(* executeStage returns a StageResult to executeStageWithRetry.            *)
Return(s, status, error) ==
    /\ pc' = [pc EXCEPT ![s] = "returned"]
    /\ result' = [result EXCEPT ![s] = status]
    /\ err' = [err EXCEPT ![s] = error]

(* Mutant: the abort check at the top of executeStage is missing.          *)
BeginUnchecked(s) ==
    /\ pc[s] = "ready"
    /\ \/ /\ s \notin Provided
          /\ Return(s, "failed", "other")
          /\ UNCHANGED <<context, policy>>
       \/ /\ s \in Provided /\ ~HasToken
          /\ Return(s, "failed", "policy")
          /\ UNCHANGED <<context, policy>>
       \/ /\ s \in Provided /\ HasToken
          /\ tokens' = Consumed
          /\ SaveSnapshot(s)
          /\ pc' = [pc EXCEPT ![s] = "seeding"]
          /\ UNCHANGED <<result, err, spent>>
    /\ UNCHANGED <<run, attempts, fallbacks, asked, aborted>>

(* Up to its first await: abort check, provider, rate limit, snapshot.     *)
Begin(s) ==
    /\ pc[s] = "ready"
    /\ \/ /\ aborted
          /\ Return(s, "skipped", "none")
          /\ UNCHANGED <<context, policy>>
       \/ /\ ~aborted /\ s \notin Provided
          /\ Return(s, "failed", "other")
          /\ UNCHANGED <<context, policy>>
       \/ /\ ~aborted /\ s \in Provided /\ ~HasToken
          /\ Return(s, "failed", "policy")
          /\ UNCHANGED <<context, policy>>
       \/ /\ ~aborted /\ s \in Provided /\ HasToken
          /\ tokens' = Consumed
          /\ SaveSnapshot(s)
          /\ pc' = [pc EXCEPT ![s] = "seeding"]
          /\ UNCHANGED <<result, err, spent>>
    /\ UNCHANGED <<run, attempts, fallbacks, asked, aborted>>

(* Seed the persistent entries, read the context, start the agent loop;    *)
(* on a closed database the listing fails.                                 *)
Launch(s) ==
    /\ pc[s] = "seeding"
    /\ \/ /\ open
          /\ store' = [k \in Keys |-> IF k \in SeedKeys THEN "new" ELSE store[k]]
          /\ pc' = [pc EXCEPT ![s] = "looping"]
          /\ UNCHANGED <<result, err>>
       \/ /\ ~open
          /\ Return(s, "failed", "other")
          /\ UNCHANGED store
    /\ UNCHANGED <<run, attempts, fallbacks, asked, snap, open, taken, reverted, policy,
                   aborted>>

(* runAgentLoop returned an error: a rate limit of the provider, or any    *)
(* other one, "Pipeline execution was cancelled" included.                 *)
LoopFails(s) ==
    /\ pc[s] = "looping" /\ ~Busy
    /\ \E e \in {"rate", "other"} : Return(s, "failed", e)
    /\ UNCHANGED <<run, attempts, fallbacks, asked, context, policy, aborted>>

(* Mutant: a sandboxed stage forgets to write its output.                  *)
WriteUnlessSandboxed(s) ==
    IF s \in MayWrite \ Sandboxed THEN Entered(s) ELSE store

(* writeStageOutput: a refused or failed write does not fail the stage.    *)
WriteOutput(s) ==
    IF s \in MayWrite THEN Entered(s) ELSE store

(* runAgentLoop returned a result: cost check, output, sandbox.            *)
LoopSucceeds(s) ==
    /\ pc[s] = "looping" /\ ~Busy
    /\ \E c \in Costs :
          \/ /\ ~Affordable(c)
             /\ Return(s, "failed", "cost")
             /\ UNCHANGED <<spent, store>>
          \/ /\ Affordable(c)
             /\ spent' = spent + c
             /\ store' = WriteOutput(s)
             /\ \/ s \notin Sandboxed /\ Return(s, "success", "none")
                \/ /\ s \in Sandboxed
                   /\ pc' = [pc EXCEPT ![s] = "diff"]
                   /\ UNCHANGED <<result, err>>
    /\ UNCHANGED <<run, attempts, fallbacks, asked, snap, open, taken, reverted, tokens,
                   aborted>>

(* sandbox.diff(): no change, or nobody to ask, and the sandbox is         *)
(* discarded; otherwise onSandboxReview is awaited.                        *)
Compare(s) ==
    /\ pc[s] = "diff"
    /\ \/ Return(s, "success", "none")
       \/ /\ HasReview
          /\ pc' = [pc EXCEPT ![s] = "review"]
          /\ UNCHANGED <<result, err>>
    /\ UNCHANGED <<run, attempts, fallbacks, asked, context, policy, aborted>>

(* The person applies or discards the sandbox: the stage succeeds.         *)
Review(s) ==
    /\ pc[s] = "review" /\ ~Busy
    /\ Return(s, "success", "none")
    /\ UNCHANGED <<run, attempts, fallbacks, asked, context, policy, aborted>>

(* executeStage throws (a sandbox that cannot be created or compared, a    *)
(* limiter wait that is aborted): Promise.all rejects at once and the      *)
(* other stages of the layer go on.                                        *)
Throw(s) ==
    /\ pc[s] \in {"looping", "diff"}
    /\ pc' = [pc EXCEPT ![s] = "thrown"]
    /\ phase' = "thrown"
    /\ UNCHANGED <<deps, layers, cur, runStatus, result, err, attempts, fallbacks,
                   asked, context, policy, aborted>>

(***************************************************************************)
(* executeStageWithRetry.                                                  *)
(***************************************************************************)

(* rollbackContext: the whole store becomes the newest auto-snapshot of s, *)
(* one of an earlier run when s failed before it took its own.             *)
Rollback(s) == Restored(snap[s])

Reverted(s) ==
    IF open /\ snap[s] # NoSnap /\ s \notin taken THEN reverted \cup {s} ELSE reverted

RetryLeft(s) == attempts[s] < MaxRetries[s] /\ fallbacks[s] = 0 /\ ~asked[s]

FallbackLeft(s) == err[s] = "rate" /\ fallbacks[s] < MaxFallbacks[s] /\ ~asked[s]

Failed(s) == pc[s] = "returned" /\ result[s] = "failed"

(* Mutant: the attempt is not counted.                                     *)
BackoffUncounted(s) ==
    /\ Failed(s) /\ RetryLeft(s)
    /\ pc' = [pc EXCEPT ![s] = "backoff"]
    /\ UNCHANGED <<run, result, err, attempts, fallbacks, asked, context, policy,
                   aborted>>

(* on_fail: announce the retry and sleep.                                  *)
Backoff(s) ==
    /\ Failed(s) /\ RetryLeft(s)
    /\ pc' = [pc EXCEPT ![s] = "backoff"]
    /\ attempts' = [attempts EXCEPT ![s] = @ + 1]
    /\ UNCHANGED <<run, result, err, fallbacks, asked, context, policy, aborted>>

(* The store once inject_context is set on top of the rollback.            *)
Injected(s) ==
    IF open /\ InjectKey[s] # NoKey
    THEN [Rollback(s) EXCEPT ![InjectKey[s]] = "new"]
    ELSE Rollback(s)

(* The backoff timer fires.                                                *)
Wake(s) ==
    /\ pc[s] = "backoff" /\ ~Busy
    /\ \/ /\ aborted
          /\ pc' = [pc EXCEPT ![s] = "done"]
          /\ result' = [result EXCEPT ![s] = "cancelled"]
          /\ err' = [err EXCEPT ![s] = "none"]
          /\ UNCHANGED <<store, reverted>>
       \/ /\ ~aborted
          /\ pc' = [pc EXCEPT ![s] = "ready"]
          /\ store' = Injected(s) /\ reverted' = Reverted(s)
          /\ UNCHANGED <<result, err>>
    /\ UNCHANGED <<run, attempts, fallbacks, asked, snap, open, taken, policy, aborted>>

(* fallback_models: roll back and run the stage with the next model.       *)
Fallback(s) ==
    /\ Failed(s) /\ ~RetryLeft(s) /\ FallbackLeft(s)
    /\ pc' = [pc EXCEPT ![s] = "ready"]
    /\ fallbacks' = [fallbacks EXCEPT ![s] = @ + 1]
    /\ store' = Rollback(s) /\ reverted' = Reverted(s)
    /\ UNCHANGED <<run, result, err, attempts, asked, snap, open, taken, policy, aborted>>

(* onStageError: pause and ask.                                            *)
Ask(s) ==
    /\ Failed(s) /\ ~RetryLeft(s) /\ ~FallbackLeft(s)
    /\ HasErrorHandler /\ ~asked[s]
    /\ pc' = [pc EXCEPT ![s] = "asking"]
    /\ asked' = [asked EXCEPT ![s] = TRUE]
    /\ UNCHANGED <<run, result, err, attempts, fallbacks, context, policy, aborted>>

(* The person answers retry, skip or abort.                                *)
Answer(s) ==
    /\ pc[s] = "asking" /\ ~Busy
    /\ \/ /\ pc' = [pc EXCEPT ![s] = "ready"]
          /\ store' = Rollback(s) /\ reverted' = Reverted(s)
          /\ UNCHANGED result
       \/ /\ pc' = [pc EXCEPT ![s] = "done"]
          /\ result' = [result EXCEPT ![s] = "skipped"]
          /\ UNCHANGED <<store, reverted>>
       \/ /\ pc' = [pc EXCEPT ![s] = "done"]
          /\ UNCHANGED <<result, store, reverted>>
    /\ UNCHANGED <<run, err, attempts, fallbacks, asked, snap, open, taken, policy,
                   aborted>>

(* Nothing is left to try: the promise of the stage resolves.              *)
Settle(s) ==
    /\ pc[s] = "returned"
    /\ ~ \/ result[s] = "failed" /\ RetryLeft(s)
         \/ result[s] = "failed" /\ FallbackLeft(s)
         \/ result[s] = "failed" /\ HasErrorHandler /\ ~asked[s]
    /\ pc' = [pc EXCEPT ![s] = "done"]
    /\ UNCHANGED <<run, result, err, attempts, fallbacks, asked, context, policy,
                   aborted>>

(***************************************************************************)
(* The environment.                                                        *)
(***************************************************************************)

(* controller.abort(): a cancel request, or Ctrl-C in the terminal.        *)
Cancel ==
    /\ ~aborted /\ ~Busy /\ phase \in {"ordering", "running", "thrown"}
    /\ aborted' = TRUE
    /\ UNCHANGED <<run, control, context, policy>>

(* Time passes and the rate bucket gains a token.                          *)
Refill ==
    /\ tokens < RateMax /\ ~Busy /\ phase = "running"
    /\ tokens' = tokens + 1
    /\ UNCHANGED <<run, control, context, spent, aborted>>

(* The caller closes the store once executePipeline resolved or rejected.  *)
Close ==
    /\ open /\ ~Busy /\ phase \in {"invalid", "returned", "thrown"}
    /\ open' = FALSE
    /\ UNCHANGED <<run, control, store, snap, taken, reverted, policy, aborted>>

Ordering == RejectUnknown \/ TakeLayer \/ RejectCycle \/ OrderResolved

Pipeline == RunLayer \/ SkipLayer \/ Finish

(* The steps of stage s that need nobody outside the program.              *)
StageStep(s) ==
    \/ Begin(s) \/ Launch(s) \/ Compare(s) \/ Backoff(s) \/ Wake(s)
    \/ Fallback(s) \/ Ask(s) \/ Settle(s)

(* runAgentLoop comes back, in whatever way.                               *)
LoopReturns(s) == LoopFails(s) \/ LoopSucceeds(s) \/ Throw(s)

(* Any step of stage s.                                                    *)
StageMove(s) == StageStep(s) \/ LoopReturns(s) \/ Review(s) \/ Answer(s)

Next ==
    \/ Ordering \/ Pipeline
    \/ \E s \in Stages : StageMove(s)
    \/ Cancel \/ Refill \/ Close

(* The runtime runs every ready step, and timers fire.  Nothing makes a    *)
(* person answer or cancel, nor the bucket gain a token before it is       *)
(* needed, nor an agent loop return: it may ask a person for a permission. *)
Fairness ==
    /\ WF_vars(Ordering \/ Pipeline)
    /\ \A s \in Stages : WF_vars(StageStep(s))

Spec == Init /\ [][Next]_vars /\ Fairness

(***************************************************************************)
(* Properties.                                                             *)
(***************************************************************************)
Phases == {"ordering", "invalid", "running", "returned", "thrown"}
Points == {"idle", "ready", "seeding", "looping", "diff", "review", "returned",
           "backoff", "asking", "done", "thrown"}
Statuses == {"none", "success", "failed", "skipped", "cancelled"}
Errors == {"none", "rate", "policy", "cost", "other"}

(* Every variable stays in its range: retries and fallbacks never exceed   *)
(* what the YAML allows, the recorded cost never exceeds cost_limit.       *)
TypeOK ==
    /\ deps \in Graphs
    /\ phase \in Phases
    /\ layers \in Seq(SUBSET Stages)
    /\ cur \in 0 .. Len(layers)
    /\ runStatus \in {"none", "success", "partial", "failed"}
    /\ pc \in [Stages -> Points]
    /\ result \in [Stages -> Statuses]
    /\ err \in [Stages -> Errors]
    /\ attempts \in [Stages -> Nat] /\ \A s \in Stages : attempts[s] <= MaxRetries[s]
    /\ fallbacks \in [Stages -> Nat] /\ \A s \in Stages : fallbacks[s] <= MaxFallbacks[s]
    /\ asked \in [Stages -> BOOLEAN]
    /\ store \in Stores
    /\ snap \in [Stages -> Stores \cup {NoSnap}]
    /\ tokens \in 0 .. RateMax
    /\ spent \in 0 .. CostLimit
    /\ aborted \in BOOLEAN /\ open \in BOOLEAN
    /\ taken \subseteq Stages /\ reverted \subseteq Stages

(* executeStageWithRetry has been called for s and has not settled.        *)
Active(s) == pc[s] \notin {"idle", "done", "thrown"}

(* resolveExecutionOrder: the layers are disjoint and a stage comes in a   *)
(* later layer than everything it depends on, so that no stage of a layer  *)
(* waits for another one of it.                                            *)
OrderIsTopological ==
    \A i \in DOMAIN layers : \A s \in layers[i] :
        \A d \in deps[s] : \E j \in 1 .. i - 1 : d \in layers[j]

(* A set of stages each of which waits for another one of the set.         *)
Circular == \E C \in SUBSET Stages : C # {} /\ \A s \in C : deps[s] \cap C # {}

(* resolveExecutionOrder refuses a pipeline exactly when a dependency is   *)
(* unknown or circular, and an accepted order holds every stage.           *)
RefusedIffIllFormed ==
    /\ phase = "invalid" => Unknown # {} \/ Circular
    /\ phase \in {"running", "returned", "thrown"} =>
          Unknown = {} /\ ~Circular /\ Remaining = {}

(* A stage is only run once everything it depends on has settled, and on   *)
(* nothing that failed or was cancelled: executePipeline goes layer by     *)
(* layer, whatever retries, fallbacks and answers the layer needed.        *)
DependencyOrder ==
    \A s \in Stages : Active(s) =>
        \A d \in deps[s] : pc[d] = "done" /\ result[d] \in {"success", "skipped"}

(* A stage that failed for good keeps every stage of a later layer from    *)
(* running: pipelineFailed makes executePipeline skip them.                *)
FailureStopsLaterLayers ==
    \A i, j \in DOMAIN layers : i < j =>
        \A s \in layers[i], t \in layers[j] :
            pc[s] = "done" /\ result[s] = "failed" =>
                \/ pc[t] = "idle"
                \/ pc[t] = "done" /\ result[t] \in {"skipped", "cancelled"}

Retried(s) == attempts[s] > 0 \/ fallbacks[s] > 0 \/ asked[s]

(* The agent loop of s succeeded within budget: writeStageOutput was done. *)
Delivered(s) == result[s] = "success" \/ pc[s] \in {"diff", "review"}

(* The output a stage delivered can only get lost to the rollback of a     *)
(* stage that ran beside it in the same layer, or of one of that layer or  *)
(* a later one that failed before it took a snapshot and so went back to   *)
(* one of an earlier run.                                                  *)
OutputsLostOnlyToSiblings ==
    \A i \in 1 .. cur : \A s \in layers[i] :
        Delivered(s) /\ s \in MayWrite /\ phase # "thrown" /\ store[s] # "new"
        => \/ \E t \in layers[i] \ {s} : Retried(t)
           \/ \E j \in i .. cur : \E t \in layers[j] \ {s} : t \in reverted

(* No step of a layer, rollbacks included, changes the output of a stage   *)
(* of an earlier layer, unless a stage of the layer went back to a         *)
(* snapshot of an earlier run.                                             *)
EarlierLayersKept ==
    [][\A i \in 1 .. cur - 1 : \A s \in layers[i] :
          store'[s] = store[s] \/ Current \cap reverted' # {}]_vars

Launches(s) == pc[s] = "seeding" /\ pc'[s] = "looping"

(* Once the run is cancelled no agent loop is started any more.            *)
NoLaunchAfterCancel == [][\A s \in Stages : Launches(s) => ~aborted]_vars

Settled == phase \in {"invalid", "returned", "thrown"}

(* Every run ends unless it waits forever for a person or for an agent     *)
(* loop: retries, fallback models and layers are finite and no stage waits *)
(* for another one.                                                        *)
EndsUnlessUnanswered ==
    <>Settled \/ <>[](\E s \in Stages : pc[s] \in {"looping", "asking", "review"})

(* The invariant behind DependencyOrder and the properties of outputs.     *)

(* A stage belongs to one layer; layers before the current one are done,   *)
(* those after it untouched; only the current one is being worked on.      *)
LayersInTurn ==
    /\ phase \in {"ordering", "invalid"} => cur = 0
    /\ \A i, j \in DOMAIN layers : i # j => layers[i] \cap layers[j] = {}
    /\ \A s \in Stages : pc[s] # "idle" => \E i \in 1 .. cur : s \in layers[i]
    /\ \A i \in DOMAIN layers : \A s \in layers[i] :
          /\ i < cur => pc[s] = "done"
          /\ i = cur => pc[s] # "idle"
    /\ phase = "returned" => \A s \in Stages : pc[s] = "done"

(* A stage that has an outcome has a status, "cancelled" comes from a      *)
(* cancel only, and no attempt is on its way to the provider after one.    *)
OutcomesKnown ==
    \A s \in Stages :
        /\ pc[s] \in {"returned", "done"} => result[s] # "none"
        /\ pc[s] \in {"backoff", "asking"} => result[s] = "failed" /\ Retried(s)
        /\ result[s] = "success" => pc[s] \in {"returned", "done"}
        /\ result[s] = "cancelled" => aborted
        /\ pc[s] = "seeding" => ~aborted

(* The newest snapshot this run has of a stage of the current layer holds  *)
(* the outputs of the earlier layers as they are, unless one of the layer  *)
(* went back to an earlier run; stages that have not run have none.        *)
SnapshotsKeepEarlierLayers ==
    \A t \in taken :
        /\ pc[t] # "idle"
        /\ t \in Current =>
             \A i \in 1 .. cur - 1 : \A s \in layers[i] :
                 snap[t][s] = store[s] \/ Current \cap reverted # {}

(* No circular set of stages has a member in a layer.                      *)
NoCycleResolved ==
    \A C \in SUBSET Stages :
        (\A s \in C : deps[s] \cap C # {}) => C \cap Resolved = {}

OrderInv ==
    /\ OrderIsTopological
    /\ NoCycleResolved
    /\ layers # <<>> => Unknown = {}
    /\ phase = "invalid" => Unknown # {} \/ (NextLayer = {} /\ Remaining # {})
    /\ phase \notin {"ordering", "invalid"} => Unknown = {} /\ Remaining = {}
    /\ phase \in {"ordering", "running"} => open

TurnInv == TypeOK /\ OrderInv /\ LayersInTurn /\ OutcomesKnown /\ DependencyOrder

(* What holds of a run on any database.                                    *)
IInv == TurnInv /\ SnapshotsKeepEarlierLayers /\ OutputsLostOnlyToSiblings
=============================================================================
