----------------------- MODULE PipelineExecutorProofs -----------------------
(***************************************************************************)
(* Proofs about PipelineExecutor, for every pipeline, retry budget, policy *)
(* limit and caller.                                                       *)
(***************************************************************************)
EXTENDS PipelineExecutor, TLAPS

(* Facts about the constants, in the form the steps below use them.        *)
LEMMA Constants ==
    /\ MaxRetries \in [Stages -> Nat] /\ MaxFallbacks \in [Stages -> Nat]
    /\ \A s \in Stages : InjectKey[s] \in Keys \cup {NoKey} /\ InjectKey[s] \notin Stages
    /\ Stages \subseteq Keys /\ Prompt \in Keys
    /\ SeedKeys \cap Stages = {}
    /\ RateMax \in Nat /\ CostLimit \in Nat /\ Costs \subseteq Nat
    /\ NoSnap \notin Stores
    /\ Earlier \subseteq Stores
    /\ \A db \in Databases :
          db.entries \in Earlier /\ db.snapshots \in [Stages -> Earlier \cup {NoSnap}]
<1>1. Earlier \subseteq Stores
  BY DEF Earlier, Stores, Values
<1>2. \A db \in Databases :
        db.entries \in Earlier /\ db.snapshots \in [Stages -> Earlier \cup {NoSnap}]
  BY ConstantsAssumption
<1>3. \A s \in Stages : InjectKey[s] \in Keys \cup {NoKey} /\ InjectKey[s] \notin Stages
  BY ConstantsAssumption DEF Keys
<1> QED
  BY <1>1, <1>2, <1>3, ConstantsAssumption DEF Keys

(***************************************************************************)
(* Type correctness.                                                       *)
(***************************************************************************)
LEMMA InitTypeOK == Init => TypeOK
<1> SUFFICES ASSUME Init PROVE TypeOK
  OBVIOUS
<1> USE DEF Init
<1>1. store \in Stores /\ snap \in [Stages -> Stores \cup {NoSnap}]
  <2>1. PICK db \in Databases : /\ store = [db.entries EXCEPT ![Prompt] = "new"]
                                /\ snap = db.snapshots
    OBVIOUS
  <2>2. db.entries \in Stores /\ db.snapshots \in [Stages -> Stores \cup {NoSnap}]
    BY Constants
  <2> QED
    BY <2>1, <2>2, Constants DEF Stores, Values
<1>2. tokens \in 0 .. RateMax /\ spent \in 0 .. CostLimit
  BY Constants
<1>3. /\ attempts \in [Stages -> Nat] /\ \A s \in Stages : attempts[s] <= MaxRetries[s]
      /\ fallbacks \in [Stages -> Nat] /\ \A s \in Stages : fallbacks[s] <= MaxFallbacks[s]
  BY Constants
<1>4. layers \in Seq(SUBSET Stages) /\ cur \in 0 .. Len(layers)
  OBVIOUS
<1> QED
  BY <1>1, <1>2, <1>3, <1>4 DEF TypeOK, Phases, Points, Statuses, Errors

(* What a stage takes back or is told keeps the shape of the store.        *)
LEMMA RollbackType ==
    ASSUME TypeOK, NEW s \in Stages
    PROVE  Rollback(s) \in Stores /\ Injected(s) \in Stores /\ Reverted(s) \subseteq Stages
BY Constants DEF TypeOK, Rollback, Restored, Injected, Reverted, Stores, Values

(* A counter below its limit may be incremented.                           *)
LEMMA CountUp ==
    ASSUME NEW count \in [Stages -> Nat], NEW limit \in [Stages -> Nat],
           \A t \in Stages : count[t] <= limit[t],
           NEW s \in Stages, count[s] < limit[s]
    PROVE  /\ [count EXCEPT ![s] = @ + 1] \in [Stages -> Nat]
           /\ \A t \in Stages : [count EXCEPT ![s] = @ + 1][t] <= limit[t]
OBVIOUS

(* The steps of the run itself keep every variable in its range.           *)
LEMMA OrderTypeOK == TypeOK /\ (Ordering \/ Pipeline) => TypeOK'
<1> SUFFICES ASSUME TypeOK, Ordering \/ Pipeline PROVE TypeOK'
  OBVIOUS
<1> USE DEF TypeOK, Phases, Points, Statuses, Errors, run, control, context, policy
<1>1. CASE TakeLayer
  BY <1>1 DEF TakeLayer, NextLayer, Remaining
<1>2. CASE RejectUnknown \/ RejectCycle \/ OrderResolved
  BY <1>2 DEF RejectUnknown, RejectCycle, OrderResolved
<1>3. CASE RunLayer
  BY <1>3 DEF RunLayer
<1>4. CASE SkipLayer
  BY <1>4 DEF SkipLayer
<1>5. CASE Finish
  BY <1>5 DEF Finish, FinalStatus
<1> QED
  BY <1>1, <1>2, <1>3, <1>4, <1>5 DEF Ordering, Pipeline

(* So do the steps of a stage.                                             *)
LEMMA StageTypeOK ==
    ASSUME TypeOK, NEW s \in Stages, StageMove(s)
    PROVE  TypeOK'
<1> USE DEF TypeOK, Phases, Points, Statuses, Errors, run, control, context, policy
<1>1. CASE Begin(s)
  <2>1. snap' \in [Stages -> Stores \cup {NoSnap}] /\ taken' \subseteq Stages
    BY <1>1 DEF Begin, SaveSnapshot
  <2>2. tokens' \in 0 .. RateMax
    BY <1>1, Constants DEF Begin, Consumed, HasToken
  <2>3. /\ pc' \in [Stages -> Points]
        /\ result' \in [Stages -> Statuses]
        /\ err' \in [Stages -> Errors]
    BY <1>1 DEF Begin, Return
  <2>4. UNCHANGED <<run, attempts, fallbacks, asked, store, spent, aborted, open, reverted>>
    BY <1>1 DEF Begin, SaveSnapshot
  <2> QED
    BY <2>1, <2>2, <2>3, <2>4
<1>2. CASE Launch(s)
  <2>1. store' \in Stores
    BY <1>2 DEF Launch, Stores, Values
  <2>2. /\ pc' \in [Stages -> Points]
        /\ result' \in [Stages -> Statuses]
        /\ err' \in [Stages -> Errors]
    BY <1>2 DEF Launch, Return
  <2> QED
    BY <1>2, <2>1, <2>2 DEF Launch
<1>3. CASE LoopFails(s)
  BY <1>3 DEF LoopFails, Return
<1>4. CASE LoopSucceeds(s)
  <2>1. store' \in Stores
    <3>1. WriteOutput(s) \in Stores
      BY Constants DEF WriteOutput, Entered, Stores, Values
    <3>2. store' = WriteOutput(s) \/ store' = store
      BY <1>4 DEF LoopSucceeds
    <3> QED
      BY <3>1, <3>2
  <2>2. spent' \in 0 .. CostLimit
    BY <1>4, Constants DEF LoopSucceeds, Affordable
  <2>3. /\ pc' \in [Stages -> Points]
        /\ result' \in [Stages -> Statuses]
        /\ err' \in [Stages -> Errors]
    BY <1>4 DEF LoopSucceeds, Return
  <2> QED
    BY <1>4, <2>1, <2>2, <2>3 DEF LoopSucceeds
<1>5. CASE Compare(s) \/ Review(s)
  BY <1>5 DEF Compare, Review, Return
<1>6. CASE Throw(s)
  <2>1. pc' \in [Stages -> Points] /\ phase' \in Phases
    BY <1>6 DEF Throw
  <2>2. UNCHANGED <<deps, layers, cur, runStatus, result, err, attempts, fallbacks,
                    asked, context, policy, aborted>>
    BY <1>6 DEF Throw
  <2> QED
    BY <2>1, <2>2
<1>7. CASE Backoff(s)
  <2>1. attempts' \in [Stages -> Nat] /\ \A t \in Stages : attempts'[t] <= MaxRetries[t]
    <3>1. attempts' = [attempts EXCEPT ![s] = @ + 1] /\ attempts[s] < MaxRetries[s]
      BY <1>7 DEF Backoff, RetryLeft
    <3> QED
      BY <3>1, CountUp, Constants
  <2> QED
    BY <1>7, <2>1 DEF Backoff
<1>8. CASE Wake(s)
  BY <1>8, RollbackType DEF Wake
<1>9. CASE Fallback(s)
  <2>1. fallbacks' \in [Stages -> Nat] /\ \A t \in Stages : fallbacks'[t] <= MaxFallbacks[t]
    <3>1. fallbacks' = [fallbacks EXCEPT ![s] = @ + 1] /\ fallbacks[s] < MaxFallbacks[s]
      BY <1>9 DEF Fallback, FallbackLeft
    <3> QED
      BY <3>1, CountUp, Constants
  <2> QED
    BY <1>9, <2>1, RollbackType DEF Fallback
<1>10. CASE Ask(s) \/ Settle(s)
  BY <1>10 DEF Ask, Settle
<1>11. CASE Answer(s)
  <2>1. store' \in Stores /\ reverted' \subseteq Stages
    BY <1>11, RollbackType DEF Answer
  <2>2. pc' \in [Stages -> Points] /\ result' \in [Stages -> Statuses]
    BY <1>11 DEF Answer
  <2>3. UNCHANGED <<run, err, attempts, fallbacks, asked, snap, open, taken, policy, aborted>>
    BY <1>11 DEF Answer
  <2> QED
    BY <2>1, <2>2, <2>3
<1> QED
  BY <1>1, <1>2, <1>3, <1>4, <1>5, <1>6, <1>7, <1>8, <1>9, <1>10, <1>11 DEF StageMove, StageStep, LoopReturns

(* So does every step.                                                     *)
LEMMA NextTypeOK == TypeOK /\ [Next]_vars => TypeOK'
<1> SUFFICES ASSUME TypeOK, [Next]_vars PROVE TypeOK'
  OBVIOUS
<1>1. CASE Ordering \/ Pipeline
  BY <1>1, OrderTypeOK
<1>2. ASSUME NEW s \in Stages, StageMove(s) PROVE TypeOK'
  BY <1>2, StageTypeOK
<1>3. CASE Cancel \/ Refill \/ Close
  <2>1. tokens' \in 0 .. RateMax
    BY <1>3, Constants DEF Cancel, Refill, Close, TypeOK, policy
  <2> QED
    BY <1>3, <2>1 DEF Cancel, Refill, Close, TypeOK, run, control, context, policy
<1>4. CASE UNCHANGED vars
  BY <1>4 DEF vars, TypeOK, run, control, context, policy
<1> QED
  BY <1>1, <1>2, <1>3, <1>4 DEF Next

(* Every variable of a run stays in its range; in particular a stage is    *)
(* never retried or moved to a fallback model more often than the YAML     *)
(* says, and the recorded cost never exceeds policies.cost_limit.          *)
THEOREM TypeCorrect == Spec => []TypeOK
BY InitTypeOK, NextTypeOK, PTL DEF Spec

(***************************************************************************)
(* The order of the layers.                                                *)
(***************************************************************************)
LEMMA AppendLayer ==
    ASSUME TypeOK, TakeLayer
    PROVE  /\ DOMAIN layers = 1 .. Len(layers)
           /\ DOMAIN layers' = 1 .. Len(layers) + 1
           /\ \A i \in DOMAIN layers : layers'[i] = layers[i]
           /\ layers'[Len(layers) + 1] = NextLayer
           /\ Resolved' = Resolved \cup NextLayer
<1>1. layers \in Seq(SUBSET Stages) /\ NextLayer \in SUBSET Stages
  BY DEF TypeOK, NextLayer, Remaining
<1>2. layers' = Append(layers, NextLayer)
  BY DEF TakeLayer
<1>3. /\ DOMAIN layers = 1 .. Len(layers)
      /\ DOMAIN layers' = 1 .. Len(layers) + 1
      /\ \A i \in DOMAIN layers : layers'[i] = layers[i]
      /\ layers'[Len(layers) + 1] = NextLayer
      /\ Len(layers) \in Nat
  BY <1>1, <1>2
<1>4. Resolved' = Resolved \cup NextLayer
  BY <1>3 DEF Resolved
<1> QED
  BY <1>3, <1>4

(* A layer that is taken holds what waits for earlier layers only.         *)
LEMMA TakeLayerOrderInv == TypeOK /\ OrderInv /\ TakeLayer => OrderInv'
<1> SUFFICES ASSUME TypeOK, OrderInv, TakeLayer PROVE OrderInv'
  OBVIOUS
<1>1. UNCHANGED <<deps, phase, open>> /\ phase = "ordering" /\ Unknown = {}
  BY DEF TakeLayer, run, context
<1>2. OrderIsTopological'
  <2> SUFFICES ASSUME NEW i \in DOMAIN layers', NEW s \in layers'[i], NEW d \in deps[s]
               PROVE  \E j \in 1 .. i - 1 : d \in layers'[j]
    BY <1>1 DEF OrderIsTopological
  <2>1. CASE i \in DOMAIN layers
    <3>1. PICK j \in 1 .. i - 1 : d \in layers[j]
      BY <2>1, AppendLayer DEF OrderInv, OrderIsTopological
    <3> QED
      BY <2>1, <3>1, AppendLayer
  <2>2. CASE i = Len(layers) + 1
    <3>1. d \in Resolved
      BY <2>2, AppendLayer DEF NextLayer
    <3>2. PICK j \in DOMAIN layers : d \in layers[j]
      BY <3>1 DEF Resolved
    <3>3. Len(layers) \in Nat
      BY DEF TypeOK
    <3> QED
      BY <2>2, <3>2, <3>3, AppendLayer
  <2> QED
    BY <2>1, <2>2, AppendLayer DEF TypeOK
<1>3. NoCycleResolved'
  <2> SUFFICES ASSUME NEW C \in SUBSET Stages,
                      \A s \in C : deps[s] \cap C # {},
                      NEW s \in C, s \in Resolved'
               PROVE  FALSE
    BY <1>1 DEF NoCycleResolved
  <2>1. C \cap Resolved = {}
    BY DEF OrderInv, NoCycleResolved
  <2>2. s \in NextLayer
    BY <2>1, AppendLayer
  <2> QED
    BY <2>1, <2>2 DEF NextLayer
<1>4. Unknown' = Unknown
  BY <1>1 DEF Unknown
<1> QED
  BY <1>1, <1>2, <1>3, <1>4 DEF OrderInv

(* Every other step leaves the layers alone.                               *)
LEMMA OrderFrame ==
    ASSUME OrderInv, UNCHANGED <<deps, layers>>
    PROVE  /\ OrderIsTopological' /\ NoCycleResolved'
           /\ (layers # <<>> => Unknown = {})'
           /\ Unknown' = Unknown /\ Remaining' = Remaining /\ NextLayer' = NextLayer
BY DEF OrderInv, OrderIsTopological, NoCycleResolved, Resolved, Unknown, Remaining, NextLayer

(* What a step of a stage leaves to the run and to the other stages.       *)
LEMMA StageFrame ==
    ASSUME TypeOK, NEW s \in Stages, StageMove(s)
    PROVE  /\ UNCHANGED <<deps, layers, cur, aborted, open>>
           /\ \/ phase' = phase
              \/ phase' = "thrown" /\ pc[s] \in {"looping", "diff"}
           /\ Active(s) /\ pc'[s] # "idle"
           /\ \A t \in Stages \ {s} :
                /\ pc'[t] = pc[t] /\ result'[t] = result[t] /\ snap'[t] = snap[t]
                /\ attempts'[t] = attempts[t] /\ fallbacks'[t] = fallbacks[t]
                /\ asked'[t] = asked[t]
<1> USE DEF TypeOK, run, control, context, policy, Active
<1>1. CASE Begin(s) \/ Launch(s) \/ LoopFails(s) \/ LoopSucceeds(s) \/ Compare(s) \/ Review(s)
  BY <1>1 DEF Begin, SaveSnapshot, Launch, LoopFails, LoopSucceeds, Compare, Review, Return
<1>2. CASE Throw(s) \/ Backoff(s) \/ Wake(s) \/ Fallback(s) \/ Ask(s) \/ Answer(s) \/ Settle(s)
  BY <1>2 DEF Throw, Backoff, Wake, Fallback, Ask, Answer, Settle, Failed
<1> QED
  BY <1>1, <1>2 DEF StageMove, StageStep, LoopReturns

(* No other step touches the layers.                                       *)
LEMMA NextOrderInv == TypeOK /\ OrderInv /\ LayersInTurn /\ [Next]_vars => OrderInv'
<1> SUFFICES ASSUME TypeOK, OrderInv, LayersInTurn, [Next]_vars PROVE OrderInv'
  OBVIOUS
<1>1. CASE TakeLayer
  BY <1>1, TakeLayerOrderInv
<1>2. CASE RejectUnknown \/ RejectCycle \/ OrderResolved
  <2>1. UNCHANGED <<deps, layers, open>>
    BY <1>2 DEF RejectUnknown, RejectCycle, OrderResolved, context
  <2> QED
    BY <1>2, <2>1, OrderFrame DEF RejectUnknown, RejectCycle, OrderResolved, OrderInv
<1>3. CASE Pipeline
  <2>1. UNCHANGED <<deps, layers, open>> /\ phase = "running" /\ phase' \in {"running", "returned"}
    BY <1>3 DEF Pipeline, RunLayer, SkipLayer, Finish, context
  <2> QED
    BY <2>1, OrderFrame DEF OrderInv
<1>4. ASSUME NEW s \in Stages, StageMove(s) PROVE OrderInv'
  <2>1. pc[s] # "idle"
    BY <1>4, StageFrame DEF Active
  <2>2. cur # 0
    BY <2>1 DEF LayersInTurn, TypeOK
  <2>3. phase \notin {"ordering", "invalid"}
    BY <2>2 DEF LayersInTurn
  <2>4. UNCHANGED <<deps, layers, open>> /\ phase' \in {phase, "thrown"}
    BY <1>4, StageFrame
  <2> QED
    BY <2>3, <2>4, OrderFrame DEF OrderInv
<1>5. CASE Cancel \/ Refill \/ Close
  <2>1. UNCHANGED <<deps, layers, phase>> /\ (phase \in {"ordering", "running"} => UNCHANGED open)
    BY <1>5 DEF Cancel, Refill, Close, run, context
  <2> QED
    BY <2>1, OrderFrame DEF OrderInv
<1>6. CASE UNCHANGED vars
  <2>1. UNCHANGED <<deps, layers, phase, open>>
    BY <1>6 DEF vars, run, context
  <2> QED
    BY <2>1, OrderFrame DEF OrderInv
<1> QED
  BY <1>1, <1>2, <1>3, <1>4, <1>5, <1>6 DEF Next, Ordering

(***************************************************************************)
(* Layers are worked on in turn.                                           *)
(***************************************************************************)
LEMMA InCurrent ==
    ASSUME TypeOK, LayersInTurn, NEW s \in Stages, pc[s] \notin {"idle", "done"}
    PROVE  /\ cur \in DOMAIN layers /\ s \in layers[cur] /\ Current = layers[cur]
           /\ phase \in {"running", "thrown"}
<1>1. PICK i \in 1 .. cur : s \in layers[i]
  BY DEF LayersInTurn
<1>2. cur \in DOMAIN layers /\ i \in DOMAIN layers /\ cur # 0
  BY <1>1 DEF TypeOK
<1>3. i = cur
  BY <1>1, <1>2 DEF LayersInTurn, TypeOK
<1>4. phase \in {"running", "thrown"}
  BY <1>2 DEF LayersInTurn, TypeOK, Phases
<1> QED
  BY <1>1, <1>2, <1>3, <1>4 DEF Current

(* The layer that RunLayer or SkipLayer turns to is untouched.             *)
LEMMA NextLayerIdle ==
    ASSUME TypeOK, LayersInTurn, cur < Len(layers)
    PROVE  /\ cur + 1 \in DOMAIN layers
           /\ \A s \in layers[cur + 1] : s \in Stages /\ pc[s] = "idle"
<1>1. cur + 1 \in DOMAIN layers /\ cur \in Nat /\ layers[cur + 1] \in SUBSET Stages
  BY DEF TypeOK
<1>2. ASSUME NEW s \in layers[cur + 1], pc[s] # "idle" PROVE FALSE
  <2>1. PICK i \in 1 .. cur : s \in layers[i]
    BY <1>1, <1>2 DEF LayersInTurn
  <2>2. i \in DOMAIN layers /\ i # cur + 1
    BY <1>1, <2>1 DEF TypeOK
  <2> QED
    BY <1>1, <2>1, <2>2 DEF LayersInTurn
<1> QED
  BY <1>1, <1>2

(* Only the stages of the current layer are under way.                     *)
LEMMA NextLayersInTurn == TypeOK /\ OrderInv /\ LayersInTurn /\ [Next]_vars => LayersInTurn'
<1> SUFFICES ASSUME TypeOK, OrderInv, LayersInTurn, [Next]_vars PROVE LayersInTurn'
  OBVIOUS
<1>1. CASE Ordering
  <2>1. /\ cur = 0 /\ cur' = 0 /\ UNCHANGED pc /\ phase' # "returned"
        /\ phase = "ordering"
    BY <1>1 DEF Ordering, RejectUnknown, TakeLayer, RejectCycle, OrderResolved, control,
                LayersInTurn
  <2>2. \A s \in Stages : pc[s] = "idle"
    BY <2>1 DEF LayersInTurn
  <2>3. \A i, j \in DOMAIN layers' : i # j => layers'[i] \cap layers'[j] = {}
    <3>1. CASE TakeLayer
      <4>1. ASSUME NEW i \in DOMAIN layers, NEW s \in layers[i] PROVE s \notin NextLayer
        <5>1. s \in Resolved
          BY <4>1 DEF Resolved
        <5> QED
          BY <5>1 DEF NextLayer, Remaining
      <4> SUFFICES ASSUME NEW i \in DOMAIN layers', NEW j \in DOMAIN layers', i # j
                   PROVE  layers'[i] \cap layers'[j] = {}
        OBVIOUS
      <4>2. (i \in DOMAIN layers \/ i = Len(layers) + 1) /\ (j \in DOMAIN layers \/ j = Len(layers) + 1)
        BY <3>1, AppendLayer DEF TypeOK
      <4>3. CASE i \in DOMAIN layers /\ j \in DOMAIN layers
        BY <3>1, <4>3, AppendLayer DEF LayersInTurn
      <4>4. CASE i \notin DOMAIN layers
        BY <3>1, <4>1, <4>2, <4>4, AppendLayer
      <4>5. CASE j \notin DOMAIN layers
        BY <3>1, <4>1, <4>2, <4>5, AppendLayer
      <4> QED
        BY <4>3, <4>4, <4>5
    <3>2. CASE ~TakeLayer
      <4>1. UNCHANGED layers
        BY <1>1, <3>2 DEF Ordering, RejectUnknown, RejectCycle, OrderResolved
      <4> QED
        BY <4>1 DEF LayersInTurn
    <3> QED
      BY <3>1, <3>2
  <2>4. \A i \in DOMAIN layers' : i # 0 /\ ~(i < 0)
    <3>1. CASE TakeLayer
      BY <3>1, AppendLayer DEF TypeOK
    <3>2. CASE ~TakeLayer
      BY <1>1, <3>2 DEF Ordering, RejectUnknown, RejectCycle, OrderResolved, TypeOK
    <3> QED
      BY <3>1, <3>2
  <2> QED
    BY <2>1, <2>2, <2>3, <2>4 DEF LayersInTurn
<1>2. CASE RunLayer \/ SkipLayer
  <2>1. /\ UNCHANGED <<layers, phase>> /\ phase = "running" /\ cur' = cur + 1
        /\ cur < Len(layers) /\ LayerSettled
    BY <1>2 DEF RunLayer, SkipLayer
  <2>2. \A s \in Stages : IF s \in layers[cur + 1] THEN pc'[s] # "idle" ELSE pc'[s] = pc[s]
    BY <1>2 DEF RunLayer, SkipLayer
  <2>3. cur + 1 \in DOMAIN layers /\ cur \in Nat /\ \A i \in DOMAIN layers : layers[i] \subseteq Stages
    BY <2>1 DEF TypeOK
  <2>4. \A s \in Stages : pc'[s] # "idle" => \E i \in 1 .. cur + 1 : s \in layers[i]
    BY <2>2, <2>3 DEF LayersInTurn
  <2>5. ASSUME NEW i \in DOMAIN layers, NEW s \in layers[i], i < cur + 1
        PROVE  pc'[s] = "done"
    <3>1. s \in Stages /\ i \in Nat \ {0}
      BY <2>3, <2>5 DEF TypeOK
    <3>2. s \notin layers[cur + 1]
      BY <2>3, <2>5, <3>1 DEF LayersInTurn
    <3>3. pc[s] = "done"
      <4>1. CASE i < cur
        BY <4>1, <2>5 DEF LayersInTurn
      <4>2. CASE i = cur
        BY <4>2, <2>1, <3>1 DEF LayerSettled, Current
      <4> QED
        BY <4>1, <4>2, <2>3, <2>5, <3>1
    <3> QED
      BY <2>2, <3>1, <3>2, <3>3
  <2>6. \A s \in layers[cur + 1] : pc'[s] # "idle"
    BY <2>2, <2>3
  <2> QED
    BY <2>1, <2>4, <2>5, <2>6 DEF LayersInTurn
<1>3. CASE Finish
  <2>1. /\ UNCHANGED <<layers, cur, pc>> /\ phase = "running" /\ phase' = "returned"
        /\ cur = Len(layers) /\ LayerSettled
    BY <1>3 DEF Finish, control
  <2>2. ASSUME NEW s \in Stages PROVE pc[s] = "done"
    <3>1. PICK i \in DOMAIN layers : s \in layers[i]
      BY <2>1 DEF OrderInv, Remaining, Resolved
    <3>2. i \in Nat \ {0} /\ i <= cur /\ cur \in Nat
      BY <2>1, <3>1 DEF TypeOK
    <3>3. CASE i < cur
      BY <3>1, <3>3 DEF LayersInTurn
    <3>4. CASE i = cur
      BY <2>1, <3>1, <3>2, <3>4 DEF LayerSettled, Current
    <3> QED
      BY <3>2, <3>3, <3>4
  <2> QED
    BY <2>1, <2>2 DEF LayersInTurn
<1>4. ASSUME NEW s \in Stages, StageMove(s) PROVE LayersInTurn'
  <2>1. pc[s] \notin {"idle", "done"}
    BY <1>4, StageFrame DEF Active
  <2>2. s \in layers[cur] /\ cur \in DOMAIN layers /\ phase \in {"running", "thrown"}
    BY <2>1, InCurrent
  <2>3. /\ UNCHANGED <<layers, cur>> /\ phase' \in {"running", "thrown"} /\ pc'[s] # "idle"
        /\ \A t \in Stages \ {s} : pc'[t] = pc[t]
    BY <1>4, <2>2, StageFrame
  <2>4. \A i \in DOMAIN layers : i # cur => s \notin layers[i]
    BY <2>2 DEF LayersInTurn
  <2>5. \A i \in DOMAIN layers : layers[i] \subseteq Stages /\ i \in Nat
    BY DEF TypeOK
  <2>6. \A t \in Stages : pc'[t] # "idle" => pc[t] # "idle"
    BY <2>1, <2>3
  <2>7. \A i \in DOMAIN layers : \A t \in layers[i] :
          (i < cur => pc'[t] = "done") /\ (i = cur => pc'[t] # "idle")
    <3> SUFFICES ASSUME NEW i \in DOMAIN layers, NEW t \in layers[i]
                 PROVE  (i < cur => pc'[t] = "done") /\ (i = cur => pc'[t] # "idle")
      OBVIOUS
    <3>1. CASE t = s
      BY <3>1, <2>3, <2>4, <2>5, TypeOK DEF TypeOK
    <3>2. CASE t # s
      BY <3>2, <2>3, <2>5 DEF LayersInTurn
    <3> QED
      BY <3>1, <3>2
  <2> QED
    BY <2>3, <2>6, <2>7 DEF LayersInTurn
<1>5. CASE Cancel \/ Refill \/ Close \/ UNCHANGED vars
  <2>1. UNCHANGED <<layers, cur, phase, pc>>
    BY <1>5 DEF Cancel, Refill, Close, vars, run, control
  <2> QED
    BY <2>1 DEF LayersInTurn
<1> QED
  BY <1>1, <1>2, <1>3, <1>4, <1>5 DEF Next, Pipeline

(***************************************************************************)
(* Outcomes.                                                               *)
(***************************************************************************)

(* OutcomesKnown for one stage.                                            *)
Outcome(s) ==
    /\ pc[s] \in {"returned", "done"} => result[s] # "none"
    /\ pc[s] \in {"backoff", "asking"} => result[s] = "failed" /\ Retried(s)
    /\ result[s] = "success" => pc[s] \in {"returned", "done"}
    /\ result[s] = "cancelled" => aborted
    /\ pc[s] = "seeding" => ~aborted

(* What a stage has come to agrees with where it stands.                   *)
LEMMA StageOutcome ==
    ASSUME TypeOK, NEW s \in Stages, Outcome(s), StageMove(s)
    PROVE  Outcome(s)'
<1> USE DEF TypeOK, run, control, context, policy, Outcome, Retried
<1>1. CASE Begin(s) \/ Launch(s) \/ LoopFails(s)
  BY <1>1 DEF Begin, Launch, LoopFails, Return
<1>2. CASE LoopSucceeds(s) \/ Compare(s) \/ Review(s)
  BY <1>2 DEF LoopSucceeds, Compare, Review, Return
<1>3. CASE Throw(s) \/ Wake(s) \/ Answer(s) \/ Settle(s)
  BY <1>3 DEF Throw, Wake, Answer, Settle
<1>4. CASE Backoff(s)
  BY <1>4 DEF Backoff, Failed
<1>5. CASE Fallback(s) \/ Ask(s)
  BY <1>5 DEF Fallback, Ask, Failed
<1> QED
  BY <1>1, <1>2, <1>3, <1>4, <1>5 DEF StageMove, StageStep, LoopReturns

(* Every step keeps that of every stage.                                   *)
LEMMA NextOutcomesKnown == TurnInv /\ [Next]_vars => OutcomesKnown'
<1> SUFFICES ASSUME TurnInv, [Next]_vars PROVE OutcomesKnown'
  OBVIOUS
<1> USE DEF TurnInv
<1>1. \A t \in Stages : Outcome(t)
  BY DEF OutcomesKnown, Outcome
<1>2. SUFFICES \A t \in Stages : Outcome(t)'
  BY DEF OutcomesKnown, Outcome
<1>3. ASSUME NEW s \in Stages, StageMove(s), NEW t \in Stages
      PROVE  Outcome(t)'
  <2>1. CASE t = s
    BY <1>1, <1>3, <2>1, StageOutcome
  <2>2. CASE t # s
    BY <1>1, <1>3, <2>2, StageFrame DEF Outcome, Retried
  <2> QED
    BY <2>1, <2>2
<1>4. CASE RunLayer \/ SkipLayer
  <2>1. \A t \in layers[cur + 1] : pc[t] = "idle"
    BY <1>4, NextLayerIdle DEF RunLayer, SkipLayer
  <2>2. CASE RunLayer
    BY <1>1, <2>1, <2>2 DEF RunLayer, Outcome, Retried, TypeOK
  <2>3. CASE SkipLayer
    BY <1>1, <2>1, <2>3 DEF SkipLayer, Outcome, Retried, TypeOK
  <2> QED
    BY <1>4, <2>2, <2>3
<1>5. CASE Ordering \/ Finish \/ Refill \/ Close \/ UNCHANGED vars
  <2>1. UNCHANGED <<control, aborted>>
    BY <1>5 DEF Ordering, RejectUnknown, TakeLayer, RejectCycle, OrderResolved, Finish,
                Refill, Close, vars
  <2> QED
    BY <1>1, <2>1 DEF control, Outcome, Retried
<1>6. CASE Cancel
  BY <1>1, <1>6 DEF Cancel, Busy, control, Outcome, Retried
<1> QED
  BY <1>3, <1>4, <1>5, <1>6 DEF Next, Pipeline

(***************************************************************************)
(* Dependencies.                                                           *)
(***************************************************************************)

(* What a stage that is done ended with is final.                          *)
LEMMA DoneIsFinal ==
    ASSUME TurnInv, [Next]_vars, NEW d \in Stages, pc[d] = "done"
    PROVE  pc'[d] = "done" /\ result'[d] = result[d]
<1> USE DEF TurnInv
<1>1. CASE RunLayer \/ SkipLayer
  <2>1. \A t \in layers[cur + 1] : pc[t] = "idle"
    BY <1>1, NextLayerIdle DEF RunLayer, SkipLayer
  <2> QED
    BY <1>1, <2>1 DEF RunLayer, SkipLayer, TypeOK
<1>2. ASSUME NEW s \in Stages, StageMove(s)
      PROVE  pc'[d] = "done" /\ result'[d] = result[d]
  <2>1. d # s
    BY <1>2, StageFrame DEF Active
  <2> QED
    BY <1>2, <2>1, StageFrame
<1>3. CASE Ordering \/ Finish \/ Cancel \/ Refill \/ Close \/ UNCHANGED vars
  BY <1>3 DEF Ordering, RejectUnknown, TakeLayer, RejectCycle, OrderResolved, Finish,
              Cancel, Refill, Close, vars, control
<1> QED
  BY <1>1, <1>2, <1>3 DEF Next, Pipeline

(* When a layer starts, everything an earlier layer holds has succeeded or *)
(* was skipped on request.                                                 *)
LEMMA LayerReady ==
    ASSUME TurnInv, RunLayer, NEW i \in 1 .. cur, NEW d \in layers[i]
    PROVE  pc[d] = "done" /\ result[d] \in {"success", "skipped"}
<1> USE DEF TurnInv
<1>1. LayerSettled /\ ~PipelineFailed /\ ~aborted
  BY DEF RunLayer
<1>2. i \in DOMAIN layers /\ d \in Stages /\ cur \in Nat
  BY DEF TypeOK
<1>3. pc[d] = "done"
  <2>1. CASE i < cur
    BY <1>2, <2>1 DEF LayersInTurn
  <2>2. CASE i = cur
    BY <1>1, <1>2, <2>2 DEF LayerSettled, Current
  <2> QED
    BY <2>1, <2>2, <1>2
<1>4. result[d] \notin {"failed", "none", "cancelled"}
  BY <1>1, <1>2, <1>3 DEF PipelineFailed, OutcomesKnown
<1> QED
  BY <1>2, <1>3, <1>4 DEF TypeOK, Statuses

(* A stage that sets out finds its dependencies settled.                   *)
LEMMA NextDependencyOrder == TurnInv /\ [Next]_vars => DependencyOrder'
<1> SUFFICES ASSUME TurnInv, [Next]_vars PROVE DependencyOrder'
  OBVIOUS
<1>0. UNCHANGED deps
  <2>1. ASSUME NEW t \in Stages, StageMove(t) PROVE UNCHANGED deps
    BY <2>1, StageFrame DEF TurnInv
  <2>2. CASE Ordering \/ Pipeline
    BY <2>2 DEF Ordering, Pipeline, RejectUnknown, TakeLayer, RejectCycle, OrderResolved,
                RunLayer, SkipLayer, Finish
  <2>3. CASE Cancel \/ Refill \/ Close \/ UNCHANGED vars
    BY <2>3 DEF Cancel, Refill, Close, vars, run
  <2> QED
    BY <2>1, <2>2, <2>3 DEF Next
<1> SUFFICES ASSUME NEW s \in Stages, Active(s)', NEW d \in deps[s]
             PROVE  (pc[d] = "done" /\ result[d] \in {"success", "skipped"})'
  BY <1>0 DEF DependencyOrder
<1> USE DEF TurnInv
<1>1. ASSUME pc[d] = "done", result[d] \in {"success", "skipped"}, d \in Stages
      PROVE  (pc[d] = "done" /\ result[d] \in {"success", "skipped"})'
  BY <1>1, DoneIsFinal
<1>2. ASSUME Active(s), d \in Stages
      PROVE  (pc[d] = "done" /\ result[d] \in {"success", "skipped"})'
  BY <1>1, <1>2 DEF DependencyOrder
<1>3. CASE RunLayer /\ s \in layers[cur + 1]
  <2>1. cur + 1 \in DOMAIN layers /\ cur \in Nat
    BY <1>3, NextLayerIdle DEF RunLayer, TypeOK
  <2>2. PICK j \in 1 .. cur : d \in layers[j]
    BY <1>3, <2>1 DEF OrderInv, OrderIsTopological
  <2>3. d \in Stages
    BY <2>1, <2>2 DEF TypeOK
  <2> QED
    BY <1>1, <1>3, <2>2, <2>3, LayerReady
<1>4. ASSUME Active(s)
      PROVE  (pc[d] = "done" /\ result[d] \in {"success", "skipped"})'
  <2>1. pc[s] \notin {"idle", "done"}
    BY <1>4 DEF Active
  <2>2. phase \in {"running", "thrown"}
    BY <2>1, InCurrent
  <2>3. d \in Stages
    BY <2>2 DEF OrderInv, Unknown
  <2> QED
    BY <1>2, <1>4, <2>3
<1>5. CASE ~Active(s) /\ ~(RunLayer /\ s \in layers[cur + 1])
  <2>1. CASE RunLayer \/ SkipLayer
    BY <1>5, <2>1 DEF RunLayer, SkipLayer, Active, TypeOK
  <2>2. ASSUME NEW t \in Stages, StageMove(t) PROVE FALSE
    BY <1>5, <2>2, StageFrame DEF Active
  <2>3. CASE Ordering \/ Finish \/ Cancel \/ Refill \/ Close \/ UNCHANGED vars
    BY <1>5, <2>3 DEF Ordering, RejectUnknown, TakeLayer, RejectCycle, OrderResolved, Finish,
                      Cancel, Refill, Close, vars, control, Active
  <2> QED
    BY <2>1, <2>2, <2>3 DEF Next, Pipeline
<1> QED
  BY <1>3, <1>4, <1>5

(* A run starts without layers and without results.                        *)
LEMMA InitTurnInv == Init => TurnInv
<1> SUFFICES ASSUME Init PROVE TurnInv
  OBVIOUS
<1>1. TypeOK
  BY InitTypeOK
<1>2. DOMAIN layers = {} /\ Resolved = {}
  BY DEF Init, Resolved
<1>3. OrderInv
  BY <1>2 DEF Init, OrderInv, OrderIsTopological, NoCycleResolved
<1>4. LayersInTurn
  BY <1>2 DEF Init, LayersInTurn
<1>5. OutcomesKnown /\ DependencyOrder
  BY DEF Init, OutcomesKnown, DependencyOrder, Active
<1> QED
  BY <1>1, <1>3, <1>4, <1>5 DEF TurnInv

(* The invariant of layers and outcomes holds in every state.              *)
LEMMA TurnCorrect == Spec => []TurnInv
<1>1. TurnInv /\ [Next]_vars => TurnInv'
  BY NextTypeOK, NextOrderInv, NextLayersInTurn, NextOutcomesKnown, NextDependencyOrder
  DEF TurnInv
<1> QED
  BY <1>1, InitTurnInv, PTL DEF Spec

(* A stage is only run once everything it depends on has settled, and      *)
(* never on a stage that failed or was cancelled, whatever retries,        *)
(* fallbacks, answers, cancels and exceptions happen on the way.           *)
THEOREM DependenciesFirst == Spec => []DependencyOrder
BY TurnCorrect, PTL DEF TurnInv

(* The layers resolveExecutionOrder builds respect every depends_on.       *)
THEOREM LayersTopological == Spec => []OrderIsTopological
<1>1. TurnInv => OrderIsTopological
  BY DEF TurnInv, OrderInv
<1> QED
  BY <1>1, TurnCorrect, PTL

(* resolveExecutionOrder refuses exactly the pipelines with an unknown or  *)
(* a circular dependency.                                                  *)
THEOREM RefusalsRight == Spec => []RefusedIffIllFormed
<1>1. ASSUME TurnInv PROVE RefusedIffIllFormed
  <2> USE <1>1 DEF TurnInv
  <2>1. ASSUME phase = "invalid", Unknown = {} PROVE Circular
    <3>1. NextLayer = {} /\ Remaining # {} /\ Remaining \in SUBSET Stages
      BY <2>1 DEF OrderInv, Remaining
    <3>2. ASSUME NEW s \in Remaining PROVE deps[s] \cap Remaining # {}
      <4>1. PICK d \in deps[s] : d \notin Resolved
        BY <3>1 DEF NextLayer
      <4>2. d \in Stages
        BY <2>1 DEF Unknown, Remaining
      <4> QED
        BY <4>1, <4>2 DEF Remaining
    <3> QED
      BY <3>1, <3>2 DEF Circular
  <2>2. ASSUME phase \in {"running", "returned", "thrown"}
        PROVE  Unknown = {} /\ ~Circular /\ Remaining = {}
    <3>1. Unknown = {} /\ Remaining = {}
      BY <2>2 DEF OrderInv
    <3>2. ASSUME NEW C \in SUBSET Stages, C # {}, \A s \in C : deps[s] \cap C # {}
          PROVE  FALSE
      BY <3>1, <3>2 DEF OrderInv, NoCycleResolved, Remaining
    <3> QED
      BY <3>1, <3>2 DEF Circular
  <2> QED
    BY <2>1, <2>2 DEF RefusedIffIllFormed
<1> QED
  BY <1>1, TurnCorrect, PTL

(***************************************************************************)
(* Failure and cancellation.                                               *)
(***************************************************************************)
LEMMA LaterLayerIdle ==
    ASSUME TypeOK, LayersInTurn, NEW j \in DOMAIN layers, cur < j, NEW t \in layers[j]
    PROVE  t \in Stages /\ pc[t] = "idle"
<1>1. t \in Stages /\ cur \in Nat /\ j \in Nat
  BY DEF TypeOK
<1>2. ASSUME pc[t] # "idle" PROVE FALSE
  <2>1. PICK i \in 1 .. cur : t \in layers[i]
    BY <1>1, <1>2 DEF LayersInTurn
  <2>2. i \in DOMAIN layers /\ i # j
    BY <1>1, <2>1 DEF TypeOK
  <2> QED
    BY <2>1, <2>2 DEF LayersInTurn
<1> QED
  BY <1>1, <1>2

(* At first nothing has failed.                                            *)
LEMMA InitFailureStops == Init => FailureStopsLaterLayers
BY DEF Init, FailureStopsLaterLayers

(* No step lets a stage set out after a layer that failed for good.        *)
LEMMA NextFailureStops ==
    TurnInv /\ FailureStopsLaterLayers /\ [Next]_vars => FailureStopsLaterLayers'
<1> SUFFICES ASSUME TurnInv, FailureStopsLaterLayers, [Next]_vars
             PROVE  FailureStopsLaterLayers'
  OBVIOUS
<1> USE DEF TurnInv
<1>1. ASSUME NEW u \in Stages, StageMove(u)
      PROVE  FailureStopsLaterLayers'
  <2>1. Active(u) /\ UNCHANGED <<layers, cur>>
    BY <1>1, StageFrame
  <2>2. u \in layers[cur] /\ cur \in DOMAIN layers
    BY <2>1, InCurrent DEF Active
  <2> SUFFICES ASSUME NEW i \in DOMAIN layers, NEW j \in DOMAIN layers, i < j,
                      NEW s \in layers[i], NEW t \in layers[j],
                      pc'[s] = "done", result'[s] = "failed"
               PROVE  \/ pc'[t] = "idle"
                      \/ pc'[t] = "done" /\ result'[t] \in {"skipped", "cancelled"}
    BY <2>1 DEF FailureStopsLaterLayers
  <2>3. s \in Stages /\ t \in Stages
    BY DEF TypeOK
  <2>4. CASE s = u
    <3>1. i = cur
      BY <2>2, <2>4 DEF LayersInTurn
    <3>2. pc[t] = "idle"
      BY <3>1, LaterLayerIdle
    <3>3. t # u
      BY <2>1, <3>2 DEF Active
    <3> QED
      BY <1>1, <2>3, <3>2, <3>3, StageFrame
  <2>5. CASE s # u
    <3>1. pc[s] = "done" /\ result[s] = "failed"
      BY <1>1, <2>3, <2>5, StageFrame
    <3>2. \/ pc[t] = "idle"
          \/ pc[t] = "done" /\ result[t] \in {"skipped", "cancelled"}
      BY <3>1 DEF FailureStopsLaterLayers
    <3>3. t # u
      BY <2>1, <3>2 DEF Active
    <3> QED
      BY <1>1, <2>3, <3>2, <3>3, StageFrame
  <2> QED
    BY <2>4, <2>5
<1>2. CASE RunLayer
  <2>1. ~PipelineFailed /\ UNCHANGED <<layers, result>>
    BY <1>2 DEF RunLayer
  <2>2. \A s \in Stages : pc'[s] = "done" => pc[s] = "done"
    BY <1>2 DEF RunLayer, TypeOK
  <2>3. \A i \in DOMAIN layers : layers[i] \subseteq Stages
    BY DEF TypeOK
  <2> QED
    BY <2>1, <2>2, <2>3 DEF PipelineFailed, FailureStopsLaterLayers
<1>3. CASE SkipLayer
  <2>1. UNCHANGED layers /\ cur + 1 \in DOMAIN layers
    BY <1>3, NextLayerIdle DEF SkipLayer
  <2>2. \A s \in Stages :
          IF s \in layers[cur + 1]
          THEN pc'[s] = "done" /\ result'[s] \in {"skipped", "cancelled"}
          ELSE pc'[s] = pc[s] /\ result'[s] = result[s]
    BY <1>3 DEF SkipLayer, TypeOK
  <2>3. \A i \in DOMAIN layers : layers[i] \subseteq Stages
    BY DEF TypeOK
  <2> SUFFICES ASSUME NEW i \in DOMAIN layers, NEW j \in DOMAIN layers, i < j,
                      NEW s \in layers[i], NEW t \in layers[j],
                      pc'[s] = "done", result'[s] = "failed"
               PROVE  \/ pc'[t] = "idle"
                      \/ pc'[t] = "done" /\ result'[t] \in {"skipped", "cancelled"}
    BY <2>1 DEF FailureStopsLaterLayers
  <2>4. pc[s] = "done" /\ result[s] = "failed"
    BY <2>2, <2>3
  <2>5. \/ pc[t] = "idle"
        \/ pc[t] = "done" /\ result[t] \in {"skipped", "cancelled"}
    BY <2>4 DEF FailureStopsLaterLayers
  <2> QED
    BY <2>2, <2>3, <2>5
<1>4. CASE Finish \/ Cancel \/ Refill \/ Close \/ UNCHANGED vars
  <2>1. UNCHANGED <<layers, pc, result>>
    BY <1>4 DEF Finish, Cancel, Refill, Close, vars, run, control
  <2> QED
    BY <2>1 DEF FailureStopsLaterLayers
<1>5. CASE Ordering
  <2>1. UNCHANGED pc /\ cur = 0 /\ \A s \in Stages : pc[s] = "idle"
    BY <1>5 DEF Ordering, RejectUnknown, TakeLayer, RejectCycle, OrderResolved, control,
                LayersInTurn
  <2>2. layers' \in Seq(SUBSET Stages)
    BY NextTypeOK DEF TypeOK
  <2> QED
    BY <2>1, <2>2 DEF FailureStopsLaterLayers
<1> QED
  BY <1>1, <1>2, <1>3, <1>4, <1>5 DEF Next, Pipeline

(* A stage that failed for good keeps every stage of a later layer from    *)
(* ever starting.                                                          *)
THEOREM FailureStops == Spec => []FailureStopsLaterLayers
BY TurnCorrect, InitFailureStops, NextFailureStops, PTL DEF Spec

(* Once the abort signal is set no agent loop starts, although the signal  *)
(* is only read at the top of executeStage.                                *)
THEOREM CancelStopsLaunches == Spec => NoLaunchAfterCancel
<1>1. TurnInv => \A s \in Stages : Launches(s) => ~aborted
  BY DEF TurnInv, OutcomesKnown, Launches
<1>2. TurnInv /\ [Next]_vars => [\A s \in Stages : Launches(s) => ~aborted]_vars
  BY <1>1
<1> QED
  BY <1>2, TurnCorrect, PTL DEF Spec, NoLaunchAfterCancel

(***************************************************************************)
(* Outputs and rollbacks, on any database.                                 *)
(***************************************************************************)

(* What a step of stage s can do to the output of any stage.               *)
LEMMA StageStore ==
    ASSUME TurnInv, NEW s \in Stages, StageMove(s), NEW k \in Stages
    PROVE  \/ store'[k] = store[k]
           \/ k = s
           \/ /\ snap[s] # NoSnap /\ store'[k] = snap[s][k] /\ Retried(s)'
              /\ s \in taken \/ s \in reverted'
<1> USE DEF TurnInv
<1>1. k \in Keys /\ k \notin SeedKeys /\ InjectKey[s] # k
  BY Constants
<1>2. CASE Begin(s) \/ LoopFails(s) \/ Compare(s) \/ Review(s)
  BY <1>2 DEF Begin, SaveSnapshot, LoopFails, Compare, Review, context
<1>3. CASE Throw(s) \/ Backoff(s) \/ Ask(s) \/ Settle(s)
  BY <1>3 DEF Throw, Backoff, Ask, Settle, context
<1>4. CASE Launch(s)
  BY <1>1, <1>4 DEF Launch
<1>5. CASE LoopSucceeds(s)
  BY <1>1, <1>5 DEF LoopSucceeds, WriteOutput, Entered, TypeOK, Stores
<1>6. CASE Wake(s)
  <2>1. Retried(s)'
    BY <1>6 DEF Wake, OutcomesKnown, Retried
  <2>2. Rollback(s) \in Stores
    BY RollbackType
  <2>3. Injected(s)[k] = Rollback(s)[k]
    BY <1>1, <2>2 DEF Injected, Stores
  <2> QED
    BY <1>6, <2>1, <2>3 DEF Wake, Rollback, Restored, Reverted
<1>7. CASE Fallback(s)
  <2>1. Retried(s)'
    BY <1>7 DEF Fallback, Retried, TypeOK
  <2> QED
    BY <1>7, <2>1 DEF Fallback, Rollback, Restored, Reverted
<1>8. CASE Answer(s)
  <2>1. Retried(s)'
    BY <1>8 DEF Answer, OutcomesKnown, Retried
  <2> QED
    BY <1>8, <2>1 DEF Answer, Rollback, Restored, Reverted
<1> QED
  BY <1>2, <1>3, <1>4, <1>5, <1>6, <1>7, <1>8 DEF StageMove, StageStep, LoopReturns

(* A step of stage s takes no snapshot, or one of the whole store.         *)
LEMMA StageSnap ==
    ASSUME TurnInv, NEW s \in Stages, StageMove(s), NEW t \in Stages
    PROVE  \/ snap'[t] = snap[t] /\ (t \in taken' => t \in taken)
           \/ t = s /\ snap'[t] = store /\ UNCHANGED store
<1> USE DEF TurnInv, TypeOK, context
<1>1. CASE Begin(s)
  BY <1>1 DEF Begin, SaveSnapshot
<1>2. CASE Launch(s) \/ LoopFails(s) \/ LoopSucceeds(s) \/ Compare(s) \/ Review(s) \/ Throw(s)
  BY <1>2 DEF Launch, LoopFails, LoopSucceeds, Compare, Review, Throw
<1>3. CASE Backoff(s) \/ Wake(s) \/ Fallback(s) \/ Ask(s) \/ Answer(s) \/ Settle(s)
  BY <1>3 DEF Backoff, Wake, Fallback, Ask, Answer, Settle
<1> QED
  BY <1>1, <1>2, <1>3 DEF StageMove, StageStep, LoopReturns

(* A stage that went back to an earlier run has done so for good.          *)
LEMMA RevertedForGood ==
    ASSUME TurnInv, [Next]_vars
    PROVE  reverted \subseteq reverted'
<1>1. ASSUME NEW s \in Stages, StageMove(s) PROVE reverted \subseteq reverted'
  <2>1. CASE Wake(s) \/ Fallback(s) \/ Answer(s)
    BY <2>1 DEF Wake, Fallback, Answer, Reverted
  <2>2. CASE ~(Wake(s) \/ Fallback(s) \/ Answer(s))
    BY <1>1, <2>2 DEF StageMove, StageStep, LoopReturns, Begin, SaveSnapshot, Launch, LoopFails,
                      LoopSucceeds, Compare, Throw, Backoff, Ask, Settle, Review, context
  <2> QED
    BY <2>1, <2>2
<1>2. CASE Ordering \/ Pipeline \/ Cancel \/ Refill \/ Close \/ UNCHANGED vars
  BY <1>2 DEF Ordering, RejectUnknown, TakeLayer, RejectCycle, OrderResolved, Pipeline,
              RunLayer, SkipLayer, Finish, Cancel, Refill, Close, vars, context
<1> QED
  BY <1>1, <1>2 DEF Next

(* The output of a stage of an earlier layer does not change, but to what  *)
(* an earlier run left.                                                    *)
LEMMA EarlierOutputKept ==
    ASSUME TurnInv, SnapshotsKeepEarlierLayers, [Next]_vars,
           NEW i \in 1 .. cur - 1, NEW k \in layers[i]
    PROVE  store'[k] = store[k] \/ Current \cap reverted' # {}
<1> USE DEF TurnInv
<1>1. i \in DOMAIN layers /\ k \in Stages /\ cur \in Nat /\ i < cur
  BY DEF TypeOK
<1>2. ASSUME NEW s \in Stages, StageMove(s)
      PROVE  store'[k] = store[k] \/ Current \cap reverted' # {}
  <2>1. s \in layers[cur] /\ cur \in DOMAIN layers /\ Current = layers[cur]
    BY <1>2, StageFrame, InCurrent DEF Active
  <2>2. k # s
    BY <1>1, <2>1 DEF LayersInTurn
  <2>3. s \in taken => snap[s][k] = store[k] \/ Current \cap reverted # {}
    BY <2>1 DEF SnapshotsKeepEarlierLayers
  <2>4. \/ store'[k] = store[k]
        \/ store'[k] = snap[s][k] /\ (s \in taken \/ s \in reverted')
    BY <1>1, <1>2, <2>2, StageStore
  <2> QED
    BY <2>1, <2>3, <2>4, RevertedForGood
<1>3. CASE Ordering \/ Pipeline \/ Cancel \/ Refill \/ Close \/ UNCHANGED vars
  <2>1. UNCHANGED store
    BY <1>3 DEF Ordering, RejectUnknown, TakeLayer, RejectCycle, OrderResolved, Pipeline,
                RunLayer, SkipLayer, Finish, Cancel, Refill, Close, vars, context
  <2> QED
    BY <2>1
<1> QED
  BY <1>2, <1>3 DEF Next

(* What a stage would take back holds what earlier layers wrote.           *)
LEMMA NextSnapshotsKeep ==
    TurnInv /\ SnapshotsKeepEarlierLayers /\ [Next]_vars => SnapshotsKeepEarlierLayers'
<1> SUFFICES ASSUME TurnInv, SnapshotsKeepEarlierLayers, [Next]_vars
             PROVE  SnapshotsKeepEarlierLayers'
  OBVIOUS
<1> USE DEF TurnInv
<1>1. ASSUME NEW s \in Stages, StageMove(s)
      PROVE  SnapshotsKeepEarlierLayers'
  <2>1. UNCHANGED <<layers, cur>> /\ pc[s] # "idle" /\ pc'[s] # "idle" /\ Current' = Current
    BY <1>1, StageFrame DEF Active, Current
  <2> SUFFICES ASSUME NEW t \in taken'
               PROVE  /\ pc'[t] # "idle"
                      /\ t \in Current =>
                           \A i \in 1 .. cur - 1 : \A k \in layers[i] :
                               snap'[t][k] = store'[k] \/ Current \cap reverted' # {}
    BY <2>1 DEF SnapshotsKeepEarlierLayers
  <2>0. t \in Stages
    BY NextTypeOK DEF TypeOK
  <2>2. pc'[t] # "idle"
    BY <1>1, <2>0, <2>1, StageFrame, StageSnap DEF SnapshotsKeepEarlierLayers
  <2>3. ASSUME t \in Current, NEW i \in 1 .. cur - 1, NEW k \in layers[i]
        PROVE  snap'[t][k] = store'[k] \/ Current \cap reverted' # {}
    <3>1. store'[k] = store[k] \/ Current \cap reverted' # {}
      BY EarlierOutputKept
    <3>2. CASE snap'[t] = snap[t] /\ t \in taken
      BY <2>3, <3>1, <3>2, RevertedForGood DEF SnapshotsKeepEarlierLayers
    <3>3. CASE snap'[t] = store
      BY <3>1, <3>3
    <3> QED
      BY <1>1, <2>0, <3>2, <3>3, StageSnap
  <2> QED
    BY <2>2, <2>3
<1>2. CASE RunLayer \/ SkipLayer
  <2>1. /\ UNCHANGED <<layers, snap, taken>> /\ cur' = cur + 1 /\ cur \in Nat
        /\ \A t \in layers[cur + 1] : pc[t] = "idle"
    BY <1>2, NextLayerIdle DEF RunLayer, SkipLayer, context, TypeOK
  <2>2. Current' = layers[cur + 1]
    BY <2>1 DEF Current
  <2>3. \A t \in Stages : pc[t] # "idle" => pc'[t] # "idle"
    BY <1>2 DEF RunLayer, SkipLayer, TypeOK
  <2>4. taken \subseteq Stages
    BY DEF TypeOK
  <2> QED
    BY <2>1, <2>2, <2>3, <2>4 DEF SnapshotsKeepEarlierLayers
<1>3. CASE Finish \/ Cancel \/ Refill \/ Close \/ UNCHANGED vars
  <2>1. UNCHANGED <<layers, cur, pc, snap, store, taken, reverted>>
    BY <1>3 DEF Finish, Cancel, Refill, Close, vars, run, control, context
  <2> QED
    BY <2>1 DEF SnapshotsKeepEarlierLayers, Current
<1>4. CASE Ordering
  <2>1. /\ UNCHANGED <<pc, taken>> /\ cur' = 0 /\ taken \subseteq Stages
        /\ \A t \in Stages : pc[t] = "idle"
    BY <1>4 DEF Ordering, RejectUnknown, TakeLayer, RejectCycle, OrderResolved, control,
                context, LayersInTurn, TypeOK
  <2>2. taken' = {}
    BY <2>1 DEF SnapshotsKeepEarlierLayers
  <2> QED
    BY <2>2 DEF SnapshotsKeepEarlierLayers
<1> QED
  BY <1>1, <1>2, <1>3, <1>4 DEF Next, Pipeline

(* A stage that has taken something back counts as retried from then on.   *)
LEMMA RetriedForGood ==
    ASSUME TurnInv, [Next]_vars, NEW t \in Stages, Retried(t)
    PROVE  Retried(t)'
<1> USE DEF TurnInv, TypeOK, Retried
<1>1. ASSUME NEW s \in Stages, StageMove(s) PROVE Retried(t)'
  <2>1. CASE t # s
    BY <1>1, <2>1, StageFrame
  <2>2. CASE Backoff(t) \/ Fallback(t) \/ Ask(t)
    BY <2>2 DEF Backoff, Fallback, Ask
  <2>3. CASE t = s /\ ~(Backoff(t) \/ Fallback(t) \/ Ask(t))
    <3>1. UNCHANGED <<attempts, fallbacks, asked>>
      BY <1>1, <2>3 DEF StageMove, StageStep, LoopReturns, Begin, Launch, LoopFails, LoopSucceeds, Compare, Throw,
                        Wake, Settle, Review, Answer
    <3> QED
      BY <3>1
  <2> QED
    BY <2>1, <2>2, <2>3
<1>2. CASE Ordering \/ Pipeline \/ Cancel \/ Refill \/ Close \/ UNCHANGED vars
  <2>1. UNCHANGED <<attempts, fallbacks, asked>>
    BY <1>2 DEF Ordering, RejectUnknown, TakeLayer, RejectCycle, OrderResolved, Pipeline,
                RunLayer, SkipLayer, Finish, Cancel, Refill, Close, vars, control
  <2> QED
    BY <2>1
<1> QED
  BY <1>1, <1>2 DEF Next

(* A stage that has delivered after its own step either wrote its output   *)
(* in that step or had delivered before and left the store alone.          *)
LEMMA StageDelivers ==
    ASSUME TurnInv, NEW s \in Stages, StageMove(s),
           Delivered(s)', s \in MayWrite, phase' # "thrown"
    PROVE  store'[s] = "new" \/ (Delivered(s) /\ UNCHANGED store)
<1> USE DEF TurnInv, TypeOK, Delivered
<1>1. open
  <2>1. phase \in {"running", "thrown"}
    BY StageFrame, InCurrent DEF Active
  <2>2. phase = "running"
    BY <2>1, StageFrame
  <2> QED
    BY <2>2 DEF OrderInv
<1>2. CASE LoopSucceeds(s)
  <2>1. \/ store' = [store EXCEPT ![s] = "new"]
        \/ pc'[s] = "returned" /\ result'[s] = "failed"
    BY <1>1, <1>2 DEF LoopSucceeds, WriteOutput, Entered, Return
  <2>2. s \in Keys
    BY Constants
  <2> QED
    BY <2>1, <2>2 DEF Stores
<1>3. CASE Begin(s) \/ Launch(s) \/ LoopFails(s)
  BY <1>3 DEF Begin, Launch, LoopFails, Return, OutcomesKnown
<1>4. CASE Compare(s) \/ Review(s) \/ Settle(s)
  BY <1>4 DEF Compare, Review, Settle, Return, context
<1>5. CASE Throw(s)
  BY <1>5 DEF Throw
<1>6. CASE Backoff(s) \/ Fallback(s) \/ Ask(s)
  BY <1>6 DEF Backoff, Fallback, Ask, Failed
<1>7. CASE Wake(s) \/ Answer(s)
  BY <1>7 DEF Wake, Answer, OutcomesKnown
<1> QED
  BY <1>2, <1>3, <1>4, <1>5, <1>6, <1>7 DEF StageMove, StageStep, LoopReturns

(* Who can have taken back the output of u, a stage of layer i: a sibling  *)
(* that was retried, or a stage of layers i .. n that went back to an      *)
(* earlier run.                                                            *)
TakenBack(u, i, n) ==
    \/ \E t \in layers[i] \ {u} : Retried(t)
    \/ \E j \in i .. n : \E t \in layers[j] \ {u} : t \in reverted

(* Who has is not forgotten.                                               *)
LEMMA TakenBackForGood ==
    ASSUME TurnInv, [Next]_vars, UNCHANGED layers, NEW u, NEW i \in 1 .. cur,
           TakenBack(u, i, cur)
    PROVE  TakenBack(u, i, cur)'
<1>1. i \in DOMAIN layers /\ layers[i] \subseteq Stages
  BY DEF TurnInv, TypeOK
<1>2. cur' \in Nat /\ cur \in Nat /\ cur <= cur'
  <2>1. ASSUME NEW s \in Stages, StageMove(s) PROVE cur' = cur
    BY <2>1, StageFrame DEF TurnInv
  <2>2. CASE Ordering \/ Pipeline \/ Cancel \/ Refill \/ Close \/ UNCHANGED vars
    BY <2>2 DEF Ordering, RejectUnknown, TakeLayer, RejectCycle, OrderResolved, Pipeline,
                RunLayer, SkipLayer, Finish, Cancel, Refill, Close, vars, run, TurnInv, TypeOK
  <2> QED
    BY <2>1, <2>2 DEF Next, TurnInv, TypeOK
<1>3. CASE \E t \in layers[i] \ {u} : Retried(t)
  BY <1>1, <1>3, RetriedForGood DEF TakenBack
<1>4. CASE \E j \in i .. cur : \E t \in layers[j] \ {u} : t \in reverted
  <2>1. \A j \in i .. cur : j \in i .. cur'
    BY <1>2
  <2> QED
    BY <1>4, <2>1, RevertedForGood DEF TakenBack
<1> QED
  BY <1>3, <1>4 DEF TakenBack

(* An output that is lost was taken back by one of these.                  *)
LEMMA NextOutputsLost == IInv /\ [Next]_vars => OutputsLostOnlyToSiblings'
<1> SUFFICES ASSUME IInv, [Next]_vars PROVE OutputsLostOnlyToSiblings'
  OBVIOUS
<1> USE DEF IInv, TurnInv
<1>1. ASSUME NEW s \in Stages, StageMove(s)
      PROVE  OutputsLostOnlyToSiblings'
  <2>1. UNCHANGED <<layers, cur>> /\ (phase' # "thrown" => phase # "thrown")
    BY <1>1, StageFrame
  <2>2. s \in layers[cur] /\ cur \in DOMAIN layers
    BY <1>1, StageFrame, InCurrent DEF Active
  <2> SUFFICES ASSUME NEW i \in 1 .. cur, NEW u \in layers[i],
                      Delivered(u)', u \in MayWrite, phase' # "thrown", store'[u] # "new"
               PROVE  TakenBack(u, i, cur)'
    BY <2>1 DEF OutputsLostOnlyToSiblings, TakenBack
  <2>3. i \in DOMAIN layers /\ u \in Stages /\ layers[i] \subseteq Stages /\ cur \in Nat
    BY DEF TypeOK
  <2>4. ASSUME Delivered(u), store'[u] = store[u]
        PROVE  TakenBack(u, i, cur)'
    <3>1. TakenBack(u, i, cur)
      BY <2>1, <2>4 DEF OutputsLostOnlyToSiblings, TakenBack
    <3> QED
      BY <2>1, <3>1, TakenBackForGood
  <2>5. CASE u = s
    BY <1>1, <2>4, <2>5, StageDelivers
  <2>6. CASE u # s
    <3>1. Delivered(u)
      BY <1>1, <2>3, <2>6, StageFrame DEF Delivered
    <3>2. CASE store'[u] = store[u]
      BY <2>4, <3>1, <3>2
    <3>3. CASE store'[u] # store[u]
      <4>1. Retried(s)'
        BY <1>1, <2>3, <2>6, <3>3, StageStore
      <4>2. CASE i = cur
        BY <2>1, <2>2, <2>6, <4>1, <4>2 DEF TakenBack
      <4>3. CASE i # cur
        <5>1. PICK t \in Current : t \in reverted'
          BY <2>3, <3>3, <4>3, EarlierOutputKept
        <5>2. t \in layers[cur] /\ cur \in i .. cur
          BY <2>2, <2>3, <5>1 DEF Current
        <5>3. t # u
          BY <2>2, <2>3, <4>3, <5>2 DEF LayersInTurn
        <5> QED
          BY <2>1, <5>1, <5>2, <5>3 DEF TakenBack
      <4> QED
        BY <4>2, <4>3
    <3> QED
      BY <3>2, <3>3
  <2> QED
    BY <2>5, <2>6
<1>2. CASE RunLayer \/ SkipLayer
  <2>1. /\ UNCHANGED <<layers, store, phase, attempts, fallbacks, asked>> /\ cur' = cur + 1
        /\ cur \in Nat /\ cur + 1 \in DOMAIN layers
        /\ \A t \in layers[cur + 1] : t \in Stages /\ pc[t] = "idle"
    BY <1>2, NextLayerIdle DEF RunLayer, SkipLayer, context, TypeOK
  <2>2. ASSUME NEW u \in Stages, Delivered(u)' PROVE Delivered(u) /\ u \notin layers[cur + 1]
    <3>1. CASE u \in layers[cur + 1]
      BY <1>2, <2>1, <2>2, <3>1 DEF RunLayer, SkipLayer, Delivered, OutcomesKnown, TypeOK
    <3>2. CASE u \notin layers[cur + 1]
      BY <1>2, <2>2, <3>2 DEF RunLayer, SkipLayer, Delivered, TypeOK
    <3> QED
      BY <3>1, <3>2
  <2>3. \A i \in DOMAIN layers : layers[i] \subseteq Stages
    BY DEF TypeOK
  <2> SUFFICES ASSUME NEW i \in 1 .. cur + 1, NEW u \in layers[i],
                      Delivered(u)', u \in MayWrite, phase # "thrown", store[u] # "new"
               PROVE  TakenBack(u, i, cur)'
    BY <2>1 DEF OutputsLostOnlyToSiblings, TakenBack
  <2>4. i \in 1 .. cur /\ Delivered(u)
    <3>1. i \in DOMAIN layers /\ u \in Stages
      BY <2>1, <2>3 DEF TypeOK
    <3>2. Delivered(u) /\ u \notin layers[cur + 1]
      BY <2>2, <3>1
    <3> QED
      BY <2>1, <3>2
  <2>5. TakenBack(u, i, cur)
    BY <2>4 DEF OutputsLostOnlyToSiblings, TakenBack
  <2> QED
    BY <2>1, <2>4, <2>5, TakenBackForGood
<1>3. CASE Finish \/ Cancel \/ Refill \/ Close \/ UNCHANGED vars
  <2>1. /\ UNCHANGED <<layers, cur, control, store, reverted>>
        /\ phase' # "thrown" => phase # "thrown"
    BY <1>3 DEF Finish, Cancel, Refill, Close, vars, run, context
  <2> QED
    BY <2>1 DEF control, OutputsLostOnlyToSiblings, Delivered, Retried
<1>4. CASE Ordering
  <2>1. cur' = 0
    BY <1>4 DEF Ordering, RejectUnknown, TakeLayer, RejectCycle, OrderResolved, LayersInTurn
  <2> QED
    BY <2>1 DEF OutputsLostOnlyToSiblings
<1> QED
  BY <1>1, <1>2, <1>3, <1>4 DEF Next, Pipeline

(* On any database the whole invariant holds in every state.               *)
LEMMA OutputsInvariant == Spec => []IInv
<1>1. Init => IInv
  <2> SUFFICES ASSUME Init PROVE IInv
    OBVIOUS
  <2>1. SnapshotsKeepEarlierLayers /\ OutputsLostOnlyToSiblings
    BY DEF Init, SnapshotsKeepEarlierLayers, OutputsLostOnlyToSiblings
  <2> QED
    BY <2>1, InitTurnInv DEF IInv
<1>2. IInv /\ [Next]_vars => IInv'
  <2> SUFFICES ASSUME IInv, [Next]_vars PROVE IInv'
    OBVIOUS
  <2>1. TurnInv'
    BY NextTypeOK, NextOrderInv, NextLayersInTurn, NextOutcomesKnown, NextDependencyOrder
    DEF TurnInv, IInv
  <2>2. SnapshotsKeepEarlierLayers'
    BY NextSnapshotsKeep DEF IInv
  <2>3. OutputsLostOnlyToSiblings'
    BY NextOutputsLost
  <2> QED
    BY <2>1, <2>2, <2>3 DEF IInv
<1> QED
  BY <1>1, <1>2, PTL DEF Spec

(* Whatever earlier runs have left in context.db, a delivered output is    *)
(* only ever missing because a stage beside it in its layer was rolled     *)
(* back, or because one from its layer on failed before its snapshot and   *)
(* went back to one of an earlier run.                                     *)
THEOREM OutputsSafe == Spec => []OutputsLostOnlyToSiblings
<1>1. IInv => OutputsLostOnlyToSiblings
  BY DEF IInv
<1> QED
  BY <1>1, OutputsInvariant, PTL

(* No retry, fallback or answer in a layer changes what the stages of      *)
(* earlier layers have written, unless a stage of the layer went back to a *)
(* snapshot of an earlier run.                                             *)
THEOREM RollbackStaysInLayer == Spec => EarlierLayersKept
<1>1. IInv /\ [Next]_vars =>
        [\A i \in 1 .. cur - 1 : \A s \in layers[i] :
            store'[s] = store[s] \/ Current \cap reverted' # {}]_vars
  BY EarlierOutputKept DEF IInv
<1> QED
  BY <1>1, OutputsInvariant, PTL DEF Spec, EarlierLayersKept
=============================================================================
