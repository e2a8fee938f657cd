----------------------------- MODULE ProviderProofs -----------------------------
(***************************************************************************)
(* What the provider layer guarantees for any number of calls: the limiter *)
(* of requests forgets nobody but those behind a call that aborts with the *)
(* only timer, and a call has its answer in time and when it is cancelled. *)
(***************************************************************************)
EXTENDS RpmLimiter, ProviderCall, TLAPS

(* The inductive invariant: nothing but the types is needed besides.       *)
WakeupInv ==
    /\ state \in [Calls -> {"idle", "waiting", "granted", "rejected"}]
    /\ timers \in SUBSET Calls
    /\ drains \in Nat /\ spare \in Nat /\ forsaken \in BOOLEAN
    /\ OneWakeup

(* A drain serves a part of the queue; the calls of the rest still wait,   *)
(* and for them it arms a timer.                                           *)
LEMMA DrainLeavesRest ==
    ASSUME NEW own, NEW pending, Drain(own, pending), WakeupInv
    PROVE  /\ state' \in [Calls -> {"idle", "waiting", "granted", "rejected"}]
           /\ Queue' = Queue \ Served /\ Served \subseteq Queue
           /\ timers' = own \ Served /\ forsaken' = forsaken
           /\ drains' = IF Queue' # {} THEN pending + 1 ELSE pending
<1>1. Served \subseteq Queue
  BY DEF Served
<1>2. state' = [r \in Calls |-> IF r \in Served THEN "granted" ELSE state[r]]
  BY DEF Drain
<1>3. state' \in [Calls -> {"idle", "waiting", "granted", "rejected"}]
  BY <1>2 DEF WakeupInv
<1>4. \A r \in Calls : state'[r] = "waiting" <=> state[r] = "waiting" /\ r \notin Served
  BY <1>2
<1>5. Queue' = Queue \ Served
  BY <1>4 DEF Queue
<1> QED
  BY <1>1, <1>3, <1>5 DEF Drain

(* Entering the queue arms a timer exactly when nobody waits, and a call   *)
(* that does not enter it changes no timer.                                *)
LEMMA AcquireKeepsWakeup ==
    ASSUME NEW r \in Calls, WakeupInv, Acquire(r)
    PROVE  WakeupInv'
<1>1. state' \in [Calls -> {"idle", "waiting", "granted", "rejected"}]
  BY DEF WakeupInv, Acquire
<1>2. UNCHANGED <<drains, forsaken, spare>>
  BY DEF Acquire, history
<1>3. CASE state'[r] = "waiting"
  <2>1. timers' = IF Queue = {} THEN {r} \cup timers ELSE timers
    BY <1>3 DEF Acquire, WakeupInv
  <2>2. Queue' = Queue \cup {r} /\ Queue' # {}
    BY <1>3, <1>1 DEF Acquire, WakeupInv, Queue
  <2>3. CASE Queue = {}
    <3>1. timers' = {r}
      BY <2>1, <2>3 DEF WakeupInv, OneWakeup
    <3>2. drains <= spare
      BY <2>3 DEF WakeupInv, OneWakeup
    <3> QED
      BY <1>1, <1>2, <2>2, <3>1, <3>2 DEF WakeupInv, OneWakeup
  <2>4. CASE Queue # {}
    <3>1. timers' = timers
      BY <2>1, <2>4
    <3> QED
      BY <1>1, <1>2, <2>2, <2>4, <3>1 DEF WakeupInv, OneWakeup
  <2> QED
    BY <2>3, <2>4
<1>4. CASE state'[r] # "waiting"
  <2>1. timers' = timers
    BY <1>4 DEF Acquire, WakeupInv
  <2>2. Queue' = Queue
    BY <1>4, <1>1 DEF Acquire, WakeupInv, Queue
  <2> QED
    BY <1>1, <1>2, <2>1, <2>2 DEF WakeupInv, OneWakeup
<1> QED
  BY <1>3, <1>4

(* The timer of a call fires, the only one of its kind, and the drain arms *)
(* the next one exactly when somebody is left.                             *)
LEMMA FireOwnKeepsWakeup ==
    ASSUME NEW r \in Calls, WakeupInv, FireOwn(r)
    PROVE  WakeupInv'
<1>1. Drain(timers \ {r}, drains) /\ r \in timers /\ spare' = spare
  BY DEF FireOwn
<1>2. timers = {r} /\ drains <= spare
  BY <1>1 DEF WakeupInv, OneWakeup
<1>3. /\ state' \in [Calls -> {"idle", "waiting", "granted", "rejected"}]
      /\ timers' = {} /\ forsaken' = forsaken
      /\ drains' = IF Queue' # {} THEN drains + 1 ELSE drains
  BY <1>1, <1>2, DrainLeavesRest
<1> QED
  BY <1>1, <1>2, <1>3 DEF WakeupInv, OneWakeup

(* A timer armed by drainQueue fires.  With a queue it is replaced or not  *)
(* needed, without one it was a spare one.                                 *)
LEMMA FireDrainKeepsWakeup ==
    ASSUME WakeupInv, FireDrain
    PROVE  WakeupInv'
<1>1. Drain(timers, drains - 1) /\ drains > 0 /\ spare' = IF Queue = {} THEN spare - 1 ELSE spare
  BY DEF FireDrain
<1>2. /\ state' \in [Calls -> {"idle", "waiting", "granted", "rejected"}]
      /\ Queue' = Queue \ Served /\ Served \subseteq Queue
      /\ timers' = timers \ Served /\ forsaken' = forsaken
      /\ drains' = IF Queue' # {} THEN (drains - 1) + 1 ELSE drains - 1
  BY <1>1, DrainLeavesRest
<1>3. CASE Queue = {}
  <2>1. timers = {} /\ drains <= spare
    BY <1>3 DEF WakeupInv, OneWakeup
  <2>2. Queue' = {} /\ timers' = {} /\ drains' = drains - 1 /\ spare' = spare - 1
    BY <1>1, <1>2, <1>3, <2>1
  <2> QED
    BY <1>1, <1>2, <2>1, <2>2 DEF WakeupInv, OneWakeup
<1>4. CASE Queue # {} /\ Queue' # {}
  <2>1. drains' = drains /\ spare' = spare /\ drains' > 0
    BY <1>1, <1>2, <1>4 DEF WakeupInv
  <2>2. timers' \subseteq Queue' /\ timers' \subseteq timers
    BY <1>2 DEF WakeupInv, OneWakeup
  <2>3. drains <= spare + 1 /\ (timers' # {} => drains <= spare)
    BY <1>4, <2>2 DEF WakeupInv, OneWakeup
  <2> QED
    BY <1>2, <1>4, <2>1, <2>2, <2>3 DEF WakeupInv, OneWakeup
<1>5. CASE Queue # {} /\ Queue' = {}
  <2>1. timers' = {} /\ drains' = drains - 1 /\ spare' = spare
    BY <1>1, <1>2, <1>5 DEF WakeupInv, OneWakeup
  <2>2. drains <= spare + 1
    BY <1>5 DEF WakeupInv, OneWakeup
  <2> QED
    BY <1>1, <1>2, <1>5, <2>1, <2>2 DEF WakeupInv, OneWakeup
<1> QED
  BY <1>3, <1>4, <1>5

(* Calls abort: they leave the queue, and the history notes what that      *)
(* leaves behind, calls without a timer or a timer without calls.          *)
LEMMA AbortKeepsWakeup ==
    ASSUME NEW S \in SUBSET Calls, WakeupInv, Abort(S)
    PROVE  WakeupInv'
<1>1. state' = [r \in Calls |-> IF r \in S \cap Queue THEN "rejected" ELSE state[r]]
  BY DEF Abort
<1>2. state' \in [Calls -> {"idle", "waiting", "granted", "rejected"}]
  BY <1>1 DEF WakeupInv
<1>3. Queue' = Queue \ S
  BY <1>1 DEF Queue
<1>4. drains' = drains /\ timers' = timers \ (S \cap Queue)
  BY DEF Abort
<1>5. timers' = timers \ S /\ timers' \subseteq timers
  BY <1>4 DEF WakeupInv, OneWakeup
<1>6. /\ forsaken' = (Queue \ S # {} /\ (forsaken \/ (timers # {} /\ timers \subseteq S /\ drains = 0)))
      /\ spare' = IF Queue # {} /\ Queue \subseteq S /\ drains > 0 THEN spare + 1 ELSE spare
  BY DEF Abort
<1>7. forsaken' \in BOOLEAN /\ spare' \in Nat
  BY <1>6 DEF WakeupInv
<1>8. timers' \subseteq Queue' /\ \A q, r \in timers' : q = r
  BY <1>3, <1>5 DEF WakeupInv, OneWakeup
<1>9. ASSUME Queue' # {} PROVE timers' # {} \/ drains' > 0 \/ forsaken'
  <2>1. Queue # {} /\ Queue \ S # {}
    BY <1>3, <1>9
  <2>2. timers # {} \/ drains > 0 \/ forsaken
    BY <2>1 DEF WakeupInv, OneWakeup
  <2>3. timers' = {} => timers \subseteq S
    BY <1>5
  <2>4. drains > 0 \/ drains = 0
    BY DEF WakeupInv
  <2> QED
    BY <1>4, <1>6, <2>1, <2>2, <2>3, <2>4
<1>10. drains' <= IF Queue' # {} /\ timers' = {} THEN spare' + 1 ELSE spare'
  <2>1. CASE Queue' # {}
    <3>1. Queue # {} /\ ~(Queue \subseteq S)
      BY <1>3, <2>1
    <3>2. spare' = spare /\ (timers' # {} => timers # {})
      BY <1>5, <1>6, <3>1
    <3> QED
      BY <1>4, <2>1, <3>1, <3>2 DEF WakeupInv, OneWakeup
  <2>2. CASE Queue' = {}
    <3>1. Queue \subseteq S
      BY <1>3, <2>2
    <3>2. CASE Queue = {} \/ drains = 0
      BY <1>4, <1>6, <2>2, <3>2 DEF WakeupInv, OneWakeup
    <3>3. CASE Queue # {} /\ drains > 0
      <4>1. spare' = spare + 1 /\ drains <= spare + 1
        BY <1>6, <3>1, <3>3 DEF WakeupInv, OneWakeup
      <4> QED
        BY <1>4, <2>2, <4>1
    <3> QED
      BY <3>2, <3>3 DEF WakeupInv
  <2> QED
    BY <2>1, <2>2
<1>11. timers' \in SUBSET Calls /\ drains' \in Nat
  BY <1>4 DEF WakeupInv
<1> QED
  BY <1>2, <1>7, <1>8, <1>9, <1>10, <1>11 DEF WakeupInv, OneWakeup

(* OneWakeup, whoever shares the limiter and whichever calls abort, alone  *)
(* or together: a queue is only left without a timer by a waiter that      *)
(* aborts with the only one, and timers only pile up by the drains that    *)
(* aborts of the whole queue leave (createRateLimiter).                    *)
THEOREM WakeupPending == Spec => []OneWakeup
<1>1. ASSUME Init PROVE WakeupInv
  <2>1. state = [r \in Calls |-> "idle"] /\ timers = {} /\ drains = 0 /\ forsaken = FALSE /\ spare = 0
    BY <1>1 DEF Init
  <2>2. Queue = {}
    BY <2>1 DEF Queue
  <2>3. state \in [Calls -> {"idle", "waiting", "granted", "rejected"}]
    BY <2>1
  <2>4. OneWakeup
    BY <2>1, <2>2 DEF OneWakeup
  <2> QED
    BY <2>1, <2>3, <2>4 DEF WakeupInv
<1>2. WakeupInv /\ [Next]_vars => WakeupInv'
  <2> SUFFICES ASSUME WakeupInv, [Next]_vars
               PROVE  WakeupInv'
    OBVIOUS
  <2>1. CASE \E r \in Calls : Acquire(r)
    BY <2>1, AcquireKeepsWakeup
  <2>2. CASE \E r \in Calls : FireOwn(r)
    BY <2>2, FireOwnKeepsWakeup
  <2>3. CASE FireDrain
    BY <2>3, FireDrainKeepsWakeup
  <2>4. CASE Refill
    BY <2>4 DEF Refill, history, WakeupInv, OneWakeup, Queue
  <2>5. CASE \E S \in Aborts : Abort(S)
    <3>1. Aborts \subseteq SUBSET Calls
      BY LimiterAssumption DEF LimiterAssumption
    <3> QED
      BY <2>5, <3>1, AbortKeepsWakeup
  <2>6. CASE UNCHANGED vars
    BY <2>6 DEF vars, history, WakeupInv, OneWakeup, Queue
  <2> QED
    BY <2>1, <2>2, <2>3, <2>4, <2>5, <2>6 DEF Next, Fire
<1>3. WakeupInv => OneWakeup
  BY DEF WakeupInv
<1> QED
  BY <1>1, <1>2, <1>3, PTL DEF Spec

-----------------------------------------------------------------------------
(* chat().                                                                 *)

Steps == {"idle", "limited", "throttled", "sent", "sleeping", "ok", "error", "thrown"}

(* A call that is under way has not passed its deadline, nor the moment at *)
(* which it was cancelled: the clock does not go on over a timer that is   *)
(* due, and the signal ends whatever is waited for.                        *)
CallInv ==
    /\ now \in Nat /\ step \in [Requests -> Steps]
    /\ deadline \in [Requests -> Nat] /\ since \in [Requests -> Nat]
    /\ \A c \in Requests: c \in signalled => step[c] # "idle"
    /\ \A c \in Requests: step[c] # "idle" /\ ~Settled(c) =>
          now <= deadline[c] /\ (c \in signalled => now <= since[c])

(* A call that goes on keeps the deadline that it began with.              *)
LEMMA GoingOnKeeps ==
    ASSUME CallInv, NEW c \in Requests, NEW at \in Steps \ {"idle"}, UNCHANGED <<now, deadline, signals>>,
           step[c] # "idle", ~Settled(c), step' = [step EXCEPT ![c] = at]
    PROVE  CallInv'
<1>1. step' \in [Requests -> Steps] /\ step'[c] = at
      /\ \A d \in Requests \ {c}: step'[d] = step[d]
  BY DEF CallInv
<1>2. now <= deadline[c] /\ (c \in signalled => now <= since[c])
  BY DEF CallInv
<1>3. UNCHANGED <<now, deadline, signalled, since>>
  BY DEF signals
<1>4. ASSUME NEW d \in Requests
      PROVE  /\ d \in signalled => step'[d] # "idle"
             /\ step'[d] # "idle" /\ ~Settled(d)' =>
                    now <= deadline[d] /\ (d \in signalled => now <= since[d])
  <2>1. CASE d = c
    BY <1>1, <1>2, <2>1
  <2>2. CASE d # c
    <3>1. step'[d] = step[d]
      BY <1>1, <2>2
    <3> QED
      BY <3>1 DEF CallInv, Settled
  <2> QED
    BY <2>1, <2>2
<1> QED
  BY <1>1, <1>3, <1>4 DEF CallInv

(* Every step of a call but the first.                                     *)
LEMMA CallStepsKeep ==
    ASSUME CallInv, NEW c \in Requests,
           \/ Throttle(c) \/ Reject(c) \/ Unthrottle(c)
           \/ Respond(c) \/ FetchAborted(c) \/ Awake(c) \/ Signal(c)
    PROVE  CallInv'
<1>1. CASE Signal(c)
  <2>1. /\ UNCHANGED <<now, step, deadline>> /\ step[c] # "idle"
        /\ signalled' = signalled \cup {c} /\ since' = [since EXCEPT ![c] = now]
    BY <1>1 DEF Signal, timing
  <2>2. since' \in [Requests -> Nat] /\ since'[c] = now /\ \A d \in Requests \ {c}: since'[d] = since[d]
    BY <2>1 DEF CallInv
  <2> QED
    BY <2>1, <2>2 DEF CallInv, Settled
<1>2. CASE ~Signal(c)
  <2>1. UNCHANGED <<now, deadline, signals>>
    BY <1>2 DEF Throttle, Reject, Unthrottle, Respond, FetchAborted, Awake, timing, tpm
  <2>2. step[c] \in {"limited", "throttled", "sent", "sleeping"}
    BY <1>2 DEF Throttle, Reject, Unthrottle, Respond, FetchAborted, Awake
  <2>3. step[c] # "idle" /\ ~Settled(c)
    BY <2>2 DEF Settled
  <2>4. \E at \in Steps \ {"idle"}: step' = [step EXCEPT ![c] = at]
    BY <1>2 DEF Throttle, Reject, Unthrottle, Respond, FetchAborted, Awake, Failure, Send, Steps
  <2> QED
    BY <2>1, <2>3, <2>4, GoingOnKeeps
<1> QED
  BY <1>1, <1>2

(* The clock: nothing is due, so no deadline is reached yet.               *)
LEMMA TickKeeps ==
    ASSUME CallInv, Tick
    PROVE  CallInv'
<1>1. /\ now' = now + 1 /\ UNCHANGED <<step, deadline, signalled, since>>
      /\ \A c \in Requests: ~Due(c)
  BY DEF Tick, timing, signals
<1>2. ASSUME NEW c \in Requests, step[c] # "idle", ~Settled(c)
      PROVE  now < deadline[c] /\ c \notin signalled
  <2>1. step[c] \in {"limited", "throttled", "sent", "sleeping"}
    BY <1>2 DEF CallInv, Steps, Settled
  <2>2. c \notin signalled
    BY <1>1, <2>1 DEF Due, Woken
  <2> QED
    BY <1>1, <1>2, <2>2 DEF Due, CallInv
<1> QED
  BY <1>1, <1>2 DEF CallInv, Settled

(* AnsweredInTime: AbortSignal.timeout and the cancel of the run end a call*)
(* in whatever it waits for (chat() of the base adapter, withRetry, the two*)
(* limiters).                                                              *)
THEOREM CallsAreAnswered == CallSpec => []AnsweredInTime
<1>1. CallInit => CallInv
  BY ProviderCallAssumption DEF CallInit, CallInv, Steps, ProviderCallAssumption
<1>2. CallInv /\ [CallNext]_callVars => CallInv'
  <2> SUFFICES ASSUME CallInv, [CallNext]_callVars
               PROVE  CallInv'
    OBVIOUS
  <2>1. ASSUME NEW c \in Requests, Begin(c) PROVE CallInv'
    <3>1. /\ step' = [step EXCEPT ![c] = "limited"] /\ step[c] = "idle"
          /\ deadline' = [deadline EXCEPT ![c] = now + Timeout]
          /\ UNCHANGED <<now, signalled, since>>
      BY <2>1 DEF Begin, signals
    <3>2. Timeout \in Nat
      BY ProviderCallAssumption DEF ProviderCallAssumption
    <3> QED
      BY <3>1, <3>2 DEF CallInv, Settled, Steps
  <2>2. CASE UNCHANGED callVars
    BY <2>2 DEF callVars, timing, signals, CallInv, Settled
  <2> QED
    BY <2>1, <2>2, CallStepsKeep, TickKeeps DEF CallNext
<1>3. CallInv => AnsweredInTime
  BY DEF CallInv, AnsweredInTime
<1> QED
  BY <1>1, <1>2, <1>3, PTL DEF CallSpec
=============================================================================
