----------------------------- MODULE RpmLimiter -----------------------------
(***************************************************************************)
(* The requests-per-minute limiter of a provider (createRateLimiter): a    *)
(* token bucket and a FIFO queue of the acquire() calls that wait for a    *)
(* token.  Nothing polls the bucket: a waiting call is only served by a    *)
(* timer, and the limiter arms one when a call enters an empty queue and   *)
(* when a drain leaves somebody behind.                                    *)
(*                                                                         *)
(* The limiter is shared by everything in the process that talks to the    *)
(* provider.  The signal of a call aborts when its request times out or    *)
(* when its run is cancelled, together with the other calls of that run.   *)
(***************************************************************************)
EXTENDS Naturals, FiniteSets

CONSTANTS
    Calls,   \* the calls of acquire()
    Rpm,     \* capacity of the bucket
    Aborts   \* the sets of calls whose signals abort together

ASSUME LimiterAssumption ==
    /\ IsFiniteSet(Calls) /\ Rpm \in Nat \ {0} /\ Aborts \subseteq SUBSET Calls

VARIABLES
    tokens,   \* whole tokens in the bucket
    state,    \* what became of each call
    ticket,   \* order in which calls were pushed on waitQueue, 0 if never
    timers,   \* calls whose own timer is pending
    drains,   \* timers armed by drainQueue that are pending
    aborted,  \* calls whose signal has aborted
    (* History *)
    forsaken, \* a waiter aborted with the only timer and left others behind
    spare     \* drain timers that are pending for a queue that was aborted

history == <<forsaken, spare>>
vars == <<tokens, state, ticket, timers, drains, aborted, history>>

(* waitQueue: a call leaves it in the step that resolves or rejects it.    *)
Queue == {r \in Calls : state[r] = "waiting"}

NextTicket == Cardinality({r \in Calls : ticket[r] > 0}) + 1

Init ==
    /\ tokens = Rpm
    /\ state = [r \in Calls |-> "idle"]
    /\ ticket = [r \in Calls |-> 0]
    /\ timers = {} /\ drains = 0
    /\ aborted = {}
    /\ forsaken = FALSE /\ spare = 0

(* Mutant: every waiting call arms a timer.                                *)
AcquireAlwaysTimed(r) ==
    /\ state[r] = "idle"
    /\ \/ /\ tokens > 0
          /\ tokens' = tokens - 1
          /\ state' = [state EXCEPT ![r] = "granted"]
          /\ UNCHANGED <<ticket, timers>>
       \/ /\ tokens = 0 /\ r \in aborted
          /\ state' = [state EXCEPT ![r] = "rejected"]
          /\ UNCHANGED <<tokens, ticket, timers>>
       \/ /\ tokens = 0 /\ r \notin aborted
          /\ state' = [state EXCEPT ![r] = "waiting"]
          /\ ticket' = [ticket EXCEPT ![r] = NextTicket]
          /\ timers' = timers \cup {r}
          /\ UNCHANGED tokens
    /\ UNCHANGED <<drains, aborted, history>>

(* acquire(): take a token that is there, even when others wait; give up   *)
(* when the signal has aborted; else enter the queue, and arm a timer only *)
(* as the first of it.                                                     *)
Acquire(r) ==
    /\ state[r] = "idle"
    /\ \/ /\ tokens > 0
          /\ tokens' = tokens - 1
          /\ state' = [state EXCEPT ![r] = "granted"]
          /\ UNCHANGED <<ticket, timers>>
       \/ /\ tokens = 0 /\ r \in aborted
          /\ state' = [state EXCEPT ![r] = "rejected"]
          /\ UNCHANGED <<tokens, ticket, timers>>
       \/ /\ tokens = 0 /\ r \notin aborted
          /\ state' = [state EXCEPT ![r] = "waiting"]
          /\ ticket' = [ticket EXCEPT ![r] = NextTicket]
          /\ timers' = IF Queue = {} THEN {r} \cup timers ELSE timers
          /\ UNCHANGED tokens
    /\ UNCHANGED <<drains, aborted, history>>

(* The calls a drain serves: the oldest ones, one for every token.         *)
Served ==
    {r \in Queue : Cardinality({q \in Queue : ticket[q] < ticket[r]}) < tokens}

(* Mutant: drainQueue does not arm the next timer.                         *)
DrainOnce(own, pending) ==
    /\ tokens' = tokens - Cardinality(Served)
    /\ state' = [r \in Calls |-> IF r \in Served THEN "granted" ELSE state[r]]
    /\ timers' = own \ Served
    /\ drains' = pending
    /\ UNCHANGED <<ticket, aborted, forsaken>>

(* drainQueue, called by a timer that is no longer pending: cleanup()      *)
(* clears the timers of the calls served, and whoever is left behind makes *)
(* it arm the next one.                                                    *)
Drain(own, pending) ==
    /\ tokens' = tokens - Cardinality(Served)
    /\ state' = [r \in Calls |-> IF r \in Served THEN "granted" ELSE state[r]]
    /\ timers' = own \ Served
    /\ drains' = IF Queue \ Served # {} THEN pending + 1 ELSE pending
    /\ UNCHANGED <<ticket, aborted, forsaken>>

(* The timer of a call, or one that drainQueue armed, fires; such a one may*)
(* find nobody to wake.                                                    *)
FireOwn(r) == r \in timers /\ Drain(timers \ {r}, drains) /\ UNCHANGED spare

FireDrain ==
    /\ drains > 0 /\ Drain(timers, drains - 1)
    /\ spare' = IF Queue = {} THEN spare - 1 ELSE spare

(* onAbort of every call of S that waits: it leaves the queue and takes    *)
(* its own timer with it.  Nobody else is given one, and a timer that      *)
(* drainQueue armed stays.                                                 *)
Abort(S) ==
    /\ ~(S \subseteq aborted)
    /\ aborted' = aborted \cup S
    /\ state' = [r \in Calls |-> IF r \in S \cap Queue THEN "rejected" ELSE state[r]]
    /\ timers' = timers \ (S \cap Queue)
    /\ UNCHANGED <<tokens, ticket, drains>>
    /\ forsaken' = (/\ Queue \ S # {}
                    /\ forsaken \/ (timers # {} /\ timers \subseteq S /\ drains = 0))
    /\ spare' = IF Queue # {} /\ Queue \subseteq S /\ drains > 0 THEN spare + 1 ELSE spare

(* Time passes: refill() finds another whole token.                        *)
Refill ==
    /\ tokens < Rpm
    /\ tokens' = tokens + 1
    /\ UNCHANGED <<state, ticket, timers, drains, aborted, history>>

Fire == FireDrain \/ \E r \in Calls : FireOwn(r)

Next ==
    \/ \E r \in Calls : Acquire(r)
    \/ Fire \/ Refill
    \/ \E S \in Aborts : Abort(S)

(* Timers that are armed fire, and the clock runs.                         *)
Spec == Init /\ [][Next]_vars /\ WF_vars(Fire) /\ WF_vars(Refill)

(***************************************************************************)
(* Properties.                                                             *)
(***************************************************************************)

(* The bucket is never overdrawn nor overfilled, and every variable stays  *)
(* in its range.                                                           *)
TypeOK ==
    /\ tokens \in 0 .. Rpm
    /\ state \in [Calls -> {"idle", "waiting", "granted", "rejected"}]
    /\ ticket \in [Calls -> Nat]
    /\ timers \in SUBSET Calls
    /\ drains \in Nat
    /\ aborted \in SUBSET Calls
    /\ forsaken \in BOOLEAN /\ spare \in Nat

(* Whatever fires and whoever aborts, a wake-up is pending while somebody  *)
(* waits, the timer of a waiting call or one that drainQueue armed, unless *)
(* the queue was forsaken; and one only: timers pile up by no more than    *)
(* the drains that aborts left without a queue.                            *)
OneWakeup ==
    /\ timers \subseteq Queue /\ \A q, r \in timers : q = r
    /\ Queue # {} => timers # {} \/ drains > 0 \/ forsaken
    /\ drains <= IF Queue # {} /\ timers = {} THEN spare + 1 ELSE spare

(* No call stays in the queue for ever, but in a queue that was forsaken.  *)
CallsSettle == \A r \in Calls : r \in Queue ~> r \notin Queue \/ forsaken
=============================================================================
