----------------------------- MODULE ProviderCall -----------------------------
(***************************************************************************)
(* chat() of a provider adapter: attempts with retries and backoff, each   *)
(* behind the requests-per-minute limiter (RpmLimiter has its queue; here  *)
(* it grants or rejects) and the tokens-per-minute limiter, whose window   *)
(* all calls of the process share.  One signal, of the run's cancel and of *)
(* the request's timeout, covers all of a call.  Time is a clock; what is  *)
(* due at a tick happens before the next one.                              *)
(***************************************************************************)
EXTENDS Naturals, Sequences, FiniteSetsExt, SequencesExt

CONSTANTS
    Requests,    \* the chat() calls
    Timeout,     \* timeoutMs
    MaxRetries, MaxDelay,  \* of retryConfig
    RetryAfter,  \* what servers say in Retry-After and the like
    Window,      \* the 60 seconds of the limiter
    Tpm,         \* the limit it starts with, and
    Limits,      \* those that servers report in their headers
    Estimate,    \* [Requests -> estimated tokens of the body]
    Usage,       \* tokens a response may have used
    Earlier,     \* the usage entries of calls that ended before
    MaxTime      \* the clock stops, a bound of the model only

ASSUME ProviderCallAssumption ==
    /\ {Timeout, MaxRetries, MaxDelay, Window, Tpm, MaxTime} \subseteq Nat
    /\ RetryAfter \subseteq Nat /\ Limits \subseteq Nat /\ Usage \subseteq Nat
    /\ Estimate \in [Requests -> Nat]
    /\ Earlier \in Seq([at: 0 .. Window, tokens: Nat])

VARIABLES
    now,
    step,      \* [Requests -> where the call is]
    attempt,   \* [Requests -> 0-based]
    until,     \* [Requests -> end of its throttle or backoff]
    deadline,  \* [Requests -> when AbortSignal.timeout fires]
    signalled, \* the calls whose signal has aborted
    window,    \* the usage entries: [at, tokens]
    limit,     \* tpmLimit
    (* History *)
    since,     \* [Requests -> when the signal aborted]
    stale      \* the throttled calls since whose look others recorded usage

timing == <<until, deadline>>
signals == <<signalled, since>>
tpm    == <<window, limit>>
callVars == <<now, step, attempt, timing, signals, tpm, stale>>

Settled(c) == step[c] \in {"ok", "error", "thrown"}

CallInit ==
    /\ now = Window /\ step = [c \in Requests |-> "idle"] /\ attempt = [c \in Requests |-> 0]
    /\ until = [c \in Requests |-> 0] /\ deadline = until
    /\ signalled = {} /\ since = until /\ window = Earlier /\ limit = Tpm /\ stale = {}

-----------------------------------------------------------------------------
(* The tokens-per-minute limiter.                                          *)

(* prune: the entries that are not older than the window.                  *)
Kept == SelectSeq(window, LAMBDA e: e.at + Window >= now)

TokensOf(entries) == FoldLeft(LAMBDA n, e: n + e.tokens, 0, entries)

(* Mutant: it waits for the oldest entry to leave, whatever that frees.    *)
WaitUntilOldest(c) == IF Kept = <<>> THEN now ELSE Kept[1].at + Window

(* How long acquire waits: until enough of the oldest entries have left, or*)
(* all of them.                                                            *)
WaitUntil(c) ==
    LET Frees(n) == TokensOf(SubSeq(Kept, 1, n)) + limit >= TokensOf(Kept) + Estimate[c]
        enough == {n \in 1 .. Len(Kept): Frees(n)}
    IN CASE Kept = <<>> -> now
         [] enough # {} -> Kept[Min(enough)].at + Window
         [] OTHER -> Kept[Len(Kept)].at + Window

Send(c) == step' = [step EXCEPT ![c] = "sent"]

(* rateLimiter.acquire is through; tpmLimiter.acquire looks once.          *)
Throttle(c) ==
    /\ step[c] = "limited"
    /\ window' = Kept
    /\ IF \/ TokensOf(Kept) + Estimate[c] <= limit \/ WaitUntil(c) <= now
       THEN Send(c) /\ UNCHANGED until
       ELSE /\ step' = [step EXCEPT ![c] = "throttled"]
            /\ until' = [until EXCEPT ![c] = WaitUntil(c)]
    /\ stale' = stale \ {c}
    /\ UNCHANGED <<now, attempt, deadline, signals, limit>>

(* It is rejected in the queue of the other limiter.  That is outside the  *)
(* try of the attempt: chat() throws.                                      *)
Reject(c) ==
    /\ step[c] = "limited" /\ c \in signalled
    /\ step' = [step EXCEPT ![c] = "thrown"]
    /\ UNCHANGED <<now, attempt, timing, signals, tpm, stale>>

(* Mutant: the timer is not cleared by the signal.                         *)
WokenByTimer(c) == now >= until[c]

(* The timers of the limiter and of the backoff end with the signal too.   *)
Woken(c) == now >= until[c] \/ c \in signalled

Unthrottle(c) ==
    /\ step[c] = "throttled" /\ Woken(c) /\ Send(c)
    /\ UNCHANGED <<now, attempt, until, deadline, signals, tpm, stale>>

-----------------------------------------------------------------------------
(* An attempt and the next one.                                            *)

Begin(c) ==
    /\ step[c] = "idle"
    /\ step' = [step EXCEPT ![c] = "limited"]
    /\ deadline' = [deadline EXCEPT ![c] = now + Timeout]
    /\ UNCHANGED <<now, attempt, until, signals, tpm, stale>>

(* computeDelay: what the server says, or a backoff; at most MaxDelay.     *)
Delays(told) == IF told THEN {Min({d, MaxDelay}): d \in RetryAfter}
                ELSE 1 .. MaxDelay

(* A failure: retried after a delay if that can help.                      *)
Failure(c, retriable, told) ==
    IF retriable /\ attempt[c] < MaxRetries
    THEN /\ step' = [step EXCEPT ![c] = "sleeping"]
         /\ \E d \in Delays(told): until' = [until EXCEPT ![c] = now + d]
    ELSE step' = [step EXCEPT ![c] = "error"] /\ UNCHANGED until

(* The response: a success whose usage is recorded; an error status, 429,  *)
(* 502 and 503 of which are retried, and which may report the provider's   *)
(* limit as a success may; or the network fails, or the body has to say    *)
(* max_completion_tokens, which is retried with no word about when.        *)
Respond(c) ==
    /\ step[c] = "sent" /\ c \notin signalled
    /\ \/ /\ \E tokens \in Usage: window' = Append(window, [at |-> now, tokens |-> tokens])
          /\ \E l \in Limits \cup {limit}: limit' = l
          /\ step' = [step EXCEPT ![c] = "ok"]
          /\ stale' = stale \cup {q \in Requests: step[q] = "throttled"}
          /\ UNCHANGED until
       \/ /\ \E retriable \in BOOLEAN: Failure(c, retriable, retriable)
          /\ \E l \in Limits \cup {limit}: limit' = l
          /\ stale' = IF limit' # limit THEN stale \cup {q \in Requests: step[q] = "throttled"} ELSE stale
          /\ UNCHANGED window
       \/ /\ \E retriable \in BOOLEAN: Failure(c, retriable, FALSE)
          /\ UNCHANGED <<tpm, stale>>
    /\ UNCHANGED <<now, attempt, deadline, signals>>

(* The fetch fails with the signal: no retry.                              *)
FetchAborted(c) ==
    /\ step[c] = "sent" /\ c \in signalled
    /\ step' = [step EXCEPT ![c] = "error"]
    /\ UNCHANGED <<now, attempt, timing, signals, tpm, stale>>

(* The loop of withRetry goes on, or finds the signal aborted.             *)
Awake(c) ==
    /\ step[c] = "sleeping" /\ Woken(c)
    /\ IF c \in signalled
       THEN step' = [step EXCEPT ![c] = "error"] /\ UNCHANGED attempt
       ELSE /\ step' = [step EXCEPT ![c] = "limited"]
            /\ attempt' = [attempt EXCEPT ![c] = @ + 1]
    /\ UNCHANGED <<now, timing, signals, tpm, stale>>

(* The run is cancelled, or the time of the request is up.                 *)
Signal(c) ==
    /\ step[c] # "idle" /\ ~Settled(c) /\ c \notin signalled
    /\ signalled' = signalled \cup {c} /\ since' = [since EXCEPT ![c] = now]
    /\ UNCHANGED <<now, step, attempt, timing, tpm, stale>>

Due(c) ==
    \/ step[c] \in {"limited", "sent"} /\ c \in signalled
    \/ step[c] \in {"throttled", "sleeping"} /\ Woken(c)
    \/ step[c] # "idle" /\ ~Settled(c) /\ c \notin signalled /\ now >= deadline[c]

Tick ==
    /\ now < MaxTime /\ ~\E c \in Requests: Due(c)
    /\ now' = now + 1
    /\ UNCHANGED <<step, attempt, timing, signals, tpm, stale>>

CallNext ==
    \/ \E c \in Requests:
          \/ Begin(c) \/ Throttle(c) \/ Reject(c) \/ Unthrottle(c)
          \/ Respond(c) \/ FetchAborted(c) \/ Awake(c) \/ Signal(c)
    \/ Tick

CallSpec == CallInit /\ [][CallNext]_callVars

-----------------------------------------------------------------------------
(* Properties.                                                             *)

(* A call has its answer when its timeout is over, and at once when it is  *)
(* cancelled, whatever it waits for then: a limiter, the network, the end  *)
(* of a backoff, in whichever attempt.                                     *)
AnsweredInTime ==
    \A c \in Requests:
        /\ step[c] # "idle" /\ now > deadline[c] => Settled(c)
        /\ c \in signalled /\ now > since[c] => Settled(c)

Recent == SelectSeq(window, LAMBDA e: e.at + Window > now)

(* When a request leaves, the tokens of the last minute and those it is    *)
(* estimated to need are within the limit, unless it alone exceeds it, it  *)
(* was woken by its signal, or others recorded usage while it waited: it   *)
(* does not look again.                                                    *)
ThrottledEnough ==
    [][\A c \in Requests: step[c] # "sent" /\ step'[c] = "sent" =>
          \/ c \in signalled \cup stale \/ Estimate[c] > limit
          \/ TokensOf(Recent) + Estimate[c] <= limit]_callVars
=============================================================================
