----------------------------- MODULE AgentLoop ------------------------------
(***************************************************************************)
(* runAgentLoop: chat with the model, run the tools it calls, feed the     *)
(* results back, until the model stops, the iterations run out, or the run *)
(* is cancelled.  The model, the tools and the person who answers or       *)
(* cancels are the environment; other code only runs while the loop waits  *)
(* for one of them ("chatting", "running", "asking").                      *)
(*                                                                         *)
(* A tool call is the name of the tool with its arguments; what it returns *)
(* is left out.  Messages to the model are left out but for what the loop  *)
(* decides about them: which tool calls they answer, which rounds the      *)
(* action log covers, and which injected user messages they carry.         *)
(***************************************************************************)
EXTENDS Naturals, Sequences, FiniteSets

CONSTANTS
    Calls,             \* tool calls the model can make
    MaxBatch,          \* tool calls in one response, a bound of the model only
    MaxIterations,     \* max_iterations of the stage
    LengthContinues,   \* MAX_LENGTH_CONTINUES
    LoopThreshold,     \* DOOM_LOOP_THRESHOLD
    HasTokenLimit,     \* whether onTokenLimit is passed
    UserMessages       \* messages a user may inject (orchestrated runs)

ASSUME AgentLoopAssumption ==
    /\ MaxBatch \in Nat \ {0} /\ MaxIterations \in Nat \ {0}
    /\ LengthContinues \in Nat /\ LoopThreshold \in Nat \ {0, 1}
    /\ HasTokenLimit \in BOOLEAN

VARIABLES
    pc,          \* where the loop stands
    iterations,  \* number of chat requests made
    cutOffs,     \* lengthContinues: consecutive responses cut off
    todo,        \* tool calls of the response still to be handled
    recent,      \* the newest entries of recentCalls, as many as are read
    cached,      \* keys of cachedResults
    round,       \* calls summarised in this round
    actionLog,   \* rounds and calls of memory.actionLog
    exchange,    \* calls and answers of the exchange being built
    last,        \* lastExchange, which the next request carries
    stopReason,  \* stopReason
    inbox,       \* injected messages the run manager holds
    delivered,   \* injected messages a request carried
    aborted,     \* signal.aborted
    ran,         \* history: rounds and calls that were executed
    streak       \* history: executions of one call with no other call between

memory  == <<recent, cached, round, actionLog>>
talk    == <<exchange, last, inbox, delivered>>
history == <<ran, streak>>
vars    == <<pc, iterations, cutOffs, todo, memory, talk, stopReason, aborted, history>>

NoExchange == [calls |-> 0, answers |-> 0, cut |-> FALSE]

Init ==
    /\ pc = "top" /\ iterations = 0 /\ cutOffs = 0 /\ todo = <<>>
    /\ recent = <<>> /\ cached = {} /\ round = {} /\ actionLog = {}
    /\ exchange = NoExchange /\ last = NoExchange
    /\ stopReason = "done"
    /\ inbox = {} /\ delivered = {} /\ aborted = FALSE
    /\ ran = {} /\ streak = 0

Ended == pc \in {"returned", "failed"}

(* The loop breaks or runs out: a stop at the last iteration is reported   *)
(* as max_iterations, whatever the model said.                             *)
Return(reason) ==
    /\ pc' = "returned"
    /\ stopReason' = IF reason = "done" /\ iterations >= MaxIterations
                     THEN "max_iterations" ELSE reason

Fail(reason) == pc' = "failed" /\ stopReason' = reason

(***************************************************************************)
(* One iteration.                                                          *)
(***************************************************************************)

(* Top of the for loop: fetch the injected messages and ask the model.     *)
Chat ==
    /\ pc = "top" /\ iterations < MaxIterations /\ ~aborted
    /\ pc' = "chatting"
    /\ iterations' = iterations + 1
    /\ inbox' = {} /\ delivered' = delivered \cup inbox
    /\ UNCHANGED <<cutOffs, todo, memory, exchange, last, stopReason, aborted, history>>

CancelledBeforeChat ==
    /\ pc = "top" /\ iterations < MaxIterations /\ aborted
    /\ Fail("cancelled")
    /\ UNCHANGED <<iterations, cutOffs, todo, memory, talk, aborted, history>>

Exhausted ==
    /\ pc = "top" /\ iterations >= MaxIterations
    /\ Return(stopReason)
    /\ UNCHANGED <<iterations, cutOffs, todo, memory, talk, aborted, history>>

(* provider.chat returns an error, an aborted request included.            *)
ChatFails ==
    /\ pc = "chatting"
    /\ Fail(stopReason)
    /\ UNCHANGED <<iterations, cutOffs, todo, memory, talk, aborted, history>>

(* finishReason is not tool_calls, or there is no tool call.               *)
ModelStops ==
    /\ pc = "chatting"
    /\ cutOffs' = 0
    /\ Return("done")
    /\ UNCHANGED <<iterations, todo, memory, talk, aborted, history>>

(* Mutant: an automatic continuation does not use up an iteration.         *)
CutOffFree(n) ==
    /\ pc = "chatting"
    /\ exchange' = [calls |-> n, answers |-> 0, cut |-> TRUE]
    /\ cutOffs' = cutOffs
    /\ pc' = "top" /\ last' = exchange'
    /\ iterations' = iterations - 1
    /\ UNCHANGED <<todo, memory, inbox, delivered, stopReason, aborted, history>>

(* finishReason is length: the n tool calls that may be in the response    *)
(* are never run.  Continue by itself a few times, then ask or stop.       *)
CutOff(n) ==
    /\ pc = "chatting"
    /\ exchange' = [calls |-> n, answers |-> 0, cut |-> TRUE]
    /\ cutOffs' = cutOffs + 1
    /\ \/ /\ cutOffs' <= LengthContinues /\ iterations < MaxIterations
          /\ pc' = "top" /\ last' = exchange'
          /\ UNCHANGED stopReason
       \/ /\ cutOffs' > LengthContinues \/ iterations = MaxIterations
          /\ IF HasTokenLimit THEN pc' = "asking" /\ UNCHANGED stopReason
                              ELSE Return("token_limit")
          /\ UNCHANGED last
    /\ UNCHANGED <<iterations, todo, memory, inbox, delivered, aborted, history>>

(* The answer to onTokenLimit: go on or stop.                              *)
TokenLimitAnswer ==
    /\ pc = "asking"
    /\ \/ /\ cutOffs' = 0 /\ pc' = "top" /\ last' = exchange
          /\ UNCHANGED stopReason
       \/ /\ Return("token_limit")
          /\ UNCHANGED <<cutOffs, last>>
    /\ UNCHANGED <<iterations, todo, memory, exchange, inbox, delivered, aborted,
                   history>>

(* The model calls tools, on the last iteration too, where none is offered *)
(* to it.                                                                  *)
ModelCalls(batch) ==
    /\ pc = "chatting"
    /\ pc' = "tool" /\ todo' = batch /\ cutOffs' = 0 /\ round' = {}
    /\ exchange' = [calls |-> Len(batch), answers |-> 0, cut |-> FALSE]
    /\ UNCHANGED <<iterations, recent, cached, actionLog, last, inbox, delivered,
                   stopReason, aborted, history>>

(***************************************************************************)
(* The tool calls of a response, one after the other.                      *)
(***************************************************************************)

(* recentCalls.push, kept as long as checkDoomLoop looks back.             *)
Remember(c) ==
    LET longer == Append(recent, c)
    IN  SubSeq(longer, Len(longer) - (LoopThreshold - 2), Len(longer))

PushRecent(c) ==
    recent' = IF Len(recent) < LoopThreshold - 1 THEN Append(recent, c) ELSE Remember(c)

(* Mutant: one more identical call is needed than is kept.                 *)
LoopDetectedLate(c) ==
    /\ Len(recent) >= LoopThreshold /\ c \in cached
    /\ \A k \in DOMAIN recent : recent[k] = c

(* checkDoomLoop: the last calls are all this one and a result is cached.  *)
LoopDetected(c) ==
    /\ Len(recent) >= LoopThreshold - 1 /\ c \in cached
    /\ \A k \in DOMAIN recent : recent[k] = c

Answered == [exchange EXCEPT !.answers = @ + 1]

(* registry.execute is called and awaited.                                 *)
Execute ==
    /\ pc = "tool" /\ todo # <<>> /\ ~aborted /\ ~LoopDetected(Head(todo))
    /\ pc' = "running"
    /\ UNCHANGED <<iterations, cutOffs, todo, memory, talk, stopReason, aborted, history>>

CancelledBetweenCalls ==
    /\ pc = "tool" /\ todo # <<>> /\ aborted
    /\ Fail("cancelled")
    /\ UNCHANGED <<iterations, cutOffs, todo, memory, talk, aborted, history>>

(* Mutant: the cached result is logged but not sent back.                  *)
ReplaySilently ==
    /\ pc = "tool" /\ todo # <<>> /\ ~aborted /\ LoopDetected(Head(todo))
    /\ todo' = Tail(todo)
    /\ PushRecent(Head(todo))
    /\ round' = round \cup {<<iterations, Head(todo)>>}
    /\ UNCHANGED <<pc, iterations, cutOffs, cached, actionLog, exchange, last, inbox,
                   delivered, stopReason, aborted, history>>

(* A loop: answer with the cached result instead of running the tool.      *)
ReplayCached ==
    /\ pc = "tool" /\ todo # <<>> /\ ~aborted /\ LoopDetected(Head(todo))
    /\ todo' = Tail(todo)
    /\ exchange' = Answered
    /\ PushRecent(Head(todo))
    /\ round' = round \cup {<<iterations, Head(todo)>>}
    /\ UNCHANGED <<pc, iterations, cutOffs, cached, actionLog, last, inbox, delivered,
                   stopReason, aborted, history>>

(* The tool has returned, with a result or an error.                       *)
ToolReturns ==
    /\ pc = "running"
    /\ pc' = "tool"
    /\ todo' = Tail(todo)
    /\ exchange' = Answered
    /\ PushRecent(Head(todo))
    /\ cached' = cached \cup {Head(todo)}
    /\ round' = round \cup {<<iterations, Head(todo)>>}
    /\ ran' = ran \cup {<<iterations, Head(todo)>>}
    /\ streak' = IF recent # <<>> /\ recent[Len(recent)] = Head(todo)
                 THEN streak + 1 ELSE 1
    /\ UNCHANGED <<iterations, cutOffs, actionLog, last, inbox, delivered, stopReason,
                   aborted>>

(* Mutant: the action log is overwritten instead of extended.              *)
RoundForgets ==
    /\ pc = "tool" /\ todo = <<>>
    /\ pc' = "top"
    /\ actionLog' = round
    /\ last' = exchange
    /\ UNCHANGED <<iterations, cutOffs, todo, recent, cached, round, exchange, inbox,
                   delivered, stopReason, aborted, history>>

(* Every call of the response is answered: extend the action log.          *)
RoundEnds ==
    /\ pc = "tool" /\ todo = <<>>
    /\ pc' = "top"
    /\ actionLog' = actionLog \cup round
    /\ last' = exchange
    /\ UNCHANGED <<iterations, cutOffs, todo, recent, cached, round, exchange, inbox,
                   delivered, stopReason, aborted, history>>

(***************************************************************************)
(* The environment.                                                        *)
(***************************************************************************)
Waiting == pc \in {"chatting", "running", "asking"}

Cancel ==
    /\ Waiting /\ ~aborted
    /\ aborted' = TRUE
    /\ UNCHANGED <<pc, iterations, cutOffs, todo, memory, talk, stopReason, history>>

(* injectMessage: accepted while the orchestrated run is active.           *)
Inject(m) ==
    /\ Waiting /\ m \notin inbox \cup delivered
    /\ inbox' = inbox \cup {m}
    /\ UNCHANGED <<pc, iterations, cutOffs, todo, memory, exchange, last, stopReason,
                   delivered, aborted, history>>

Batches == UNION {[1 .. n -> Calls] : n \in 1 .. MaxBatch}

ModelAnswers ==
    \/ ChatFails \/ ModelStops
    \/ \E n \in 0 .. 1 : CutOff(n)
    \/ \E batch \in Batches : ModelCalls(batch)

LoopStep ==
    \/ Chat \/ CancelledBeforeChat \/ Exhausted
    \/ Execute \/ CancelledBetweenCalls \/ ReplayCached \/ RoundEnds

Next ==
    \/ LoopStep \/ ModelAnswers \/ ToolReturns \/ TokenLimitAnswer
    \/ Cancel \/ \E m \in UserMessages : Inject(m)

(* The loop goes on, and a request to the model ends by its timeout.  A    *)
(* tool may wait for a person's permission for ever.                       *)
Spec == Init /\ [][Next]_vars /\ WF_vars(LoopStep) /\ WF_vars(ModelAnswers)

(***************************************************************************)
(* Properties.                                                             *)
(***************************************************************************)
Exchanges == [calls : 0 .. MaxBatch, answers : 0 .. MaxBatch, cut : BOOLEAN]

(* Every variable stays in its range; the loop makes max_iterations        *)
(* requests at most and lets LengthContinues cut-offs pass unasked.        *)
TypeOK ==
    /\ pc \in {"top", "chatting", "tool", "running", "asking", "returned", "failed"}
    /\ iterations \in 0 .. MaxIterations
    /\ cutOffs \in 0 .. LengthContinues + 1
    /\ todo \in Seq(Calls) /\ Len(todo) <= MaxBatch
    /\ recent \in Seq(Calls) /\ Len(recent) <= LoopThreshold - 1
    /\ cached \subseteq Calls
    /\ round \subseteq (1 .. MaxIterations) \X Calls
    /\ actionLog \subseteq (1 .. MaxIterations) \X Calls
    /\ exchange \in Exchanges /\ last \in Exchanges
    /\ stopReason \in {"done", "cancelled", "max_iterations", "token_limit"}
    /\ inbox \subseteq UserMessages /\ delivered \subseteq UserMessages
    /\ aborted \in BOOLEAN
    /\ ran \subseteq (1 .. MaxIterations) \X Calls
    /\ streak \in Nat

(* Doom loop detection: no tool call is executed three times in a row,     *)
(* across responses and whatever was replayed in between, because every    *)
(* call that was executed has a cached result to replay.                   *)
NoDoomLoop == streak < LoopThreshold

(* A request never carries a tool call without its answer, which providers *)
(* reject, unless the response that made the call was cut off.             *)
ToolCallsAnswered ==
    pc = "chatting" => last.cut \/ last.calls = last.answers

(* Older messages are dropped from the requests, but "the working memory   *)
(* preserves continuity": whatever was executed is in the action log by    *)
(* the time the model is asked again.                                      *)
EveryCallRemembered == pc = "chatting" => ran \subseteq actionLog

(* The loop ends unless it waits for ever for a person: at onTokenLimit,   *)
(* or in a tool that needs a permission.                                   *)
LoopEnds == <>Ended \/ <>[](pc \in {"asking", "running"})
=============================================================================
