--------------------------- MODULE ToolCallProofs ---------------------------
(***************************************************************************)
(* Theorems about the tool calls of an agent: the loop that makes them,    *)
(* and the consent a person gives to them, in one of several open pages.   *)
(***************************************************************************)
EXTENDS AgentLoop, PermissionCenter, FiniteSetTheorems, SequenceTheorems, WellFoundedInduction, TLAPS

(* The variables the invariants speak of.                                  *)
LoopTypes ==
    /\ pc \in {"top", "chatting", "tool", "running", "asking", "returned", "failed"}
    /\ todo \in Seq(Calls) /\ recent \in Seq(Calls)
    /\ exchange \in [calls : Nat, answers : Nat, cut : BOOLEAN]
    /\ streak \in Nat

(* What is kept of the calls: the newest ones, each with a cached result.  *)
RecentKept ==
    /\ Len(recent) <= LoopThreshold - 1
    /\ \A k \in DOMAIN recent : recent[k] \in cached

(* The newest calls are the ones counted in streak, but for those that are *)
(* no longer kept.                                                         *)
StreakIsRecent ==
    /\ Len(recent) >= streak \/ Len(recent) = LoopThreshold - 1
    /\ \A k \in DOMAIN recent : k > Len(recent) - streak => recent[k] = recent[Len(recent)]

(* A tool that runs was not found to be called in a loop.                  *)
RunsNoLoop == pc = "running" => todo # <<>> /\ ~LoopDetected(Head(todo))

DoomInv == RecentKept /\ StreakIsRecent /\ RunsNoLoop /\ NoDoomLoop

(* A response's calls are answered or still to be handled; what the next   *)
(* request carries is answered, or was cut off.                            *)
AnswerInv ==
    /\ pc \in {"tool", "running"} => exchange.calls = exchange.answers + Len(todo)
    /\ pc = "asking" => exchange.cut
    /\ last.cut \/ last.calls = last.answers

(* What was executed is in the action log, or in the round under way.      *)
MemoryInv ==
    /\ pc \in {"top", "chatting", "asking"} => ran \subseteq actionLog
    /\ pc \in {"tool", "running"} => ran \subseteq actionLog \cup round

LoopInv == LoopTypes /\ DoomInv /\ AnswerInv /\ MemoryInv

(* The newest calls, with one more: the oldest makes room for it.          *)
LEMMA RecentPushed ==
    ASSUME recent \in Seq(Calls), Len(recent) <= LoopThreshold - 1, NEW c \in Calls, PushRecent(c)
    PROVE  /\ recent' \in Seq(Calls) /\ Len(recent') <= LoopThreshold - 1
           /\ recent' # <<>> /\ Len(recent') \in DOMAIN recent' /\ recent'[Len(recent')] = c
           /\ \/ /\ Len(recent) < LoopThreshold - 1 /\ Len(recent') = Len(recent) + 1
                 /\ \A k \in DOMAIN recent : recent'[k] = recent[k]
              \/ /\ Len(recent) = LoopThreshold - 1 /\ Len(recent') = Len(recent)
                 /\ \A k \in DOMAIN recent' : k # Len(recent') =>
                        k + 1 \in DOMAIN recent /\ recent'[k] = recent[k + 1]
  <1>. USE AgentLoopAssumption
  <1>1. CASE Len(recent) < LoopThreshold - 1
    <2>1. recent' = Append(recent, c)
      BY <1>1 DEF PushRecent
    <2>2. /\ recent' \in Seq(Calls) /\ Len(recent') = Len(recent) + 1 /\ recent'[Len(recent) + 1] = c
          /\ \A k \in 1 .. Len(recent) : recent'[k] = recent[k]
      BY <2>1
    <2>. QED BY <1>1, <2>2
  <1>2. CASE Len(recent) = LoopThreshold - 1
    <2>. DEFINE longer == Append(recent, c)
    <2>1. /\ longer \in Seq(Calls) /\ Len(longer) = LoopThreshold
          /\ longer[LoopThreshold] = c /\ \A k \in 1 .. LoopThreshold - 1 : longer[k] = recent[k]
      BY <1>2
    <2>2. recent' = SubSeq(longer, 2, LoopThreshold)
      <3>1. Len(longer) - (LoopThreshold - 2) = 2
        BY <2>1
      <3>2. recent' = SubSeq(longer, Len(longer) - (LoopThreshold - 2), Len(longer))
        <4>1. ~(Len(recent) < LoopThreshold - 1)
          BY <1>2
        <4>. QED BY <4>1, Zenon DEF PushRecent, Remember
      <3>. HIDE DEF longer
      <3>. QED BY <2>1, <3>1, <3>2
    <2>. HIDE DEF longer
    <2>3. /\ recent' \in Seq(Calls) /\ Len(recent') = LoopThreshold - 1
          /\ \A k \in 1 .. LoopThreshold - 1 : recent'[k] = longer[k + 1]
      BY <2>1, <2>2, SubSeqProperties
    <2>. QED BY <1>2, <2>1, <2>3
  <1>. QED BY <1>1, <1>2

(* A call that is replayed is the one that was called all the time.        *)
LEMMA ReplayedKept ==
    ASSUME LoopTypes, DoomInv, ReplayCached
    PROVE  DoomInv'
  <1>. USE AgentLoopAssumption
  <1>1. PICK c \in Calls: c = Head(todo)
    BY DEF ReplayCached, LoopTypes
  <1>2. /\ LoopDetected(c) /\ PushRecent(c) /\ UNCHANGED <<cached, streak, pc>> /\ pc = "tool"
    BY <1>1 DEF ReplayCached, history
  <1>3. /\ recent \in Seq(Calls) /\ Len(recent) = LoopThreshold - 1 /\ c \in cached
        /\ \A k \in DOMAIN recent : recent[k] = c
    BY <1>2 DEF LoopDetected, LoopTypes, DoomInv, RecentKept
  <1>4. /\ recent' \in Seq(Calls) /\ Len(recent') = LoopThreshold - 1 /\ recent'[Len(recent')] = c
        /\ \A k \in DOMAIN recent' : k # Len(recent') => recent'[k] = c
    BY <1>2, <1>3, RecentPushed
  <1>5. RecentKept' /\ StreakIsRecent'
    BY <1>2, <1>3, <1>4 DEF RecentKept, StreakIsRecent
  <1>. QED BY <1>2, <1>5 DEF DoomInv, RunsNoLoop, NoDoomLoop

(* A call that was executed was not called all the time.                   *)
LEMMA ExecutedKept ==
    ASSUME LoopTypes, DoomInv, ToolReturns
    PROVE  DoomInv' /\ streak' \in Nat
  <1>. USE AgentLoopAssumption
  <1>1. PICK c \in Calls: c = Head(todo)
    BY DEF ToolReturns, LoopTypes, DoomInv, RunsNoLoop
  <1>2. /\ ~LoopDetected(c) /\ PushRecent(c) /\ cached' = cached \cup {c} /\ pc' = "tool"
        /\ streak' = IF recent # <<>> /\ recent[Len(recent)] = c THEN streak + 1 ELSE 1
    BY <1>1 DEF ToolReturns, DoomInv, RunsNoLoop
  <1>3. /\ recent \in Seq(Calls) /\ Len(recent) \in Nat /\ Len(recent) <= LoopThreshold - 1
        /\ streak \in Nat /\ RecentKept /\ StreakIsRecent /\ streak < LoopThreshold
    BY DEF LoopTypes, DoomInv, RecentKept, NoDoomLoop
  <1>4. /\ recent' \in Seq(Calls) /\ Len(recent') <= LoopThreshold - 1
        /\ recent' # <<>> /\ Len(recent') \in DOMAIN recent' /\ recent'[Len(recent')] = c
        /\ \/ /\ Len(recent) < LoopThreshold - 1 /\ Len(recent') = Len(recent) + 1
              /\ \A k \in DOMAIN recent : recent'[k] = recent[k]
           \/ /\ Len(recent) = LoopThreshold - 1 /\ Len(recent') = Len(recent)
              /\ \A k \in DOMAIN recent' : k # Len(recent') =>
                     k + 1 \in DOMAIN recent /\ recent'[k] = recent[k + 1]
    BY <1>2, <1>3, RecentPushed
  <1>5. RecentKept'
    <2>1. \A k \in DOMAIN recent' : recent'[k] \in cached'
      BY <1>2, <1>3, <1>4 DEF RecentKept
    <2>. QED BY <1>4, <2>1 DEF RecentKept
  <1>6. CASE recent # <<>> /\ recent[Len(recent)] = c
    <2>1. streak' = streak + 1 /\ Len(recent) \in DOMAIN recent /\ c \in cached
      BY <1>2, <1>3, <1>6 DEF RecentKept
    <2>2. streak < LoopThreshold - 1
      <3>. SUFFICES ASSUME streak >= LoopThreshold - 1 PROVE FALSE
        BY <1>3
      <3>1. Len(recent) = LoopThreshold - 1
        BY <1>3 DEF StreakIsRecent
      <3>2. \A k \in DOMAIN recent : recent[k] = c
        BY <1>3, <1>6, <3>1 DEF StreakIsRecent
      <3>. QED BY <1>2, <1>3, <2>1, <3>1, <3>2 DEF LoopDetected
    <2>3. \A k \in DOMAIN recent : k > Len(recent) - streak => recent[k] = c
      BY <1>3, <1>6 DEF StreakIsRecent
    <2>4. \A k \in DOMAIN recent' : k > Len(recent') - streak' => recent'[k] = c
      <3>. SUFFICES ASSUME NEW k \in DOMAIN recent', k > Len(recent') - streak' PROVE recent'[k] = c
        OBVIOUS
      <3>1. CASE Len(recent) < LoopThreshold - 1 /\ k # Len(recent')
        BY <1>3, <1>4, <2>1, <2>3, <3>1
      <3>2. CASE Len(recent) = LoopThreshold - 1 /\ k # Len(recent')
        <4>1. Len(recent') = Len(recent) /\ k + 1 \in DOMAIN recent /\ recent'[k] = recent[k + 1]
          BY <1>4, <3>2
        <4>2. k + 1 > Len(recent) - streak
          BY <1>3, <2>1, <4>1
        <4>. QED BY <2>3, <4>1, <4>2
      <3>. QED BY <1>3, <1>4, <3>1, <3>2
    <2>5. StreakIsRecent'
      BY <1>3, <1>4, <2>1, <2>4 DEF StreakIsRecent
    <2>. QED BY <1>2, <1>3, <1>5, <2>1, <2>2, <2>5 DEF DoomInv, RunsNoLoop, NoDoomLoop
  <1>7. CASE ~(recent # <<>> /\ recent[Len(recent)] = c)
    <2>1. streak' = 1
      BY <1>2, <1>7
    <2>2. StreakIsRecent'
      BY <1>3, <1>4, <2>1 DEF StreakIsRecent
    <2>. QED BY <1>2, <1>5, <2>1, <2>2 DEF DoomInv, RunsNoLoop, NoDoomLoop
  <1>. QED BY <1>6, <1>7

(* Nothing but a call that is handled disturbs what is said of loops.      *)
LEMMA UnhandledKept ==
    ASSUME DoomInv, UNCHANGED <<recent, cached, streak>>,
           pc' = "running" => UNCHANGED todo /\ (pc = "running" \/ (todo # <<>> /\ ~LoopDetected(Head(todo))))
    PROVE  DoomInv'
  <1>1. RecentKept' /\ StreakIsRecent' /\ NoDoomLoop'
    BY DEF DoomInv, RecentKept, StreakIsRecent, NoDoomLoop
  <1>2. \A c : LoopDetected(c)' <=> LoopDetected(c)
    BY DEF LoopDetected
  <1>3. RunsNoLoop'
    BY <1>2 DEF DoomInv, RunsNoLoop
  <1>. QED BY <1>1, <1>3 DEF DoomInv

(* Nothing has been called yet.                                            *)
LEMMA InitLoopInv == Init => LoopInv
  <1>. USE AgentLoopAssumption
  <1>. SUFFICES ASSUME Init PROVE LoopInv
    OBVIOUS
  <1>1. /\ todo = <<>> /\ recent = <<>> /\ DOMAIN recent = {} /\ Len(recent) = 0 /\ streak = 0
        /\ pc = "top" /\ ran = {} /\ exchange = NoExchange /\ last = NoExchange
    BY DEF Init
  <1>2. LoopTypes
    <2>1. todo \in Seq(Calls) /\ recent \in Seq(Calls)
      BY <1>1, EmptySeq
    <2>2. exchange \in [calls : Nat, answers : Nat, cut : BOOLEAN]
      BY <1>1 DEF NoExchange
    <2>. QED BY <1>1, <2>1, <2>2 DEF LoopTypes
  <1>3. DoomInv
    BY <1>1 DEF DoomInv, RecentKept, StreakIsRecent, RunsNoLoop, NoDoomLoop
  <1>4. AnswerInv /\ MemoryInv
    BY <1>1 DEF AnswerInv, MemoryInv, NoExchange
  <1>. QED BY <1>2, <1>3, <1>4 DEF LoopInv

(* The loop turns to the model, waits for it or a person, or ends.         *)
LEMMA TurnsKeep ==
    ASSUME LoopInv,
           \/ Chat \/ CancelledBeforeChat \/ Exhausted \/ ChatFails \/ ModelStops
           \/ \E n \in 0 .. 1 : CutOff(n)
           \/ TokenLimitAnswer \/ CancelledBetweenCalls
    PROVE  LoopInv'
  <1>. USE DEF LoopInv
  <1>1. UNCHANGED <<todo, recent, cached, streak, ran, actionLog, round>>
    BY DEF Chat, CancelledBeforeChat, Exhausted, ChatFails, ModelStops, CutOff, TokenLimitAnswer,
           CancelledBetweenCalls, memory, history
  <1>2. pc' \in {"top", "chatting", "asking", "returned", "failed"}
    BY DEF Chat, CancelledBeforeChat, Exhausted, ChatFails, ModelStops, CutOff, TokenLimitAnswer,
           CancelledBetweenCalls, Return, Fail
  <1>3. DoomInv'
    BY <1>1, <1>2, UnhandledKept
  <1>4. pc' \in {"top", "chatting", "asking"} => pc \in {"top", "chatting", "asking"}
    BY DEF Chat, CancelledBeforeChat, Exhausted, ChatFails, ModelStops, CutOff, TokenLimitAnswer,
           CancelledBetweenCalls, Return, Fail
  <1>5. MemoryInv'
    BY <1>1, <1>2, <1>4 DEF MemoryInv
  <1>6. CASE Chat \/ CancelledBeforeChat \/ Exhausted \/ ChatFails \/ ModelStops \/ CancelledBetweenCalls
    <2>1. UNCHANGED <<exchange, last>> /\ pc' # "asking"
      BY <1>6 DEF Chat, CancelledBeforeChat, Exhausted, ChatFails, ModelStops, CancelledBetweenCalls,
                  talk, Return, Fail
    <2>. QED BY <1>1, <1>2, <1>3, <1>5, <2>1 DEF LoopTypes, AnswerInv
  <1>7. CASE \E n \in 0 .. 1 : CutOff(n)
    <2>1. PICK n \in 0 .. 1 : CutOff(n)
      BY <1>7
    <2>2. exchange' = [calls |-> n, answers |-> 0, cut |-> TRUE] /\ last' \in {last, exchange'}
      BY <2>1 DEF CutOff
    <2>3. exchange' \in [calls : Nat, answers : Nat, cut : BOOLEAN] /\ exchange'.cut
      BY <2>2
    <2>4. AnswerInv'
      BY <1>2, <2>2, <2>3 DEF AnswerInv
    <2>. QED BY <1>1, <1>2, <1>3, <1>5, <2>3, <2>4 DEF LoopTypes
  <1>8. CASE TokenLimitAnswer
    <2>1. UNCHANGED exchange /\ exchange.cut /\ last' \in {last, exchange} /\ pc' # "asking"
      BY <1>8 DEF TokenLimitAnswer, AnswerInv, Return
    <2>. QED BY <1>1, <1>2, <1>3, <1>5, <2>1 DEF LoopTypes, AnswerInv
  <1>. QED BY <1>6, <1>7, <1>8

(* The model's calls are taken up, and one of them is executed.            *)
LEMMA CallsKeep ==
    ASSUME LoopInv, Execute \/ \E batch \in Batches : ModelCalls(batch)
    PROVE  LoopInv'
  <1>. USE DEF LoopInv
  <1>1. CASE Execute
    <2>1. /\ UNCHANGED <<todo, recent, cached, round, actionLog, exchange, last, ran, streak>>
          /\ pc = "tool" /\ pc' = "running" /\ todo # <<>> /\ ~LoopDetected(Head(todo))
      BY <1>1 DEF Execute, memory, talk, history
    <2>2. DoomInv'
      BY <2>1, UnhandledKept
    <2>. QED BY <2>1, <2>2 DEF LoopTypes, AnswerInv, MemoryInv
  <1>2. CASE \E batch \in Batches : ModelCalls(batch)
    <2>1. PICK batch \in Batches : ModelCalls(batch)
      BY <1>2
    <2>2. batch \in Seq(Calls) /\ Len(batch) \in Nat
      <3>1. PICK n \in 1 .. MaxBatch : batch \in [1 .. n -> Calls]
        BY <2>1 DEF Batches
      <3>2. n \in Nat
        BY <3>1, AgentLoopAssumption
      <3>. QED BY <3>1, <3>2
    <2>3. /\ UNCHANGED <<recent, cached, actionLog, last, ran, streak>>
          /\ pc = "chatting" /\ pc' = "tool" /\ todo' = batch /\ round' = {}
          /\ exchange' = [calls |-> Len(batch), answers |-> 0, cut |-> FALSE]
      BY <2>1 DEF ModelCalls, history
    <2>4. /\ exchange' \in [calls : Nat, answers : Nat, cut : BOOLEAN]
          /\ exchange'.calls = exchange'.answers + Len(todo')
      BY <2>2, <2>3
    <2>5. DoomInv'
      BY <2>3, UnhandledKept
    <2>6. LoopTypes'
      BY <2>2, <2>3, <2>4 DEF LoopTypes
    <2>7. AnswerInv'
      BY <2>3, <2>4 DEF AnswerInv
    <2>8. MemoryInv'
      BY <2>3 DEF MemoryInv
    <2>. QED BY <2>5, <2>6, <2>7, <2>8
  <1>. QED BY <1>1, <1>2

(* What an answer changes of the exchange.                                 *)
LEMMA OneMoreAnswer ==
    ASSUME NEW C, exchange \in [calls : Nat, answers : Nat, cut : C]
    PROVE  /\ Answered \in [calls : Nat, answers : Nat, cut : C]
           /\ Answered.calls = exchange.calls /\ Answered.answers = exchange.answers + 1
  BY DEF Answered

(* A call is answered, by its tool or with what is cached.                 *)
LEMMA AnswersKeep == ASSUME LoopInv, ReplayCached \/ ToolReturns PROVE LoopInv'
  <1>. USE DEF LoopInv
  <1>1. /\ pc \in {"tool", "running"} /\ pc' = "tool" /\ todo # <<>> /\ todo' = Tail(todo)
        /\ exchange' = Answered /\ UNCHANGED <<last, actionLog>> /\ PushRecent(Head(todo))
    BY DEF ReplayCached, ToolReturns, DoomInv, RunsNoLoop
  <1>2. DoomInv' /\ streak' \in Nat
    BY ReplayedKept, ExecutedKept DEF LoopTypes, ReplayCached, history
  <1>3. todo' \in Seq(Calls) /\ Head(todo) \in Calls /\ Len(todo) \in Nat /\ Len(todo') = Len(todo) - 1
    BY <1>1 DEF LoopTypes
  <1>4. recent' \in Seq(Calls)
    BY <1>1, <1>3, RecentPushed DEF LoopTypes, DoomInv, RecentKept
  <1>5. /\ exchange' \in [calls : Nat, answers : Nat, cut : BOOLEAN]
        /\ exchange'.calls = exchange.calls /\ exchange'.answers = exchange.answers + 1
    <2>1. exchange \in [calls : Nat, answers : Nat, cut : BOOLEAN]
      BY DEF LoopTypes
    <2>2. /\ Answered \in [calls : Nat, answers : Nat, cut : BOOLEAN]
          /\ Answered.calls = exchange.calls /\ Answered.answers = exchange.answers + 1
      BY <2>1, OneMoreAnswer
    <2>. QED BY <1>1, <2>2
  <1>6. exchange.calls = exchange.answers + Len(todo) /\ exchange.answers \in Nat
    BY <1>1 DEF AnswerInv, LoopTypes
  <1>7. AnswerInv'
    BY <1>1, <1>3, <1>5, <1>6 DEF AnswerInv
  <1>8. /\ round' = round \cup {<<iterations, Head(todo)>>}
        /\ ran' \subseteq ran \cup {<<iterations, Head(todo)>>}
    BY DEF ReplayCached, ToolReturns, history
  <1>9. MemoryInv'
    BY <1>1, <1>8 DEF MemoryInv
  <1>10. LoopTypes'
    BY <1>1, <1>2, <1>3, <1>4, <1>5 DEF LoopTypes
  <1>. QED BY <1>2, <1>7, <1>9, <1>10

(* The round ends, and what others do meanwhile changes nothing here.      *)
LEMMA RoundsKeep ==
    ASSUME LoopInv, RoundEnds \/ Cancel \/ (\E m \in UserMessages : Inject(m)) \/ UNCHANGED vars
    PROVE  LoopInv'
  <1>. USE DEF LoopInv
  <1>1. CASE RoundEnds
    <2>1. /\ UNCHANGED <<todo, recent, cached, exchange, ran, streak>> /\ pc = "tool" /\ pc' = "top"
          /\ todo = <<>> /\ actionLog' = actionLog \cup round /\ last' = exchange
      BY <1>1 DEF RoundEnds, history
    <2>2. DoomInv'
      BY <2>1, UnhandledKept
    <2>3. exchange.calls = exchange.answers
      <3>1. Len(todo) = 0
        BY <2>1
      <3>. QED BY <2>1, <3>1 DEF AnswerInv, LoopTypes
    <2>4. LoopTypes' /\ AnswerInv' /\ MemoryInv'
      BY <2>1, <2>3 DEF LoopTypes, AnswerInv, MemoryInv
    <2>. QED BY <2>2, <2>4
  <1>2. CASE Cancel \/ (\E m \in UserMessages : Inject(m)) \/ UNCHANGED vars
    <2>1. UNCHANGED <<pc, todo, recent, cached, round, actionLog, exchange, last, ran, streak>>
      BY <1>2 DEF Cancel, Inject, vars, memory, talk, history
    <2>2. DoomInv'
      BY <2>1, UnhandledKept DEF DoomInv, RunsNoLoop
    <2>. QED BY <2>1, <2>2 DEF LoopTypes, AnswerInv, MemoryInv
  <1>. QED BY <1>1, <1>2

(* The inductive invariant of the loop.                                    *)
THEOREM LoopKept == Spec => []LoopInv
  <1>1. LoopInv /\ [Next]_vars => LoopInv'
    BY TurnsKeep, CallsKeep, AnswersKeep, RoundsKeep DEF Next, LoopStep, ModelAnswers
  <1>. QED BY InitLoopInv, <1>1, PTL DEF Spec

(* checkDoomLoop: whatever the model calls, in one response or in many, no *)
(* call is executed LoopThreshold times in a row: the last answers kept are*)
(* the calls counted, so the next one is found to loop and is replayed.    *)
THEOREM LoopsAreBroken == Spec => []NoDoomLoop
  <1>1. LoopInv => NoDoomLoop
    BY DEF LoopInv, DoomInv
  <1>. QED BY LoopKept, <1>1, PTL

(* A request carries no tool call without its answer, unless the response  *)
(* that made it was cut off.                                               *)
THEOREM RequestsAreAnswered == Spec => []ToolCallsAnswered
  <1>1. LoopInv => ToolCallsAnswered
    BY DEF LoopInv, AnswerInv, ToolCallsAnswered
  <1>. QED BY LoopKept, <1>1, PTL

(* When the model is asked again, everything that was executed is in the   *)
(* action log, though the messages themselves are dropped.                 *)
THEOREM CallsAreRemembered == Spec => []EveryCallRemembered
  <1>1. LoopInv => EveryCallRemembered
    BY DEF LoopInv, MemoryInv, EveryCallRemembered
  <1>. QED BY LoopKept, <1>1, PTL

-----------------------------------------------------------------------------
(* A set of numbers has a least one.                                       *)
LEMMA LeastNumber ==
    ASSUME NEW T, T \subseteq Nat, T # {}
    PROVE  \E x \in T: \A y \in T: x <= y
  <1>. DEFINE less == {ss \in Nat \X Nat: ss[1] < ss[2]}
  <1>1. IsWellFoundedOn(less, Nat)
    <2>1. less = OpToRel(<, Nat)
      BY DEF OpToRel
    <2>. QED BY <2>1, NatLessThanWellFounded
  <1>2. PICK x \in T: \A y \in T: <<y, x>> \notin less
    <2>. HIDE DEF less
    <2>. QED BY <1>1, WFMin
  <1>3. \A y \in T: ~(y < x)
    BY <1>2
  <1>. QED BY <1>3

(* The highest number of the places in a sequence.                         *)
LEMMA HighestPlace ==
    ASSUME NEW n \in Nat, NEW T, T \subseteq 1 .. n, T # {}
    PROVE  Max(T) \in T /\ \A y \in T: y <= Max(T)
  <1>. DEFINE U == {n - y: y \in T}
  <1>1. U \subseteq Nat /\ U # {}
    <2>1. \A y \in T: n - y \in Nat
      <3>1. \A y \in 1 .. n: n - y \in Nat
        OBVIOUS
      <3>. QED BY <3>1
    <2>. QED BY <2>1
  <1>2. PICK u \in U: \A y \in U: u <= y
    <2>. HIDE DEF U
    <2>. QED BY <1>1, LeastNumber
  <1>3. PICK x \in T: u = n - x
    BY <1>2
  <1>4. \A y \in T: x >= y
    <2>1. \A y \in T: n - y \in U /\ u <= n - y
      BY <1>2
    <2>2. \A y \in T: y \in Nat /\ x \in Nat
      BY <1>3
    <2>. HIDE DEF U
    <2>. QED BY <1>3, <2>1, <2>2
  <1>5. Max(T) \in T /\ \A y \in T: Max(T) >= y
    <2>. HIDE DEF U
    <2>. QED BY <1>3, <1>4 DEF Max
  <1>. QED BY <1>5

(* The places in a set of them are counted by what precedes them.          *)
LEMMA PlacesRanked ==
    ASSUME NEW m \in Nat, NEW T, T \subseteq 1 .. m
    PROVE  /\ Cardinality(T) \in Nat
           /\ \A i \in T: Cardinality(Before(T, i)) + 1 \in 1 .. Cardinality(T)
           /\ \A i, k \in T: Cardinality(Before(T, i)) = Cardinality(Before(T, k)) => i = k
           /\ \A n \in 1 .. Cardinality(T): \E i \in T: Cardinality(Before(T, i)) = n - 1
  <1>. DEFINE rank(i) == Cardinality(Before(T, i))
  <1>0. T \subseteq Nat
    <2>1. 1 .. m \subseteq Nat
      OBVIOUS
    <2>. QED BY <2>1
  <1>1. IsFiniteSet(T) /\ Cardinality(T) \in Nat
    <2>1. IsFiniteSet(1 .. m)
      BY FS_Interval
    <2>2. IsFiniteSet(T)
      BY <2>1, FS_Subset
    <2>. QED BY <2>2, FS_CardinalityType
  <1>2. ASSUME NEW i \in T
        PROVE  /\ IsFiniteSet(Before(T, i)) /\ rank(i) \in Nat
               /\ IsFiniteSet(Before(T, i) \cup {i}) /\ Cardinality(Before(T, i) \cup {i}) = rank(i) + 1
    <2>1. Before(T, i) \in SUBSET T /\ i \notin Before(T, i)
      BY DEF Before
    <2>2. IsFiniteSet(Before(T, i))
      BY <1>1, <2>1, FS_Subset
    <2>3. IsFiniteSet(Before(T, i) \cup {i}) /\ Cardinality(Before(T, i) \cup {i}) = rank(i) + 1
      BY <2>1, <2>2, FS_AddElement
    <2>. QED BY <2>2, <2>3, FS_CardinalityType
  <1>3. ASSUME NEW i \in T PROVE rank(i) + 1 \in 1 .. Cardinality(T)
    <2>1. Before(T, i) \cup {i} \in SUBSET T
      BY DEF Before
    <2>2. Cardinality(Before(T, i) \cup {i}) <= Cardinality(T)
      BY <1>1, <2>1, FS_Subset
    <2>3. rank(i) + 1 <= Cardinality(T) /\ rank(i) \in Nat
      BY <1>2, <2>2
    <2>. HIDE DEF rank
    <2>. QED BY <1>1, <2>3
  <1>4. ASSUME NEW i \in T, NEW k \in T, i < k PROVE rank(i) < rank(k)
    <2>1. Before(T, i) \cup {i} \in SUBSET Before(T, k)
      <3>1. \A j \in T: j < i => j < k
        <4>1. \A j \in Nat: j < i => j < k
          BY <1>0, <1>4
        <4>. QED BY <1>0, <4>1
      <3>. QED BY <1>4, <3>1 DEF Before
    <2>2. Cardinality(Before(T, i) \cup {i}) <= rank(k)
      BY <1>2, <2>1, FS_Subset
    <2>3. rank(i) + 1 <= rank(k) /\ rank(i) \in Nat /\ rank(k) \in Nat
      BY <1>2, <2>2
    <2>. HIDE DEF rank
    <2>. QED BY <2>3
  <1>5. ASSUME NEW i \in T, NEW k \in T, rank(i) = rank(k) PROVE i = k
    <2>1. i < k \/ k < i \/ i = k
      OBVIOUS
    <2>2. rank(i) \in Nat /\ rank(k) \in Nat
      BY <1>2
    <2>. HIDE DEF rank
    <2>. QED BY <1>4, <1>5, <2>1, <2>2
  <1>6. \A n \in 1 .. Cardinality(T): \E i \in T: rank(i) = n - 1
    <2>. DEFINE U == {n \in 1 .. Cardinality(T): ~ \E i \in T: rank(i) = n - 1}
    <2>. SUFFICES ASSUME U # {} PROVE FALSE
      OBVIOUS
    <2>1. PICK n \in U: \A y \in U: n <= y
      <3>1. U \subseteq Nat
        BY <1>1
      <3>. HIDE DEF U
      <3>. QED BY <3>1, LeastNumber
    <2>2. n \in 1 .. Cardinality(T) /\ \A i \in T: rank(i) # n - 1
      BY <2>1
    <2>3. CASE n = 1
      <3>1. T # {}
        BY <1>1, <2>2, FS_EmptySet
      <3>2. PICK x \in T: \A y \in T: x <= y
        BY <1>0, <3>1, LeastNumber
      <3>3. Before(T, x) = {}
        <4>1. \A y \in T: ~(y < x)
          BY <1>0, <3>2
        <4>. QED BY <4>1 DEF Before
      <3>4. rank(x) = 0
        BY <3>3, FS_EmptySet
      <3>. QED BY <2>2, <2>3, <3>4
    <2>4. CASE n # 1
      <3>1. n - 1 \in 1 .. Cardinality(T) /\ n \in Nat
        BY <1>1, <2>2, <2>4
      <3>2. n - 1 \notin U
        BY <2>1, <3>1
      <3>3. PICK i \in T: rank(i) = (n - 1) - 1
        BY <3>1, <3>2
      <3>. DEFINE above == {j \in T: j > i}
      <3>4. above # {}
        <4>. SUFFICES ASSUME above = {} PROVE FALSE
          OBVIOUS
        <4>1. T = Before(T, i) \cup {i}
          <5>1. \A j \in T: j < i \/ j = i
            BY <1>0
          <5>. QED BY <5>1 DEF Before
        <4>2. Cardinality(T) = rank(i) + 1
          BY <1>2, <4>1
        <4>. HIDE DEF rank
        <4>. QED BY <1>1, <2>2, <3>1, <3>3, <4>2
      <3>5. PICK x \in above: \A y \in above: x <= y
        <4>1. above \subseteq Nat
          BY <1>0
        <4>. HIDE DEF above
        <4>. QED BY <3>4, <4>1, LeastNumber
      <3>6. x \in T /\ Before(T, x) = Before(T, i) \cup {i}
        <4>1. x \in T /\ x > i /\ \A j \in T: j > i => x <= j
          BY <3>5
        <4>2. \A j \in T: j < x <=> j < i \/ j = i
          BY <1>0, <4>1
        <4>. QED BY <4>1, <4>2 DEF Before
      <3>7. rank(x) = rank(i) + 1
        BY <1>2, <3>6
      <3>. HIDE DEF rank
      <3>. QED BY <2>2, <3>1, <3>3, <3>6, <3>7
    <2>. QED BY <2>3, <2>4
  <1>. QED BY <1>1, <1>3, <1>5, <1>6

(* What is kept of a sequence.                                             *)
LEMMA KeptRules ==
    ASSUME NEW R, NEW rules \in Seq(R), NEW places, places \subseteq DOMAIN rules
    PROVE  /\ Keeping(rules, places) \in Seq(R)
           /\ ToSet(Keeping(rules, places)) = {rules[i]: i \in places}
  <1>. DEFINE Place(n) == CHOOSE i \in places: Cardinality(Before(places, i)) = n - 1
              card == Cardinality(places)
  <1>1. places \subseteq 1 .. Len(rules) /\ Len(rules) \in Nat
    OBVIOUS
  <1>2. /\ card \in Nat
        /\ \A i \in places: Cardinality(Before(places, i)) + 1 \in 1 .. card
        /\ \A i, k \in places: Cardinality(Before(places, i)) = Cardinality(Before(places, k)) => i = k
        /\ \A n \in 1 .. card: \E i \in places: Cardinality(Before(places, i)) = n - 1
    BY <1>1, PlacesRanked
  <1>. HIDE DEF card
  <1>3. \A n \in 1 .. card: Place(n) \in places /\ Cardinality(Before(places, Place(n))) = n - 1
    BY <1>2
  <1>4. ASSUME NEW i \in places PROVE \E n \in 1 .. card: Place(n) = i
    <2>. DEFINE n == Cardinality(Before(places, i)) + 1
    <2>1. n \in 1 .. card /\ Cardinality(Before(places, i)) = n - 1
      <3>1. n \in 1 .. card
        BY <1>2
      <3>2. Cardinality(Before(places, i)) \in Int
        BY <1>1, PlacesRanked, FS_CardinalityType, FS_Subset, FS_Interval DEF Before
      <3>. QED BY <3>1, <3>2
    <2>. HIDE DEF n
    <2>2. Place(n) \in places /\ Cardinality(Before(places, Place(n))) = n - 1
      BY <1>3, <2>1
    <2>. HIDE DEF Place
    <2>. QED BY <1>2, <2>1, <2>2
  <1>5. Keeping(rules, places) = [n \in 1 .. card |-> rules[Place(n)]]
    BY DEF Keeping, card
  <1>. HIDE DEF Place
  <1>6. \A n \in 1 .. card: rules[Place(n)] \in R
    BY <1>1, <1>3
  <1>7. Keeping(rules, places) \in Seq(R) /\ DOMAIN Keeping(rules, places) = 1 .. card
    BY <1>2, <1>5, <1>6
  <1>8. ToSet(Keeping(rules, places)) = {rules[Place(n)]: n \in 1 .. card}
    BY <1>5, <1>7 DEF ToSet
  <1>. QED BY <1>3, <1>4, <1>7, <1>8

-----------------------------------------------------------------------------
(* The rules file, and what is about to be written to it.                  *)
RuleType == [tool: {k.tool: k \in ToolCalls} \cup TypedTools,
             pattern: {k.subject: k \in ToolCalls} \cup Patterns, action: {"allow", "deny"}]

FileTypes ==
    /\ Loaded \in Seq(RuleType) /\ raced \in BOOLEAN
    /\ writing \in [Processes -> [step: {"none", "read", "truncated"}, rules: Seq(RuleType)]]

(* Unless two processes overlap, the one that writes is about to write     *)
(* what was decided, and the file is as it has left it.                    *)
OneWriter ==
    ~raced =>
        /\ \A p, q \in Processes: ~Free(p) /\ ~Free(q) => p = q
        /\ \A p \in Processes: ~Free(p) => ToSet(writing[p].rules) = decided
        /\ \A p \in Processes: writing[p].step = "truncated" => file = Garbled

FileInv == FileTypes /\ OneWriter /\ RulesKept

(* A rule that is added stands in the file as it is decided.               *)
LEMMA RuleAdded ==
    ASSUME NEW rules \in Seq(RuleType), NEW r \in RuleType
    PROVE  /\ WithRule(rules, r) \in Seq(RuleType)
           /\ ToSet(WithRule(rules, r))
                = {q \in ToSet(rules): ~(q.tool = r.tool /\ q.pattern = r.pattern)} \cup {r}
  <1>. DEFINE places == {i \in DOMAIN rules: ~(rules[i].tool = r.tool /\ rules[i].pattern = r.pattern)}
              kept == Keeping(rules, places)
  <1>1. kept \in Seq(RuleType) /\ ToSet(kept) = {rules[i]: i \in places}
    <2>1. places \subseteq DOMAIN rules
      OBVIOUS
    <2>. HIDE DEF places
    <2>. QED BY <2>1, KeptRules
  <1>2. ToSet(kept) = {q \in ToSet(rules): ~(q.tool = r.tool /\ q.pattern = r.pattern)}
    BY <1>1 DEF ToSet
  <1>3. WithRule(rules, r) = Append(kept, r)
    BY DEF WithRule
  <1>. HIDE DEF kept, places
  <1>4. Append(kept, r) \in Seq(RuleType) /\ ToSet(Append(kept, r)) = ToSet(kept) \cup {r}
    <2>1. /\ Append(kept, r) \in Seq(RuleType) /\ DOMAIN Append(kept, r) = DOMAIN kept \cup {Len(kept) + 1}
          /\ Append(kept, r)[Len(kept) + 1] = r /\ \A i \in DOMAIN kept: Append(kept, r)[i] = kept[i]
      BY <1>1
    <2>. QED BY <2>1 DEF ToSet
  <1>. QED BY <1>2, <1>3, <1>4

(* A process that changes what it has read is the only one at the file, or *)
(* it races another.                                                       *)
LEMMA FileChanged ==
    ASSUME FileInv, NEW p \in Processes, Free(p), NEW new \in Seq(RuleType), NEW wanted,
           ToSet(Loaded) = decided => ToSet(new) = wanted, Change(p, new, wanted)
    PROVE  FileInv'
  <1>. USE DEF FileInv
  <1>1. /\ writing' = [writing EXCEPT ![p] = [step |-> "read", rules |-> new]]
        /\ decided' = wanted /\ raced' = (raced \/ \E q \in Processes: ~Free(q)) /\ file' = file
    BY DEF Change
  <1>2. /\ writing'[p] = [step |-> "read", rules |-> new]
        /\ \A q \in Processes: q # p => writing'[q] = writing[q]
    BY <1>1 DEF FileTypes
  <1>3. FileTypes'
    <2>1. [step |-> "read", rules |-> new] \in [step: {"none", "read", "truncated"}, rules: Seq(RuleType)]
      OBVIOUS
    <2>2. writing' \in [Processes -> [step: {"none", "read", "truncated"}, rules: Seq(RuleType)]]
      BY <1>1, <2>1 DEF FileTypes
    <2>3. Loaded' \in Seq(RuleType) /\ raced' \in BOOLEAN
      BY <1>1 DEF FileTypes, Loaded
    <2>. QED BY <2>2, <2>3 DEF FileTypes
  <1>4. ~Free(p)'
    BY <1>2 DEF Free
  <1>5. OneWriter'
    <2>. SUFFICES ASSUME ~raced'
                  PROVE  /\ \A q \in Processes: q # p => Free(q)'
                         /\ ToSet(writing'[p].rules) = decided' /\ writing'[p].step # "truncated"
      BY DEF OneWriter, Free
    <2>1. \A q \in Processes: Free(q)
      BY <1>1
    <2>2. \A q \in Processes: q # p => Free(q)'
      BY <1>2, <2>1 DEF Free
    <2>3. ToSet(Loaded) = decided
      BY <1>1, <2>1 DEF RulesKept
    <2>. QED BY <1>1, <1>2, <2>2, <2>3
  <1>6. RulesKept'
    BY <1>4 DEF RulesKept
  <1>. QED BY <1>3, <1>5, <1>6

(* The file is truncated and written.                                      *)
LEMMA FileWritten ==
    ASSUME FileInv, NEW p \in Processes, Truncate(p) \/ Write(p)
    PROVE  FileInv'
  <1>. USE DEF FileInv
  <1>0. UNCHANGED <<decided, raced>> /\ ~Free(p)
    BY DEF Truncate, Write, Free
  <1>1. CASE Truncate(p)
    <2>1. /\ writing[p].step = "read" /\ file' = Garbled
          /\ writing' = [writing EXCEPT ![p].step = "truncated"]
      BY <1>1 DEF Truncate
    <2>2. /\ writing' \in [Processes -> [step: {"none", "read", "truncated"}, rules: Seq(RuleType)]]
          /\ writing'[p].step = "truncated" /\ writing'[p].rules = writing[p].rules
          /\ \A q \in Processes: q # p => writing'[q] = writing[q]
      BY <2>1 DEF FileTypes
    <2>3. FileTypes'
      BY <1>0, <2>1, <2>2 DEF FileTypes, Loaded, Garbled
    <2>4. OneWriter'
      BY <1>0, <2>1, <2>2 DEF OneWriter, Free
    <2>5. ~Free(p)'
      BY <2>2 DEF Free
    <2>. QED BY <2>3, <2>4, <2>5 DEF RulesKept
  <1>2. CASE Write(p)
    <2>1. /\ writing[p].step = "truncated" /\ writing' = [writing EXCEPT ![p] = NoWrite]
          /\ file' = Text(writing[p].rules) \/ (file # Garbled /\ file' = Garbled)
      BY <1>2 DEF Write
    <2>2. /\ writing' \in [Processes -> [step: {"none", "read", "truncated"}, rules: Seq(RuleType)]]
          /\ writing'[p] = NoWrite /\ \A q \in Processes: q # p => writing'[q] = writing[q]
      <3>1. NoWrite \in [step: {"none", "read", "truncated"}, rules: Seq(RuleType)]
        BY EmptySeq DEF NoWrite
      <3>. QED BY <2>1, <3>1 DEF FileTypes
    <2>3. Loaded' = writing[p].rules \/ (file # Garbled /\ Loaded' = <<>>)
      BY <2>1 DEF Loaded, Text, Garbled
    <2>4. FileTypes'
      BY <1>0, <2>2, <2>3, EmptySeq DEF FileTypes
    <2>5. ASSUME ~raced PROVE (\A q \in Processes: Free(q)') /\ ToSet(Loaded') = decided
      <3>1. \A q \in Processes: q # p => Free(q)
        BY <1>0, <2>5 DEF OneWriter
      <3>2. file = Garbled /\ ToSet(writing[p].rules) = decided
        BY <1>0, <2>1, <2>5 DEF OneWriter
      <3>3. \A q \in Processes: Free(q)'
        BY <2>2, <3>1 DEF Free, NoWrite
      <3>. QED BY <2>3, <3>2, <3>3
    <2>6. OneWriter' /\ RulesKept'
      BY <1>0, <2>2, <2>5 DEF OneWriter, RulesKept, Free, NoWrite
    <2>. QED BY <2>4, <2>6
  <1>. QED BY <1>1, <1>2

(* A step that leaves the file alone.                                      *)
LEMMA FileStays == ASSUME FileInv, UNCHANGED file_ PROVE FileInv'
  BY DEF FileInv, file_, FileTypes, OneWriter, RulesKept, Free, Loaded

(* A rule is added, by a person or with an answer that is remembered.      *)
LEMMA FileWithRule ==
    ASSUME FileInv, NEW p \in Processes, Free(p), NEW r \in RuleType, AddRule(p, r)
    PROVE  FileInv'
  <1>. USE DEF FileInv
  <1>1. Loaded \in Seq(RuleType) /\ Change(p, WithRule(Loaded, r), Decides(r))
    BY DEF AddRule, FileTypes
  <1>2. /\ WithRule(Loaded, r) \in Seq(RuleType)
        /\ ToSet(Loaded) = decided => ToSet(WithRule(Loaded, r)) = Decides(r)
    BY <1>1, RuleAdded DEF Decides
  <1>. QED BY <1>1, <1>2, FileChanged

(* A person's other uses of the file.                                      *)
LEMMA FileEdited == ASSUME FileInv, NEW p \in Processes, Edit(p) PROVE FileInv'
  <1>. USE DEF FileInv
  <1>1. Free(p) /\ Loaded \in Seq(RuleType)
    BY DEF Edit, FileTypes
  <1>2. CASE \E r \in RuleType: AddRule(p, r)
    BY <1>1, <1>2, FileWithRule
  <1>3. CASE \E t \in {r.tool: r \in ToSet(Loaded)}, pt \in {""} \cup {r.pattern: r \in ToSet(Loaded)}:
                Change(p, WithoutRule(Loaded, t, pt),
                       {q \in decided: q.tool # t \/ (pt # "" /\ q.pattern # pt)})
    <2>1. PICK t, pt: Change(p, WithoutRule(Loaded, t, pt),
                             {q \in decided: q.tool # t \/ (pt # "" /\ q.pattern # pt)})
      BY <1>3
    <2>2. /\ WithoutRule(Loaded, t, pt) \in Seq(RuleType)
          /\ ToSet(WithoutRule(Loaded, t, pt))
                = {q \in ToSet(Loaded): q.tool # t \/ (pt # "" /\ q.pattern # pt)}
      <3>. DEFINE places == {i \in DOMAIN Loaded: Loaded[i].tool # t \/ (pt # "" /\ Loaded[i].pattern # pt)}
                  kept == Keeping(Loaded, places)
      <3>1. kept \in Seq(RuleType) /\ ToSet(kept) = {Loaded[i]: i \in places}
        <4>1. places \subseteq DOMAIN Loaded
          OBVIOUS
        <4>. HIDE DEF places
        <4>. QED BY <1>1, <4>1, KeptRules
      <3>2. ToSet(kept) = {q \in ToSet(Loaded): q.tool # t \/ (pt # "" /\ q.pattern # pt)}
        BY <3>1 DEF ToSet
      <3>3. WithoutRule(Loaded, t, pt) = kept
        BY DEF WithoutRule
      <3>. QED BY <3>1, <3>2, <3>3
    <2>3. ASSUME ToSet(Loaded) = decided
          PROVE  ToSet(WithoutRule(Loaded, t, pt)) = {q \in decided: q.tool # t \/ (pt # "" /\ q.pattern # pt)}
      BY <2>2, <2>3, Zenon
    <2>. QED BY <1>1, <2>1, <2>2, <2>3, FileChanged
  <1>4. CASE Change(p, <<>>, {})
    <2>1. <<>> \in Seq(RuleType) /\ ToSet(<<>>) = {}
      BY EmptySeq DEF ToSet
    <2>. QED BY <1>1, <1>4, <2>1, FileChanged
  <1>5. \A t \in TypedTools, pt \in Patterns, a \in {"allow", "deny"}: Rule(t, pt, a) \in RuleType
    BY DEF Rule, RuleType
  <1>6. \A k \in ToolCalls, a \in {"allow", "deny"}: Rule(k.tool, k.subject, a) \in RuleType
    BY DEF Rule, RuleType
  <1>. QED BY <1>2, <1>3, <1>4, <1>5, <1>6 DEF Edit
-----------------------------------------------------------------------------
(* The requests of the engines, and what the open pages know of them.      *)

(* The requests that have been numbered: a later one is none of these.     *)
Given == {id \in Callers \X Nat: id[2] <= count[id[1]]}

Answers == Responses \cup {Unanswered}

CallTypes ==
    /\ phase \in [Callers -> {"idle", "asking", "allow", "deny"}]
    /\ call \in [Callers -> ToolCalls \cup {NoCall}] /\ count \in [Callers -> Nat]
    /\ gates \in Seq([id: Given, answer: Answers])

AskingHasGate == \A c \in Callers: phase[c] = "asking" => call[c] \in ToolCalls /\ Pending(Id(c))

PanelTypes ==
    /\ items \in [Tabs -> Seq(Given)] /\ loads \in [Tabs -> Seq(Seq(Given))]
    /\ DOMAIN busy = Tabs
    /\ \A t \in Tabs: busy[t] = [step |-> busy[t].step, id |-> busy[t].id, response |-> busy[t].response]
    /\ \A t \in Tabs: busy[t].step = "posted" => busy[t].id \in Given /\ busy[t].response \in Responses

(* Whoever is told that a request that waits is allowed, a person did so.  *)
AllowedByClick ==
    /\ \A i \in DOMAIN gates: gates[i].answer.action = "allow" => gates[i].id \in clicks
    /\ \A t \in Tabs: busy[t].step = "posted" /\ busy[t].response.action = "allow" /\ Pending(busy[t].id)
                      => busy[t].id \in clicks

CenterInv == FileInv /\ CallTypes /\ AskingHasGate /\ PanelTypes /\ AllowedByClick

(* An entry is taken out of a sequence.                                    *)
LEMMA EntryRemoved ==
    ASSUME NEW S, NEW s \in Seq(S), NEW i \in DOMAIN s
    PROVE  /\ RemoveAt(s, i) \in Seq(S)
           /\ \A k \in DOMAIN RemoveAt(s, i): \E j \in DOMAIN s: RemoveAt(s, i)[k] = s[j]
           /\ \A j \in DOMAIN s: j # i => \E k \in DOMAIN RemoveAt(s, i): RemoveAt(s, i)[k] = s[j]
  <1>. DEFINE front == SubSeq(s, 1, i - 1)
              back  == SubSeq(s, i + 1, Len(s))
              m     == Len(s)
  <1>1. m \in Nat /\ i \in 1 .. m /\ DOMAIN s = 1 .. m
    OBVIOUS
  <1>2. front \in Seq(S) /\ Len(front) = i - 1 /\ \A k \in 1 .. i - 1: front[k] = s[k]
    BY <1>1, SubSeqProperties
  <1>3. back \in Seq(S) /\ Len(back) = m - i /\ \A k \in 1 .. m - i: back[k] = s[k + i]
    BY <1>1, SubSeqProperties
  <1>4. RemoveAt(s, i) = front \o back
    BY DEF RemoveAt
  <1>. HIDE DEF front, back, m
  <1>5. PICK t: t = front \o back
    OBVIOUS
  <1>6. /\ t \in Seq(S) /\ Len(t) = m - 1
        /\ \A k \in 1 .. m - 1: t[k] = IF k <= i - 1 THEN s[k] ELSE s[k + 1]
    <2>1. t \in Seq(S) /\ Len(t) = Len(front) + Len(back)
      BY <1>2, <1>3, <1>5, ConcatProperties
    <2>2. ASSUME NEW k \in 1 .. m - 1, k <= i - 1 PROVE t[k] = s[k]
      <3>1. k \in 1 .. Len(front)
        BY <1>1, <1>2, <2>2
      <3>2. t[k] = front[k]
        BY <1>2, <1>3, <1>5, <2>1, <3>1, ConcatProperties
      <3>. QED BY <1>2, <3>1, <3>2
    <2>3. ASSUME NEW k \in 1 .. m - 1, ~(k <= i - 1) PROVE t[k] = s[k + 1]
      <3>1. k \in 1 .. Len(front) + Len(back) /\ k > Len(front)
        BY <1>1, <1>2, <1>3, <2>3
      <3>2. t[k] = back[k - Len(front)]
        <4>1. \A n \in 1 .. Len(front) + Len(back):
                  t[n] = IF n <= Len(front) THEN front[n] ELSE back[n - Len(front)]
          BY <1>2, <1>3, <1>5, ConcatProperties
        <4>2. ~(k <= Len(front))
          BY <1>1, <1>2, <2>3
        <4>. QED BY <3>1, <4>1, <4>2
      <3>3. k - (i - 1) \in 1 .. m - i /\ (k - (i - 1)) + i = k + 1
        BY <1>1, <2>3
      <3>. QED BY <1>2, <1>3, <3>2, <3>3
    <2>. QED BY <1>1, <1>2, <1>3, <2>1, <2>2, <2>3
  <1>7. \A k \in 1 .. m - 1: k \in 1 .. m /\ k + 1 \in 1 .. m
    BY <1>1
  <1>8. ASSUME NEW j \in 1 .. m, j # i PROVE \E k \in 1 .. m - 1: t[k] = s[j]
    <2>1. CASE j < i
      <3>1. j \in 1 .. m - 1 /\ j <= i - 1
        BY <1>1, <2>1
      <3>. QED BY <1>6, <3>1
    <2>2. CASE j > i
      <3>1. j - 1 \in 1 .. m - 1 /\ ~(j - 1 <= i - 1) /\ (j - 1) + 1 = j
        BY <1>1, <2>2
      <3>. QED BY <1>6, <3>1
    <2>. QED BY <1>1, <1>8, <2>1, <2>2
  <1>9. DOMAIN t = 1 .. m - 1
    BY <1>1, <1>6
  <1>10. \A k \in 1 .. m - 1: \E j \in 1 .. m: t[k] = s[j]
    BY <1>6, <1>7
  <1>11. RemoveAt(s, i) = t
    BY <1>4, <1>5
  <1>. QED BY <1>1, <1>6, <1>8, <1>9, <1>10, <1>11

(* A promise is resolved: no gate comes or goes.                           *)
LEMMA GatesResolved ==
    ASSUME gates \in Seq([id: Given, answer: Answers]), NEW x, NEW a \in Answers, Resolve(x, a)
    PROVE  /\ gates' \in Seq([id: Given, answer: Answers]) /\ DOMAIN gates' = DOMAIN gates
           /\ \A i \in DOMAIN gates: /\ gates'[i].id = gates[i].id
                                     /\ \/ gates'[i].answer = gates[i].answer
                                        \/ gates[i].id = x /\ gates'[i].answer = a
  <1>. DEFINE G == [id: Given, answer: Answers]
  <1>1. gates \in Seq(G)
    OBVIOUS
  <1>2. \A g \in G: /\ [g EXCEPT !.answer = a] \in G
                    /\ [g EXCEPT !.answer = a].id = g.id /\ [g EXCEPT !.answer = a].answer = a
    OBVIOUS
  <1>. HIDE DEF G
  <1>3. DOMAIN gates = 1 .. Len(gates) /\ Len(gates) \in Nat /\ \A i \in DOMAIN gates: gates[i] \in G
    BY <1>1
  <1>4. gates' = [i \in DOMAIN gates |->
                    IF gates[i].id = x /\ gates[i].answer = Unanswered
                    THEN [gates[i] EXCEPT !.answer = a] ELSE gates[i]]
    BY DEF Resolve
  <1>5. DOMAIN gates' = DOMAIN gates /\ \A i \in DOMAIN gates:
            \/ gates'[i] = gates[i]
            \/ gates[i].id = x /\ gates'[i] = [gates[i] EXCEPT !.answer = a]
    BY <1>4
  <1>6. \A i \in DOMAIN gates: gates'[i] \in G
    BY <1>2, <1>3, <1>5
  <1>7. gates' \in Seq(G)
    BY <1>3, <1>4, <1>6
  <1>8. ASSUME NEW i \in DOMAIN gates
        PROVE  /\ gates'[i].id = gates[i].id
               /\ \/ gates'[i].answer = gates[i].answer
                  \/ gates[i].id = x /\ gates'[i].answer = a
    <2>1. CASE gates'[i] = gates[i]
      BY <2>1
    <2>2. CASE gates[i].id = x /\ gates'[i] = [gates[i] EXCEPT !.answer = a]
      BY <1>2, <1>3, <2>2
    <2>. QED BY <1>5, <2>1, <2>2
  <1>. QED BY <1>5, <1>7, <1>8 DEF G

(* A gate is added.                                                        *)
LEMMA GateAdded ==
    ASSUME NEW G, NEW g \in Seq(G), NEW x \in G, NEW new, new = Append(g, x)
    PROVE  /\ new \in Seq(G) /\ DOMAIN new = DOMAIN g \cup {Len(g) + 1}
           /\ new[Len(g) + 1] = x /\ \A i \in DOMAIN g: new[i] = g[i]
  OBVIOUS

(* The rule that decides is the latest one about the call.                 *)
LEMMA RuleFound ==
    ASSUME Loaded \in Seq(RuleType), NEW k
    PROVE  FindRule(k) \in {"none", "allow", "deny"} /\ (FindRule(k) = "allow" => LatestRuleAllows(k))
  <1>1. CASE RulesFor(k) = {}
    BY <1>1 DEF FindRule
  <1>2. CASE RulesFor(k) # {}
    <2>1. RulesFor(k) \subseteq 1 .. Len(Loaded) /\ Len(Loaded) \in Nat
      BY DEF RulesFor
    <2>2. PICK i: i = Max(RulesFor(k)) /\ i \in RulesFor(k) /\ \A j \in RulesFor(k): j <= i
      BY <1>2, <2>1, HighestPlace
    <2>3. FindRule(k) = Loaded[i].action /\ i \in DOMAIN Loaded /\ Covers(Loaded[i], k)
      BY <1>2, <2>2 DEF FindRule, RulesFor
    <2>4. Loaded[i] \in RuleType
      BY <2>3
    <2>5. Loaded[i].action \in {"allow", "deny"}
      BY <2>4 DEF RuleType
    <2>6. ASSUME Loaded[i].action = "allow", NEW j \in DOMAIN Loaded, Covers(Loaded[j], k), Loaded[j].action = "deny"
          PROVE  j < i
      <3>1. j <= i
        BY <2>2, <2>6 DEF RulesFor
      <3>2. j # i
        BY <2>6
      <3>3. i \in Nat /\ j \in Nat
        BY <2>1, <2>2, <2>6
      <3>. QED BY <3>1, <3>2, <3>3
    <2>. QED BY <2>3, <2>5, <2>6 DEF LatestRuleAllows
  <1>. QED BY <1>1, <1>2

-----------------------------------------------------------------------------
(* What is said of the answers.                                            *)
LEMMA AnswersSaid ==
    /\ Unanswered \in Answers /\ Unanswered.action = "none"
    /\ \A a \in Responses: a \in Answers /\ a # Unanswered /\ a.action \in {"allow", "deny"}
    /\ \A a \in Answers: a # Unanswered => a \in Responses
  <1>1. \A a \in Responses: a.action \in {"allow", "deny"}
    BY DEF Responses
  <1>2. Unanswered.action = "none"
    BY DEF Unanswered
  <1>. QED BY <1>1, <1>2 DEF Answers

(* A sequence over a set is one over a larger set.                         *)
LEMMA SeqGrows == ASSUME NEW S, NEW T, S \subseteq T PROVE Seq(S) \subseteq Seq(T)
  OBVIOUS

(* Requests are numbered; those that were stay so.                         *)
LEMMA GivenGrows ==
    ASSUME count \in [Callers -> Nat], NEW c \in Callers,
           UNCHANGED count \/ count' = [count EXCEPT ![c] = @ + 1]
    PROVE  count' \in [Callers -> Nat] /\ Given \subseteq Given'
  <1>1. count' \in [Callers -> Nat] /\ \A d \in Callers: count[d] <= count'[d]
    OBVIOUS
  <1>2. ASSUME NEW id \in Callers \X Nat, id[2] <= count[id[1]] PROVE id[2] <= count'[id[1]]
    <2>1. id[1] \in Callers /\ id[2] \in Nat
      OBVIOUS
    <2>2. count[id[1]] \in Nat /\ count'[id[1]] \in Nat /\ count[id[1]] <= count'[id[1]]
      BY <1>1, <2>1
    <2>. QED BY <1>2, <2>1, <2>2
  <1>. QED BY <1>1, <1>2 DEF Given

(* What a page knows stays what it was, whatever is numbered after it.     *)
LEMMA PanelGrows ==
    ASSUME PanelTypes, Given \subseteq Given', UNCHANGED page
    PROVE  PanelTypes'
  <1>1. Seq(Given) \subseteq Seq(Given')
    BY SeqGrows
  <1>2. Seq(Seq(Given)) \subseteq Seq(Seq(Given'))
    BY <1>1, SeqGrows
  <1>3. items' = items /\ loads' = loads /\ busy' = busy
    BY DEF page
  <1>4. items' \in [Tabs -> Seq(Given')] /\ loads' \in [Tabs -> Seq(Seq(Given'))]
    BY <1>1, <1>2, <1>3 DEF PanelTypes
  <1>. QED BY <1>3, <1>4 DEF PanelTypes

(* A step that leaves the engines and the pages alone.                     *)
LEMMA RequestsStay ==
    ASSUME CallTypes, AskingHasGate, PanelTypes, AllowedByClick, UNCHANGED <<engine, page>>
    PROVE  CallTypes' /\ AskingHasGate' /\ PanelTypes' /\ AllowedByClick'
  <1>1. UNCHANGED <<phase, call, count, gates, items, loads, busy, clicks>>
    BY DEF engine, page
  <1>2. Given' = Given
    BY <1>1 DEF Given
  <1>. QED BY <1>1, <1>2 DEF CallTypes, AskingHasGate, PanelTypes, AllowedByClick, Pending, Id

(* A call is checked; when a person is asked, the request is a new one.    *)
LEMMA CheckKeeps ==
    ASSUME CenterInv, NEW c \in Callers, NEW k \in ToolCalls, Check(c, k), UNCHANGED page
    PROVE  CenterInv'
  <1>. USE DEF CenterInv
  <1>1. /\ phase[c] = "idle" /\ call' = [call EXCEPT ![c] = k] /\ count' = [count EXCEPT ![c] = @ + 1]
        /\ UNCHANGED file_ /\ UNCHANGED <<items, loads, busy, clicks>>
    BY DEF Check, page
  <1>2. FileInv'
    BY <1>1, FileStays
  <1>3. /\ phase \in [Callers -> {"idle", "asking", "allow", "deny"}]
        /\ call \in [Callers -> ToolCalls \cup {NoCall}] /\ count \in [Callers -> Nat]
        /\ gates \in Seq([id: Given, answer: Answers])
    BY DEF CallTypes
  <1>4. count' \in [Callers -> Nat] /\ Given \subseteq Given'
    BY <1>1, <1>3, GivenGrows
  <1>5. PanelTypes'
    BY <1>4, PanelGrows
  <1>6. /\ call' \in [Callers -> ToolCalls \cup {NoCall}] /\ call'[c] = k
        /\ \A d \in Callers: d # c => call'[d] = call[d] /\ Id(d)' = Id(d)
        /\ Id(c)' = <<c, count[c] + 1>> /\ <<c, count[c] + 1>> \in Given' /\ <<c, count[c] + 1>> \notin Given
    <2>1. call' \in [Callers -> ToolCalls \cup {NoCall}] /\ call'[c] = k
      BY <1>1, <1>3
    <2>2. /\ \A d \in Callers: d # c => call'[d] = call[d] /\ count'[d] = count[d]
          /\ count'[c] = count[c] + 1 /\ count[c] \in Nat
      BY <1>1, <1>3
    <2>3. <<c, count[c] + 1>> \in Callers \X Nat
      BY <2>2
    <2>. QED BY <2>1, <2>2, <2>3 DEF Given, Id
  <1>7. Seq([id: Given, answer: Answers]) \subseteq Seq([id: Given', answer: Answers])
    <2>1. [id: Given, answer: Answers] \subseteq [id: Given', answer: Answers]
      BY <1>4
    <2>. QED BY <2>1, SeqGrows
  <1>8. CASE Decide(c, k) = "ask"
    <2>1. PICK gate: gate = [id |-> <<c, count[c] + 1>>, answer |-> Unanswered]
      OBVIOUS
    <2>2. /\ gate \in [id: Given', answer: Answers] /\ gate.id = <<c, count[c] + 1>>
          /\ gate.answer.action # "allow"
      BY <1>6, <2>1, AnswersSaid
    <2>3. phase' = [phase EXCEPT ![c] = "asking"] /\ gates' = Append(gates, gate)
      BY <1>8, <2>1 DEF Check
    <2>4. gates \in Seq([id: Given', answer: Answers])
      BY <1>3, <1>7
    <2>5. /\ gates' \in Seq([id: Given', answer: Answers]) /\ DOMAIN gates' = DOMAIN gates \cup {Len(gates) + 1}
          /\ gates'[Len(gates) + 1] = gate /\ \A i \in DOMAIN gates: gates'[i] = gates[i]
      BY <2>2, <2>3, <2>4, GateAdded
    <2>6. /\ phase' \in [Callers -> {"idle", "asking", "allow", "deny"}] /\ phase'[c] = "asking"
          /\ \A d \in Callers: d # c => phase'[d] = phase[d]
      BY <1>3, <2>3
    <2>7. CallTypes'
      BY <1>4, <1>6, <2>5, <2>6 DEF CallTypes
    <2>8. \A id: Pending(id)' <=> Pending(id) \/ id = gate.id
      BY <2>5 DEF Pending
    <2>9. AskingHasGate'
      BY <1>6, <2>2, <2>6, <2>8 DEF AskingHasGate
    <2>10. AllowedByClick'
      <3>1. \A i \in DOMAIN gates': gates'[i].answer.action = "allow" => gates'[i].id \in clicks'
        BY <1>1, <2>2, <2>5 DEF AllowedByClick
      <3>2. ASSUME NEW t \in Tabs, busy[t].step = "posted", busy[t].response.action = "allow", Pending(busy[t].id)'
            PROVE  busy[t].id \in clicks
        <4>1. busy[t].id \in Given /\ gate.id \notin Given
          BY <1>6, <2>2, <3>2 DEF PanelTypes
        <4>2. Pending(busy[t].id)
          <5>1. PICK id: id = busy[t].id
            OBVIOUS
          <5>2. Pending(id)'
            BY <1>1, <3>2, <5>1 DEF Pending
          <5>. QED BY <2>8, <4>1, <5>1, <5>2 DEF Pending
        <4>. QED BY <3>2, <4>2 DEF AllowedByClick
      <3>. QED BY <1>1, <3>1, <3>2 DEF AllowedByClick
    <2>. QED BY <1>2, <1>5, <2>7, <2>9, <2>10
  <1>9. CASE Decide(c, k) # "ask"
    <2>1. phase' = [phase EXCEPT ![c] = Decide(c, k)] /\ UNCHANGED gates
      BY <1>9 DEF Check
    <2>2. Decide(c, k) \in {"allow", "deny"}
      <3>1. FindRule(k) \in {"none", "allow", "deny"}
        BY RuleFound DEF FileInv, FileTypes
      <3>. QED BY <1>9, <3>1 DEF Decide
    <2>3. /\ phase' \in [Callers -> {"idle", "asking", "allow", "deny"}] /\ phase'[c] # "asking"
          /\ \A d \in Callers: d # c => phase'[d] = phase[d]
      BY <1>3, <2>1, <2>2
    <2>4. CallTypes'
      BY <1>3, <1>4, <1>6, <1>7, <2>1, <2>3 DEF CallTypes
    <2>5. \A id: Pending(id)' <=> Pending(id)
      BY <2>1 DEF Pending
    <2>6. AskingHasGate' /\ AllowedByClick'
      BY <1>1, <1>6, <2>1, <2>3, <2>5 DEF AskingHasGate, AllowedByClick
    <2>. QED BY <1>2, <1>5, <2>4, <2>6
  <1>. QED BY <1>8, <1>9

(* An answer is taken: its gate leaves the map, and with it no other.      *)
LEMMA WakeKeeps ==
    ASSUME CenterInv, NEW c \in Callers, Wake(c), UNCHANGED page
    PROVE  CenterInv'
  <1>. USE DEF CenterInv
  <1>1. /\ phase[c] = "asking" /\ UNCHANGED <<call, count>> /\ UNCHANGED <<items, loads, busy, clicks>>
        /\ Free("server") /\ gates[Gate(c)].answer # Unanswered
        /\ phase' = [phase EXCEPT ![c] = gates[Gate(c)].answer.action]
        /\ gates' = RemoveAt(gates, Gate(c))
    BY DEF Wake, page
  <1>2. gates \in Seq([id: Given, answer: Answers]) /\ call[c] \in ToolCalls
    BY <1>1 DEF CallTypes, AskingHasGate
  <1>3. PICK g: g = Gate(c) /\ g \in DOMAIN gates /\ gates[g].id = Id(c)
    BY <1>1 DEF AskingHasGate, Pending, Gate
  <1>4. gates[g].answer.action \in {"allow", "deny"}
    <2>1. gates[g] \in [id: Given, answer: Answers]
      <3>. DEFINE G == [id: Given, answer: Answers]
      <3>1. gates \in Seq(G)
        BY <1>2
      <3>. HIDE DEF G
      <3>2. gates[g] \in G
        BY <1>3, <3>1
      <3>. QED BY <3>2 DEF G
    <2>. QED BY <1>1, <1>3, <2>1, AnswersSaid
  <1>5. /\ gates' \in Seq([id: Given, answer: Answers])
        /\ \A k \in DOMAIN gates': \E j \in DOMAIN gates: gates'[k] = gates[j]
        /\ \A j \in DOMAIN gates: j # g => \E k \in DOMAIN gates': gates'[k] = gates[j]
    BY <1>1, <1>2, <1>3, EntryRemoved
  <1>6. FileInv'
    <2>1. CASE gates[g].answer.remember
      <3>1. AddRule("server", Rule(call[c].tool, call[c].subject, gates[g].answer.action))
        BY <1>3, <2>1 DEF Wake
      <3>2. Rule(call[c].tool, call[c].subject, gates[g].answer.action) \in RuleType
        BY <1>2, <1>4 DEF Rule, RuleType
      <3>. QED BY <1>1, <3>1, <3>2, FileWithRule DEF Processes
    <2>2. CASE ~gates[g].answer.remember
      <3>1. UNCHANGED file_
        BY <1>3, <2>2 DEF Wake
      <3>. QED BY <3>1, FileStays
    <2>. QED BY <2>1, <2>2
  <1>7. Given' = Given
    BY <1>1 DEF Given
  <1>8. PanelTypes'
    BY <1>7, PanelGrows
  <1>9. /\ phase' \in [Callers -> {"idle", "asking", "allow", "deny"}] /\ phase'[c] # "asking"
        /\ \A d \in Callers: d # c => phase'[d] = phase[d]
    BY <1>1, <1>3, <1>4 DEF CallTypes
  <1>10. CallTypes'
    BY <1>1, <1>5, <1>7, <1>9 DEF CallTypes
  <1>11. ASSUME NEW id, Pending(id)' PROVE Pending(id)
    BY <1>5, <1>11 DEF Pending
  <1>12. ASSUME NEW id, Pending(id), id # Id(c) PROVE Pending(id)'
    BY <1>3, <1>5, <1>12 DEF Pending
  <1>13. AskingHasGate'
    <2>. SUFFICES ASSUME NEW d \in Callers, phase'[d] = "asking"
                  PROVE  call'[d] \in ToolCalls /\ Pending(Id(d))'
      BY DEF AskingHasGate
    <2>1. phase[d] = "asking" /\ d # c
      BY <1>9
    <2>2. call[d] \in ToolCalls /\ Pending(Id(d)) /\ Id(d) # Id(c) /\ Id(d)' = Id(d)
      BY <1>1, <2>1 DEF AskingHasGate, Id
    <2>. QED BY <1>1, <1>12, <2>2
  <1>14. AllowedByClick'
    BY <1>1, <1>5, <1>11 DEF AllowedByClick
  <1>. QED BY <1>6, <1>8, <1>10, <1>13, <1>14

(* A tool has been executed, or refused.                                   *)
LEMMA FinishKeeps ==
    ASSUME CenterInv, NEW c \in Callers, Finish(c), UNCHANGED page
    PROVE  CenterInv'
  <1>. USE DEF CenterInv
  <1>1. /\ UNCHANGED <<count, gates, file_, items, loads, busy, clicks>>
        /\ phase' = [phase EXCEPT ![c] = "idle"] /\ call' = [call EXCEPT ![c] = NoCall]
    BY DEF Finish, page
  <1>2. FileInv'
    BY <1>1, FileStays
  <1>3. Given' = Given
    BY <1>1 DEF Given
  <1>4. PanelTypes'
    BY <1>3, PanelGrows
  <1>5. CallTypes'
    BY <1>1, <1>3 DEF CallTypes
  <1>6. AskingHasGate' /\ AllowedByClick'
    BY <1>1 DEF CallTypes, AskingHasGate, AllowedByClick, Pending, Id
  <1>. QED BY <1>2, <1>4, <1>5, <1>6

(* What a list of the requests that wait names has been numbered.          *)
LEMMA ListGiven ==
    ASSUME NEW I, NEW A, gates \in Seq([id: I, answer: A])
    PROVE  PendingIds \in Seq(I)
  <1>. DEFINE G == [id: I, answer: A]
  <1>1. gates \in Seq(G)
    OBVIOUS
  <1>2. \A x \in G: x.id \in I
    OBVIOUS
  <1>. HIDE DEF G
  <1>3. DOMAIN gates = 1 .. Len(gates) /\ Len(gates) \in Nat /\ \A i \in DOMAIN gates: gates[i].id \in I
    BY <1>1, <1>2
  <1>. QED BY <1>3 DEF PendingIds

(* A list is on its way.                                                   *)
LEMMA ListSent ==
    ASSUME NEW S, NEW T, NEW f \in [T -> Seq(S)], NEW t \in T, NEW x \in S, NEW new,
           new = [f EXCEPT ![t] = Append(@, x)]
    PROVE  new \in [T -> Seq(S)]
  <1>1. Append(f[t], x) \in Seq(S)
    OBVIOUS
  <1>. QED BY <1>1

(* A page asks for the list, or shows one that it got.                     *)
LEMMA ListsKeep ==
    ASSUME CenterInv, NEW t \in Tabs, Load(t) \/ Show(t)
    PROVE  CenterInv'
  <1>. USE DEF CenterInv
  <1>1. UNCHANGED <<permVars, clicks>> /\ UNCHANGED <<file_, phase, call, count, gates>>
    BY DEF Load, Show, permVars, engine
  <1>2. FileInv'
    BY <1>1, FileStays
  <1>3. Given' = Given
    BY <1>1 DEF Given
  <1>4. CallTypes' /\ AskingHasGate'
    BY <1>1, <1>3 DEF CallTypes, AskingHasGate, Pending, Id
  <1>5. items \in [Tabs -> Seq(Given)] /\ loads \in [Tabs -> Seq(Seq(Given))]
    BY DEF PanelTypes
  <1>6. CASE Load(t)
    <2>1. loads' = [loads EXCEPT ![t] = Append(@, PendingIds)] /\ UNCHANGED <<items, busy>>
      BY <1>6 DEF Load
    <2>2. PendingIds \in Seq(Given)
      BY ListGiven DEF CallTypes
    <2>3. loads' \in [Tabs -> Seq(Seq(Given))]
      BY <1>5, <2>1, <2>2, ListSent
    <2>4. PanelTypes'
      BY <1>3, <2>1, <2>3 DEF PanelTypes
    <2>5. AllowedByClick'
      BY <1>1, <2>1 DEF AllowedByClick, Pending
    <2>. QED BY <1>2, <1>4, <2>4, <2>5
  <1>7. CASE Show(t)
    <2>1. PICK i \in DOMAIN loads[t]:
              /\ items' = [items EXCEPT ![t] = loads[t][i]]
              /\ loads' = [loads EXCEPT ![t] = RemoveAt(@, i)]
              /\ busy' = [busy EXCEPT ![t] = NoClick] \/ busy' = busy
      BY <1>7 DEF Show
    <2>2. loads[t] \in Seq(Seq(Given)) /\ loads[t][i] \in Seq(Given)
      BY <1>5
    <2>3. RemoveAt(loads[t], i) \in Seq(Seq(Given))
      BY <2>2, EntryRemoved
    <2>4. items' \in [Tabs -> Seq(Given)] /\ loads' \in [Tabs -> Seq(Seq(Given))]
      BY <1>5, <2>1, <2>2, <2>3
    <2>5. /\ DOMAIN busy' = Tabs /\ busy'[t] \in {NoClick, busy[t]}
          /\ \A u \in Tabs: u # t => busy'[u] = busy[u]
      BY <2>1 DEF PanelTypes
    <2>6. /\ NoClick.step # "posted"
          /\ NoClick = [step |-> NoClick.step, id |-> NoClick.id, response |-> NoClick.response]
      BY DEF NoClick
    <2>7. PanelTypes'
      BY <1>3, <2>4, <2>5, <2>6 DEF PanelTypes
    <2>8. AllowedByClick'
      BY <1>1, <2>5, <2>6 DEF AllowedByClick, Pending
    <2>. QED BY <1>2, <1>4, <2>7, <2>8
  <1>. QED BY <1>6, <1>7

(* A person clicks on one of the buttons.                                  *)
LEMMA ClickKeeps ==
    ASSUME CenterInv, NEW t \in Tabs, NEW response \in Responses, Click(t, response)
    PROVE  CenterInv'
  <1>. USE DEF CenterInv
  <1>1. /\ items[t] # <<>> /\ UNCHANGED <<file_, phase, call, count, gates, items, loads>>
        /\ busy' = [busy EXCEPT ![t] = [step |-> "posted", id |-> Head(items[t]), response |-> response]]
        /\ clicks' = Allowing(Head(items[t]), response)
    BY DEF Click, permVars, engine
  <1>2. FileInv'
    BY <1>1, FileStays
  <1>3. Given' = Given
    BY <1>1 DEF Given
  <1>4. CallTypes' /\ AskingHasGate'
    BY <1>1, <1>3 DEF CallTypes, AskingHasGate, Pending, Id
  <1>5. PICK id: id = Head(items[t])
    OBVIOUS
  <1>6. id \in Given
    BY <1>1, <1>5 DEF PanelTypes
  <1>7. PICK b: b = [step |-> "posted", id |-> id, response |-> response]
    OBVIOUS
  <1>8. /\ b.step = "posted" /\ b.id = id /\ b.response = response
        /\ b = [step |-> b.step, id |-> b.id, response |-> b.response]
    BY <1>7
  <1>9. DOMAIN busy' = Tabs /\ busy'[t] = b /\ \A u \in Tabs: u # t => busy'[u] = busy[u]
    BY <1>1, <1>5, <1>7 DEF PanelTypes
  <1>10. PanelTypes'
    BY <1>1, <1>3, <1>6, <1>8, <1>9 DEF PanelTypes
  <1>11. \A x: Pending(x)' <=> Pending(x)
    BY <1>1 DEF Pending
  <1>12. ASSUME NEW x \in clicks, Pending(x) PROVE x \in clicks'
    BY <1>1, <1>12 DEF Allowing
  <1>13. response.action = "allow" /\ Pending(id) => id \in clicks'
    BY <1>1, <1>5 DEF Allowing
  <1>14. ASSUME NEW i \in DOMAIN gates, gates[i].answer.action = "allow" PROVE gates[i].id \in clicks'
    <2>1. gates[i].id \in clicks
      BY <1>14 DEF AllowedByClick
    <2>2. Pending(gates[i].id)
      BY DEF Pending
    <2>. QED BY <1>12, <2>1, <2>2
  <1>15. ASSUME NEW u \in Tabs, busy'[u].step = "posted", busy'[u].response.action = "allow", Pending(busy'[u].id)
         PROVE  busy'[u].id \in clicks'
    <2>1. CASE u = t
      BY <1>8, <1>9, <1>13, <1>15, <2>1
    <2>2. CASE u # t
      BY <1>9, <1>12, <1>15, <2>2 DEF AllowedByClick
    <2>. QED BY <2>1, <2>2
  <1>16. AllowedByClick'
    <2>1. ASSUME NEW u \in Tabs PROVE Pending(busy[u].id)' <=> Pending(busy'[u].id)
      BY <1>1 DEF Pending
    <2>. QED BY <1>1, <1>14, <1>15, <2>1 DEF AllowedByClick
  <1>. QED BY <1>2, <1>4, <1>10, <1>16

(* An answer arrives at the server.                                        *)
LEMMA PostKeeps ==
    ASSUME CenterInv, NEW t \in Tabs, Post(t)
    PROVE  CenterInv'
  <1>. USE DEF CenterInv
  <1>1. UNCHANGED <<file_, phase, call, count, items, clicks>> /\ busy[t].step = "posted"
    BY DEF Post, Resolve, permVars, engine
  <1>2. FileInv'
    BY <1>1, FileStays
  <1>3. Given' = Given
    BY <1>1 DEF Given
  <1>4. loads \in [Tabs -> Seq(Seq(Given))] /\ PendingIds \in Seq(Given)
    BY ListGiven DEF PanelTypes, CallTypes
  <1>5. CASE Pending(busy[t].id)
    <2>1. /\ Resolve(busy[t].id, busy[t].response)
          /\ busy' = [busy EXCEPT ![t].step = "reloading"]
          /\ loads' = [loads EXCEPT ![t] = Append(@, PendingIds)]
      BY <1>5 DEF Post
    <2>2. PICK x, a: x = busy[t].id /\ a = busy[t].response
      OBVIOUS
    <2>3. a \in Responses /\ a \in Answers
      BY <1>1, <2>2, AnswersSaid DEF PanelTypes
    <2>4. Resolve(x, a)
      BY <2>1, <2>2
    <2>5. gates \in Seq([id: Given, answer: Answers])
      BY DEF CallTypes
    <2>6. /\ gates' \in Seq([id: Given, answer: Answers]) /\ DOMAIN gates' = DOMAIN gates
          /\ \A i \in DOMAIN gates: /\ gates'[i].id = gates[i].id
                                    /\ \/ gates'[i].answer = gates[i].answer
                                       \/ gates[i].id = x /\ gates'[i].answer = a
      BY <2>3, <2>4, <2>5, GatesResolved
    <2>7. \A y: Pending(y)' <=> Pending(y)
      BY <2>6 DEF Pending
    <2>8. CallTypes' /\ AskingHasGate'
      BY <1>1, <1>3, <2>6, <2>7 DEF CallTypes, AskingHasGate, Id
    <2>9. loads' \in [Tabs -> Seq(Seq(Given))]
      BY <1>4, <2>1, ListSent
    <2>10. /\ DOMAIN busy' = Tabs /\ \A u \in Tabs: u # t => busy'[u] = busy[u]
           /\ busy'[t] = [step |-> "reloading", id |-> x, response |-> a]
      BY <2>1, <2>2 DEF PanelTypes
    <2>11. PanelTypes'
      <3>1. PICK b: b = [step |-> "reloading", id |-> x, response |-> a]
        OBVIOUS
      <3>2. b.step # "posted" /\ b = [step |-> b.step, id |-> b.id, response |-> b.response]
        BY <3>1
      <3>. QED BY <1>1, <1>3, <2>9, <2>10, <3>1, <3>2 DEF PanelTypes
    <2>12. ASSUME NEW i \in DOMAIN gates, gates'[i].answer.action = "allow" PROVE gates[i].id \in clicks
      <3>1. CASE gates'[i].answer = gates[i].answer
        BY <2>12, <3>1 DEF AllowedByClick
      <3>2. CASE gates[i].id = x /\ gates'[i].answer = a
        BY <1>1, <1>5, <2>2, <2>12, <3>2 DEF AllowedByClick
      <3>. QED BY <2>6, <3>1, <3>2
    <2>13. ASSUME NEW u \in Tabs, busy'[u].step = "posted", busy'[u].response.action = "allow",
                  Pending(busy'[u].id)
           PROVE  busy'[u].id \in clicks
      <3>1. u # t
        BY <2>10, <2>13
      <3>. QED BY <2>10, <2>13, <3>1 DEF AllowedByClick
    <2>14. AllowedByClick'
      <3>1. ASSUME NEW u \in Tabs PROVE Pending(busy[u].id)' <=> Pending(busy'[u].id)
        BY <2>6 DEF Pending
      <3>. QED BY <1>1, <2>6, <2>12, <2>13, <3>1 DEF AllowedByClick
    <2>. QED BY <1>2, <2>8, <2>11, <2>14
  <1>6. CASE ~Pending(busy[t].id)
    <2>1. busy' = [busy EXCEPT ![t] = NoClick] /\ UNCHANGED <<permVars, loads>>
      BY <1>6 DEF Post
    <2>2. UNCHANGED gates
      BY <2>1 DEF permVars, engine
    <2>3. CallTypes' /\ AskingHasGate'
      BY <1>1, <1>3, <2>2 DEF CallTypes, AskingHasGate, Pending, Id
    <2>4. /\ DOMAIN busy' = Tabs /\ busy'[t] = NoClick
          /\ \A u \in Tabs: u # t => busy'[u] = busy[u]
      BY <2>1 DEF PanelTypes
    <2>5. /\ NoClick.step # "posted"
          /\ NoClick = [step |-> NoClick.step, id |-> NoClick.id, response |-> NoClick.response]
      BY DEF NoClick
    <2>6. PanelTypes'
      BY <1>1, <1>3, <2>1, <2>4, <2>5 DEF PanelTypes
    <2>7. AllowedByClick'
      BY <1>1, <2>2, <2>4, <2>5 DEF AllowedByClick, Pending
    <2>. QED BY <1>2, <2>3, <2>6, <2>7
  <1>. QED BY <1>5, <1>6

(* Nothing is asked, nothing is remembered.                                *)
LEMMA InitCenterInv == CenterInit => CenterInv
  <1>. SUFFICES ASSUME CenterInit PROVE CenterInv
    OBVIOUS
  <1>. USE DEF CenterInit, PermInit
  <1>1. Loaded = <<>> /\ Loaded \in Seq(RuleType) /\ ToSet(Loaded) = {}
    BY EmptySeq DEF Loaded, Text, ToSet
  <1>2. NoWrite \in [step: {"none", "read", "truncated"}, rules: Seq(RuleType)] /\ NoWrite.step = "none"
    BY EmptySeq DEF NoWrite
  <1>3. FileTypes
    BY <1>1, <1>2 DEF FileTypes
  <1>4. \A p \in Processes: Free(p)
    BY <1>2 DEF Free
  <1>5. OneWriter /\ RulesKept
    BY <1>1, <1>4 DEF OneWriter, RulesKept, Free
  <1>6. CallTypes
    BY EmptySeq DEF CallTypes
  <1>7. AskingHasGate
    BY DEF AskingHasGate
  <1>8. items \in [Tabs -> Seq(Given)] /\ loads \in [Tabs -> Seq(Seq(Given))]
    BY EmptySeq
  <1>9. /\ NoClick.step # "posted"
        /\ NoClick = [step |-> NoClick.step, id |-> NoClick.id, response |-> NoClick.response]
    BY DEF NoClick
  <1>10. PanelTypes
    BY <1>8, <1>9 DEF PanelTypes
  <1>11. DOMAIN gates = {}
    OBVIOUS
  <1>12. AllowedByClick
    BY <1>9, <1>11 DEF AllowedByClick
  <1>. QED BY <1>3, <1>5, <1>6, <1>7, <1>10, <1>12 DEF CenterInv, FileInv

(* Every step keeps the invariant.                                         *)
LEMMA CenterStep == CenterInv /\ [CenterNext]_centerVars => CenterInv'
  <1>. SUFFICES ASSUME CenterInv, [CenterNext]_centerVars PROVE CenterInv'
    OBVIOUS
  <1>1. ASSUME NEW p \in Processes, Truncate(p) \/ Write(p) \/ Edit(p), UNCHANGED page PROVE CenterInv'
    <2>1. FileInv'
      BY <1>1, FileWritten, FileEdited DEF CenterInv
    <2>2. UNCHANGED engine
      BY <1>1 DEF Truncate, Write, Edit
    <2>. QED BY <1>1, <2>1, <2>2, RequestsStay DEF CenterInv
  <1>2. ASSUME NEW c \in Callers, Wake(c) \/ Finish(c) \/ \E k \in ToolCalls: Check(c, k), UNCHANGED page
        PROVE  CenterInv'
    BY <1>2, WakeKeeps, FinishKeeps, CheckKeeps
  <1>3. ASSUME NEW t \in Tabs, PageStep(t) \/ \E response \in Responses: Click(t, response)
        PROVE  CenterInv'
    BY <1>3, ListsKeep, PostKeeps, ClickKeeps DEF PageStep
  <1>4. CASE UNCHANGED centerVars
    <2>1. UNCHANGED file_ /\ UNCHANGED <<engine, page>>
      BY <1>4 DEF centerVars, permVars
    <2>. QED BY <2>1, FileStays, RequestsStay DEF CenterInv
  <1>. QED BY <1>1, <1>2, <1>3, <1>4 DEF CenterNext, PermStep

(* The rules file, the requests and the pages are as the invariant says.   *)
THEOREM CenterKept == CenterSpec => []CenterInv
  <1>1. CenterInit => CenterInv
    BY InitCenterInv
  <1>2. CenterInv /\ [CenterNext]_centerVars => CenterInv'
    BY CenterStep
  <1>. QED BY <1>1, <1>2, PTL DEF CenterSpec

(* What persons asked to remember is what the rules file says, whichever   *)
(* run, page or command it came from, unless two processes were at the     *)
(* file at the same time.                                                  *)
THEOREM RulesAreKept == CenterSpec => []RulesKept
  <1>1. CenterInv => RulesKept
    BY DEF CenterInv, FileInv
  <1>. QED BY <1>1, CenterKept, PTL

(* A call is let through on a check: by its mode or by the latest rule.    *)
LEMMA CheckedWithConsent ==
    ASSUME CenterInv, NEW c \in Callers, NEW k \in ToolCalls, Check(c, k), UNCHANGED page,
           NEW d \in Callers, phase[d] # "allow", phase'[d] = "allow"
    PROVE  Consented(d)'
  <1>1. /\ phase \in [Callers -> {"idle", "asking", "allow", "deny"}]
        /\ call \in [Callers -> ToolCalls \cup {NoCall}] /\ Loaded \in Seq(RuleType)
    BY DEF CenterInv, CallTypes, FileInv, FileTypes
  <1>2. d = c /\ Decide(c, k) = "allow" /\ call'[c] = k /\ UNCHANGED file
    <2>1. phase' = [phase EXCEPT ![c] = IF Decide(c, k) = "ask" THEN "asking" ELSE Decide(c, k)]
      BY DEF Check
    <2>2. d = c /\ Decide(c, k) = "allow"
      BY <1>1, <2>1
    <2>. QED BY <1>1, <2>2 DEF Check, file_
  <1>3. FindRule(k) = "allow" => LatestRuleAllows(k)
    BY <1>1, RuleFound
  <1>4. \/ Mode[c] \in {"auto", "sandbox"}
        \/ Mode[c] = "confirm" /\ Risk(k) = "safe"
        \/ LatestRuleAllows(k)
    <2>1. CASE FindRule(k) # "none"
      BY <1>2, <1>3, <2>1 DEF Decide
    <2>2. CASE FindRule(k) = "none"
      BY <1>2, <2>2 DEF Decide
    <2>. QED BY <2>1, <2>2
  <1>5. Risk(k)' = Risk(k) /\ (LatestRuleAllows(k) => LatestRuleAllows(k)')
    BY <1>2 DEF LatestRuleAllows, Loaded, Covers, Matches
  <1>. QED BY <1>2, <1>4, <1>5 DEF Consented, LatestRuleAllows, Loaded, Covers, Matches, Risk

(* A call is let through by an answer: a person clicked on allow.          *)
LEMMA WokenWithConsent ==
    ASSUME CenterInv, NEW c \in Callers, Wake(c), UNCHANGED page,
           NEW d \in Callers, phase[d] # "allow", phase'[d] = "allow"
    PROVE  Consented(d)'
  <1>1. /\ phase' = [phase EXCEPT ![c] = gates[Gate(c)].answer.action] /\ phase[c] = "asking"
        /\ UNCHANGED <<count, clicks>>
    BY DEF Wake, page
  <1>2. d = c /\ gates[Gate(c)].answer.action = "allow"
    BY <1>1 DEF CenterInv, CallTypes
  <1>3. Gate(c) \in DOMAIN gates /\ gates[Gate(c)].id = Id(c)
    BY <1>1 DEF CenterInv, AskingHasGate, Pending, Gate
  <1>4. Id(c) \in clicks
    BY <1>2, <1>3 DEF CenterInv, AllowedByClick
  <1>. QED BY <1>1, <1>2, <1>4 DEF Consented, Id

(* A tool is executed only with consent for that very call: the mode asks  *)
(* for none, a person allowed this request, or the latest rule about it    *)
(* allows it.                                                              *)
THEOREM CallsHaveConsent == CenterSpec => OnlyWithConsent
  <1>1. CenterInv /\ [CenterNext]_centerVars
            => [\A c \in Callers: phase[c] # "allow" /\ phase'[c] = "allow" => Consented(c)']_centerVars
    <2>. SUFFICES ASSUME CenterInv, CenterNext, NEW d \in Callers, phase[d] # "allow", phase'[d] = "allow"
                  PROVE  Consented(d)'
      OBVIOUS
    <2>1. ~ UNCHANGED phase
      OBVIOUS
    <2>2. PICK c \in Callers: UNCHANGED page /\ (Wake(c) \/ Finish(c) \/ \E k \in ToolCalls: Check(c, k))
      BY <2>1 DEF CenterNext, PermStep, PageStep, Load, Show, Post, Click, Resolve, Truncate, Write, Edit,
                  permVars, engine
    <2>3. ~Finish(c)
      <3>. SUFFICES ASSUME Finish(c) PROVE FALSE
        OBVIOUS
      <3>1. phase' = [phase EXCEPT ![c] = "idle"]
        BY DEF Finish
      <3>. QED BY <3>1 DEF CenterInv, CallTypes
    <2>. QED BY <2>2, <2>3, CheckedWithConsent, WokenWithConsent
  <1>. QED BY <1>1, CenterKept, PTL DEF CenterSpec, OnlyWithConsent

=============================================================================
