----------------------------- MODULE RunPageProofs -----------------------------
(***************************************************************************)
(* Theorems about RunPage: for any number of runs, stages, messages and    *)
(* restarts, the run manager under its page implements RunService.         *)
(***************************************************************************)
EXTENDS RunPage, SequenceTheorems, TLAPS

Workers == {"none", "refused", "preparing", "executing", "finished", "dead"}
StageStates == {"idle", "working", "asking", "ended", "failed"}
Requests == [what: {"load", "cancel", "message"}, run: Runs]
Replies == [run: Runs, active: BOOLEAN]

Types ==
    /\ status \in [Runs -> {"none", "running", "success", "failed", "cancelled"}]
    /\ worker \in [Runs -> Workers]
    /\ aborted \in [Runs -> BOOLEAN]
    /\ stage \in [Runs -> [Stages -> StageStates]]
    /\ slot \in [Runs -> Stages \cup {NoStage}]
    /\ inbox \in [Runs -> Seq(Nat)] /\ sent \in [Runs -> Seq(Nat)] /\ heard \in [Runs -> Seq(Nat)]
    /\ restarts \in Nat

PageTypes ==
    /\ followed \in Runs \cup {NoRun} /\ shown \in Runs \cup {NoRun} /\ active \in BOOLEAN
    /\ requests \in Seq(Requests) /\ replies \in Seq(Replies)

(* What the row of a run says of its execution.                            *)
RowAgrees(r) ==
    /\ worker[r] = "none" <=> status[r] = "none"
    /\ IsActive(r) => status[r] = "running"

(* Stages work, and ask, only while the run is executed.                   *)
StagesAlive(r) ==
    /\ \A s \in Stages: stage[r][s] = "working" => worker[r] = "executing"
    /\ slot[r] # NoStage => worker[r] = "executing" /\ stage[r][slot[r]] = "asking"

(* No message is lost between the handler and the orchestrator.            *)
MailKept(r) ==
    /\ worker[r] = "none" => inbox[r] = <<>> /\ sent[r] = heard[r]
    /\ IsActive(r) => heard[r] \o inbox[r] = sent[r]

Agrees == \A r \in Runs: RowAgrees(r) /\ StagesAlive(r) /\ MailKept(r)
Holds == Types /\ Agrees
ServiceInv == Holds /\ PageTypes

Unserved == UNCHANGED Service!service

-------------------------------------------------------------------------------
(* The steps of the run manager, each with the step of the service that it *)
(* is.                                                                     *)

(* The page that follows no run follows none of the runs.                  *)
LEMMA NoRunIsNoRun == NoRun \notin Runs
  BY DEF NoRun, Runs

(* What is appended to the second of two sequences is appended to both.    *)
LEMMA ConcatAppend ==
    ASSUME NEW s \in Seq(Nat), NEW t \in Seq(Nat), NEW m \in Nat
    PROVE  s \o Append(t, m) = Append(s \o t, m)
  <1>1. <<m>> \in Seq(Nat)
    OBVIOUS
  <1>2. ASSUME NEW u \in Seq(Nat)
        PROVE  (s \o t) \o u = s \o (t \o u)
    BY ConcatAssociative
  <1>3. s \o t \in Seq(Nat)
    BY ConcatProperties
  <1>4. Append(t, m) = t \o <<m>> /\ Append(s \o t, m) = (s \o t) \o <<m>>
    BY <1>3, AppendIsConcat
  <1>. QED BY <1>1, <1>2, <1>4

(* A run is registered: for the service it starts.                         *)
LEMMA RegisterServes ==
    ASSUME Holds, NEW r \in Runs, NEW how \in {"preparing", "refused"}, Register(r, how)
    PROVE  Holds' /\ Service!Accept(r)
  <1>. USE DEF Holds, Register, mail
  <1>1. Types'
    BY DEF Types, Workers
  <1>2. Agrees'
    <2>1. heard[r] \o inbox[r] = sent[r]
      BY ConcatEmptySeq DEF Types, Agrees, MailKept
    <2>. QED BY <2>1 DEF Types, Agrees, RowAgrees, StagesAlive, MailKept, IsActive, Workers
  <1>3. Service!Accept(r)
    BY DEF Types, Agrees, RowAgrees, Service!Accept
  <1>. QED BY <1>1, <1>2, <1>3

(* A run is handed to the executor.                                        *)
LEMMA LaunchServes ==
    ASSUME Holds, NEW r \in Runs, Launch(r)
    PROVE  Holds' /\ Unserved
  <1>. USE DEF Holds, Launch, mail
  <1>1. Types'
    BY DEF Types, Workers, StageStates
  <1>2. Agrees'
    BY DEF Types, Agrees, RowAgrees, StagesAlive, MailKept, IsActive, Workers
  <1>. QED BY <1>1, <1>2 DEF Unserved, Service!service

(* All that has been said and not yet heard is in the inbox.               *)
LEMMA IterateServes ==
    ASSUME Holds, NEW r \in Runs, Iterate(r)
    PROVE  Holds' /\ Service!Hear(r)
  <1>. USE DEF Holds, Iterate
  <1>1. worker[r] = "executing" /\ heard[r] \o inbox[r] = sent[r] /\ status[r] = "running"
    BY DEF Types, Agrees, StagesAlive, MailKept, RowAgrees, IsActive
  <1>2. Types'
    <2>1. heard[r] \o inbox[r] \in Seq(Nat)
      BY <1>1 DEF Types
    <2>. QED BY <2>1 DEF Types
  <1>3. Agrees'
    <2>1. sent[r] \o <<>> = sent[r]
      BY ConcatEmptySeq DEF Types
    <2>. QED BY <1>1, <2>1 DEF Types, Agrees, RowAgrees, StagesAlive, MailKept, IsActive
  <1>4. Service!Hear(r)
    BY <1>1 DEF Types, Service!Hear
  <1>. QED BY <1>2, <1>3, <1>4

(* A stage ends.                                                           *)
LEMMA StageEndsServes ==
    ASSUME Holds, NEW r \in Runs, NEW s \in Stages, StageEnds(r, s)
    PROVE  Holds' /\ Unserved
  <1>. USE DEF Holds, StageEnds, mail
  <1>1. Types'
    BY DEF Types, StageStates
  <1>2. Agrees'
    BY DEF Types, Agrees, RowAgrees, StagesAlive, MailKept, IsActive
  <1>. QED BY <1>1, <1>2 DEF Unserved, Service!service

(* A stage fails.                                                          *)
LEMMA StageFailsServes ==
    ASSUME Holds, NEW r \in Runs, NEW s \in Stages, StageFails(r, s)
    PROVE  Holds' /\ Unserved
  <1>. USE DEF Holds, mail
  <1>1. /\ stage[r][s] = "working"
        /\ UNCHANGED <<status, worker, aborted, inbox, sent, heard, restarts>>
    BY DEF StageFails
  <1>2. PICK st \in {"failed", "asking"}:
          /\ stage' = [stage EXCEPT ![r][s] = st]
          /\ slot' = slot \/ (st = "asking" /\ slot' = [slot EXCEPT ![r] = s])
    BY DEF StageFails
  <1>3. Types'
    BY <1>1, <1>2 DEF Types, StageStates
  <1>4. ASSUME NEW q \in Runs
        PROVE  (RowAgrees(q) /\ MailKept(q))'
    BY <1>1 DEF Types, Agrees, RowAgrees, MailKept, IsActive
  <1>5. worker[r] = "executing"
    BY <1>1 DEF Agrees, StagesAlive
  <1>6. ASSUME NEW q \in Runs
        PROVE  StagesAlive(q)'
    <2>1. CASE q # r
      BY <1>1, <1>2, <2>1 DEF Types, Agrees, StagesAlive
    <2>2. CASE q = r
      <3>1. slot[r] = NoStage \/ (slot[r] # s /\ slot[r] \in Stages /\ stage[r][slot[r]] = "asking")
        BY <1>1 DEF Types, Agrees, StagesAlive
      <3>2. stage'[r] = [stage[r] EXCEPT ![s] = st] /\ stage[r] \in [Stages -> StageStates]
        BY <1>2 DEF Types
      <3>3. slot'[r] = slot[r] \/ (st = "asking" /\ slot'[r] = s)
        BY <1>2 DEF Types
      <3>. QED BY <1>1, <1>5, <2>2, <3>1, <3>2, <3>3 DEF StagesAlive
    <2>. QED BY <2>1, <2>2
  <1>. QED BY <1>1, <1>3, <1>4, <1>6 DEF Agrees, Unserved, Service!service

(* The question after a failed stage is answered.                          *)
LEMMA RecoverServes ==
    ASSUME Holds, NEW r \in Runs, Recover(r)
    PROVE  Holds' /\ Unserved
  <1>1. PICK action \in {"retry", "skip", "abort"}: ResolveErrorRecovery(r, action)
    BY DEF Recover
  <1>. USE <1>1 DEF Holds, ResolveErrorRecovery, mail
  <1>2. worker[r] = "executing"
    BY DEF Types, Agrees, StagesAlive
  <1>. DEFINE answer == CASE action = "retry" -> IF aborted[r] THEN "ended" ELSE "working"
                          [] action = "skip"  -> "ended"
                          [] action = "abort" -> "failed"
  <1>3. answer \in StageStates
    BY DEF StageStates
  <1>4. stage' = [stage EXCEPT ![r][slot[r]] = answer]
    OBVIOUS
  <1>. HIDE DEF answer
  <1>5. Types'
    BY <1>3, <1>4, RunManagerAssumption DEF Types
  <1>6. Agrees'
    BY <1>2, <1>4 DEF Types, Agrees, RowAgrees, StagesAlive, MailKept, IsActive
  <1>. QED BY <1>5, <1>6 DEF Unserved, Service!service

(* A run ends.                                                             *)
LEMMA FinishServes ==
    ASSUME Holds, NEW r \in Runs, Finish(r)
    PROVE  Holds' /\ Service!End(r)
  <1>. USE DEF Holds, Finish, mail
  <1>1. PICK f \in {"success", "failed", "cancelled"}: status' = [status EXCEPT ![r] = f]
    OBVIOUS
  <1>2. status[r] = "running"
    BY DEF Types, Agrees, RowAgrees, IsActive
  <1>3. slot[r] = NoStage \/ slot[r] \in Stages
    BY DEF Types
  <1>4. Types'
    BY <1>1 DEF Types, Workers
  <1>5. Agrees'
    <2>1. slot[r] = NoStage
      BY <1>3 DEF Agrees, StagesAlive, AllSettled
    <2>. QED BY <1>1, <2>1 DEF Types, Agrees, RowAgrees, StagesAlive, MailKept, IsActive, AllSettled
  <1>6. Service!End(r)
    BY <1>1, <1>2 DEF Service!End, Service!Final
  <1>. QED BY <1>4, <1>5, <1>6

(* A run is cancelled; one that was left behind by a restart ends so.      *)
LEMMA CancelServes ==
    ASSUME Holds, NEW r \in Runs, CancelRun(r)
    PROVE  Holds' /\ (Service!End(r) \/ Unserved)
  <1>. USE DEF Holds, CancelRun, mail
  <1>1. CASE IsActive(r)
    <2>1. Types'
      BY <1>1 DEF Types
    <2>2. Agrees'
      BY <1>1 DEF Types, Agrees, RowAgrees, StagesAlive, MailKept, IsActive
    <2>. QED BY <1>1, <2>1, <2>2 DEF Unserved, Service!service
  <1>2. CASE ~IsActive(r) /\ status[r] = "running"
    <2>1. status' = [status EXCEPT ![r] = "cancelled"]
      BY <1>2
    <2>2. Types'
      BY <1>2, <2>1 DEF Types
    <2>3. Agrees'
      BY <1>2, <2>1 DEF Types, Agrees, RowAgrees, StagesAlive, MailKept, IsActive
    <2>4. Service!End(r)
      BY <1>2, <2>1 DEF Service!End, Service!Final
    <2>. QED BY <2>2, <2>3, <2>4
  <1>3. CASE ~IsActive(r) /\ status[r] # "running"
    <2>1. status' = status
      BY <1>3 DEF Types
    <2>2. Types' /\ Agrees'
      BY <1>3, <2>1 DEF Types, Agrees, RowAgrees, StagesAlive, MailKept, IsActive
    <2>. QED BY <1>3, <2>1, <2>2 DEF Unserved, Service!service
  <1>. QED BY <1>1, <1>2, <1>3

(* A message is put to a run.                                              *)
LEMMA InjectServes ==
    ASSUME Holds, NEW r \in Runs, InjectMessage(r)
    PROVE  Holds' /\ (Service!Say(r) \/ Unserved)
  <1>. USE DEF Holds, InjectMessage
  <1>. DEFINE message == Len(sent[r]) + 1
  <1>1. CASE IsActive(r) /\ r \in Orchestrated
    <2>1. status[r] = "running" /\ heard[r] \o inbox[r] = sent[r]
      BY <1>1 DEF Agrees, RowAgrees, MailKept
    <2>2. /\ heard[r] \in Seq(Nat) /\ inbox[r] \in Seq(Nat) /\ sent[r] \in Seq(Nat)
          /\ message \in Nat
      BY DEF Types
    <2>3. /\ inbox' = [inbox EXCEPT ![r] = Append(@, message)]
          /\ sent' = [sent EXCEPT ![r] = Append(@, message)]
          /\ UNCHANGED <<status, worker, aborted, stage, slot, heard, restarts>>
      BY <1>1
    <2>. HIDE DEF message
    <2>4. heard[r] \o Append(inbox[r], message) = Append(sent[r], message)
      <3>1. heard[r] \o Append(inbox[r], message) = Append(heard[r] \o inbox[r], message)
        BY <2>2, ConcatAppend
      <3>. QED BY <2>1, <3>1
    <2>5. Types'
      BY <2>2, <2>3 DEF Types
    <2>6. Agrees'
      <3>1. ASSUME NEW q \in Runs
            PROVE  (RowAgrees(q) /\ StagesAlive(q))'
        BY <2>3 DEF Agrees, RowAgrees, StagesAlive, IsActive
      <3>2. ASSUME NEW q \in Runs
            PROVE  MailKept(q)'
        <4>1. CASE q # r
          BY <2>3, <4>1 DEF Types, Agrees, MailKept, IsActive
        <4>2. CASE q = r
          <5>1. inbox'[r] = Append(inbox[r], message) /\ sent'[r] = Append(sent[r], message)
            BY <2>3 DEF Types
          <5>. QED BY <1>1, <2>3, <2>4, <4>2, <5>1 DEF MailKept, IsActive
        <4>. QED BY <4>1, <4>2
      <3>. QED BY <3>1, <3>2 DEF Agrees
    <2>7. Service!Say(r)
      BY <1>1, <2>1, <2>3 DEF message, Service!Say
    <2>. QED BY <2>5, <2>6, <2>7
  <1>2. CASE ~(IsActive(r) /\ r \in Orchestrated)
    <2>1. Types' /\ Agrees'
      BY <1>2 DEF Types, Agrees, RowAgrees, StagesAlive, MailKept, IsActive
    <2>. QED BY <1>2, <2>1 DEF Unserved, Service!service
  <1>. QED BY <1>1, <1>2

(* What is lost is what was said to the runs that were active.             *)
LEMMA RestartServes ==
    ASSUME Holds, Restart
    PROVE  Holds' /\ Service!Lose
  <1>. USE DEF Holds, Restart
  <1>1. Types'
    BY DEF Types, Workers, StageStates
  <1>2. Agrees'
    BY DEF Types, Agrees, RowAgrees, StagesAlive, MailKept, IsActive, Workers
  <1>3. Service!Lose
    <2>. DEFINE lost == {r \in Runs: IsActive(r)}
    <2>1. sent' = [r \in Runs |-> IF r \in lost THEN heard[r] ELSE sent[r]]
      OBVIOUS
    <2>. QED BY <2>1 DEF Service!Lose
  <1>. QED BY <1>1, <1>2, <1>3

(* The executor goes on.                                                   *)
LEMMA ExecutingServes ==
    ASSUME Holds, NEW r \in Runs, Executing(r)
    PROVE  Holds' /\ (Service!End(r) \/ Service!Hear(r) \/ Unserved)
  BY LaunchServes, IterateServes, FinishServes, StageEndsServes, StageFailsServes DEF Executing

-------------------------------------------------------------------------------
(* The steps of the page                                                   *)

(* The page keeps its variables in their ranges.                           *)
LEMMA PageTypesKept ==
    ASSUME ServiceInv, Next
    PROVE  PageTypes'
  <1>. USE DEF ServiceInv, PageTypes
  <1>1. ASSUME NEW r \in Runs, NEW what \in {"load", "cancel", "message"}
        PROVE  Ask(what, r) \in Requests
    BY DEF Ask, Requests
  <1>2. ASSUME NEW r \in Runs, Start(r)
        PROVE  PageTypes'
    <2>1. <<Ask("load", r), Ask("load", r)>> \in Seq(Requests)
      BY <1>1
    <2>2. requests \o <<Ask("load", r), Ask("load", r)>> \in Seq(Requests)
      BY <2>1, ConcatProperties
    <2>. QED BY <1>2, <2>2 DEF Start
  <1>3. ASSUME UNCHANGED page
        PROVE  PageTypes'
    BY <1>3 DEF page
  <1>4. ASSUME NEW what \in {"cancel", "message"}, Click(what)
        PROVE  PageTypes'
    BY <1>1, <1>4 DEF Click
  <1>5. ASSUME Serve
        PROVE  PageTypes'
    <2>. DEFINE r == Head(requests).run
    <2>1. r \in Runs /\ Tail(requests) \in Seq(Requests) /\ Head(requests) \in Requests
      <3>1. Head(requests) \in Requests /\ Tail(requests) \in Seq(Requests)
        BY <1>5, HeadTailProperties DEF Serve
      <3>. QED BY <3>1 DEF Requests
    <2>2. Append(Tail(requests), Ask("load", r)) \in Seq(Requests)
      BY <1>1, <2>1
    <2>3. Append(replies, [run |-> r, active |-> ~Ended(r)]) \in Seq(Replies)
      BY <2>1 DEF Replies, Ended
    <2>4. UNCHANGED <<followed, shown, active>>
      BY <1>5 DEF Serve
    <2>5. \/ replies' = Append(replies, [run |-> r, active |-> ~Ended(r)])
          \/ replies' = replies
      BY <1>5, <2>1 DEF Serve, Requests
    <2>6. requests' = Tail(requests) \/ requests' = Append(Tail(requests), Ask("load", r))
      BY <1>5, <2>1 DEF Serve, Requests
    <2>. HIDE DEF r
    <2>. QED BY <2>1, <2>2, <2>3, <2>4, <2>5, <2>6
  <1>6. ASSUME Show
        PROVE  PageTypes'
    <2>1. Head(replies) \in Replies /\ Tail(replies) \in Seq(Replies)
      BY <1>6, HeadTailProperties DEF Show
    <2>. QED BY <1>6, <2>1 DEF Show, Replies
  <1>7. ASSUME HearEnd
        PROVE  PageTypes'
    <2>1. followed \in Runs
      BY <1>7 DEF HearEnd
    <2>2. Append(requests, Ask("load", followed)) \in Seq(Requests)
      BY <1>1, <2>1, AppendProperties
    <2>. QED BY <1>7, <2>2 DEF HearEnd
  <1>8. ASSUME RestartServer
        PROVE  PageTypes'
    BY <1>8, EmptySeq DEF RestartServer
  <1>. QED BY <1>2, <1>3, <1>4, <1>5, <1>6, <1>7, <1>8 DEF Next

(* Every step of the page and the server is a step of the service, or none.*)
LEMMA NextServes ==
    ASSUME ServiceInv, Next
    PROVE  Holds' /\ [Service!Next]_(Service!service)
  <1>. USE DEF ServiceInv
  <1>1. ASSUME NEW r \in Runs, Start(r)
        PROVE  Holds' /\ Service!Accept(r)
    BY <1>1, RegisterServes DEF Start
  <1>2. ASSUME NEW r \in Runs, Executing(r)
        PROVE  Holds' /\ (Service!End(r) \/ Service!Hear(r) \/ Unserved)
    BY <1>2, ExecutingServes
  <1>3. ASSUME NEW r \in Runs, Recover(r)
        PROVE  Holds' /\ Unserved
    BY <1>3, RecoverServes
  <1>4. ASSUME UNCHANGED rmVars
        PROVE  Holds' /\ Unserved
    BY <1>4 DEF rmVars, mail, Holds, Types, Agrees, RowAgrees, StagesAlive, MailKept, IsActive,
                Unserved, Service!service
  <1>5. ASSUME Serve
        PROVE  Holds' /\ ((\E r \in Runs: Service!End(r) \/ Service!Say(r)) \/ Unserved)
    <2>1. Head(requests).run \in Runs /\ Head(requests).what \in {"load", "cancel", "message"}
      <3>1. Head(requests) \in Requests
        BY <1>5, HeadTailProperties DEF Serve, PageTypes
      <3>. QED BY <3>1 DEF Requests
    <2>2. \/ UNCHANGED rmVars
          \/ CancelRun(Head(requests).run)
          \/ InjectMessage(Head(requests).run)
      BY <1>5, <2>1 DEF Serve
    <2>. QED BY <1>4, <2>1, <2>2, CancelServes, InjectServes
  <1>6. ASSUME RestartServer
        PROVE  Holds' /\ Service!Lose
    BY <1>6, RestartServes DEF RestartServer
  <1>7. Holds' /\ (Service!Next \/ Unserved)
    <2>1. CASE \E r \in Runs: Start(r)
      BY <1>1, <2>1 DEF Service!Next
    <2>2. CASE \E r \in Runs: (Executing(r) \/ Recover(r)) /\ UNCHANGED page
      BY <1>2, <1>3, <2>2 DEF Service!Next
    <2>3. CASE \E what \in {"cancel", "message"}: Click(what)
      BY <1>4, <2>3 DEF Click
    <2>4. CASE Serve
      BY <1>5, <2>4 DEF Service!Next
    <2>5. CASE Show \/ HearEnd
      BY <1>4, <2>5 DEF Show, HearEnd
    <2>6. CASE RestartServer
      BY <1>6, <2>6 DEF Service!Next
    <2>. QED BY <2>1, <2>2, <2>3, <2>4, <2>5, <2>6 DEF Next
  <1>. QED BY <1>7 DEF Unserved

(* The initial states are those of the service.                            *)
LEMMA InitServes == Init => ServiceInv /\ Service!Init
  <1>. SUFFICES ASSUME Init
       PROVE  ServiceInv /\ Service!Init
    OBVIOUS
  <1>. USE DEF Init, RmInit
  <1>1. Types
    BY DEF Types, Workers, StageStates
  <1>2. PageTypes
    <2>1. <<>> \in Seq(Requests) /\ <<>> \in Seq(Replies)
      BY EmptySeq
    <2>. QED BY <2>1 DEF PageTypes
  <1>3. Agrees
    BY RunManagerAssumption DEF Agrees, RowAgrees, StagesAlive, MailKept, IsActive
  <1>. QED BY <1>1, <1>2, <1>3 DEF ServiceInv, Holds, Service!Init

-------------------------------------------------------------------------------
(* The theorem                                                             *)

(* Whatever pages ask, executions do and restarts interrupt, the run       *)
(* manager (startRun, cancelRun, injectMessage, finishRun) serves the runs *)
(* as RunService says.                                                     *)
THEOREM ServiceProvided == Spec => ServesRuns
  <1>1. Init => ServiceInv /\ Service!Init
    BY InitServes
  <1>2. ServiceInv /\ [Next]_vars => ServiceInv' /\ [Service!Next]_(Service!service)
    <2>. SUFFICES ASSUME ServiceInv, [Next]_vars
         PROVE  ServiceInv' /\ [Service!Next]_(Service!service)
      OBVIOUS
    <2>1. CASE Next
      BY <2>1, NextServes, PageTypesKept DEF ServiceInv
    <2>2. CASE UNCHANGED vars
      BY <2>2 DEF vars, rmVars, mail, page, ServiceInv, Holds, Types, PageTypes, Agrees, RowAgrees,
                  StagesAlive, MailKept, IsActive, Service!service
    <2>. QED BY <2>1, <2>2
  <1>. QED BY <1>1, <1>2, PTL DEF Spec, ServesRuns, Service!Spec

-------------------------------------------------------------------------------
(* The page at rest                                                        *)

(* Until it is disturbed the page only asks for, and is only told of, the  *)
(* run that it follows, and is still being told if it does not show it.    *)
Undisturbed ==
    ~disturbed =>
        /\ followed = NoRun => Quiet
        /\ shown \in {NoRun, followed}
        /\ \A i \in DOMAIN requests: requests[i].run = followed
        /\ \A i \in DOMAIN replies: replies[i].run = followed
        /\ shown # followed =>
              replies # <<>> \/ \E i \in DOMAIN requests: requests[i].what = "load"

RestInv == PageTypes /\ disturbed \in BOOLEAN /\ Undisturbed

(* An entry at the end of a queue is its last, and the others stay.        *)
LEMMA Appended ==
    ASSUME NEW S, NEW s \in Seq(S), NEW e \in S, NEW t, t = Append(s, e)
    PROVE  /\ DOMAIN t = DOMAIN s \cup {Len(s) + 1} /\ t[Len(s) + 1] = e
           /\ \A i \in DOMAIN s: t[i] = s[i]
  OBVIOUS

(* A queue without its head has the others.                                *)
LEMMA Tailed ==
    ASSUME NEW S, NEW s \in Seq(S), s # <<>>, NEW t, t = Tail(s)
    PROVE  /\ t \in Seq(S) /\ \A i \in DOMAIN t: i + 1 \in DOMAIN s /\ t[i] = s[i + 1]
           /\ \A i \in DOMAIN s: i = 1 \/ (i - 1 \in DOMAIN t /\ t[i - 1] = s[i])
           /\ Head(s) = s[1] /\ 1 \in DOMAIN s
  OBVIOUS

(* A run that is started while the page is at rest is all it asks for.     *)
LEMMA StartRests == ASSUME ServiceInv, RestInv, NEW r \in Runs, Start(r) PROVE Undisturbed'
  <1>1. CASE UNCHANGED <<followed, shown, requests, replies, disturbed>>
    BY <1>1 DEF RestInv, Undisturbed, Quiet
  <1>2. CASE /\ followed' = r /\ shown' = NoRun /\ UNCHANGED replies
             /\ requests' = requests \o <<Ask("load", r), Ask("load", r)>>
             /\ disturbed' = (disturbed \/ ~Quiet)
    <2>. SUFFICES ASSUME ~disturbed' PROVE Undisturbed'
      BY DEF Undisturbed
    <2>1. requests = <<>> /\ replies = <<>>
      BY <1>2 DEF Quiet
    <2>2. requests' = <<Ask("load", r), Ask("load", r)>>
      BY <1>2, <2>1 DEF Ask
    <2>3. Ask("load", r).run = r /\ Ask("load", r).what = "load"
      BY DEF Ask
    <2>4. DOMAIN requests' = {1, 2} /\ \A i \in DOMAIN requests': requests'[i] = Ask("load", r)
      BY <2>2
    <2>. QED BY <1>2, <2>1, <2>3, <2>4, NoRunIsNoRun DEF Undisturbed
  <1>. QED BY <1>1, <1>2 DEF Start

(* What a person clicks, and what the page asks when it hears of an end, is *)
(* about the run it follows.                                               *)
LEMMA AskingRests ==
    ASSUME RestInv, NEW what \in {"load", "cancel", "message"}, NEW r \in Runs,
           ~disturbed => r = followed,
           requests' = Append(requests, Ask(what, r)),
           UNCHANGED <<followed, shown, replies, disturbed>>
    PROVE  Undisturbed'
  <1>. SUFFICES ASSUME ~disturbed PROVE Undisturbed'
    BY DEF Undisturbed
  <1>1. Ask(what, r) \in Requests /\ Ask(what, r).run = followed
    BY DEF Ask, Requests
  <1>2. /\ DOMAIN requests' = DOMAIN requests \cup {Len(requests) + 1}
        /\ requests'[Len(requests) + 1].run = followed
        /\ \A i \in DOMAIN requests: requests'[i] = requests[i]
    BY <1>1, Appended DEF RestInv, PageTypes
  <1>3. followed # NoRun
    BY NoRunIsNoRun
  <1>. QED BY <1>2, <1>3 DEF RestInv, Undisturbed

(* The server answers about the run it was asked for, and the page loads   *)
(* that run again when it was cancelled.                                   *)
LEMMA ServingRests == ASSUME RestInv, Serve PROVE Undisturbed'
  <1>. SUFFICES ASSUME ~disturbed PROVE Undisturbed'
    BY DEF Serve, Undisturbed
  <1>. DEFINE r == Head(requests).run
              what == Head(requests).what
              answer == [run |-> r, active |-> ~Ended(r)]
  <1>1. requests # <<>> /\ Head(requests) \in Requests
    BY HeadTailProperties DEF Serve, RestInv, PageTypes
  <1>2. r \in Runs /\ what \in {"load", "cancel", "message"} /\ r = followed
    BY <1>1 DEF Requests, RestInv, PageTypes, Undisturbed
  <1>3. UNCHANGED <<followed, shown, disturbed>>
    BY DEF Serve
  <1>4. \/ what = "load" /\ replies' = Append(replies, answer) /\ requests' = Tail(requests)
        \/ what = "cancel" /\ replies' = replies /\ requests' = Append(Tail(requests), Ask("load", r))
        \/ what = "message" /\ replies' = replies /\ requests' = Tail(requests)
    BY <1>2 DEF Serve
  <1>5. answer \in Replies /\ answer.run = r /\ Ask("load", r) \in Requests
        /\ Ask("load", r).run = r /\ Ask("load", r).what = "load"
    BY <1>2 DEF Replies, Requests, Ask, Ended
  <1>. DEFINE rest == Tail(requests)
  <1>6. /\ rest \in Seq(Requests) /\ \A i \in DOMAIN rest: i + 1 \in DOMAIN requests /\ rest[i] = requests[i + 1]
        /\ \A i \in DOMAIN requests: i = 1 \/ (i - 1 \in DOMAIN rest /\ rest[i - 1] = requests[i])
        /\ requests[1].what = what
    BY <1>1, Tailed DEF RestInv, PageTypes
  <1>7. \A i \in DOMAIN rest: rest[i].run = followed
    BY <1>6 DEF RestInv, Undisturbed
  <1>8. what # "load" => shown = followed \/ replies # <<>> \/ \E i \in DOMAIN rest: rest[i].what = "load"
    BY <1>6 DEF RestInv, Undisturbed
  <1>9. followed # NoRun /\ shown \in {NoRun, followed} /\ \A i \in DOMAIN replies: replies[i].run = followed
    BY <1>2, NoRunIsNoRun DEF RestInv, Undisturbed
  <1>. HIDE DEF answer, rest, r, what
  <1>10. CASE what = "load" /\ replies' = Append(replies, answer) /\ requests' = rest
    <2>1. /\ DOMAIN replies' = DOMAIN replies \cup {Len(replies) + 1} /\ replies'[Len(replies) + 1] = answer
          /\ \A i \in DOMAIN replies: replies'[i] = replies[i]
      BY <1>5, <1>10, Appended DEF RestInv, PageTypes
    <2>2. replies' # <<>>
      BY <1>5, <1>10, AppendProperties DEF RestInv, PageTypes
    <2>. QED BY <1>2, <1>3, <1>5, <1>7, <1>9, <1>10, <2>1, <2>2 DEF Undisturbed
  <1>11. CASE what = "cancel" /\ replies' = replies /\ requests' = Append(rest, Ask("load", r))
    <2>1. /\ DOMAIN requests' = DOMAIN rest \cup {Len(rest) + 1} /\ requests'[Len(rest) + 1] = Ask("load", r)
          /\ \A i \in DOMAIN rest: requests'[i] = rest[i]
      BY <1>5, <1>6, <1>11, Appended
    <2>. QED BY <1>2, <1>3, <1>5, <1>7, <1>9, <1>11, <2>1 DEF Undisturbed
  <1>12. CASE what = "message" /\ replies' = replies /\ requests' = rest
    BY <1>2, <1>3, <1>7, <1>8, <1>9, <1>12 DEF Undisturbed
  <1>. QED BY <1>4, <1>10, <1>11, <1>12 DEF rest

(* The answers that the page takes are about the run it follows.           *)
LEMMA ShowingRests == ASSUME RestInv, Show PROVE Undisturbed'
  <1>. SUFFICES ASSUME ~disturbed PROVE Undisturbed'
    BY DEF Show, Undisturbed
  <1>1. /\ replies # <<>> /\ replies' = Tail(replies) /\ shown' = Head(replies).run
        /\ UNCHANGED <<followed, requests, disturbed>>
    BY DEF Show
  <1>2. /\ \A i \in DOMAIN replies': i + 1 \in DOMAIN replies /\ replies'[i] = replies[i + 1]
        /\ Head(replies) = replies[1] /\ 1 \in DOMAIN replies
    BY <1>1, Tailed DEF RestInv, PageTypes
  <1>3. shown' = followed
    BY <1>1, <1>2 DEF RestInv, Undisturbed
  <1>4. followed # NoRun
    BY <1>1 DEF RestInv, Undisturbed, Quiet
  <1>. QED BY <1>1, <1>2, <1>3, <1>4 DEF RestInv, Undisturbed

(* A page at rest shows the run it follows: no answer about another run    *)
(* comes last unless a run was started before it came (RunPipeline.tsx).   *)
THEOREM PageRests == Spec => []RestsOnItsRun
  <1>1. Init => ServiceInv /\ RestInv
    <2>1. Init => Undisturbed /\ disturbed \in BOOLEAN
      <3>. SUFFICES ASSUME Init PROVE Undisturbed /\ disturbed \in BOOLEAN
        OBVIOUS
      <3>1. followed = NoRun /\ shown = NoRun /\ requests = <<>> /\ replies = <<>> /\ disturbed = FALSE
        BY DEF Init
      <3>2. DOMAIN requests = {} /\ DOMAIN replies = {}
        BY <3>1
      <3>3. Undisturbed
        BY <3>1, <3>2 DEF Undisturbed, Quiet
      <3>. QED BY <3>1, <3>3
    <2>. QED BY <2>1, InitServes DEF RestInv, ServiceInv
  <1>2. ServiceInv /\ RestInv /\ [Next]_vars => ServiceInv' /\ RestInv'
    <2>. SUFFICES ASSUME ServiceInv, RestInv, [Next]_vars PROVE ServiceInv' /\ RestInv'
      OBVIOUS
    <2>1. CASE Next
      <3>1. ServiceInv'
        BY <2>1, NextServes, PageTypesKept DEF ServiceInv
      <3>2. disturbed' \in BOOLEAN
        BY <2>1 DEF Next, Start, page, Click, Serve, Show, HearEnd, RestartServer, RestInv
      <3>3. ASSUME UNCHANGED page PROVE Undisturbed'
        BY <3>3 DEF page, RestInv, Undisturbed, Quiet
      <3>4. ASSUME NEW what \in {"cancel", "message"}, Click(what) PROVE Undisturbed'
        <4>1. shown \in Runs /\ (~disturbed => shown = followed)
          BY <3>4 DEF Click, RestInv, PageTypes, Undisturbed
        <4>. QED BY <3>4, <4>1, AskingRests DEF Click
      <3>5. CASE HearEnd
        <4>1. followed \in Runs
          BY <3>5 DEF HearEnd, RestInv, PageTypes
        <4>. QED BY <3>5, <4>1, AskingRests, <3>1, <3>2 DEF HearEnd, RestInv, ServiceInv
      <3>6. CASE RestartServer
        <4>. SUFFICES ASSUME ~disturbed' PROVE Undisturbed'
          BY <3>1, <3>2 DEF Undisturbed, RestInv, ServiceInv
        <4>1. ~disturbed /\ requests = <<>> /\ requests' = <<>> /\ UNCHANGED <<followed, shown, replies>>
          BY <3>6 DEF RestartServer, Quiet
        <4>. QED BY <4>1 DEF RestInv, Undisturbed, Quiet
      <3>7. Undisturbed'
        BY <2>1, <3>3, <3>4, <3>5, <3>6, StartRests, ServingRests, ShowingRests DEF Next, RestInv
      <3>. QED BY <3>1, <3>2, <3>7 DEF RestInv, ServiceInv
    <2>2. CASE UNCHANGED vars
      BY <2>2 DEF vars, rmVars, mail, page, ServiceInv, Holds, Types, PageTypes, Agrees, RowAgrees,
                  StagesAlive, MailKept, IsActive, RestInv, Undisturbed, Quiet
    <2>. QED BY <2>1, <2>2
  <1>3. RestInv => RestsOnItsRun
    BY DEF RestInv, Undisturbed, RestsOnItsRun, Quiet
  <1>. QED BY <1>1, <1>2, <1>3, PTL DEF Spec
===============================================================================
