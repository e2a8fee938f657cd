------------------------------ MODULE RunManager ------------------------------
(***************************************************************************)
(* The UI server's run manager: the runs it has started, their abort       *)
(* controllers, the one pending error question of each and the messages a  *)
(* person sends to an orchestrator.  PipelineExecutor, AgentLoop and RunLog *)
(* have the details of an execution and of its log; here a run is a layer  *)
(* of stages that work, fail and ask.                                      *)
(***************************************************************************)
EXTENDS Naturals, Sequences

CONSTANTS
    NumRuns,       \* runs that are started, a bound of the model only
    Stages,        \* the stages of the layer being executed
    Orchestrated,  \* the runs whose pipeline is orchestrated: one stage
    MaxMessages,   \* messages sent to a run, likewise
    MaxRestarts    \* restarts of the server, likewise

Runs == 1 .. NumRuns

NoStage == "no stage"

ASSUME RunManagerAssumption ==
    /\ Stages # {} /\ NoStage \notin Stages
    /\ NumRuns \in Nat /\ Orchestrated \subseteq Runs /\ MaxMessages \in Nat /\ MaxRestarts \in Nat

VARIABLES
    status,    \* [Runs -> runs.status, "none" before there is a row]
    worker,    \* [Runs -> how far the background execution is]
    aborted,   \* [Runs -> controller.signal.aborted]
    stage,     \* [Runs -> [Stages -> "idle", "working", "asking", "ended" or "failed"]]
    slot,      \* [Runs -> the stage whose question is pendingErrorRecovery, or NoStage]
    inbox,     \* [Runs -> injectedMessages]
    restarts,
    (* History *)
    sent,      \* [Runs -> the messages the server accepted and has not lost]
    heard      \* [Runs -> the messages the orchestrator got]

mail    == <<inbox, sent, heard>>
rmVars  == <<status, worker, aborted, stage, slot, mail, restarts>>

(* A run that is registered: `active` has it.                              *)
IsActive(r) == worker[r] \in {"refused", "preparing", "executing"}

StagesOf(r) == IF r \in Orchestrated THEN {CHOOSE s \in Stages: TRUE} ELSE Stages

RmInit ==
    /\ status = [r \in Runs |-> "none"] /\ worker = [r \in Runs |-> "none"]
    /\ aborted = [r \in Runs |-> FALSE]
    /\ stage = [r \in Runs |-> [s \in Stages |-> "idle"]]
    /\ slot = [r \in Runs |-> NoStage]
    /\ inbox = [r \in Runs |-> <<>>] /\ restarts = 0
    /\ sent = [r \in Runs |-> <<>>] /\ heard = [r \in Runs |-> <<>>]

(* startRun, once the pipeline is parsed and its providers and policies    *)
(* exist: the row is written and the run registered before the workspace   *)
(* is looked at, so a run that is refused stays in both.                   *)
Register(r, how) ==
    /\ worker[r] = "none"
    /\ status' = [status EXCEPT ![r] = "running"]
    /\ worker' = [worker EXCEPT ![r] = how]
    /\ UNCHANGED <<aborted, stage, slot, mail, restarts>>

(* The prompt is in the context store: the execution begins.               *)
Launch(r) ==
    /\ worker[r] = "preparing"
    /\ worker' = [worker EXCEPT ![r] = "executing"]
    /\ stage' = [stage EXCEPT ![r] = [s \in Stages |->
                    IF s \in StagesOf(r) /\ ~aborted[r] THEN "working" ELSE "ended"]]
    /\ UNCHANGED <<status, aborted, slot, mail, restarts>>

(* Mutant: the orchestrator gets a copy of the messages.                   *)
IterateCopies(r) ==
    /\ r \in Orchestrated /\ \E s \in Stages: stage[r][s] = "working"
    /\ inbox[r] # <<>> /\ Len(heard[r]) < 2 * MaxMessages
    /\ heard' = [heard EXCEPT ![r] = @ \o inbox[r]]
    /\ UNCHANGED <<status, worker, aborted, stage, slot, inbox, sent, restarts>>

(* An iteration of the orchestrator's loop takes the messages.             *)
Iterate(r) ==
    /\ r \in Orchestrated /\ \E s \in Stages: stage[r][s] = "working"
    /\ inbox[r] # <<>>
    /\ heard' = [heard EXCEPT ![r] = @ \o inbox[r]]
    /\ inbox' = [inbox EXCEPT ![r] = <<>>]
    /\ UNCHANGED <<status, worker, aborted, stage, slot, sent, restarts>>

StageEnds(r, s) ==
    /\ stage[r][s] = "working"
    /\ stage' = [stage EXCEPT ![r][s] = "ended"]
    /\ UNCHANGED <<status, worker, aborted, slot, mail, restarts>>

(* A stage fails, also because the run was cancelled: the error handler of *)
(* a sequential run asks, and takes the slot from whoever asked before.    *)
StageFails(r, s) ==
    /\ stage[r][s] = "working"
    /\ IF r \in Orchestrated
       THEN stage' = [stage EXCEPT ![r][s] = "failed"] /\ UNCHANGED slot
       ELSE /\ stage' = [stage EXCEPT ![r][s] = "asking"]
            /\ slot' = [slot EXCEPT ![r] = s]
    /\ UNCHANGED <<status, worker, aborted, mail, restarts>>

(* POST /api/runs/:id/error-recovery, and what the executor does with it:  *)
(* a run that was cancelled does not launch the stage again.               *)
ResolveErrorRecovery(r, action) ==
    /\ IsActive(r) /\ slot[r] # NoStage
    /\ slot' = [slot EXCEPT ![r] = NoStage]
    /\ stage' = [stage EXCEPT ![r][slot[r]] =
                    CASE action = "retry" -> IF aborted[r] THEN "ended" ELSE "working"
                      [] action = "skip"  -> "ended"
                      [] action = "abort" -> "failed"]
    /\ UNCHANGED <<status, worker, aborted, mail, restarts>>

AllSettled(r) == \A s \in Stages: stage[r][s] \in {"ended", "failed"}

(* Mutant: a cancelled run is left as it is.                               *)
FinishUncancelled(r) ==
    /\ worker[r] = "executing" /\ AllSettled(r) /\ ~aborted[r]
    /\ status' = [status EXCEPT ![r] =
                    IF \E s \in Stages: stage[r][s] = "failed" THEN "failed" ELSE "success"]
    /\ worker' = [worker EXCEPT ![r] = "finished"]
    /\ UNCHANGED <<aborted, stage, slot, mail, restarts>>

(* The execution returns: finishRun, and the run is no longer active.      *)
Finish(r) ==
    /\ worker[r] = "executing" /\ AllSettled(r)
    /\ \/ ~aborted[r] /\ status' = [status EXCEPT ![r] =
             IF \E s \in Stages: stage[r][s] = "failed" THEN "failed" ELSE "success"]
       \/ aborted[r] /\ \E st \in {"success", "cancelled"}: status' = [status EXCEPT ![r] = st]
    /\ worker' = [worker EXCEPT ![r] = "finished"]
    /\ UNCHANGED <<aborted, stage, slot, mail, restarts>>

(* POST /api/runs/:id/cancel.  A run of no living worker is marked.        *)
CancelRun(r) ==
    /\ IF IsActive(r)
       THEN aborted' = [aborted EXCEPT ![r] = TRUE] /\ UNCHANGED status
       ELSE /\ status' = [status EXCEPT ![r] = IF @ = "running" THEN "cancelled" ELSE @]
            /\ UNCHANGED aborted
    /\ UNCHANGED <<worker, stage, slot, mail, restarts>>

(* POST /api/runs/:id/message; refused unless the run is active and        *)
(* orchestrated.                                                           *)
InjectMessage(r) ==
    /\ IF IsActive(r) /\ r \in Orchestrated
       THEN /\ inbox' = [inbox EXCEPT ![r] = Append(@, Len(sent[r]) + 1)]
            /\ sent' = [sent EXCEPT ![r] = Append(@, Len(sent[r]) + 1)]
       ELSE UNCHANGED <<inbox, sent>>
    /\ UNCHANGED <<status, worker, aborted, stage, slot, heard, restarts>>

(* The server stops and is started again: what was in memory is gone.      *)
Restart ==
    /\ restarts < MaxRestarts /\ restarts' = restarts + 1
    /\ worker' = [r \in Runs |-> IF IsActive(r) THEN "dead" ELSE worker[r]]
    /\ aborted' = [r \in Runs |-> FALSE]
    /\ stage' = [r \in Runs |-> [s \in Stages |-> "idle"]]
    /\ slot' = [r \in Runs |-> NoStage]
    /\ inbox' = [r \in Runs |-> <<>>]
    /\ sent' = [r \in Runs |-> IF IsActive(r) THEN heard[r] ELSE sent[r]]
    /\ UNCHANGED <<status, heard>>

Executing(r) ==
    \/ Launch(r) \/ Iterate(r) \/ Finish(r)
    \/ \E s \in Stages: StageEnds(r, s) \/ StageFails(r, s)
=============================================================================
