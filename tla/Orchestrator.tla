----------------------------- MODULE Orchestrator -----------------------------
(***************************************************************************)
(* A project in which a sequential and an orchestrated run are executed at *)
(* the same time.  The orchestrator has one tool, delegate; a delegated    *)
(* agent runs its whole loop before the tool returns.                      *)
(***************************************************************************)
EXTENDS StageTools

CONSTANTS
    Provided,        \* the delegates whose provider is configured
    NeedsFile,       \* promptRequiresFileWrite(input.prompt)
    MaxDelegations   \* delegate calls, a bound of the model only

VARIABLES
    orchestrator,  \* "thinking", "waiting", "success" or "failed"
    delegated,     \* whether it has called the tool
    asked,         \* number of such calls
    summary,       \* delegatedWorkSummary: the kinds of work
    aborted,       \* signal.aborted of the orchestrated run
    (* History *)
    worked,        \* what tools really did for delegates: "write_file", "run_command"
    refused        \* whether a call of theirs that is noted as work was refused

run  == <<orchestrator, delegated, asked, summary, aborted, worked, refused>>
vars == <<toolVars, run>>

Init ==
    /\ ToolsInit
    /\ orchestrator = "thinking" /\ delegated = FALSE /\ asked = 0
    /\ summary = {} /\ aborted = FALSE /\ worked = {} /\ refused = FALSE

(* delegate(agent, task).  An agent that is unknown or has no provider is  *)
(* an error for the model to read, but the call counts.  Every delegation  *)
(* has a new registry.                                                     *)
Delegate(a) ==
    /\ orchestrator = "thinking" /\ asked < MaxDelegations /\ ~aborted
    /\ asked' = asked + 1 /\ delegated' = TRUE
    /\ IF a \in Provided
       THEN /\ orchestrator' = "waiting"
            /\ phase' = [phase EXCEPT ![a] = "working"]
            /\ work' = [work EXCEPT ![a] = {}]
            /\ NewEpoch(a)
       ELSE UNCHANGED <<orchestrator, phase, work, session>>
    /\ UNCHANGED <<project, dirs, sandboxes, calls, edits, summary, aborted, worked, refused>>

(* The tool returns: delegate:complete adds the work of an agent that did  *)
(* not fail, delegate:error adds nothing.                                  *)
Return(a) ==
    /\ orchestrator = "waiting" /\ phase[a] \in {"done", "failed"}
    /\ orchestrator' = "thinking"
    /\ phase' = [phase EXCEPT ![a] = "idle"]
    /\ summary' = IF phase[a] = "done" THEN summary \cup work[a] ELSE summary
    /\ UNCHANGED <<project, dirs, sandboxes, calls, work, session, edits,
                   delegated, asked, aborted, worked, refused>>

(* Mutant: only that the tool was called is checked.                       *)
ConvincingAnyway == delegated

(* validateOrchestratedWork, after the check that it delegated at all.     *)
Convincing ==
    /\ delegated
    /\ IF NeedsFile THEN "write_file" \in summary ELSE summary # {}

(* The orchestrator's loop ends: well, unless it was cancelled or the model *)
(* fails, the cost exceeds the limit or no work was recorded.              *)
Conclude ==
    /\ orchestrator = "thinking"
    /\ \/ orchestrator' = "failed"
       \/ Convincing /\ orchestrator' = "success"
    /\ UNCHANGED <<toolVars, delegated, asked, summary, aborted, worked, refused>>

Cancel ==
    /\ ~aborted /\ orchestrator \in {"thinking", "waiting"}
    /\ aborted' = TRUE
    /\ UNCHANGED <<toolVars, orchestrator, delegated, asked, summary, worked, refused>>

(* The loops look at the signal before every tool call.                    *)
Signalled(a) == a \in Delegates /\ aborted

AgentStep(a) ==
    \/ /\ ~Signalled(a)
       /\ \E k \in Calls[a], executed \in BOOLEAN:
             /\ Use(a, k, executed)
             /\ worked' = IF a \in Delegates /\ executed THEN worked \cup Noted(k) ELSE worked
             /\ refused' = (refused \/ (a \in Delegates /\ ~executed /\ Noted(k) # {}))
       /\ UNCHANGED <<orchestrator, delegated, asked, summary, aborted>>
    \/ (Stop(a) \/ Fail(a)) /\ UNCHANGED run

OrchestratorStep == (\E a \in Delegates: Delegate(a) \/ Return(a)) \/ Conclude

Next ==
    \/ OrchestratorStep \/ Cancel
    \/ \E a \in Agents: AgentStep(a)
    \/ (\E b \in Boxed: Answer(b) \/ Linger(b)) /\ UNCHANGED run
    \/ (\E e \in Edits: EditFile(e)) /\ UNCHANGED run

Spec == Init /\ [][Next]_vars

-----------------------------------------------------------------------------
(* Properties.                                                             *)

(* An agent is only told that it knows a file already when what it was     *)
(* shown is what the file says now, whoever changed it meanwhile; and that *)
(* it knows the listing, unless others have made or removed files.         *)
CachedAnswersTrue ==
    \A a \in Agents \ Boxed:
        /\ \A p \in Names: Hit(a, p) => seen[a][p] = disk[p].text
        /\ a \in listed /\ a \notin overtaken => names[a] = Names

(* What a sandboxed stage leaves in the project was in the diff that a     *)
(* person saw and applied, or at a path that others, or a process the      *)
(* stage left behind, changed during the review; or a command of its own   *)
(* or a link put it there past the sandbox.                                *)
OnlyReviewedWork ==
    \A p \in Paths: author[p] \in Boxed =>
        \/ phase[author[p]] = "done" /\ p \in approved[author[p]]
        \/ p \in past[author[p]]

(* An orchestrated run only succeeds when a tool did some work for it, of  *)
(* the kind the prompt asks for, unless a call that was noted as work was  *)
(* refused.                                                                *)
SuccessMeansWork ==
    orchestrator = "success" =>
        refused \/ (IF NeedsFile THEN "write_file" \in worked ELSE worked # {})
=============================================================================
