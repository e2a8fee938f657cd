------------------------------ MODULE RunService ------------------------------
(***************************************************************************)
(* What the server promises of the runs it is given, whoever looks, speaks *)
(* or cancels and whenever it crashes: a run is started once and ends at   *)
(* most once, and what persons tell it is heard in order and as a whole,   *)
(* each message once, or not at all.  RunPage on RunManager is shown to    *)
(* implement it.                                                           *)
(***************************************************************************)
EXTENDS Naturals, Sequences

CONSTANTS Runs, Orchestrated

VARIABLES
    status,  \* [Runs -> "none", "running" or a final status]
    said,    \* [Runs -> the messages accepted for it and not lost]
    heard    \* [Runs -> the messages its orchestrator has got]

service == <<status, said, heard>>

Final == {"success", "failed", "cancelled"}

Init ==
    /\ status = [r \in Runs |-> "none"]
    /\ said = [r \in Runs |-> <<>>] /\ heard = [r \in Runs |-> <<>>]

Accept(r) ==
    /\ status[r] = "none" /\ status' = [status EXCEPT ![r] = "running"]
    /\ UNCHANGED <<said, heard>>

End(r) ==
    /\ status[r] = "running" /\ \E f \in Final: status' = [status EXCEPT ![r] = f]
    /\ UNCHANGED <<said, heard>>

Say(r) ==
    /\ status[r] = "running" /\ r \in Orchestrated
    /\ said' = [said EXCEPT ![r] = Append(@, Len(@) + 1)]
    /\ UNCHANGED <<status, heard>>

(* Everything that has been said by then.                                  *)
Hear(r) ==
    /\ status[r] = "running" /\ r \in Orchestrated
    /\ heard' = [heard EXCEPT ![r] = said[r]]
    /\ UNCHANGED <<status, said>>

(* The server stops: what has not been heard never will be.                *)
Lose ==
    /\ \E lost \in SUBSET Runs: said' = [r \in Runs |-> IF r \in lost THEN heard[r] ELSE said[r]]
    /\ UNCHANGED <<status, heard>>

Next == Lose \/ \E r \in Runs: Accept(r) \/ End(r) \/ Say(r) \/ Hear(r)

Spec == Init /\ [][Next]_service
===============================================================================
