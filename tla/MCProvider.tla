------------------------------ MODULE MCProvider ------------------------------
(* The two limiters of a provider: the queue for requests per minute, and  *)
(* the calls with their window for tokens per minute.  They share nothing  *)
(* but the signal of a call, which either has in its own model, so that    *)
(* nothing is learned from their product: a behaviour is one of the queue, *)
(* or one of the calls, and the other stays as it began.                   *)
EXTENDS RpmLimiter, ProviderCall

(* Each call has a timeout of its own, and one cancel ends all of a run.   *)
OneOrAll == {{c}: c \in Calls} \cup {Calls}

(* One request asks for more tokens than one earlier entry frees.          *)
MCEstimate == [c \in Requests |-> IF c = "big" THEN 3 ELSE 1]
MCEarlier == <<[at |-> 1, tokens |-> 1], [at |-> 2, tokens |-> 1]>>

MCInit == Init /\ CallInit
QueueStep == CallInit /\ Next /\ UNCHANGED callVars
CallStep == Init /\ CallNext /\ UNCHANGED vars
MCSpec ==
    /\ MCInit /\ [][QueueStep \/ CallStep]_<<vars, callVars>>
    /\ WF_vars(CallInit /\ Fire) /\ WF_vars(CallInit /\ Refill)
===============================================================================
