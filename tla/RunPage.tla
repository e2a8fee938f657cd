-------------------------------- MODULE RunPage --------------------------------
(***************************************************************************)
(* The page on which a person starts runs, follows the latest one, cancels *)
(* it and writes to it.  Requests and answers travel, and the page does not *)
(* ask whether an answer is about the run that it follows now.             *)
(***************************************************************************)
EXTENDS RunManager

CONSTANT MaxInFlight   \* requests of the page on their way, a bound of the model only

VARIABLES
    followed,  \* runId
    shown,     \* run.id of the run on display
    active,    \* whether the page takes the run it follows for active
    requests,  \* requests on their way to the server
    replies,   \* answers to getRun on their way back
    (* History *)
    disturbed  \* a run was started, or the server restarted, between the two

page == <<followed, shown, active, requests, replies, disturbed>>
vars == <<rmVars, page>>

NoRun == 0
Ask(what, r) == [what |-> what, run |-> r]
Quiet == requests = <<>> /\ replies = <<>>
Ended(r) == status[r] \notin {"none", "running"}

Init ==
    /\ RmInit
    /\ followed = NoRun /\ shown = NoRun /\ active = FALSE
    /\ requests = <<>> /\ replies = <<>> /\ disturbed = FALSE

(* Mutant: the page only turns to the new run.                             *)
StartUnloaded(r) ==
    /\ worker[r] = "none" /\ \A q \in 1 .. r - 1: worker[q] # "none"
    /\ \/ /\ Register(r, "preparing")
          /\ followed' = r /\ shown' = NoRun
          /\ disturbed' = (disturbed \/ ~Quiet)
       \/ /\ Register(r, "refused")
          /\ UNCHANGED <<followed, shown, disturbed>>
    /\ UNCHANGED <<active, requests, replies>>

(* "Run pipeline": with the answer to the POST the page turns to the new   *)
(* run and asks for it, once itself and once because runId has changed;    *)
(* an error leaves it where it is.                                         *)
Start(r) ==
    /\ worker[r] = "none" /\ \A q \in 1 .. r - 1: worker[q] # "none"
    /\ \/ /\ Register(r, "preparing")
          /\ followed' = r /\ shown' = NoRun
          /\ requests' = requests \o <<Ask("load", r), Ask("load", r)>>
          /\ disturbed' = (disturbed \/ ~Quiet)
       \/ /\ Register(r, "refused")
          /\ UNCHANGED <<followed, shown, requests, disturbed>>
    /\ UNCHANGED <<active, replies>>

(* A click on cancel or on send is about the run on display.               *)
Click(what) ==
    /\ shown # NoRun /\ active /\ Len(requests) + Len(replies) < MaxInFlight
    /\ what = "message" => Len(sent[shown]) < MaxMessages
    /\ requests' = Append(requests, Ask(what, shown))
    /\ UNCHANGED <<rmVars, followed, shown, active, replies, disturbed>>

(* The server answers the next request; when a cancellation is answered    *)
(* the page asks for that run again.                                       *)
Serve ==
    /\ requests # <<>>
    /\ LET r == Head(requests).run IN
       CASE Head(requests).what = "load" ->
                /\ replies' = Append(replies, [run |-> r, active |-> ~Ended(r)])
                /\ requests' = Tail(requests)
                /\ UNCHANGED rmVars
         [] Head(requests).what = "cancel" ->
                /\ CancelRun(r)
                /\ requests' = Append(Tail(requests), Ask("load", r))
                /\ UNCHANGED replies
         [] Head(requests).what = "message" ->
                /\ InjectMessage(r)
                /\ requests' = Tail(requests)
                /\ UNCHANGED replies
    /\ UNCHANGED <<followed, shown, active, disturbed>>

(* An answer to getRun is displayed, whichever run it is about.            *)
Show ==
    /\ replies # <<>> /\ replies' = Tail(replies)
    /\ shown' = Head(replies).run /\ active' = Head(replies).active
    /\ UNCHANGED <<rmVars, followed, requests, disturbed>>

(* While the page takes its run for active it is subscribed to the stream  *)
(* of the run it follows, and hears when that ends.                        *)
HearEnd ==
    /\ followed # NoRun /\ active /\ Ended(followed)
    /\ active' = FALSE
    /\ requests' = Append(requests, Ask("load", followed))
    /\ UNCHANGED <<rmVars, followed, shown, replies, disturbed>>

(* The requests of that moment fail.                                       *)
RestartServer ==
    /\ Restart
    /\ requests' = <<>> /\ disturbed' = (disturbed \/ ~Quiet)
    /\ UNCHANGED <<followed, shown, active, replies>>

Recover(r) == \E action \in {"retry", "skip", "abort"}: ResolveErrorRecovery(r, action)

Next ==
    \/ \E r \in Runs: Start(r)
    \/ \E r \in Runs: (Executing(r) \/ Recover(r)) /\ UNCHANGED page
    \/ \E what \in {"cancel", "message"}: Click(what)
    \/ Serve \/ Show \/ HearEnd \/ RestartServer

(* The executions go on and the page gets its answers; a person need not   *)
(* do anything.                                                            *)
Fairness ==
    /\ WF_vars(Serve) /\ WF_vars(Show) /\ WF_vars(HearEnd)
    /\ \A r \in Runs: WF_vars(Executing(r) /\ UNCHANGED page)

Spec == Init /\ [][Next]_vars /\ Fairness

-----------------------------------------------------------------------------
(* Properties.                                                             *)

(* The runs are served as promised, whatever the pages ask and the          *)
(* executions do (RunService): each ends at most once, and what persons     *)
(* say to an orchestrator it hears in order, each message once.             *)
Service == INSTANCE RunService WITH said <- sent

ServesRuns == Service!Spec

(* A cancelled run ends, unless it was refused after it had been           *)
(* registered, or a stage of it waits for an answer that no page gives.    *)
CancelledRunEnds ==
    \A r \in Runs:
        aborted[r] ~> \/ Ended(r) \/ worker[r] \in {"refused", "dead"}
                      \/ \E s \in Stages: stage[r][s] = "asking"

(* A page at rest shows the run that it follows, unless a run was started  *)
(* while answers about an earlier one were on their way.                   *)
RestsOnItsRun == Quiet /\ ~disturbed /\ followed # NoRun => shown = followed
=============================================================================
