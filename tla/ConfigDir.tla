------------------------------- MODULE ConfigDir -------------------------------
(***************************************************************************)
(* ~/.openthk shared by everybody: the command lines that start and stop   *)
(* the UI server and configure providers, the servers, and a page of one   *)
(* of them.  A server that dies takes its requests with it.                *)
(***************************************************************************)
EXTENDS UiServer, ProviderStore

ASSUME ConfigDirAssumption == Clients = Terminals

vars == <<uiVars, provVars>>

Init == UiInit /\ ProviderInit

Gone == {p \in Pids: Alive(p) /\ proc'[p] = Dead}

Serving == {p \in Pids: proc[p].at = "serving"}

Ready(c) == doing[c] = Idle /\ pending[c] = NoChange

Operated == Operate /\ UNCHANGED <<proc, lock, doing, pref, raced>>

(* A command line that saves does nothing else.                            *)
LifeCycle ==
    /\ UiNext /\ Die(Gone)
    /\ \A c \in Clients: pending[c] # NoChange => doing'[c] = doing[c]

Terminal(c) ==
    \/ Ready(c) /\ Operated /\ (Configure(c) \/ Unconfigure(c))
    \/ TerminalSaves(c) /\ UNCHANGED uiVars

Page(r) ==
    \/ \E h \in Serving: (Send(r, h) \/ Refresh(r, h)) /\ Operated
    \/ Take(r, req[r].host \in Serving) /\ UNCHANGED uiVars

Next ==
    \/ LifeCycle
    \/ \E c \in Clients: Terminal(c)
    \/ \E r \in Requests: Page(r) \/ (Handle(r) /\ UNCHANGED uiVars)

Spec == Init /\ [][Next]_vars
================================================================================
