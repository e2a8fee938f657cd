------------------------------- MODULE UiServer -------------------------------
(***************************************************************************)
(* The life cycle of the web UI's server: command lines that start, stop   *)
(* and restart it, the processes they spawn, the ports these find, and the *)
(* lock file ~/.openthk/ui.lock.json by which everybody finds the server.  *)
(*                                                                         *)
(* Nothing makes the commands of two terminals take turns: a start looks   *)
(* for the lock, spawns a process and waits until there is a lock; the     *)
(* process looks for a port, binds it and writes the lock.  A handler that *)
(* does not wait is one step here, so reading the lock and removing a stale *)
(* one is.                                                                 *)
(***************************************************************************)
EXTENDS Naturals, FiniteSetsExt

CONSTANTS
    Clients,     \* the command lines
    Pids,        \* of the servers that can be spawned, positive numbers
    Fallback,    \* FALLBACK_RANGE; ports are numbered from DEFAULT_PORT
    Taken,       \* ports that other programs listen on
    Wanted,      \* ports that users ask for
    Prefs,       \* ui.autostart at first
    MaxOps       \* what people do and what crashes, a bound of the model only

ASSUME UiServerAssumption ==
    /\ IsFiniteSet(Pids) /\ Pids \subseteq Nat \ {0} /\ Pids # {}
    /\ {Fallback, MaxOps} \subseteq Nat
    /\ Taken \cup Wanted \subseteq 0 .. Fallback

VARIABLES
    proc,     \* [Pids -> where the server is (none, probing, chosen, bound, serving,
              \*  dead), the port it tries or has, whether that was asked for, and
              \*  whether SIGTERM was sent]
    lock,     \* the pid in the lock file, or NoPid
    doing,    \* [Clients -> what it waits for, for which server, whether to restart]
    pref,     \* ui.autostart in config.json
    ops,
    (* History *)
    raced     \* a server was spawned while others came up or were being stopped

uiVars == <<proc, lock, doing, pref, ops, raced>>

NoPid == 0
NoPort == Fallback + 1   \* no --port
Idle  == [at |-> "idle", pid |-> NoPid, again |-> FALSE]
Does(at, p, again) == [at |-> at, pid |-> p, again |-> again]
None == [at |-> "none", port |-> 0, strict |-> FALSE, termed |-> FALSE]
Dead == [None EXCEPT !.at = "dead"]

UiInit ==
    /\ \E up \in SUBSET {Min(Pids)}:
          /\ proc = [p \in Pids |-> IF p \in up THEN [None EXCEPT !.at = "serving"] ELSE None]
          /\ lock = IF up = {} THEN NoPid ELSE Min(up)
    /\ doing = [c \in Clients |-> Idle]
    /\ pref \in Prefs
    /\ ops = 0 /\ raced = FALSE

Operate == ops < MaxOps /\ ops' = ops + 1

(* isProcessAlive                                                          *)
Alive(p) == proc[p].at \notin {"none", "dead"}

-----------------------------------------------------------------------------
(* The server process.                                                     *)

Listening(n) == n \in Taken \/ \E p \in Pids: proc[p].at \in {"bound", "serving"} /\ proc[p].port = n

(* tryPort listens for a moment itself.                                    *)
Tested(p) == \E q \in Pids \ {p}: proc[q].at = "probing" /\ proc[q].port = proc[p].port

Becomes(p, state) == proc' = [proc EXCEPT ![p].at = state]
Dies(p) == proc' = [proc EXCEPT ![p] = Dead]

(* The ports the system hands out when the others are busy.                *)
Ephemeral == NoPort .. NoPort + Cardinality(Pids)

(* resolvePort: a port that was asked for, or the first free one of the    *)
(* default, the range behind it, and what the system gives.                *)
TryPort(p) ==
    /\ proc[p].at = "probing"
    /\ LET n == proc[p].port
       IN \/ ~Listening(n) /\ Becomes(p, "chosen")
          \/ /\ Listening(n) \/ Tested(p)
             /\ \/ proc[p].strict /\ Dies(p)
                \/ ~proc[p].strict /\ n < Fallback /\ proc' = [proc EXCEPT ![p].port = n + 1]
                \/ /\ ~proc[p].strict /\ n = Fallback
                   /\ proc' = [proc EXCEPT ![p].at = "chosen",
                                           ![p].port = Min({e \in Ephemeral: ~Listening(e)})]
    /\ UNCHANGED <<lock, doing, pref, ops, raced>>

(* Bun.serve throws when somebody else has bound the port meanwhile.       *)
Serve(p) ==
    /\ proc[p].at = "chosen"
    /\ IF Listening(proc[p].port) THEN Dies(p) ELSE Becomes(p, "bound")
    /\ UNCHANGED <<lock, doing, pref, ops, raced>>

(* The lock is written over whatever is there; from now on SIGTERM is      *)
(* handled.                                                                *)
WriteLock(p) ==
    /\ proc[p].at = "bound" /\ Becomes(p, "serving") /\ lock' = p
    /\ UNCHANGED <<doing, pref, ops, raced>>

(* shutdown(): the lock is removed, whoever it names.                      *)
Shutdown(p) ==
    /\ proc[p].at = "serving" /\ proc[p].termed
    /\ Dies(p) /\ lock' = NoPid
    /\ UNCHANGED <<doing, pref, ops, raced>>

Crash(p) ==
    /\ Alive(p) /\ Operate /\ Dies(p)
    /\ UNCHANGED <<lock, doing, pref, raced>>

-----------------------------------------------------------------------------
(* The commands.                                                           *)

(* readLock: the lock of a process that is alive.  One that is not is      *)
(* removed, so whoever reads the lock leaves lock' = LiveLock.             *)
LiveLock == IF lock # NoPid /\ Alive(lock) THEN lock ELSE NoPid

ReadLock == lock' = LiveLock

Now(c, state) == doing' = [doing EXCEPT ![c] = state]

(* Bun.spawn of the command line with OPENTHK_UI_SERVER.                   *)
Spawn(c, wanted, at) ==
    LET unused == {q \in Pids: proc[q].at = "none"}
        given == IF wanted = NoPort THEN 0 ELSE wanted
    IN  /\ unused # {}
        /\ proc' = [proc EXCEPT ![Min(unused)] =
                      [at |-> "probing", port |-> given, strict |-> wanted # NoPort, termed |-> FALSE]]
        /\ Now(c, Does(at, Min(unused), FALSE))
        /\ raced' = \/ raced
                    \/ \E q \in Pids: proc[q].at \in {"probing", "chosen", "bound"}
                    \/ \E d \in Clients: doing[d].at = "stopping"

(* Mutant: a server is spawned without a look at the lock.                 *)
StartUiBlindly(c, wanted, at) == UNCHANGED lock /\ Spawn(c, wanted, at)

(* startUi, which maybeAutostartUi and restartUi call too.                 *)
StartUi(c, wanted, at) ==
    /\ ReadLock
    /\ IF LiveLock # NoPid
       THEN Now(c, Idle) /\ UNCHANGED <<proc, raced>>
       ELSE Spawn(c, wanted, at)

(* `ui start', in the background or not, and `/ui start'.                  *)
Start(c) ==
    /\ doing[c] = Idle /\ Operate
    /\ \E w \in Wanted \cup {NoPort}, at \in {"waiting", "attached"}: StartUi(c, w, at)
    /\ UNCHANGED pref

(* waitForLock sees a lock, of the child or not: "UI started".             *)
SeeLock(c) ==
    /\ doing[c].at = "waiting" /\ LiveLock # NoPid
    /\ ReadLock /\ Now(c, Idle)
    /\ UNCHANGED <<proc, pref, ops, raced>>

(* It gives up after five seconds; the child goes on.                      *)
GiveUp(c) ==
    /\ doing[c].at = "waiting" /\ LiveLock = NoPid
    /\ ReadLock /\ Now(c, Idle)
    /\ UNCHANGED <<proc, pref, ops, raced>>

(* --foreground waits for the end of the server.                           *)
Detach(c) ==
    /\ doing[c].at = "attached" /\ ~Alive(doing[c].pid)
    /\ Now(c, Idle)
    /\ UNCHANGED <<proc, lock, pref, ops, raced>>

(* stopUi asks the server of the lock to end.  restartUi goes on with      *)
(* startUi either way.                                                     *)
Stop(c) ==
    /\ doing[c] = Idle /\ Operate /\ ReadLock
    /\ \E again \in BOOLEAN:
          IF LiveLock # NoPid
          THEN Now(c, Does("stopping", lock, again)) /\ proc' = [proc EXCEPT ![lock].termed = TRUE]
          ELSE /\ Now(c, IF again THEN Does("restarting", NoPid, TRUE) ELSE Idle)
               /\ UNCHANGED proc
    /\ UNCHANGED <<pref, raced>>

(* removeLock and what follows.                                            *)
Stopped(c) ==
    /\ lock' = NoPid
    /\ Now(c, IF doing[c].again THEN Does("restarting", NoPid, TRUE) ELSE Idle)
    /\ UNCHANGED <<pref, ops, raced>>

SeeDead(c) ==
    /\ doing[c].at = "stopping" /\ ~Alive(doing[c].pid)
    /\ Stopped(c) /\ UNCHANGED proc

(* SIGKILL after three seconds.                                            *)
ForceEnd(c) ==
    /\ doing[c].at = "stopping" /\ Alive(doing[c].pid)
    /\ Dies(doing[c].pid) /\ Stopped(c)

Restart(c) ==
    /\ doing[c].at = "restarting" /\ StartUi(c, NoPort, "waiting")
    /\ UNCHANGED <<pref, ops>>

(* `ui status', `/ui status' and `/ui open' look for the lock.             *)
Status(c) ==
    /\ doing[c] = Idle /\ Operate /\ ReadLock
    /\ UNCHANGED <<proc, doing, pref, raced>>

(* saveOpenthkConfig                                                       *)
Keep(value) == pref' = value

(* A terminal starts: maybeAutostartUi asks, starts the server or does not. *)
Launch(c) ==
    /\ doing[c] = Idle /\ Operate
    /\ \/ pref = "unset" /\ Now(c, Does("asked", NoPid, FALSE)) /\ UNCHANGED <<proc, lock, raced>>
       \/ pref = "on" /\ StartUi(c, NoPort, "waiting")
       \/ pref = "off" /\ UNCHANGED <<proc, lock, doing, raced>>
    /\ UNCHANGED pref

(* The answer is kept; no answer, of a stdin that is no terminal, is not.  *)
Answer(c) ==
    /\ doing[c].at = "asked"
    /\ \/ Keep("on") /\ StartUi(c, NoPort, "waiting")
       \/ \E value \in {"off", pref}: Keep(value) /\ Now(c, Idle) /\ UNCHANGED <<proc, lock, raced>>
    /\ UNCHANGED ops

(* `/ui autostart'                                                         *)
TypeAutostart ==
    /\ Operate /\ \E value \in {"on", "off"}: Keep(value)
    /\ UNCHANGED <<proc, lock, doing, raced>>

(* The settings page can have it asked again.                              *)
Offered == {"on", "off", "unset"}

(* PUT /api/settings of a server.                                          *)
SaveSettings ==
    /\ Operate /\ \E p \in Pids: proc[p].at = "serving"
    /\ \E value \in Offered: Keep(value)
    /\ UNCHANGED <<proc, lock, doing, raced>>

UiNext ==
    \/ \E p \in Pids: TryPort(p) \/ Serve(p) \/ WriteLock(p) \/ Shutdown(p) \/ Crash(p)
    \/ \E c \in Clients:
          \/ Start(c) \/ SeeLock(c) \/ GiveUp(c) \/ Detach(c)
          \/ Stop(c) \/ SeeDead(c) \/ ForceEnd(c) \/ Restart(c)
          \/ Status(c) \/ Launch(c) \/ Answer(c)
    \/ TypeAutostart \/ SaveSettings

-----------------------------------------------------------------------------
(* Properties.                                                             *)

(* A server that serves is the one the lock names, so that it can be found *)
(* and stopped, and there is no second one, as long as nobody starts one   *)
(* while another is on its way up or a stop has not finished: whatever     *)
(* crashes, hangs, finds its port taken or comes up after its start was    *)
(* given up.                                                               *)
ServersFindable == ~raced => \A p \in Pids: proc[p].at = "serving" => lock = p
===============================================================================
