---------------------------- MODULE ConfigDirProofs ----------------------------
(***************************************************************************)
(* Theorems about what everybody shares in ~/.openthk: the server that     *)
(* serves is the one that the lock names, the provider settings are what   *)
(* was last decided and what was accepted, and the page shows them.        *)
(***************************************************************************)
EXTENDS ConfigDir, WellFoundedInduction, TLAPS

(* The states of a server and of the variables of its life cycle.          *)
Server(s) == s = [at |-> s.at, port |-> s.port, strict |-> s.strict, termed |-> s.termed]

Stages == {"none", "probing", "chosen", "bound", "serving", "dead"}

UiTypes ==
    /\ DOMAIN proc = Pids /\ DOMAIN doing = Clients
    /\ \A p \in Pids: Server(proc[p]) /\ proc[p].at \in Stages
    /\ raced \in BOOLEAN /\ lock \in Pids \cup {NoPid}

(* Unless a server was spawned beside another, at most one is alive, none  *)
(* but the one that is stopped while a stop goes on, and the lock names    *)
(* the one that serves.                                                    *)
OneServer ==
    ~raced =>
        /\ \A p, q \in Pids: Alive(p) /\ Alive(q) => p = q
        /\ \A c \in Clients, p \in Pids: doing[c].at = "stopping" /\ Alive(p) => p = doing[c].pid
        /\ ServersFindable

UiInv == UiTypes /\ OneServer

(* A set of natural numbers has a smallest element.                        *)
LEMMA MinOfNaturals ==
    ASSUME NEW T, T \subseteq Nat, T # {}
    PROVE  Min(T) \in T /\ \A y \in T: Min(T) <= y
  <1>. DEFINE less == {ss \in Nat \X Nat: ss[1] < ss[2]}
  <1>1. less = OpToRel(<, Nat)
    BY DEF OpToRel
  <1>2. IsWellFoundedOn(less, Nat)
    BY <1>1, NatLessThanWellFounded
  <1>3. PICK x \in T: \A y \in T: <<y, x>> \notin less
    <2>. HIDE DEF less
    <2>. QED BY <1>2, WFMin
  <1>4. \A y \in T: ~(y < x)
    <2>1. \A y \in T: y < x => <<y, x>> \in less
      BY <1>3
    <2>. QED BY <2>1, <1>3
  <1>5. \A y \in T: x <= y
    BY <1>4
  <1>. QED BY <1>5 DEF Min

(* SIGTERM changes nothing else of a server.                               *)
LEMMA TermedServer ==
    ASSUME NEW s, Server(s), NEW b
    PROVE  Server([s EXCEPT !.termed = b]) /\ [s EXCEPT !.termed = b].at = s.at
  <1>1. PICK a, n, f, t: s = [at |-> a, port |-> n, strict |-> f, termed |-> t]
    BY DEF Server
  <1>2. [s EXCEPT !.termed = b] = [at |-> a, port |-> n, strict |-> f, termed |-> b]
    BY <1>1
  <1>. QED BY <1>1, <1>2 DEF Server

(* A step after which nobody is alive who was not keeps all of this if the *)
(* lock names who serves, and a stop that begins is of one that is alive.  *)
LEMMA NobodyNew ==
    ASSUME UiInv, UiTypes', raced' = raced,
           \A p \in Pids: Alive(p)' => Alive(p),
           \A c \in Clients: doing'[c].at = "stopping" =>
               \/ doing'[c] = doing[c]
               \/ doing'[c].pid \in Pids /\ Alive(doing'[c].pid),
           ~raced => ServersFindable'
    PROVE  UiInv'
  <1>. SUFFICES ASSUME ~raced PROVE OneServer'
    BY DEF UiInv, OneServer
  <1>1. \A p, q \in Pids: Alive(p)' /\ Alive(q)' => p = q
    BY DEF UiInv, OneServer
  <1>2. ASSUME NEW c \in Clients, NEW p \in Pids, doing'[c].at = "stopping", Alive(p)'
        PROVE  p = doing'[c].pid
    BY <1>2 DEF UiInv, OneServer
  <1>. QED BY <1>1, <1>2 DEF OneServer

(* Reading the lock finds the server that serves.                          *)
LEMMA LiveLockServes ==
    ASSUME UiInv, ~raced, NEW p \in Pids, proc[p].at = "serving"
    PROVE  LiveLock = p
  BY UiServerAssumption DEF UiInv, OneServer, ServersFindable, LiveLock, Alive, NoPid

(* Who reads the lock and changes no server leaves it to who serves.       *)
LEMMA ReadLockKeeps ==
    ASSUME UiInv, ReadLock, \A p \in Pids: proc'[p].at = proc[p].at
    PROVE  lock' \in Pids \cup {NoPid} /\ (~raced => ServersFindable')
  <1>1. lock' \in Pids \cup {NoPid}
    BY DEF ReadLock, LiveLock, UiInv, UiTypes
  <1>. QED BY <1>1, LiveLockServes DEF ReadLock, ServersFindable

(* A server that is spawned is the only one, or raced is set.              *)
LEMMA SpawnKeeps ==
    ASSUME UiInv, NEW c \in Clients, NEW asked, NEW at \in {"waiting", "attached"},
           LiveLock = NoPid, ReadLock, Spawn(c, asked, at)
    PROVE  UiInv'
  <1>. DEFINE unused == {q \in Pids: proc[q].at = "none"}
              child  == Min(unused)
  <1>. DEFINE state == [at |-> "probing", port |-> IF asked = NoPort THEN 0 ELSE asked,
                        strict |-> asked # NoPort, termed |-> FALSE]
  <1>1. proc' = [proc EXCEPT ![child] = state] /\ Server(state) /\ state.at = "probing"
    BY DEF Spawn, Server
  <1>2. doing' = [doing EXCEPT ![c] = Does(at, child, FALSE)]
    BY DEF Spawn, Now
  <1>3. raced' = \/ raced
                 \/ \E q \in Pids: proc[q].at \in {"probing", "chosen", "bound"}
                 \/ \E d \in Clients: doing[d].at = "stopping"
    BY DEF Spawn
  <1>. HIDE DEF child, state
  <1>4. UiTypes'
    BY <1>1, <1>2, <1>3 DEF UiInv, UiTypes, Stages, ReadLock
  <1>5. ASSUME ~raced' PROVE OneServer'
    <2>1. \A q \in Pids: ~Alive(q)
      <3>1. \A q \in Pids: proc[q].at # "serving"
        BY <1>3, <1>5, LiveLockServes, UiServerAssumption DEF NoPid
      <3>. QED BY <3>1, <1>3, <1>5 DEF UiInv, UiTypes, Stages, Alive
    <2>2. \A q \in Pids: Alive(q)' => q = child
      BY <1>1, <2>1 DEF Alive, UiInv, UiTypes
    <2>3. \A d \in Clients: doing'[d].at # "stopping"
      BY <1>2, <1>3, <1>5 DEF UiInv, UiTypes, Does
    <2>4. ServersFindable'
      BY <1>1, <2>1 DEF ServersFindable, Alive, UiInv, UiTypes
    <2>. QED BY <2>2, <2>3, <2>4 DEF OneServer
  <1>. QED BY <1>4, <1>5 DEF UiInv, OneServer

(* startUi, whoever calls it.                                              *)
LEMMA StartUiKeeps ==
    ASSUME UiInv, NEW c \in Clients, NEW asked, NEW at \in {"waiting", "attached"},
           StartUi(c, asked, at)
    PROVE  UiInv'
  <1>1. CASE LiveLock = NoPid
    BY <1>1, SpawnKeeps DEF StartUi
  <1>2. CASE LiveLock # NoPid
    <2>1. ReadLock /\ doing' = [doing EXCEPT ![c] = Idle] /\ UNCHANGED <<proc, raced>>
      BY <1>2 DEF StartUi, Now
    <2>2. lock' \in Pids \cup {NoPid} /\ (~raced => ServersFindable')
      BY <2>1, ReadLockKeeps
    <2>. QED BY <2>1, <2>2, NobodyNew DEF UiInv, UiTypes, Idle, Alive
  <1>. QED BY <1>1, <1>2

(* A server on its way up, and its end.                                    *)
LEMMA ServerKeeps ==
    ASSUME UiInv, NEW p \in Pids,
           TryPort(p) \/ Serve(p) \/ WriteLock(p) \/ Shutdown(p) \/ Crash(p)
    PROVE  UiInv'
  <1>1. CASE TryPort(p)
    <2>1. PICK state: /\ proc' = [proc EXCEPT ![p] = state]
                      /\ Server(state) /\ state.at \in {"probing", "chosen", "dead"}
      BY <1>1 DEF TryPort, Becomes, Dies, Dead, None, Server, UiInv, UiTypes
    <2>2. UNCHANGED <<lock, doing, raced>> /\ proc[p].at = "probing"
      BY <1>1 DEF TryPort
    <2>. QED BY <2>1, <2>2, NobodyNew DEF UiInv, UiTypes, Stages, Alive, ServersFindable, OneServer
  <1>2. CASE Serve(p)
    <2>1. PICK state: /\ proc' = [proc EXCEPT ![p] = state]
                      /\ Server(state) /\ state.at \in {"bound", "dead"}
      BY <1>2 DEF Serve, Becomes, Dies, Dead, None, Server, UiInv, UiTypes
    <2>2. UNCHANGED <<lock, doing, raced>> /\ proc[p].at = "chosen"
      BY <1>2 DEF Serve
    <2>. QED BY <2>1, <2>2, NobodyNew DEF UiInv, UiTypes, Stages, Alive, ServersFindable, OneServer
  <1>3. CASE WriteLock(p)
    <2>. DEFINE state == [proc[p] EXCEPT !.at = "serving"]
    <2>1. proc' = [proc EXCEPT ![p] = state] /\ Server(state) /\ state.at = "serving"
      BY <1>3 DEF WriteLock, Becomes, Server, UiInv, UiTypes
    <2>. HIDE DEF state
    <2>2. lock' = p /\ UNCHANGED <<doing, raced>> /\ proc[p].at = "bound"
      BY <1>3 DEF WriteLock
    <2>3. ~raced => ServersFindable'
      BY <2>1, <2>2 DEF UiInv, UiTypes, OneServer, Alive, ServersFindable
    <2>. QED BY <2>1, <2>2, <2>3, NobodyNew DEF UiInv, UiTypes, Stages, Alive
  <1>4. CASE Shutdown(p)
    <2>1. proc' = [proc EXCEPT ![p] = Dead] /\ proc[p].at = "serving" /\ lock' = NoPid /\ UNCHANGED <<doing, raced>>
      BY <1>4 DEF Shutdown, Dies
    <2>2. ~raced => ServersFindable'
      BY <2>1 DEF UiInv, UiTypes, OneServer, Alive, ServersFindable, Dead, None
    <2>. QED BY <2>1, <2>2, NobodyNew DEF UiInv, UiTypes, Stages, Server, Alive, Dead, None
  <1>5. CASE Crash(p)
    <2>1. proc' = [proc EXCEPT ![p] = Dead] /\ Alive(p) /\ UNCHANGED <<lock, doing, raced>>
      BY <1>5 DEF Crash, Dies
    <2>. QED
      BY <2>1, NobodyNew
         DEF UiInv, UiTypes, Stages, Server, Alive, ServersFindable, OneServer, Dead, None
  <1>. QED BY <1>1, <1>2, <1>3, <1>4, <1>5

(* A command that looks at the lock and waits for something else, or has   *)
(* nothing to wait for.                                                    *)
LEMMA LookKeeps ==
    ASSUME UiInv, NEW c \in Clients, SeeLock(c) \/ GiveUp(c) \/ Detach(c) \/ Status(c)
    PROVE  UiInv'
  <1>1. PICK d \in {doing, [doing EXCEPT ![c] = Idle]}: doing' = d
    BY DEF SeeLock, GiveUp, Detach, Status, Now
  <1>2. UNCHANGED <<proc, raced>>
    BY DEF SeeLock, GiveUp, Detach, Status
  <1>3. lock' \in Pids \cup {NoPid} /\ (~raced => ServersFindable')
    BY <1>2, ReadLockKeeps DEF SeeLock, GiveUp, Detach, Status, ServersFindable, UiInv, UiTypes, OneServer
  <1>4. UiTypes' /\ \A e \in Clients: doing'[e].at = "stopping" => doing'[e] = doing[e]
    BY <1>1, <1>2, <1>3 DEF UiInv, UiTypes, Idle
  <1>. QED BY <1>2, <1>3, <1>4, NobodyNew DEF Alive

(* A stop asks the server that the lock names, and removes the lock only   *)
(* when no other can have come.                                            *)
LEMMA StopKeeps ==
    ASSUME UiInv, NEW c \in Clients, Stop(c) \/ SeeDead(c) \/ ForceEnd(c)
    PROVE  UiInv'
  <1>1. CASE Stop(c) /\ LiveLock # NoPid
    <2>1. PICK again \in BOOLEAN:
            /\ doing' = [doing EXCEPT ![c] = Does("stopping", lock, again)]
            /\ proc' = [proc EXCEPT ![lock].termed = TRUE]
      BY <1>1 DEF Stop, Now
    <2>2. ReadLock /\ raced' = raced /\ Alive(lock)
      BY <1>1 DEF Stop, LiveLock
    <2>3. /\ DOMAIN proc' = Pids /\ \A p \in Pids: Server(proc'[p]) /\ proc'[p].at = proc[p].at
      <3>. DEFINE state == [proc[lock] EXCEPT !.termed = TRUE]
      <3>1. lock \in Pids
        BY <1>1 DEF LiveLock, UiInv, UiTypes
      <3>2. Server(state) /\ state.at = proc[lock].at
        BY <3>1, TermedServer DEF UiInv, UiTypes
      <3>3. proc' = [proc EXCEPT ![lock] = state]
        BY <2>1
      <3>. HIDE DEF state
      <3>. QED BY <3>1, <3>2, <3>3 DEF UiInv, UiTypes
    <2>4. lock' = lock /\ lock \in Pids /\ (~raced => ServersFindable')
      BY <1>1, <2>2, <2>3, ReadLockKeeps DEF ReadLock, LiveLock, UiInv, UiTypes
    <2>5. UiTypes' /\ Alive(lock)'
      BY <2>1, <2>2, <2>3, <2>4 DEF UiInv, UiTypes, Alive
    <2>6. \A e \in Clients: doing'[e].at = "stopping" => doing'[e] = doing[e] \/ doing'[e].pid = lock
      BY <2>1 DEF UiInv, UiTypes, Does
    <2>. QED BY <2>2, <2>3, <2>4, <2>5, <2>6, NobodyNew DEF Alive
  <1>2. CASE Stop(c) /\ LiveLock = NoPid
    <2>1. /\ doing' \in {[doing EXCEPT ![c] = Idle], [doing EXCEPT ![c] = Does("restarting", NoPid, TRUE)]}
          /\ ReadLock /\ UNCHANGED <<proc, raced>>
      BY <1>2 DEF Stop, Now
    <2>2. lock' \in Pids \cup {NoPid} /\ (~raced => ServersFindable')
      BY <2>1, ReadLockKeeps
    <2>3. UiTypes' /\ \A e \in Clients: doing'[e].at = "stopping" => doing'[e] = doing[e]
      BY <2>1, <2>2 DEF UiInv, UiTypes, Idle, Does
    <2>. QED BY <2>1, <2>2, <2>3, NobodyNew DEF Alive
  <1>3. CASE SeeDead(c) \/ ForceEnd(c)
    <2>1. /\ doing' \in {[doing EXCEPT ![c] = Idle], [doing EXCEPT ![c] = Does("restarting", NoPid, TRUE)]}
          /\ doing[c].at = "stopping" /\ raced' = raced /\ lock' = NoPid
      BY <1>3 DEF SeeDead, ForceEnd, Stopped, Now
    <2>2. \/ proc' = proc /\ ~Alive(doing[c].pid)
          \/ proc' = [proc EXCEPT ![doing[c].pid] = Dead]
      BY <1>3 DEF SeeDead, ForceEnd, Dies
    <2>3. UiTypes' /\ \A e \in Clients: doing'[e].at = "stopping" => doing'[e] = doing[e]
      BY <2>1, <2>2 DEF UiInv, UiTypes, Idle, Does, Dead, None, Server, Stages
    <2>4. \A p \in Pids: Alive(p)' => Alive(p) /\ p # doing[c].pid
      BY <2>2 DEF UiInv, UiTypes, Alive, Dead, None
    <2>5. ~raced => \A p \in Pids: ~Alive(p)'
      BY <2>1, <2>4 DEF UiInv, OneServer
    <2>6. ~raced => ServersFindable'
      BY <2>5 DEF ServersFindable, Alive
    <2>. QED BY <2>1, <2>3, <2>4, <2>6, NobodyNew
  <1>. QED BY <1>1, <1>2, <1>3

(* Every step of servers and commands keeps the invariant.                 *)
LEMMA UiStepKeeps == ASSUME UiInv, UiNext PROVE UiInv'
  <1>1. CASE \E p \in Pids: TryPort(p) \/ Serve(p) \/ WriteLock(p) \/ Shutdown(p) \/ Crash(p)
    BY <1>1, ServerKeeps
  <1>2. CASE \E c \in Clients: SeeLock(c) \/ GiveUp(c) \/ Detach(c) \/ Status(c)
    BY <1>2, LookKeeps
  <1>3. CASE \E c \in Clients: Stop(c) \/ SeeDead(c) \/ ForceEnd(c)
    BY <1>3, StopKeeps
  <1>4. CASE \E c \in Clients: \E w \in Wanted \cup {NoPort}, at \in {"waiting", "attached"}: StartUi(c, w, at)
    BY <1>4, StartUiKeeps
  <1>5. CASE \E c \in Clients: doing' = [doing EXCEPT ![c] = Does("asked", NoPid, FALSE)]
                              /\ UNCHANGED <<proc, lock, raced>>
    BY <1>5, NobodyNew DEF UiInv, UiTypes, OneServer, ServersFindable, Alive, Does
  <1>6. CASE \E c \in Clients: doing' = [doing EXCEPT ![c] = Idle] /\ UNCHANGED <<proc, lock, raced>>
    BY <1>6, NobodyNew DEF UiInv, UiTypes, OneServer, ServersFindable, Alive, Idle
  <1>7. CASE UNCHANGED <<proc, lock, doing, raced>>
    BY <1>7 DEF UiInv, UiTypes, OneServer, ServersFindable, Alive
  <1>8. ASSUME NEW c \in Clients, Start(c) \/ Restart(c) \/ Launch(c) \/ Answer(c) PROVE UiInv'
    BY <1>4, <1>5, <1>6, <1>7, <1>8 DEF Start, Restart, Launch, Answer, Now
  <1>. QED BY <1>1, <1>2, <1>3, <1>7, <1>8 DEF UiNext, TypeAutostart, SaveSettings

(* At first there is no server, or one that the lock names.                *)
LEMMA UiInitially == Init => UiInv
  <1>. SUFFICES ASSUME Init PROVE UiInv
    OBVIOUS
  <1>1. PICK up \in SUBSET {Min(Pids)}:
          /\ proc = [p \in Pids |-> IF p \in up THEN [None EXCEPT !.at = "serving"] ELSE None]
          /\ lock = IF up = {} THEN NoPid ELSE Min(up)
    BY DEF Init, UiInit
  <1>2. doing = [c \in Clients |-> Idle] /\ raced = FALSE
    BY DEF Init, UiInit
  <1>3. \A p \in Pids: Min({p}) = p
    BY UiServerAssumption, MinOfNaturals
  <1>4. Min(Pids) \in Pids
    BY UiServerAssumption, MinOfNaturals
  <1>5. UiTypes /\ \A c \in Clients: doing[c].at # "stopping"
    <2>1. up = {} \/ up = {Min(Pids)}
      OBVIOUS
    <2>2. lock \in Pids \cup {NoPid}
      BY <1>1, <1>3, <1>4, <2>1
    <2>. QED BY <1>1, <1>2, <2>2 DEF UiTypes, Server, Stages, None, Idle
  <1>6. \A p \in Pids: Alive(p) => p = Min(Pids) /\ up = {p}
    BY <1>1 DEF Alive, None
  <1>. QED BY <1>1, <1>3, <1>5, <1>6 DEF UiInv, OneServer, ServersFindable, Alive

-----------------------------------------------------------------------------
(* What the file, and what is about to be written to it, looks like.       *)
FileTypes ==
    /\ DOMAIN file = Ids /\ DOMAIN wanted = Ids /\ DOMAIN pending = Writers
    /\ \A w \in Writers: pending[w] = [step |-> pending[w].step, text |-> pending[w].text]
    /\ \A w \in Writers: DOMAIN pending[w].text = Ids
    /\ harmed \in BOOLEAN

(* Unless writers overlap, the one that writes has the wanted text, and    *)
(* has emptied the file when it is about to write.                         *)
OneWriter ==
    ~harmed =>
        /\ \A v, w \in Writers: pending[v] # NoChange /\ pending[w] # NoChange => v = w
        /\ \A w \in Writers: pending[w] # NoChange => pending[w].text = wanted
        /\ \A w \in Writers: pending[w].step = "truncated" => file = Nothing
        /\ EntriesKept

(* What is in the file or about to be was accepted if it is marked so.     *)
Backed(text) ==
    \A id \in Ids: text[id].checked => <<id, text[id].key, text[id].url>> \in accepted
AllBacked == Backed(file) /\ \A w \in Writers: Backed(pending[w].text)

FileInv == FileTypes /\ OneWriter /\ AllBacked

(* An entry that was accepted, if it is marked so, can be put into a text  *)
(* whose others were.                                                      *)
LEMMA BackedChange ==
    ASSUME NEW text, DOMAIN text = Ids, Backed(text), NEW id, NEW entry,
           accepted \subseteq accepted',
           entry.checked => <<id, entry.key, entry.url>> \in accepted'
    PROVE  \A i \in Ids: [text EXCEPT ![id] = entry][i].checked =>
               <<i, [text EXCEPT ![id] = entry][i].key, [text EXCEPT ![id] = entry][i].url>> \in accepted'
  <1>. DEFINE new == [text EXCEPT ![id] = entry]
  <1>1. \A i \in Ids: new[i] = IF i = id THEN entry ELSE text[i]
    OBVIOUS
  <1>. HIDE DEF new
  <1>2. ASSUME NEW i \in Ids, new[i].checked PROVE <<i, new[i].key, new[i].url>> \in accepted'
    <2>1. CASE i = id
      BY <1>1, <1>2, <2>1
    <2>2. CASE i # id
      BY <1>1, <1>2, <2>2 DEF Backed
    <2>. QED BY <2>1, <2>2
  <1>. QED BY <1>2 DEF new

(* A writer that loads the file has what is wanted, and the others nothing,*)
(* or harm is noted.                                                       *)
LEMMA ChangeKeeps ==
    ASSUME FileInv, NEW w \in Writers, NEW id, NEW entry, Change(w, id, entry),
           accepted \subseteq accepted',
           entry.checked => <<id, entry.key, entry.url>> \in accepted'
    PROVE  FileInv'
  <1>. DEFINE text  == [file EXCEPT ![id] = entry]
              write == [step |-> "loaded", text |-> text]
  <1>1. /\ pending' = [pending EXCEPT ![w] = write] /\ file' = file
        /\ wanted' = [wanted EXCEPT ![id] = entry]
        /\ harmed' = (harmed \/ \E v \in Writers: pending[v] # NoChange)
    BY DEF Change
  <1>2. DOMAIN text = Ids /\ (file = wanted => text = wanted')
    BY <1>1 DEF FileInv, FileTypes
  <1>3. \A i \in Ids: text[i].checked => <<i, text[i].key, text[i].url>> \in accepted'
    BY BackedChange DEF FileInv, FileTypes, AllBacked
  <1>. HIDE DEF text
  <1>4. write # NoChange /\ write.step = "loaded" /\ write.text = text
    BY DEF NoChange
  <1>. HIDE DEF write
  <1>5. FileTypes'
    BY <1>1, <1>2, <1>4 DEF FileInv, FileTypes, write
  <1>6. ASSUME ~harmed' PROVE OneWriter'
    <2>1. (\A v \in Writers: pending[v] = NoChange) /\ ~harmed
      BY <1>1, <1>6
    <2>2. file = wanted
      BY <2>1 DEF FileInv, OneWriter, EntriesKept, AtRest
    <2>3. \A v \in Writers: pending'[v] = IF v = w THEN write ELSE NoChange
      BY <1>1, <2>1 DEF FileInv, FileTypes
    <2>4. \A v \in Writers: pending'[v].step # "truncated"
      BY <2>3, <1>4 DEF NoChange
    <2>. QED BY <1>2, <1>4, <2>2, <2>3, <2>4 DEF OneWriter, EntriesKept, AtRest
  <1>7. AllBacked'
    <2>1. Backed(file)'
      BY <1>1 DEF FileInv, AllBacked, Backed
    <2>2. ASSUME NEW v \in Writers PROVE Backed(pending[v].text)'
      <3>1. CASE v = w
        BY <1>1, <1>3, <1>4, <3>1 DEF FileInv, FileTypes, Backed
      <3>2. CASE v # w
        BY <1>1, <3>2 DEF FileInv, FileTypes, AllBacked, Backed
      <3>. QED BY <3>1, <3>2
    <2>. QED BY <2>1, <2>2 DEF AllBacked
  <1>. QED BY <1>5, <1>6, <1>7 DEF FileInv, OneWriter

(* Nothing is marked in a text without entries.                            *)
LEMMA NothingBacked == Backed(Nothing) /\ DOMAIN Nothing = Ids
  <1>1. \A id \in Ids: Nothing[id] = NoEntry
    BY DEF Nothing
  <1>2. ~NoEntry.checked
    BY DEF NoEntry
  <1>. QED BY <1>1, <1>2 DEF Backed, Nothing

(* A change whose file is emptied keeps its text.                          *)
LEMMA EmptiedChange ==
    ASSUME NEW c, c = [step |-> c.step, text |-> c.text]
    PROVE  [c EXCEPT !.step = "truncated"] = [step |-> "truncated", text |-> c.text]
  <1>1. PICK a, t: c = [step |-> a, text |-> t]
    OBVIOUS
  <1>. QED BY <1>1

(* Emptying the file and writing it.                                       *)
LEMMA SavesKeep ==
    ASSUME FileInv, NEW w \in Writers, Saves(w), accepted' = accepted
    PROVE  FileInv'
  <1>. USE DEF FileInv
  <1>1. CASE Truncate(w)
    <2>. DEFINE write == [step |-> "truncated", text |-> pending[w].text]
    <2>1. /\ file' = Nothing /\ pending' = [pending EXCEPT ![w] = write] /\ UNCHANGED <<wanted, harmed>>
          /\ pending[w].step = "loaded"
      BY <1>1, EmptiedChange DEF Truncate, FileTypes
    <2>2. write # NoChange /\ write.step = "truncated" /\ write.text = pending[w].text
          /\ pending[w] # NoChange
      BY <2>1 DEF NoChange
    <2>. HIDE DEF write
    <2>3. \A v \in Writers: pending'[v] = IF v = w THEN write ELSE pending[v]
      BY <2>1 DEF FileTypes
    <2>4. FileTypes'
      BY <2>1, <2>2, <2>3, NothingBacked DEF FileTypes, write
    <2>5. OneWriter'
      BY <2>1, <2>2, <2>3 DEF OneWriter, EntriesKept, AtRest
    <2>6. AllBacked'
      BY <2>1, <2>2, <2>3, NothingBacked DEF AllBacked, Backed
    <2>. QED BY <2>4, <2>5, <2>6
  <1>2. CASE Write(w)
    <2>1. /\ file' = pending[w].text \/ (file # Nothing /\ file' = Nothing)
          /\ pending' = [pending EXCEPT ![w] = NoChange] /\ UNCHANGED <<wanted, harmed>>
          /\ pending[w].step = "truncated"
      BY <1>2 DEF Write
    <2>2. \A v \in Writers: pending'[v] = IF v = w THEN NoChange ELSE pending[v]
      BY <2>1 DEF FileTypes
    <2>3. NoChange.step = "none" /\ NoChange.text = Nothing /\ pending[w] # NoChange
          /\ NoChange = [step |-> NoChange.step, text |-> NoChange.text]
      BY <2>1 DEF NoChange
    <2>4. FileTypes'
      BY <2>1, <2>2, <2>3, NothingBacked DEF FileTypes
    <2>5. OneWriter'
      BY <2>1, <2>2, <2>3 DEF OneWriter, EntriesKept, AtRest
    <2>6. AllBacked'
      <3>1. Backed(file)'
        BY <2>1, NothingBacked DEF AllBacked, Backed
      <3>2. ASSUME NEW v \in Writers PROVE Backed(pending[v].text)'
        BY <2>1, <2>2, <2>3, NothingBacked DEF AllBacked, Backed
      <3>. QED BY <3>1, <3>2 DEF AllBacked
    <2>. QED BY <2>4, <2>5, <2>6
  <1>. QED BY <1>1, <1>2 DEF Saves

(* Servers that die: only a write that is lost with one does harm.         *)
LEMMA DieKeepsFile == ASSUME FileInv, Die(Gone) PROVE FileInv'
  <1>. USE DEF FileInv
  <1>1. PICK lost \in SUBSET Requests:
          /\ pending' = [w \in Writers |-> IF w \in lost THEN NoChange ELSE pending[w]]
          /\ harmed' = (harmed \/ \E r \in lost: pending[r] # NoChange)
    BY DEF Die
  <1>2. UNCHANGED <<file, wanted, accepted>>
    BY DEF Die
  <1>3. NoChange.step = "none" /\ NoChange.text = Nothing
        /\ NoChange = [step |-> NoChange.step, text |-> NoChange.text]
    BY DEF NoChange
  <1>4. FileTypes'
    BY <1>1, <1>2, <1>3, NothingBacked DEF FileTypes
  <1>5. ASSUME ~harmed' PROVE OneWriter'
    <2>1. ~harmed /\ \A w \in Writers: pending'[w] = pending[w]
      BY <1>1, <1>5
    <2>. QED BY <1>2, <2>1 DEF OneWriter, EntriesKept, AtRest
  <1>6. AllBacked'
    <2>1. Backed(file)'
      BY <1>2 DEF AllBacked, Backed
    <2>2. ASSUME NEW v \in Writers PROVE Backed(pending[v].text)'
      BY <1>1, <1>2, <1>3, NothingBacked DEF AllBacked, Backed
    <2>. QED BY <2>1, <2>2 DEF AllBacked
  <1>. QED BY <1>4, <1>5, <1>6 DEF OneWriter

-----------------------------------------------------------------------------

(* The states of a request.                                                *)
Asked == {"list", "save", "check", "remove"}

Request(q) == q = [kind |-> q.kind, id |-> q.id, host |-> q.host, step |-> q.step,
                   values |-> q.values, entry |-> q.entry, list |-> q.list]

PageTypes ==
    /\ DOMAIN req = Requests
    /\ \A r \in Requests: Request(req[r]) /\ (req[r] = Free \/ req[r].kind \in Asked)
    /\ disturbed \in BOOLEAN

(* A handler that writes has not answered.                                 *)
HandlersWrite == \A r \in Requests: pending[r] # NoChange => req[r].step = "saving"

(* Unless the page was disturbed it has one request at a time, nobody else *)
(* writes, and what is shown or on its way is what the file has, until a   *)
(* change of its own was answered.                                         *)
PageUndisturbed ==
    ~disturbed =>
        /\ \A q, r \in Requests: req[q] # Free /\ req[r] # Free => q = r
        /\ \A t \in Terminals: pending[t] = NoChange
        /\ (\A r \in Requests: req[r] = Free) => shown = Listing
        /\ \A r \in Requests:
              req[r].kind \in {"save", "check", "remove"} /\ req[r].step \in {"sent", "checking", "refused"}
                  => shown = Listing
        /\ \A r \in Requests:
              req[r].kind = "list" => req[r].step \in {"sent", "ok"}
                                      /\ (req[r].step = "ok" => req[r].list = Listing)

PageInv == PageTypes /\ HandlersWrite /\ PageUndisturbed

(* What a step of a handler changes of a request.                          *)
LEMMA SteppedRequest ==
    ASSUME NEW q, Request(q), NEW x
    PROVE  /\ Request([q EXCEPT !.step = x])
           /\ [q EXCEPT !.step = x].step = x
           /\ [q EXCEPT !.step = x].kind = q.kind
           /\ [q EXCEPT !.step = x].list = q.list
  <1>1. PICK a, b, c, d, e, f, g:
          q = [kind |-> a, id |-> b, host |-> c, step |-> d, values |-> e, entry |-> f, list |-> g]
    BY DEF Request
  <1>2. [q EXCEPT !.step = x] =
          [kind |-> a, id |-> b, host |-> c, step |-> x, values |-> e, entry |-> f, list |-> g]
    BY <1>1
  <1>. QED BY <1>1, <1>2 DEF Request

(* The list that is answered changes nothing else of it.                   *)
LEMMA ListedRequest ==
    ASSUME NEW q, Request(q), NEW x
    PROVE  /\ Request([q EXCEPT !.list = x]) /\ [q EXCEPT !.list = x].step = q.step
           /\ [q EXCEPT !.list = x].kind = q.kind /\ [q EXCEPT !.list = x].list = x
  <1>1. PICK a, b, c, d, e, f, g:
          q = [kind |-> a, id |-> b, host |-> c, step |-> d, values |-> e, entry |-> f, list |-> g]
    BY DEF Request
  <1>2. [q EXCEPT !.list = x] =
          [kind |-> a, id |-> b, host |-> c, step |-> d, values |-> e, entry |-> f, list |-> x]
    BY <1>1
  <1>. QED BY <1>1, <1>2 DEF Request

(* Neither does the entry that is about to be saved.                       *)
LEMMA ConsideredRequest ==
    ASSUME NEW q, Request(q), NEW x
    PROVE  /\ Request([q EXCEPT !.entry = x]) /\ [q EXCEPT !.entry = x].step = q.step
           /\ [q EXCEPT !.entry = x].kind = q.kind
  <1>1. PICK a, b, c, d, e, f, g:
          q = [kind |-> a, id |-> b, host |-> c, step |-> d, values |-> e, entry |-> f, list |-> g]
    BY DEF Request
  <1>2. [q EXCEPT !.entry = x] =
          [kind |-> a, id |-> b, host |-> c, step |-> d, values |-> e, entry |-> x, list |-> g]
    BY <1>1
  <1>. QED BY <1>1, <1>2 DEF Request

(* A request that is free has not been asked.                              *)
LEMMA FreeRequest == Request(Free) /\ Free.step = "free" /\ Free.kind = "none"
  BY DEF Free, Request

(* What is asked for is sent.                                              *)
LEMMA AskedRequest ==
    ASSUME PageTypes, NEW r \in Requests, NEW kind \in Asked, NEW id, NEW values, NEW h,
           Ask(r, kind, id, values, h)
    PROVE  /\ req'[r].kind = kind /\ req'[r].step = "sent" /\ Request(req'[r])
           /\ DOMAIN req' = Requests /\ \A q \in Requests \ {r}: req'[q] = req[q]
  <1>. DEFINE q == [kind |-> kind, id |-> id, host |-> h, step |-> "sent",
                    values |-> values, entry |-> NoEntry, list |-> Unlisted]
  <1>1. Request(q) /\ q.kind = kind /\ q.step = "sent"
    BY DEF Request
  <1>2. req' = [req EXCEPT ![r] = q]
    BY DEF Ask
  <1>. HIDE DEF q
  <1>. QED BY <1>1, <1>2 DEF PageTypes

(* A load that is alone and nobody writes makes up for what was disturbed. *)
LEMMA ReloadKeeps ==
    ASSUME PageInv, NEW r \in Requests, NEW h, req[r].step # "saving", Reload(r, h), UNCHANGED storeVars
    PROVE  PageInv'
  <1>. USE DEF PageInv
  <1>1. Ask(r, "list", "", Blank, h) /\ disturbed' = ~(Alone(r) /\ \A w \in Writers: pending[w] = NoChange)
    BY DEF Reload
  <1>2. /\ req'[r].kind = "list" /\ req'[r].step = "sent" /\ Request(req'[r])
        /\ DOMAIN req' = Requests /\ \A q \in Requests \ {r}: req'[q] = req[q]
    BY <1>1, AskedRequest DEF Asked
  <1>3. PageTypes' /\ HandlersWrite'
    BY <1>1, <1>2 DEF PageTypes, HandlersWrite, storeVars, Asked
  <1>4. ASSUME ~disturbed' PROVE PageUndisturbed'
    <2>1. \A q \in Requests \ {r}: req'[q] = Free
      BY <1>1, <1>2, <1>4 DEF Alone
    <2>2. \A w \in Writers: pending'[w] = NoChange
      BY <1>1, <1>4 DEF storeVars
    <2>. QED BY <1>2, <2>1, <2>2, FreeRequest DEF PageUndisturbed, Writers
  <1>. QED BY <1>3, <1>4 DEF PageUndisturbed

(* The list is loaded by hand.                                             *)
LEMMA RefreshKeeps ==
    ASSUME PageInv, NEW r \in Requests, NEW h, Refresh(r, h)
    PROVE  PageInv'
  BY ReloadKeeps, FreeRequest DEF Refresh

(* A request that is sent while none is on its way finds the page true.    *)
LEMMA SendKeeps ==
    ASSUME PageInv, NEW r \in Requests, NEW h, Send(r, h)
    PROVE  PageInv'
  <1>0. PICK kind \in {"save", "check", "remove"}: \E id, values: Ask(r, kind, id, values, h)
    BY DEF Send, Offers
  <1>1. PICK id, values: Ask(r, kind, id, values, h)
    BY <1>0
  <1>2. req[r] = Free /\ disturbed' = (disturbed \/ ~Alone(r)) /\ UNCHANGED <<storeVars, shown>>
    BY DEF Send
  <1>3. /\ req'[r].kind = kind /\ req'[r].step = "sent" /\ Request(req'[r])
        /\ DOMAIN req' = Requests /\ \A q \in Requests \ {r}: req'[q] = req[q]
    BY <1>1, AskedRequest DEF Asked, PageInv
  <1>4. PageTypes' /\ HandlersWrite'
    BY <1>2, <1>3, FreeRequest DEF PageInv, PageTypes, HandlersWrite, storeVars, Asked
  <1>5. ASSUME ~disturbed' PROVE PageUndisturbed'
    <2>1. ~disturbed /\ \A q \in Requests: req[q] = Free
      BY <1>2, <1>5 DEF Alone
    <2>2. shown' = Listing' /\ \A t \in Terminals: pending'[t] = NoChange
      BY <1>2, <2>1 DEF PageInv, PageUndisturbed, storeVars, Listing
    <2>. QED BY <1>3, <2>1, <2>2, FreeRequest DEF PageUndisturbed
  <1>. QED BY <1>4, <1>5 DEF PageInv, PageUndisturbed

(* An answer that is taken is the list, or leaves what was shown true, or  *)
(* has the list loaded again.                                              *)
LEMMA TakeKeeps ==
    ASSUME PageInv, NEW r \in Requests, Take(r, req[r].host \in Serving)
    PROVE  PageInv'
  <1>. DEFINE up == req[r].host \in Serving
  <1>1. CASE req[r].step = "ok" /\ req[r].kind # "list" /\ Reload(r, req[r].host)
    BY <1>1, ReloadKeeps DEF Take
  <1>2. CASE /\ req[r].step = "refused" \/ req[r].kind = "list" \/ ~up
             /\ req' = [req EXCEPT ![r] = Free]
             /\ disturbed' = (disturbed \/ ~up)
    <2>1. /\ req[r].step \in {"ok", "refused"} /\ UNCHANGED storeVars
          /\ shown' = IF req[r].kind = "list" /\ req[r].step = "ok" THEN req[r].list ELSE shown
      BY DEF Take
    <2>2. PageTypes' /\ HandlersWrite'
      BY <1>2, <2>1, FreeRequest DEF PageInv, PageTypes, HandlersWrite, storeVars
    <2>3. ASSUME ~disturbed' PROVE PageUndisturbed'
      <3>1. ~disturbed /\ up
        BY <1>2, <2>3
      <3>2. req[r] # Free /\ req[r].kind \in Asked
        BY <2>1, FreeRequest DEF PageInv, PageTypes
      <3>3. \A q \in Requests: req'[q] = Free
        BY <1>2, <3>1, <3>2 DEF PageInv, PageTypes, PageUndisturbed
      <3>4. shown' = Listing
        BY <1>2, <2>1, <3>1, <3>2 DEF PageInv, PageUndisturbed, Asked
      <3>5. \A t \in Terminals: pending[t] = NoChange
        BY <3>1 DEF PageInv, PageUndisturbed
      <3>. QED BY <2>1, <3>3, <3>4, <3>5, FreeRequest DEF PageUndisturbed, storeVars, Listing
    <2>. QED BY <2>2, <2>3 DEF PageInv, PageUndisturbed
  <1>. QED BY <1>1, <1>2 DEF Take

(* A step of a handler for a request leaves the page undisturbed if it     *)
(* keeps what is said of that request and of who writes.                   *)
LEMMA HandleStep ==
    ASSUME PageInv, NEW r \in Requests, req[r] # Free, NEW q, Request(q), q.kind = req[r].kind,
           q.step # "free", req' = [req EXCEPT ![r] = q], UNCHANGED <<shown, disturbed>>,
           \A w \in Writers \ {r}: pending'[w] = pending[w],
           pending'[r] # NoChange => q.step = "saving",
           ~disturbed /\ q.kind # "list" /\ q.step \in {"sent", "checking", "refused"}
               => shown = Listing',
           ~disturbed /\ q.kind = "list" => q.step = "ok" /\ q.list = Listing'
    PROVE  PageInv'
  <1>1. q # Free /\ q.kind \in Asked
    BY FreeRequest DEF PageInv, PageTypes
  <1>2. PageTypes' /\ HandlersWrite'
    BY <1>1 DEF PageInv, PageTypes, HandlersWrite, Writers
  <1>3. ASSUME ~disturbed PROVE PageUndisturbed'
    <2>1. \A x \in Requests \ {r}: req[x] = Free
      BY <1>3 DEF PageInv, PageUndisturbed
    <2>2. \A x \in Requests: req'[x] = IF x = r THEN q ELSE Free
      BY <2>1 DEF PageInv, PageTypes
    <2>3. \A t \in Terminals: pending'[t] = NoChange
      BY <1>3, ProviderStoreAssumption DEF PageInv, PageUndisturbed, Writers
    <2>. QED BY <1>1, <1>3, <2>2, <2>3, FreeRequest DEF PageUndisturbed, Asked
  <1>. QED BY <1>2, <1>3 DEF PageInv, PageUndisturbed

(* Whatever a handler does, the page shows the truth when it was answered. *)
LEMMA HandleKeepsPage ==
    ASSUME PageInv, FileTypes, NEW r \in Requests, Handle(r)
    PROVE  PageInv'
  <1>. DEFINE Stepped(x) == [req[r] EXCEPT !.step = x]
  <1>1. /\ Request(req[r]) /\ (req[r].step # "free" => req[r] # Free)
        /\ req[r].step # "saving" => pending[r] = NoChange
    BY FreeRequest DEF PageInv, PageTypes, HandlersWrite
  <1>2. \A x: Request(Stepped(x)) /\ Stepped(x).step = x /\ Stepped(x).kind = req[r].kind
    BY <1>1, SteppedRequest
  <1>3. CASE List(r)
    <2>. DEFINE q == [Stepped("ok") EXCEPT !.list = Listing]
    <2>1. /\ req[r].kind = "list" /\ req[r].step = "sent" /\ req' = [req EXCEPT ![r] = q]
          /\ UNCHANGED <<storeVars, shown, disturbed>>
      BY <1>3 DEF List
    <2>2. Request(q) /\ q.step = "ok" /\ q.kind = req[r].kind /\ q.list = Listing
      <3>. HIDE DEF Stepped
      <3>. QED BY <1>2, ListedRequest
    <2>. HIDE DEF q
    <2>3. Listing' = Listing /\ pending' = pending
      BY <2>1 DEF storeVars, Listing
    <2>. QED BY <1>1, <2>1, <2>2, <2>3, HandleStep
  <1>4. CASE Consider(r) \/ Unconnected(r)
    <2>1. PICK q: /\ req' = [req EXCEPT ![r] = q] /\ Request(q) /\ q.kind = req[r].kind
                  /\ q.step \in {"checking", "refused"}
      <3>1. \/ req' = [req EXCEPT ![r] = Stepped("refused")]
            \/ \E e: req' = [req EXCEPT ![r] = [Stepped("checking") EXCEPT !.entry = e]]
        BY <1>4 DEF Consider, Unconnected, Step
      <3>2. CASE req' = [req EXCEPT ![r] = Stepped("refused")]
        BY <1>2, <3>2
      <3>3. ASSUME NEW e, req' = [req EXCEPT ![r] = [Stepped("checking") EXCEPT !.entry = e]]
            PROVE  \E q: /\ req' = [req EXCEPT ![r] = q] /\ Request(q) /\ q.kind = req[r].kind
                         /\ q.step \in {"checking", "refused"}
        <4>. DEFINE q == [Stepped("checking") EXCEPT !.entry = e]
        <4>. HIDE DEF Stepped
        <4>1. Request(q) /\ q.step = "checking" /\ q.kind = req[r].kind
          BY <1>2, ConsideredRequest
        <4>. HIDE DEF q
        <4>. QED BY <3>3, <4>1 DEF q
      <3>. QED BY <3>1, <3>2, <3>3
    <2>2. /\ req[r].step \in {"sent", "checking"} /\ UNCHANGED <<storeVars, shown, disturbed>>
          /\ req[r].kind \in {"save", "check"} \/ req[r].step = "checking"
      BY <1>4 DEF Consider, Unconnected
    <2>3. Listing' = Listing /\ pending' = pending
      BY <2>2 DEF storeVars, Listing
    <2>4. ~disturbed => req[r].kind # "list" /\ shown = Listing
      BY <1>1, <2>2 DEF PageInv, PageTypes, PageUndisturbed, Asked
    <2>. QED BY <1>1, <2>1, <2>2, <2>3, <2>4, HandleStep
  <1>5. CASE Connected(r) \/ Delete(r)
    <2>1. \/ req' = [req EXCEPT ![r] = Stepped("ok")] /\ pending' = pending
          \/ req' = [req EXCEPT ![r] = Stepped("saving")] /\ \A w \in Writers \ {r}: pending'[w] = pending[w]
      BY <1>5 DEF Connected, Delete, Step, Change, FileTypes, storeVars
    <2>2. PICK q: /\ req' = [req EXCEPT ![r] = q] /\ Request(q) /\ q.kind = req[r].kind
                  /\ q.step \in {"ok", "saving"} /\ (q.step = "ok" => pending' = pending)
                  /\ \A w \in Writers \ {r}: pending'[w] = pending[w]
      <3>1. CASE req' = [req EXCEPT ![r] = Stepped("ok")] /\ pending' = pending
        BY <1>2, <3>1
      <3>2. CASE /\ req' = [req EXCEPT ![r] = Stepped("saving")]
                 /\ \A w \in Writers \ {r}: pending'[w] = pending[w]
        BY <1>2, <3>2
      <3>. QED BY <2>1, <3>1, <3>2
    <2>3. /\ req[r].step \in {"sent", "checking"} /\ UNCHANGED <<shown, disturbed>>
          /\ req[r].kind = "remove" \/ req[r].step = "checking"
      BY <1>5 DEF Connected, Delete
    <2>4. ~disturbed => req[r].kind # "list"
      BY <1>1, <2>3 DEF PageInv, PageUndisturbed
    <2>5. pending'[r] # NoChange => q.step = "saving"
      BY <1>1, <2>2, <2>3
    <2>. QED BY <1>1, <2>2, <2>3, <2>4, <2>5, HandleStep
  <1>6. CASE HandlerSaves(r)
    <2>. DEFINE x == IF pending'[r] = NoChange THEN "ok" ELSE "saving"
                q == Stepped(x)
    <2>1. req' = [req EXCEPT ![r] = q] /\ Saves(r) /\ UNCHANGED <<shown, disturbed>>
      BY <1>6 DEF HandlerSaves, Step
    <2>2. Request(q) /\ q.step = x /\ q.kind = req[r].kind
      BY <1>2
    <2>3. x \in {"ok", "saving"} /\ (pending'[r] # NoChange => x = "saving")
      OBVIOUS
    <2>. HIDE DEF Stepped, x, q
    <2>4. pending[r] # NoChange /\ \A w \in Writers \ {r}: pending'[w] = pending[w]
      BY <2>1 DEF Saves, Truncate, Write, NoChange, FileTypes
    <2>5. req[r].step = "saving"
      BY <1>1, <2>4
    <2>6. ~disturbed => req[r].kind # "list"
      BY <2>5 DEF PageInv, PageUndisturbed
    <2>. QED BY <1>1, <2>1, <2>2, <2>3, <2>4, <2>5, <2>6, HandleStep
  <1>. QED BY <1>3, <1>4, <1>5, <1>6 DEF Handle

(* Servers that die disturb the page if they take a request with them.     *)
LEMMA DieKeepsPage == ASSUME PageInv, FileTypes, Die(Gone) PROVE PageInv'
  <1>. DEFINE lost == {r \in Requests: req[r].host \in Gone /\ req[r].step \notin {"free", "ok", "refused"}}
  <1>1. /\ req' = [r \in Requests |-> IF r \in lost THEN [req[r] EXCEPT !.step = "refused"] ELSE req[r]]
        /\ pending' = [w \in Writers |-> IF w \in lost THEN NoChange ELSE pending[w]]
        /\ disturbed' = (disturbed \/ lost # {})
        /\ lost \subseteq Requests /\ \A r \in lost: req[r].step # "free"
        /\ UNCHANGED <<file, shown>>
    BY DEF Die
  <1>. HIDE DEF lost
  <1>2. PageTypes'
    <2>1. ASSUME NEW r \in Requests PROVE Request(req'[r]) /\ (req'[r] = Free \/ req'[r].kind \in Asked)
      BY <1>1, SteppedRequest, FreeRequest DEF PageInv, PageTypes
    <2>. QED BY <1>1, <2>1 DEF PageInv, PageTypes
  <1>3. HandlersWrite'
    BY <1>1 DEF PageInv, HandlersWrite, Writers
  <1>4. ASSUME ~disturbed' PROVE PageUndisturbed'
    <2>1. ~disturbed /\ (\A r \in Requests: req'[r] = req[r]) /\ \A w \in Writers: pending'[w] = pending[w]
      BY <1>1, <1>4
    <2>2. Listing' = Listing /\ shown' = shown
      BY <1>1 DEF Listing
    <2>. QED BY <2>1, <2>2 DEF PageInv, PageUndisturbed, Writers
  <1>. QED BY <1>2, <1>3, <1>4 DEF PageInv, PageUndisturbed

(* What a terminal does disturbs the page, and is no handler's write.      *)
LEMMA TerminalKeepsPage ==
    ASSUME PageInv, FileTypes, NEW t \in Terminals, Configure(t) \/ Unconfigure(t) \/ TerminalSaves(t)
    PROVE  PageInv'
  <1>1. disturbed' = TRUE /\ UNCHANGED <<req, shown>>
    BY DEF Configure, Unconfigure, TerminalSaves, pageVars
  <1>2. \A r \in Requests: pending'[r] = pending[r]
    BY ProviderStoreAssumption
       DEF Configure, Unconfigure, TerminalSaves, Change, Saves, Truncate, Write, FileTypes, Writers
  <1>. QED BY <1>1, <1>2 DEF PageInv, PageTypes, HandlersWrite, PageUndisturbed

-----------------------------------------------------------------------------

(* What providers have answered for is not taken back.                     *)
LEMMA AcceptedGrows ==
    ASSUME FileInv, UNCHANGED storeVars, accepted \subseteq accepted'
    PROVE  FileInv'
  <1>1. FileTypes' /\ OneWriter'
    BY DEF FileInv, FileTypes, OneWriter, EntriesKept, AtRest, storeVars
  <1>2. AllBacked'
    BY DEF FileInv, AllBacked, Backed, storeVars
  <1>. QED BY <1>1, <1>2 DEF FileInv

(* What a handler does to the file: it puts an entry there that was        *)
(* accepted, or removes one.                                               *)
LEMMA HandleKeepsFile ==
    ASSUME FileInv, NEW r \in Requests, Handle(r)
    PROVE  FileInv'
  <1>1. r \in Writers
    BY DEF Writers
  <1>2. CASE List(r) \/ Consider(r) \/ Unconnected(r)
    BY <1>2, AcceptedGrows DEF List, Consider, Unconnected
  <1>3. CASE Connected(r)
    <2>. DEFINE id == req[r].id
                entry == req[r].entry
    <2>1. accepted' = accepted \cup {<<id, entry.key, entry.url>>}
      BY <1>3 DEF Connected
    <2>2. Change(r, id, entry) \/ UNCHANGED storeVars
      BY <1>3 DEF Connected
    <2>. HIDE DEF id, entry
    <2>. QED BY <1>1, <2>1, <2>2, ChangeKeeps, AcceptedGrows
  <1>4. CASE Delete(r)
    <2>. DEFINE id == req[r].id
    <2>1. accepted' = accepted /\ ~NoEntry.checked
      BY <1>4 DEF Delete, NoEntry
    <2>2. Change(r, id, NoEntry) \/ UNCHANGED storeVars
      BY <1>4 DEF Delete
    <2>. HIDE DEF id
    <2>. QED BY <1>1, <2>1, <2>2, ChangeKeeps, AcceptedGrows
  <1>5. CASE HandlerSaves(r)
    BY <1>1, <1>5, SavesKeep DEF HandlerSaves
  <1>. QED BY <1>2, <1>3, <1>4, <1>5 DEF Handle

(* What a terminal does to it: its entries are not marked.                 *)
LEMMA TerminalKeepsFile ==
    ASSUME FileInv, NEW t \in Terminals, Configure(t) \/ Unconfigure(t) \/ TerminalSaves(t)
    PROVE  FileInv'
  <1>1. t \in Writers /\ accepted' = accepted
    BY DEF Writers, Configure, Unconfigure, TerminalSaves
  <1>2. CASE Configure(t)
    <2>1. PICK id \in Ids: \E entry \in WizardEntries(id): Change(t, id, entry)
      BY <1>2 DEF Configure
    <2>2. PICK entry \in WizardEntries(id): Change(t, id, entry)
      BY <2>1
    <2>3. ~entry.checked
      BY <2>2 DEF WizardEntries
    <2>. QED BY <1>1, <2>2, <2>3, ChangeKeeps
  <1>3. CASE Unconfigure(t)
    <2>1. PICK id \in Ids: Change(t, id, NoEntry)
      BY <1>3 DEF Unconfigure
    <2>2. ~NoEntry.checked
      BY DEF NoEntry
    <2>. QED BY <1>1, <2>1, <2>2, ChangeKeeps
  <1>4. CASE TerminalSaves(t)
    BY <1>1, <1>4, SavesKeep DEF TerminalSaves
  <1>. QED BY <1>2, <1>3, <1>4

(* At first nobody writes, nothing is on its way, and the marks of the     *)
(* file are those of earlier checks.                                       *)
LEMMA StoreInitially == Init => FileInv /\ PageInv
  <1>. SUFFICES ASSUME Init PROVE FileInv /\ PageInv
    OBVIOUS
  <1>. DEFINE marked == {<<id, file[id].key, file[id].url>>: id \in {i \in Ids: file[i].checked}}
  <1>1. /\ file \in Known /\ wanted = file /\ shown = Listing
        /\ pending = [w \in Writers |-> NoChange] /\ req = [r \in Requests |-> Free]
        /\ accepted = marked /\ harmed = FALSE /\ disturbed = FALSE
    BY DEF Init, ProviderInit
  <1>2. DOMAIN file = Ids /\ DOMAIN wanted = Ids
    BY <1>1, ProviderStoreAssumption
  <1>3. /\ NoChange = [step |-> NoChange.step, text |-> NoChange.text]
        /\ NoChange.step = "none" /\ NoChange.text = Nothing
    BY DEF NoChange
  <1>4. FileTypes
    BY <1>1, <1>2, <1>3, NothingBacked DEF FileTypes
  <1>5. OneWriter
    BY <1>1, <1>3 DEF OneWriter, EntriesKept
  <1>6. AllBacked
    <2>1. Backed(file)
      BY <1>1 DEF Backed
    <2>. QED BY <1>1, <1>3, <2>1, NothingBacked DEF AllBacked
  <1>7. PageTypes /\ HandlersWrite
    BY <1>1, FreeRequest DEF PageTypes, HandlersWrite, Writers
  <1>8. PageUndisturbed
    BY <1>1, FreeRequest DEF PageUndisturbed, Writers
  <1>. QED BY <1>4, <1>5, <1>6, <1>7, <1>8 DEF FileInv, PageInv

(* The inductive invariant.                                                *)
ConfigInv == UiInv /\ FileInv /\ PageInv

(* Who touches no server and no lock keeps what is said of them.           *)
LEMMA UiUndisturbed == ASSUME UiInv, UNCHANGED <<proc, lock, doing, raced>> PROVE UiInv'
  BY DEF UiInv, UiTypes, OneServer, ServersFindable, Alive

(* Nothing but a step of the store changes what is said of it.             *)
LEMMA StoreUndisturbed == ASSUME FileInv, PageInv, UNCHANGED provVars PROVE FileInv' /\ PageInv'
  <1>1. FileInv'
    BY AcceptedGrows DEF provVars
  <1>2. PageInv'
    <2>1. UNCHANGED <<file, pending, req, shown, disturbed>>
      BY DEF provVars, storeVars, pageVars
    <2>2. Listing' = Listing
      BY <2>1 DEF Listing
    <2>3. PageTypes' /\ HandlersWrite'
      BY <2>1 DEF PageInv, PageTypes, HandlersWrite
    <2>4. PageUndisturbed'
      BY <2>1, <2>2 DEF PageInv, PageUndisturbed
    <2>. QED BY <2>3, <2>4 DEF PageInv
  <1>. QED BY <1>1, <1>2

(* Every step of everybody keeps it all.                                   *)
LEMMA ConfigStepKeeps == ConfigInv /\ [Next]_vars => ConfigInv'
  <1>. SUFFICES ASSUME ConfigInv, [Next]_vars PROVE ConfigInv'
    OBVIOUS
  <1>. USE DEF ConfigInv
  <1>1. CASE LifeCycle
    BY <1>1, UiStepKeeps, DieKeepsFile, DieKeepsPage DEF LifeCycle, FileInv
  <1>2. ASSUME NEW c \in Clients, Terminal(c) PROVE ConfigInv'
    <2>1. c \in Terminals
      BY ConfigDirAssumption
    <2>2. Configure(c) \/ Unconfigure(c) \/ TerminalSaves(c)
      BY <1>2 DEF Terminal
    <2>3. UNCHANGED <<proc, lock, doing, raced>>
      BY <1>2 DEF Terminal, Operated, uiVars
    <2>. QED BY <2>1, <2>2, <2>3, UiUndisturbed, TerminalKeepsFile, TerminalKeepsPage DEF FileInv
  <1>3. ASSUME NEW r \in Requests, Page(r) PROVE ConfigInv'
    <2>1. UNCHANGED <<proc, lock, doing, raced>>
      BY <1>3 DEF Page, Operated, uiVars
    <2>2. UNCHANGED storeVars /\ accepted' = accepted
      BY <1>3 DEF Page, Send, Refresh, Take
    <2>3. PageInv'
      BY <1>3, SendKeeps, RefreshKeeps, TakeKeeps DEF Page
    <2>. QED BY <2>1, <2>2, <2>3, UiUndisturbed, AcceptedGrows
  <1>4. ASSUME NEW r \in Requests, Handle(r), UNCHANGED uiVars PROVE ConfigInv'
    <2>1. UNCHANGED <<proc, lock, doing, raced>>
      BY <1>4 DEF uiVars
    <2>. QED BY <1>4, <2>1, UiUndisturbed, HandleKeepsFile, HandleKeepsPage DEF FileInv
  <1>5. CASE UNCHANGED vars
    <2>1. UNCHANGED <<proc, lock, doing, raced>> /\ UNCHANGED provVars
      BY <1>5 DEF vars, uiVars
    <2>. QED BY <2>1, UiUndisturbed, StoreUndisturbed
  <1>. QED BY <1>1, <1>2, <1>3, <1>4, <1>5 DEF Next

(* What is said of the servers, the settings and the page is always so.    *)
LEMMA ConfigAlways == Spec => []ConfigInv
  <1>1. Init => ConfigInv
    BY UiInitially, StoreInitially DEF ConfigInv
  <1>. QED BY <1>1, ConfigStepKeeps, PTL DEF Spec

(* The lock names every server that serves, whoever started, stopped or    *)
(* killed servers and read the lock in whatever order, unless one was      *)
(* spawned while another was coming up or being stopped (lock.ts,          *)
(* lifecycle.ts).                                                          *)
THEOREM ServersAreFindable == Spec => []ServersFindable
  <1>1. ConfigInv => ServersFindable
    BY DEF ConfigInv, UiInv, OneServer, ServersFindable
  <1>. QED BY <1>1, ConfigAlways, PTL

(* No entry of the settings is lost to the change of another one, as long  *)
(* as no two processes load and save at once and none dies while it saves  *)
(* (addProvider, removeProvider).                                          *)
THEOREM EntriesAreKept == Spec => []EntriesKept
  <1>1. ConfigInv => EntriesKept
    BY DEF ConfigInv, FileInv, OneWriter, EntriesKept
  <1>. QED BY <1>1, ConfigAlways, PTL

(* What is marked as checked was accepted with the key and the URL it has, *)
(* whatever was saved during the check and whoever died (POST              *)
(* /api/providers).                                                        *)
THEOREM CheckedWereAccepted == Spec => []CheckedMeansAccepted
  <1>1. ConfigInv => CheckedMeansAccepted
    BY DEF ConfigInv, FileInv, AllBacked, Backed, CheckedMeansAccepted
  <1>. QED BY <1>1, ConfigAlways, PTL

(* What is configured is resolved to a key and a URL that can be used,     *)
(* also where a pipeline gives one of them itself.                         *)
LEMMA ConfiguredIsUsable ==
    ASSUME NEW id \in Ids, Configured(id, file[id]), NEW item \in Items
    PROVE  Valid(id, Resolved(id, item).key, Resolved(id, item).url)
  <1>. DEFINE key == IF item.key # "" THEN item.key ELSE SavedConfig(id).key
              url == IF item.url # "" THEN item.url ELSE SavedConfig(id).url
  <1>1. Resolved(id, item) = [key |-> key, url |-> url]
    BY DEF Resolved, Items
  <1>2. SavedConfig(id).url = file[id].url
    BY DEF SavedConfig, Configured
  <1>3. "key" \in Catalog[id].required => file[id].key # "undefined" /\ file[id].key # ""
    BY DEF Configured, Valid, KeyOf
  <1>4. "key" \in Catalog[id].required => SavedConfig(id).key # ""
    BY <1>3 DEF SavedConfig
  <1>5. "url" \in Catalog[id].required => file[id].url # ""
    BY DEF Configured, Valid
  <1>6. file[id].url \notin Templates /\ (item.url # "" => item.url \notin Templates)
    BY DEF Configured, Valid, Items
  <1>7. Valid(id, key, url)
    BY <1>2, <1>4, <1>5, <1>6 DEF Valid
  <1>. HIDE DEF key, url
  <1>. QED BY <1>1, <1>7

(* The Providers page at rest shows what is in the file, and a run can use *)
(* what it shows as configured (Providers.tsx, resolveProviders).          *)
THEOREM PageIsTrue == Spec => []PageTellsTruth
  <1>1. ConfigInv => PageTellsTruth
    <2>. SUFFICES ASSUME ConfigInv, ~disturbed, \A r \in Requests: req[r] = Free
                  PROVE  shown = Listing /\ \A id \in Ids, item \in Items: shown[id].configured =>
                            Valid(id, Resolved(id, item).key, Resolved(id, item).url)
      BY DEF PageTellsTruth
    <2>1. shown = Listing
      BY DEF ConfigInv, PageInv, PageUndisturbed
    <2>2. \A id \in Ids: shown[id].configured = Configured(id, file[id])
      BY <2>1 DEF Listing
    <2>. QED BY <2>1, <2>2, ConfiguredIsUsable
  <1>. QED BY <1>1, ConfigAlways, PTL
================================================================================
