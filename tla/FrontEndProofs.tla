---------------------------- MODULE FrontEndProofs ----------------------------
(***************************************************************************)
(* Theorems about the two front ends a person works on pipelines with: the *)
(* command line, whose lines are worked off in turn and whose loaded       *)
(* pipeline is what the directory's active-pipeline file names; and the    *)
(* editor of the browser, whose display, files and runs agree.             *)
(***************************************************************************)
EXTENDS Repl, PipelineEditor, FiniteSetTheorems, SequenceTheorems, WellFoundedInduction, TLAPS

-----------------------------------------------------------------------------
(* The command line                                                        *)

RegisteredFile == [origin: Origins, dir: Dirs \cup {"home"}, name: Names]
ActiveNames == Names \cup {Title[n]: n \in Names} \cup {Nothing}

SessionTypes ==
    /\ files \subseteq RegisteredFile
    /\ active \in [Dirs -> ActiveNames]
    /\ dir \in Dirs /\ byName \in BOOLEAN

(* A file that was chosen by its name is one the directory has, it parses, *)
(* and active-pipeline has its name: /pipeline remove looks only there.    *)
ChosenIsActive ==
    byName /\ ~outside =>
        /\ loaded \in Available(dir) /\ Parses(loaded)
        /\ active[dir] = loaded.name

SessionInv == SessionTypes /\ ChosenIsActive

(* What is detected is the root file, or available and well formed.        *)
LEMMA DetectedIsAvailable ==
    ASSUME NEW d \in Dirs, NEW f \in Detect(d)
    PROVE  f = Root(d) \/ (f \in Available(d) /\ Parses(f))
  <1>1. \A g \in ActiveFile(d): g \in Available(d) /\ Parses(g)
    BY DEF ActiveFile
  <1>2. \A o \in Origins: \A g \in OnlyOne(d, o): g \in Available(d) /\ Parses(g)
    BY DEF OnlyOne
  <1>3. f \in ActiveFile(d) \/ f \in OnlyOne(d, "project") \/ f = Root(d) \/ f \in OnlyOne(d, "user")
    BY DEF Detect
  <1>. QED BY <1>1, <1>2, <1>3 DEF Origins

(* What a name resolves to has the name.                                   *)
LEMMA ResolvedHasName ==
    ASSUME NEW d \in Dirs, NEW n, NEW f \in Resolve(d, n)
    PROVE  f \in Available(d) /\ f.name = n
  BY DEF Resolve, Conflicts

(* Opening a directory chooses what it detects, and makes it active.       *)
LEMMA OpenDirKeeps == ASSUME SessionInv, NEW d \in Dirs, OpenDir(d) PROVE SessionInv'
  <1>. USE DEF SessionInv
  <1>1. CASE Detect(d) = {}
    BY <1>1 DEF OpenDir, SessionTypes, ChosenIsActive
  <1>2. CASE Detect(d) # {}
    <2>1. PICK f \in Detect(d):
            /\ loaded' = f /\ byName' = (f # Root(d))
            /\ active' = IF f = Root(d) THEN active ELSE [active EXCEPT ![d] = f.name]
      BY <1>2 DEF OpenDir
    <2>2. dir' = d /\ files' = files /\ broken' = broken
      BY DEF OpenDir
    <2>3. CASE f = Root(d)
      BY <2>1, <2>2, <2>3 DEF SessionTypes, ChosenIsActive
    <2>4. CASE f # Root(d)
      <3>1. f \in Available(d) /\ Parses(f) /\ f.name \in Names
        BY <2>4, DetectedIsAvailable DEF Available, SessionTypes, RegisteredFile
      <3>2. active' \in [Dirs -> ActiveNames] /\ active'[d] = f.name
        BY <2>1, <2>4, <3>1 DEF SessionTypes, ActiveNames
      <3>3. SessionTypes'
        BY <2>1, <2>2, <3>2 DEF SessionTypes
      <3>4. ChosenIsActive'
        BY <2>1, <2>2, <3>1, <3>2 DEF ChosenIsActive, Available, Parses
      <3>. QED BY <3>3, <3>4
    <2>. QED BY <2>3, <2>4
  <1>. QED BY <1>1, <1>2

(* A file that is added becomes active under the name inside, and counts   *)
(* as chosen by its name only if that is its file name too.                *)
LEMMA AddKeeps ==
    ASSUME SessionInv, NEW n \in Names, NEW o \in Origins, Add(n, o)
    PROVE  SessionInv'
  <1>. DEFINE f == Entry(o, dir, n)
  <1>1. f \in RegisteredFile /\ f.name = n /\ f.dir \in {dir, "home"}
    BY DEF SessionInv, SessionTypes, Entry, RegisteredFile
  <1>2. active' \in [Dirs -> ActiveNames] /\ active'[dir] = Title[n]
    BY DEF Add, Activate, SessionInv, SessionTypes, ActiveNames
  <1>3. /\ files' = files \cup {f} /\ broken' = broken \ {f}
        /\ loaded' = f /\ byName' = (Title[n] = n) /\ dir' = dir
    BY DEF Add, Load
  <1>4. SessionTypes'
    BY <1>1, <1>2, <1>3 DEF SessionInv, SessionTypes
  <1>5. ChosenIsActive'
    BY <1>1, <1>2, <1>3 DEF ChosenIsActive, Available, Parses
  <1>. QED BY <1>4, <1>5 DEF SessionInv

(* A removed file that is loaded by its name has the active name, so that  *)
(* it is unloaded.                                                         *)
LEMMA RemoveKeeps ==
    ASSUME SessionInv, NEW n \in Names, NEW o \in Origins, RemovePipeline(n, o)
    PROVE  SessionInv'
  <1>1. SessionTypes'
    BY DEF RemovePipeline, Load, SessionInv, SessionTypes
  <1>2. CASE active[dir] = n
    BY <1>1, <1>2 DEF RemovePipeline, Load, SessionInv, ChosenIsActive
  <1>3. CASE active[dir] # n
    <2>1. Entry(o, dir, n).name = n
      BY DEF Entry
    <2>2. byName /\ ~outside => loaded \in files' /\ loaded.dir \in {dir, "home"}
      BY <1>3, <2>1 DEF RemovePipeline, SessionInv, ChosenIsActive, Available
    <2>. QED BY <1>1, <1>3, <2>2 DEF RemovePipeline, SessionInv, ChosenIsActive, Available, Parses
  <1>. QED BY <1>2, <1>3

(* /pipeline switch makes the name it resolves the active one.             *)
LEMMA SwitchKeeps == ASSUME SessionInv, NEW n \in Names, Switch(n) PROVE SessionInv'
  <1>1. PICK f \in Resolve(dir, n): Parses(f) /\ loaded' = f /\ byName' = TRUE
    BY DEF Switch, Load
  <1>2. f \in Available(dir) /\ f.name = n
    BY <1>1, ResolvedHasName DEF SessionInv, SessionTypes
  <1>3. active' \in [Dirs -> ActiveNames] /\ active'[dir] = n
    BY DEF Switch, Activate, SessionInv, SessionTypes, ActiveNames
  <1>4. files' = files /\ broken' = broken /\ dir' = dir
    BY DEF Switch
  <1>. QED BY <1>1, <1>2, <1>3, <1>4 DEF SessionInv, SessionTypes, ChosenIsActive, Available, Parses

(* Loading by a path or again chooses nothing by a name.                   *)
LEMMA LoadKeeps ==
    ASSUME SessionInv, (\E n \in Names: Refresh(n)) \/ LoadPath
    PROVE  SessionInv'
  <1>1. byName' \in BOOLEAN /\ (byName' => loaded' = loaded /\ byName)
        /\ UNCHANGED <<files, broken, active, dir, outside>>
    BY DEF Refresh, LoadPath, Load, registry, SessionInv, SessionTypes
  <1>. QED BY <1>1 DEF SessionInv, SessionTypes, ChosenIsActive, Available, Parses

(* No slash command ends what the session relies on.                       *)
LEMMA CommandKeeps == ASSUME SessionInv, Command PROVE SessionInv'
  <1>1. CASE \E n \in Names, o \in Origins: Add(n, o)
    BY <1>1, AddKeeps
  <1>2. CASE \E n \in Names, o \in Origins: RemovePipeline(n, o)
    BY <1>2, RemoveKeeps
  <1>3. CASE \E n \in Names: Switch(n)
    BY <1>3, SwitchKeeps
  <1>4. CASE (\E n \in Names: Refresh(n)) \/ LoadPath
    BY <1>4, LoadKeeps
  <1>5. CASE SwitchWorkspace
    BY <1>5, OpenDirKeeps DEF SwitchWorkspace
  <1>6. CASE UNCHANGED <<files, broken, active, session>>
    BY <1>6 DEF session, SessionInv, SessionTypes, ChosenIsActive, Available, Parses
  <1>. QED
    BY <1>1, <1>2, <1>3, <1>4, <1>5, <1>6
       DEF Command, SetDefault, ShowPipelines, ShowStages, sessionVars, registry

(* What others do to the registry ends the promise, and only that.         *)
LEMMA TamperKeeps == ASSUME SessionInv, Tamper PROVE SessionInv'
  BY DEF Tamper, SessionInv, SessionTypes, ChosenIsActive

(* A step of the command line is a command, another's change, or leaves    *)
(* the session as it is.                                                   *)
LEMMA SessionSteps ==
    ASSUME [Next]_vars
    PROVE  Command \/ Tamper \/ UNCHANGED sessionVars
  BY DEF Next, Work, Take, Do, Quit, RunEnds, Idle, Exit, TypeLine, CtrlC, CtrlD, PressKey,
         AskOnTerminal, Disturb, vars

(* The inductive invariant of the session.                                 *)
LEMMA SessionInvariant == Spec => []SessionInv
  <1>1. Init => SessionInv
    BY DEF Init, SessionInit, SessionInv, SessionTypes, ChosenIsActive, ActiveNames
  <1>2. SessionInv /\ [Next]_vars => SessionInv'
    <2>1. ASSUME SessionInv, UNCHANGED sessionVars PROVE SessionInv'
      BY <2>1 DEF sessionVars, registry, session, SessionInv, SessionTypes, ChosenIsActive,
                  Available, Parses
    <2>. QED BY <2>1, SessionSteps, CommandKeeps, TamperKeeps
  <1>. QED BY <1>1, <1>2, PTL DEF Spec

(* What was chosen by its name is loaded only as long as it is registered, *)
(* whatever is added, removed, switched and opened in between.             *)
THEOREM RemovedIsNotLoaded == Spec => []RemovedNotLoaded
  <1>1. SessionInv => RemovedNotLoaded
    BY DEF SessionInv, ChosenIsActive, Available, RemovedNotLoaded
  <1>. QED BY <1>1, SessionInvariant, PTL

(* A new session in the directory detects what this one has loaded by a    *)
(* name that still means the same file.                                    *)
THEOREM SessionsAgree == Spec => []NextSessionAgrees
  <1>1. SessionInv => NextSessionAgrees
    <2>1. SUFFICES ASSUME SessionInv, byName, ~outside, Resolve(dir, loaded.name) = {loaded}
                   PROVE  Detect(dir) = {loaded}
      BY DEF NextSessionAgrees
    <2>2. loaded \in Available(dir) /\ Parses(loaded) /\ active[dir] = loaded.name
      BY <2>1 DEF SessionInv, ChosenIsActive
    <2>3. loaded.name \in Names
      BY <2>1, <2>2 DEF SessionInv, SessionTypes, Available, RegisteredFile
    <2>4. ActiveFile(dir) = {loaded}
      BY <2>1, <2>2, <2>3 DEF ActiveFile
    <2>. QED BY <2>4 DEF Detect
  <1>. QED BY <1>1, SessionInvariant, PTL

-----------------------------------------------------------------------------
(* The lines.                                                              *)

LineTypes ==
    /\ queue \in Seq(Nat) /\ started \in Seq(Nat) /\ typed \in Nat
    /\ current = {} \/ \E c: current = {c}

LineInv == LineTypes /\ started \o queue = [i \in 1 .. typed |-> i]

(* A line that goes to the end of the queue goes to the end of all lines.  *)
LEMMA AppendToQueue ==
    ASSUME NEW s \in Seq(Nat), NEW t \in Seq(Nat), NEW e \in Nat
    PROVE  s \o Append(t, e) = Append(s \o t, e)
  <1>1. <<e>> \in Seq(Nat)
    OBVIOUS
  <1>. QED BY <1>1, AppendIsConcat, ConcatAssociative, ConcatProperties

(* A line that moves from the head of one to the end of the other moves    *)
(* nothing in the two together.                                            *)
LEMMA HeadToEnd ==
    ASSUME NEW s \in Seq(Nat), NEW t \in Seq(Nat), t # <<>>
    PROVE  /\ Append(s, Head(t)) \in Seq(Nat) /\ Tail(t) \in Seq(Nat)
           /\ Append(s, Head(t)) \o Tail(t) = s \o t
  <1>1. /\ Head(t) \in Nat /\ Tail(t) \in Seq(Nat) /\ Len(Tail(t)) = Len(t) - 1
        /\ \A i \in 1 .. Len(Tail(t)): Tail(t)[i] = t[i + 1]
    BY HeadTailProperties
  <1>2. Head(t) = t[1] /\ Len(t) \in Nat /\ Len(s) \in Nat
    BY LenProperties
  <1>. DEFINE a == Append(s, Head(t))
  <1>3. a \in Seq(Nat) /\ Len(a) = Len(s) + 1 /\ a[Len(s) + 1] = Head(t)
        /\ \A i \in 1 .. Len(s): a[i] = s[i]
    BY <1>1, AppendProperties
  <1>4. /\ a \o Tail(t) \in Seq(Nat) /\ Len(a \o Tail(t)) = Len(s) + Len(t)
        /\ \A i \in 1 .. Len(s) + Len(t):
              (a \o Tail(t))[i] = IF i <= Len(s) + 1 THEN a[i] ELSE Tail(t)[i - (Len(s) + 1)]
    <2>. HIDE DEF a
    <2>1. /\ a \o Tail(t) \in Seq(Nat) /\ Len(a \o Tail(t)) = Len(a) + Len(Tail(t))
          /\ \A i \in 1 .. Len(a) + Len(Tail(t)):
                (a \o Tail(t))[i] = IF i <= Len(a) THEN a[i] ELSE Tail(t)[i - Len(a)]
      BY <1>1, <1>3, ConcatProperties
    <2>2. Len(a) + Len(Tail(t)) = Len(s) + Len(t)
      BY <1>1, <1>2, <1>3
    <2>. QED BY <2>1, <2>2, <1>3
  <1>5. /\ s \o t \in Seq(Nat) /\ Len(s \o t) = Len(s) + Len(t)
        /\ \A i \in 1 .. Len(s) + Len(t): (s \o t)[i] = IF i <= Len(s) THEN s[i] ELSE t[i - Len(s)]
    BY ConcatProperties
  <1>6. \A i \in 1 .. Len(s) + Len(t): (a \o Tail(t))[i] = (s \o t)[i]
    <2>. HIDE DEF a
    <2>. TAKE i \in 1 .. Len(s) + Len(t)
    <2>1. CASE i <= Len(s)
      BY <2>1, <1>2, <1>3, <1>4, <1>5
    <2>2. CASE i = Len(s) + 1
      BY <2>2, <1>2, <1>3, <1>4, <1>5
    <2>3. CASE i > Len(s) + 1
      <3>1. i - (Len(s) + 1) \in 1 .. Len(Tail(t)) /\ (i - (Len(s) + 1)) + 1 = i - Len(s)
        BY <2>3, <1>1, <1>2
      <3>. QED BY <2>3, <3>1, <1>1, <1>2, <1>4, <1>5
    <2>4. i <= Len(s) \/ i = Len(s) + 1 \/ i > Len(s) + 1
      BY <1>2
    <2>. QED BY <2>1, <2>2, <2>3, <2>4
  <1>7. a \o Tail(t) = s \o t
    <2>. HIDE DEF a
    <2>. QED BY <1>4, <1>5, <1>6, SeqEqual
  <1>. QED BY <1>1, <1>3, <1>7

(* A typed line gets the next number and the last place.                   *)
LEMMA TypedLineIsLast ==
    ASSUME LineInv, EnterLine
    PROVE  LineInv'
  <1>1. CASE open
    <2>1. queue' = Append(queue, typed + 1) /\ typed' = typed + 1 /\ started' = started
          /\ current' = current
      BY <1>1 DEF EnterLine
    <2>2. LineTypes'
      BY <2>1 DEF LineInv, LineTypes
    <2>3. started \o Append(queue, typed + 1) = Append(started \o queue, typed + 1)
      <3>1. started \in Seq(Nat) /\ queue \in Seq(Nat) /\ typed + 1 \in Nat
        BY DEF LineInv, LineTypes
      <3>. QED BY <3>1, AppendToQueue
    <2>4. Append([i \in 1 .. typed |-> i], typed + 1) = [i \in 1 .. typed + 1 |-> i]
      BY DEF LineInv, LineTypes
    <2>. QED BY <2>1, <2>2, <2>3, <2>4 DEF LineInv
  <1>2. CASE ~open
    BY <1>2 DEF EnterLine, lines, LineInv, LineTypes
  <1>. QED BY <1>1, <1>2

(* The line that is taken is the first that waits.                         *)
LEMMA TakenLineIsFirst ==
    ASSUME LineInv, NEW kind, Take(kind)
    PROVE  LineInv'
  <1>1. /\ queue # <<>> /\ queue' = Tail(queue) /\ started' = Append(started, Head(queue))
        /\ current' = {[line |-> Head(queue), kind |-> kind]} /\ typed' = typed
    BY DEF Take
  <1>2. LineTypes'
    BY <1>1, HeadToEnd DEF LineInv, LineTypes
  <1>3. Append(started, Head(queue)) \o Tail(queue) = started \o queue
    BY <1>1, HeadToEnd DEF LineInv, LineTypes
  <1>. QED BY <1>1, <1>2, <1>3 DEF LineInv

(* Lines are begun one at a time, in the order in which they were typed,   *)
(* and none is left out.                                                   *)
THEOREM LinesAreInTurn == Spec => []LinesInTurn
  <1>1. Init => LineInv
    <2>1. ASSUME Init PROVE LineTypes /\ started \o queue = <<>> /\ typed = 0
      BY <2>1 DEF Init, LineTypes
    <2>2. <<>> = [i \in 1 .. 0 |-> i]
      OBVIOUS
    <2>. QED BY <2>1, <2>2 DEF LineInv
  <1>2. LineInv /\ [Next]_vars => LineInv'
    <2>. SUFFICES ASSUME LineInv, [Next]_vars PROVE LineInv'
      OBVIOUS
    <2>1. CASE TypeLine
      BY <2>1, TypedLineIsLast DEF TypeLine
    <2>2. CASE \E kind \in {"command", "run"}: Take(kind)
      BY <2>2, TakenLineIsFirst
    <2>3. CASE Do \/ Quit \/ RunEnds
      BY <2>3 DEF Do, Quit, RunEnds, Over, LineInv, LineTypes
    <2>4. CASE UNCHANGED <<queue, typed, current, started>>
      BY <2>4 DEF LineInv, LineTypes
    <2>. QED
      BY <2>1, <2>2, <2>3, <2>4
         DEF Next, Work, Idle, Exit, CtrlC, CtrlD, PressKey, AskOnTerminal, Disturb,
             vars, replVars, lines
  <1>3. LineInv => LinesInTurn
    <2>1. ASSUME LineInv PROVE Cardinality(current) \in {0, 1}
      BY <2>1, FS_EmptySet, FS_Singleton DEF LineInv, LineTypes
    <2>. QED BY <2>1 DEF LineInv, LinesInTurn
  <1>. QED BY <1>1, <1>2, <1>3, PTL DEF Spec

-----------------------------------------------------------------------------
(* The editor.  Its invariant says, as long as nothing is muddled, in what *)
(* order the requests on their way were sent and what each of them, the    *)
(* files and the text on display tell of one another.                      *)

Writers == {"save", "saveAs", "saveForRun"}
RequestKinds == Writers \cup {"load", "run", "delete"}

(* Requests of the page on display: a load, and one that writes.           *)
OwnLoad(r) == r.kind = "load" /\ r.mine
OwnWrite(r) == r.kind \in Writers /\ r.mine

(* Requests that write without an editor: of a page that was left, or of a *)
(* list.                                                                   *)
Stray(r) == r.kind = "delete" \/ (r.kind \in Writers /\ ~r.mine)

IsRequest(r) ==
    /\ r = [kind |-> r.kind, path |-> r.path, text |-> r.text, step |-> r.step, mine |-> r.mine]
    /\ r.kind \in RequestKinds /\ r.path \in Paths /\ r.mine \in BOOLEAN
    /\ r.kind \in Writers => r.text.form = "editor"
    /\ r.step = "begun" => r.kind \in Writers

EditorTypes ==
    /\ DOMAIN texts = Paths
    /\ route \in Paths \cup {"list"} /\ entry \in Paths \cup {"none"}
    /\ wire \in Seq({wire[i]: i \in DOMAIN wire})
    /\ \A i \in DOMAIN wire: IsRequest(wire[i])

(* The requests are worked off in order.                                   *)
OneAtATime == \A i \in DOMAIN wire: i # 1 => wire[i].step = "sent"

(* A list has no editor; an editor comes after what was asked for without  *)
(* one, and loads come after what the editor on display writes.            *)
InOrderOfPages ==
    /\ route = "list" => /\ entry = "none"
                         /\ \A i \in DOMAIN wire: ~OwnLoad(wire[i]) /\ ~OwnWrite(wire[i])
    /\ \A i \in DOMAIN wire: Stray(wire[i]) =>
          /\ entry = "none"
          /\ \A j \in DOMAIN wire: j < i => ~OwnLoad(wire[j]) /\ ~OwnWrite(wire[j])
    /\ \A i \in DOMAIN wire: OwnWrite(wire[i]) =>
          /\ entry # "none"
          /\ wire[i].kind # "saveAs" => wire[i].path = entry
          /\ \A j \in DOMAIN wire: /\ OwnWrite(wire[j]) => j = i
                                   /\ j < i => ~OwnLoad(wire[j])

(* At most one request saves over a file.                                  *)
OneSave == \A i, j \in DOMAIN wire:
    wire[i].kind \in {"save", "saveForRun"} /\ wire[j].kind \in {"save", "saveForRun"} => i = j

(* A request that is answered but not handled: what it says is still so.   *)
HeadKnows ==
    \A i \in DOMAIN wire: LET r == wire[i] IN
       /\ (r.step = "ok" /\ r.path \notin foreign
           /\ (OwnLoad(r) \/ r.kind \in {"save", "saveForRun"})) =>
             texts[r.path] = r.text /\ IsPipeline(r.path)
       /\ (r.step = "ok" /\ r.path \notin foreign /\ OwnLoad(r)) => Known(r.path)
       /\ (r.step = "error" /\ OwnLoad(r) /\ r.path = entry) => entry \in foreign
       /\ (r.step = "ok" /\ OwnWrite(r) /\ r.kind = "saveAs" /\ r.path = entry) => entry \in foreign

(* What is on display is not the pipeline of the address, or not for long. *)
Displaced ==
    entry # route \/ \E i \in DOMAIN wire: OwnLoad(wire[i]) /\ wire[i].path = entry

JustSaved == \E i \in DOMAIN wire:
    wire[i].step = "ok" /\ wire[i].mine /\ wire[i].kind \in {"save", "saveForRun"}

EntryAgrees ==
    entry # "none" /\ entry \notin foreign =>
       /\ Known(entry) /\ IsPipeline(entry)
       /\ texts[entry] = lastSaved \/ Displaced \/ JustSaved

(* A run of the editor finds what was on display, or nothing.              *)
RunsFind ==
    \A j \in DOMAIN wire: LET r == wire[j] IN
       r.kind = "run" /\ r.step = "sent" /\ r.text # Absent /\ r.path \notin foreign =>
          /\ texts[r.path] = r.text \/ (~Known(r.path) /\ ~Exists(r.path))
          /\ \A i \in DOMAIN wire: i < j /\ wire[i].kind \in Writers => wire[i].path # r.path

Unmuddled ==
    OneAtATime /\ InOrderOfPages /\ OneSave /\ HeadKnows /\ EntryAgrees /\ RunsFind

EditorInv == EditorTypes /\ (~muddled => Unmuddled)

(* What is valid and not waiting to be validated has been, when nobody was *)
(* hasty; what is to be a new file was valid.                              *)
DraftChecked == valid /\ ~timer /\ checking = <<>> => Accepts(Serialize(draft))
CopiesChecked == \A i \in DOMAIN wire: wire[i].kind = "saveAs" => Accepts(wire[i].text.doc)
FilesAccepted == \A p \in Paths \ foreign: Exists(p) => Accepts(texts[p].doc)

CheckingTypes == checking \in Seq({checking[i]: i \in DOMAIN checking})

AcceptedInv == ~hasty /\ ~muddled => DraftChecked /\ CopiesChecked /\ FilesAccepted

(* The files that are there at first are pipelines.                        *)
GoodFiles == \A f \in Initially, p \in Paths: f[p] = Absent \/ Accepts(f[p].doc)

-----------------------------------------------------------------------------
(* Sequences.                                                              *)

(* What is appended comes last, and the rest stays in its place.           *)
LEMMA Appended ==
    ASSUME NEW S, NEW s \in Seq(S), NEW x \in S
    PROVE  /\ Append(s, x) \in Seq(S) /\ Len(Append(s, x)) = Len(s) + 1
           /\ \A i \in 1 .. Len(s): Append(s, x)[i] = s[i]
           /\ Append(s, x)[Len(s) + 1] = x
  BY LenProperties

(* Of a sequence without one of its elements, those behind it move up.     *)
LEMMA Removed ==
    ASSUME NEW S, NEW s \in Seq(S), NEW i \in 1 .. Len(s)
    PROVE  /\ RemoveAt(s, i) \in Seq(S) /\ Len(RemoveAt(s, i)) = Len(s) - 1
           /\ \A j \in 1 .. (Len(s) - 1): RemoveAt(s, i)[j] = s[IF j < i THEN j ELSE j + 1]
  <1> DEFINE a == SubSeq(s, 1, i - 1)
             b == SubSeq(s, i + 1, Len(s))
  <1>1. Len(s) \in Nat /\ \A j \in 1 .. Len(s): s[j] \in S
    BY LenProperties, ElementOfSeq
  <1>2. /\ a \in Seq(S) /\ Len(a) = i - 1
        /\ \A j \in 1 .. (i - 1): a[j] = s[j]
    <2>1. 1 \in Int /\ i - 1 \in Int /\ \A j \in 1 .. (i - 1): s[j] \in S
      BY <1>1
    <2>. QED BY <2>1, SubSeqProperties
  <1>3. /\ b \in Seq(S) /\ Len(b) = Len(s) - i
        /\ \A j \in 1 .. (Len(s) - i): b[j] = s[i + j]
    <2>1. i + 1 \in Int /\ Len(s) \in Int /\ \A j \in (i + 1) .. Len(s): s[j] \in S
      BY <1>1
    <2>. QED BY <1>1, <2>1, SubSeqProperties
  <1>4. /\ a \o b \in Seq(S) /\ Len(a \o b) = Len(a) + Len(b)
        /\ \A j \in 1 .. Len(a) + Len(b): (a \o b)[j] = IF j <= Len(a) THEN a[j] ELSE b[j - Len(a)]
    BY <1>2, <1>3, ConcatProperties
  <1>5. RemoveAt(s, i) = a \o b
    BY DEF RemoveAt
  <1>. HIDE DEF a, b
  <1>6. Len(a \o b) = Len(s) - 1
    BY <1>1, <1>2, <1>3, <1>4
  <1>7. ASSUME NEW j \in 1 .. (Len(s) - 1)
        PROVE  (a \o b)[j] = s[IF j < i THEN j ELSE j + 1]
    <2>1. (a \o b)[j] = IF j <= Len(a) THEN a[j] ELSE b[j - Len(a)]
      BY <1>1, <1>4, <1>6
    <2>2. CASE j < i
      BY <1>1, <1>2, <2>1, <2>2
    <2>3. CASE ~(j < i)
      <3>1. j - Len(a) \in 1 .. (Len(s) - i) /\ i + (j - Len(a)) = j + 1 /\ ~(j <= Len(a))
        BY <1>1, <1>2, <2>3
      <3>2. b[j - Len(a)] = s[j + 1]
        BY <1>3, <3>1
      <3>. QED BY <2>1, <2>3, <3>1, <3>2
    <2>. QED BY <2>2, <2>3
  <1>. QED BY <1>4, <1>5, <1>6, <1>7

(* A sequence is one over its own elements, at numbers from 1.             *)
LEMMA Listed ==
    ASSUME NEW S, NEW s \in Seq(S)
    PROVE  /\ s \in Seq({s[i]: i \in DOMAIN s}) /\ DOMAIN s = 1 .. Len(s) /\ Len(s) \in Nat
           /\ \A i \in 1 .. Len(s): s[i] \in S
  <1>1. DOMAIN s = 1 .. Len(s) /\ Len(s) \in Nat /\ \A i \in 1 .. Len(s): s[i] \in S
    BY LenProperties, ElementOfSeq
  <1>2. s \in [1 .. Len(s) -> {s[i]: i \in DOMAIN s}]
    BY <1>1, LenProperties
  <1>. QED BY <1>1, <1>2

-----------------------------------------------------------------------------
(* What the steps do to the requests that are on their way.                *)

(* Whatever a step puts together of requests is requests.                  *)
LEMMA RequestsStay ==
    ASSUME NEW S, \A r \in S: IsRequest(r), wire' \in Seq(S)
    PROVE  /\ wire' \in Seq({wire'[i]: i \in DOMAIN wire'})
           /\ \A i \in DOMAIN wire': IsRequest(wire'[i])
  BY Listed

(* A request goes on.                                                      *)
LEMMA SteppedOn ==
    ASSUME EditorTypes, NEW i \in DOMAIN wire, NEW r, wire' = [wire EXCEPT ![i] = r],
           IsRequest(r)
    PROVE  /\ wire' \in Seq({wire'[j]: j \in DOMAIN wire'})
           /\ \A j \in DOMAIN wire': IsRequest(wire'[j])
           /\ Len(wire') = Len(wire) /\ DOMAIN wire' = DOMAIN wire
           /\ wire'[i] = r /\ \A j \in DOMAIN wire: j # i => wire'[j] = wire[j]
  <1> DEFINE W == {wire[j]: j \in DOMAIN wire}
             S == W \cup {r}
  <1>1. wire \in Seq(W) /\ \A x \in S: IsRequest(x)
    BY DEF EditorTypes
  <1>2. wire \in Seq(S) /\ DOMAIN wire = 1 .. Len(wire)
    <2>. HIDE DEF W
    <2>. QED BY <1>1, SeqMonotonic, LenProperties
  <1>. HIDE DEF S
  <1>3. r \in S
    BY DEF S
  <1>4. /\ wire' \in Seq(S) /\ Len(wire') = Len(wire)
        /\ \A j \in 1 .. Len(wire): wire'[j] = IF j = i THEN r ELSE wire[j]
    BY <1>2, <1>3, ExceptSeq
  <1>5. DOMAIN wire' = 1 .. Len(wire)
    BY <1>4, LenProperties
  <1>. QED BY <1>1, <1>2, <1>4, <1>5, RequestsStay

(* A request is sent.                                                      *)
LEMMA Sent ==
    ASSUME EditorTypes, NEW r, wire' = Append(wire, r), IsRequest(r)
    PROVE  /\ wire' \in Seq({wire'[j]: j \in DOMAIN wire'})
           /\ \A j \in DOMAIN wire': IsRequest(wire'[j])
           /\ Len(wire) \in Nat /\ DOMAIN wire = 1 .. Len(wire)
           /\ DOMAIN wire' = 1 .. (Len(wire) + 1)
           /\ wire'[Len(wire) + 1] = r /\ \A j \in DOMAIN wire: wire'[j] = wire[j]
  <1> DEFINE W == {wire[j]: j \in DOMAIN wire}
             S == W \cup {r}
  <1>1. wire \in Seq(W) /\ \A x \in S: IsRequest(x)
    BY DEF EditorTypes
  <1>2. wire \in Seq(S) /\ DOMAIN wire = 1 .. Len(wire) /\ Len(wire) \in Nat
    <2>. HIDE DEF W
    <2>. QED BY <1>1, SeqMonotonic, LenProperties
  <1>. HIDE DEF S
  <1>3. r \in S
    BY DEF S
  <1>4. /\ wire' \in Seq(S) /\ Len(wire') = Len(wire) + 1
        /\ \A j \in 1 .. Len(wire): wire'[j] = wire[j]
        /\ wire'[Len(wire) + 1] = r
    BY <1>2, <1>3, Appended
  <1>5. DOMAIN wire' = 1 .. (Len(wire) + 1)
    BY <1>4, LenProperties
  <1>. QED BY <1>1, <1>2, <1>4, <1>5, RequestsStay

(* A request is done with.                                                 *)
LEMMA Gone ==
    ASSUME EditorTypes, NEW i \in DOMAIN wire, wire' = RemoveAt(wire, i)
    PROVE  /\ wire' \in Seq({wire'[j]: j \in DOMAIN wire'})
           /\ \A j \in DOMAIN wire': IsRequest(wire'[j])
           /\ Len(wire) \in Nat \ {0} /\ DOMAIN wire = 1 .. Len(wire)
           /\ Len(wire') = Len(wire) - 1 /\ DOMAIN wire' = 1 .. (Len(wire) - 1)
           /\ i = 1 => \A j \in DOMAIN wire': wire'[j] = wire[j + 1]
  <1> DEFINE S == {wire[j]: j \in DOMAIN wire}
  <1>1. wire \in Seq(S) /\ \A x \in S: IsRequest(x)
    BY DEF EditorTypes
  <1>. HIDE DEF S
  <1>2. DOMAIN wire = 1 .. Len(wire) /\ Len(wire) \in Nat
    BY <1>1, LenProperties
  <1>3. /\ wire' \in Seq(S) /\ Len(wire') = Len(wire) - 1
        /\ \A j \in 1 .. (Len(wire) - 1): wire'[j] = wire[IF j < i THEN j ELSE j + 1]
    BY <1>1, <1>2, Removed
  <1>4. DOMAIN wire' = 1 .. (Len(wire) - 1)
    BY <1>3, LenProperties
  <1>. QED BY <1>1, <1>2, <1>3, <1>4, RequestsStay

(* A request is done with, and another one sent.                           *)
LEMMA GoneAndSent ==
    ASSUME EditorTypes, NEW i \in DOMAIN wire, NEW r, IsRequest(r),
           wire' = Append(RemoveAt(wire, i), r)
    PROVE  /\ wire' \in Seq({wire'[j]: j \in DOMAIN wire'})
           /\ \A j \in DOMAIN wire': IsRequest(wire'[j])
           /\ Len(wire) \in Nat \ {0} /\ DOMAIN wire = 1 .. Len(wire)
           /\ Len(wire') = Len(wire) /\ DOMAIN wire' = DOMAIN wire
           /\ i = 1 => \A j \in 1 .. (Len(wire) - 1): wire'[j] = wire[j + 1]
           /\ wire'[Len(wire)] = r
           /\ DOMAIN RemoveAt(wire, i) = 1 .. (Len(wire) - 1)
           /\ \A j \in 1 .. (Len(wire) - 1): RemoveAt(wire, i)[j] = wire'[j]
  <1> DEFINE W == {wire[j]: j \in DOMAIN wire}
             S == W \cup {r}
             others == RemoveAt(wire, i)
  <1>1. wire \in Seq(W) /\ \A x \in S: IsRequest(x)
    BY DEF EditorTypes
  <1>2. wire \in Seq(S) /\ DOMAIN wire = 1 .. Len(wire) /\ Len(wire) \in Nat
    <2>. HIDE DEF W
    <2>. QED BY <1>1, SeqMonotonic, LenProperties
  <1>. HIDE DEF S
  <1>3. r \in S
    BY DEF S
  <1>4. /\ others \in Seq(S) /\ Len(others) = Len(wire) - 1
        /\ \A j \in 1 .. (Len(wire) - 1): others[j] = wire[IF j < i THEN j ELSE j + 1]
    BY <1>2, Removed
  <1>12. DOMAIN others = 1 .. (Len(wire) - 1)
    BY <1>4, LenProperties
  <1>. HIDE DEF others
  <1>5. wire' = Append(others, r)
    BY DEF others
  <1>6. /\ wire' \in Seq(S) /\ Len(wire') = Len(others) + 1
        /\ \A j \in 1 .. Len(others): wire'[j] = others[j]
        /\ wire'[Len(others) + 1] = r
    BY <1>3, <1>4, <1>5, Appended
  <1>7. Len(others) + 1 = Len(wire)
    BY <1>2, <1>4
  <1>8. DOMAIN wire' = 1 .. Len(wire)
    BY <1>6, <1>7, LenProperties
  <1>9. /\ wire' \in Seq({wire'[j]: j \in DOMAIN wire'})
        /\ \A j \in DOMAIN wire': IsRequest(wire'[j])
    BY <1>1, <1>6, RequestsStay
  <1>10. ASSUME i = 1, NEW j \in 1 .. (Len(wire) - 1) PROVE wire'[j] = wire[j + 1]
    <2>1. j \in 1 .. Len(others)
      BY <1>4
    <2>2. wire'[j] = others[j]
      BY <1>6, <2>1
    <2>3. others[j] = wire[IF j < 1 THEN j ELSE j + 1]
      BY <1>4, <1>10
    <2>4. ~(j < 1)
      BY <1>2
    <2>. QED BY <2>2, <2>3, <2>4
  <1>11. Len(wire) # 0 /\ Len(wire') = Len(wire) /\ wire'[Len(wire)] = r
    <2>1. Len(wire) # 0
      BY <1>2
    <2>2. Len(wire') = Len(wire)
      BY <1>6, <1>7
    <2>. QED BY <1>6, <1>7, <2>1, <2>2
  <1>13. \A j \in 1 .. (Len(wire) - 1): others[j] = wire'[j]
    BY <1>4, <1>6
  <1>. QED BY <1>2, <1>8, <1>9, <1>10, <1>11, <1>12, <1>13 DEF others

-----------------------------------------------------------------------------
(* Requests that are sent.                                                 *)

(* What may be sent when: an editor that is on display, and is to stay,    *)
(* writes one thing at a time, and runs what it knows to be saved; a list  *)
(* writes for nobody.                                                      *)
MaySend(r) ==
    /\ IsRequest(r) /\ r.step = "sent"
    /\ OwnWrite(r) =>
          /\ entry # "none" /\ entry = route
          /\ \A i \in DOMAIN wire: ~OwnLoad(wire[i]) /\ ~OwnWrite(wire[i])
          /\ r.kind # "saveAs" => r.path = entry
    /\ Stray(r) => route = "list" /\ r.kind \in {"delete", "saveAs"}
    /\ r.kind = "run" /\ r.text # Absent =>
          /\ entry # "none" /\ entry = route /\ r.path = entry /\ r.text = lastSaved
          /\ \A i \in DOMAIN wire: ~OwnLoad(wire[i]) /\ ~OwnWrite(wire[i])

(* A request that may be sent contradicts nothing that is known.           *)
LEMMA AskingKeeps ==
    ASSUME EditorTypes, Unmuddled, NEW r, MaySend(r), wire' = Append(wire, r),
           UNCHANGED <<library, entry>>, lastSaved' = lastSaved \/ entry = "none",
           route' = route \/ (OwnLoad(r) /\ route' = r.path),
           OwnLoad(r) => route' = r.path
    PROVE  Unmuddled'
  <1>1. IsRequest(r) /\ r.step = "sent" /\ UNCHANGED <<texts, index, foreign>>
    BY DEF MaySend, library
  <1>2. /\ Len(wire) \in Nat /\ DOMAIN wire = 1 .. Len(wire)
        /\ DOMAIN wire' = 1 .. (Len(wire) + 1)
        /\ wire'[Len(wire) + 1] = r /\ \A j \in DOMAIN wire: wire'[j] = wire[j]
    BY <1>1, Sent
  <1> DEFINE n == Len(wire) + 1
  <1>3. /\ n \in DOMAIN wire' /\ n \notin DOMAIN wire /\ wire'[n] = r
        /\ \A j \in DOMAIN wire': j = n \/ (j \in DOMAIN wire /\ j < n /\ wire'[j] = wire[j])
        /\ \A j \in DOMAIN wire: j \in DOMAIN wire' /\ wire'[j] = wire[j] /\ j < n
        /\ \A j \in DOMAIN wire': j \in Int
    BY <1>2
  <1>. HIDE DEF n
  <1>4. OneAtATime'
    BY <1>1, <1>3 DEF OneAtATime, Unmuddled
  <1>5. r.path \in Paths /\ "list" \notin Paths /\ (OwnLoad(r) => route' # "list")
    BY <1>1, EditorAssumption DEF IsRequest, EditorAssumption
  <1>6. (OwnWrite(r) => ~OwnLoad(r) /\ ~Stray(r)) /\ (Stray(r) => ~OwnLoad(r))
    BY DEF OwnLoad, OwnWrite, Stray, Writers
  <1>7. InOrderOfPages'
    <2>1. route' = "list" => /\ entry' = "none"
                             /\ \A i \in DOMAIN wire': ~OwnLoad(wire'[i]) /\ ~OwnWrite(wire'[i])
      BY <1>3, <1>5, EditorAssumption DEF InOrderOfPages, Unmuddled, MaySend, EditorAssumption
    <2>2. ASSUME NEW i \in DOMAIN wire', Stray(wire'[i])
          PROVE  /\ entry' = "none"
                 /\ \A j \in DOMAIN wire': j < i => ~OwnLoad(wire'[j]) /\ ~OwnWrite(wire'[j])
      <3>1. CASE i = n
        BY <1>3, <2>2, <3>1 DEF InOrderOfPages, Unmuddled, MaySend
      <3>2. CASE i # n
        BY <1>3, <2>2, <3>2 DEF InOrderOfPages, Unmuddled
      <3>. QED BY <3>1, <3>2
    <2>3. ASSUME NEW i \in DOMAIN wire', OwnWrite(wire'[i])
          PROVE  /\ entry' # "none"
                 /\ wire'[i].kind # "saveAs" => wire'[i].path = entry'
                 /\ \A j \in DOMAIN wire': OwnWrite(wire'[j]) => j = i
                 /\ \A j \in DOMAIN wire': j < i => ~OwnLoad(wire'[j])
      <3>1. CASE i = n
        BY <1>3, <2>3, <3>1 DEF InOrderOfPages, Unmuddled, MaySend
      <3>2. CASE i # n
        BY <1>3, <2>3, <3>2 DEF InOrderOfPages, Unmuddled, MaySend
      <3>. QED BY <3>1, <3>2
    <2>. QED BY <2>1, <2>2, <2>3 DEF InOrderOfPages
  <1>8. OneSave'
    <2>1. ASSUME r.kind \in {"save", "saveForRun"}, NEW i \in DOMAIN wire
          PROVE  wire[i].kind \notin {"save", "saveForRun"}
      <3>1. OwnWrite(r)
        BY <1>1, <2>1 DEF MaySend, Stray, OwnWrite, Writers, IsRequest
      <3>2. ~OwnWrite(wire[i]) /\ ~Stray(wire[i])
        BY <3>1 DEF MaySend, InOrderOfPages, Unmuddled
      <3>. QED BY <3>2 DEF OwnWrite, Stray, Writers
    <2>. QED BY <1>3, <2>1 DEF OneSave, Unmuddled
  <1>9. HeadKnows'
    BY <1>1, <1>3 DEF HeadKnows, Unmuddled, IsPipeline, Exists, Known
  <1>10. EntryAgrees'
    <2>1. JustSaved => JustSaved'
      BY <1>3 DEF JustSaved
    <2>2. entry # "none" => lastSaved' = lastSaved
      OBVIOUS
    <2>3. Displaced => Displaced'
      <3>1. ASSUME route' = r.path, OwnLoad(r) PROVE Displaced'
        BY <1>3, <3>1 DEF Displaced
      <3>. QED BY <1>3, <3>1 DEF Displaced
    <2>. QED BY <1>1, <2>1, <2>2, <2>3 DEF EntryAgrees, Unmuddled, IsPipeline, Exists, Known
  <1>11. RunsFind'
    <2>1. ASSUME r.kind = "run", r.text # Absent, r.path \notin foreign
          PROVE  /\ texts[r.path] = r.text
                 /\ \A i \in DOMAIN wire: wire[i].kind \notin Writers
      <3>1. \A i \in DOMAIN wire: wire[i].kind \notin Writers
        BY <2>1, EditorTypes DEF MaySend, InOrderOfPages, Unmuddled, OwnWrite, Stray, EditorTypes, IsRequest
      <3>2. ~JustSaved /\ ~Displaced
        BY <2>1, <3>1 DEF MaySend, JustSaved, Displaced, Writers
      <3>. QED BY <2>1, <3>1, <3>2 DEF MaySend, EntryAgrees, Unmuddled
    <2>. QED BY <1>1, <1>3, <2>1 DEF RunsFind, Unmuddled, Exists, Known
  <1>. QED BY <1>4, <1>7, <1>8, <1>9, <1>10, <1>11 DEF Unmuddled

(* A request as the page makes it.                                         *)
LEMMA RequestMade ==
    ASSUME NEW kind \in RequestKinds, NEW q \in Paths, NEW text,
           kind \in Writers => text.form = "editor"
    PROVE  LET r == [Request(kind, q, text) EXCEPT !.mine = FALSE]
           IN /\ IsRequest(r) /\ r.step = "sent"
              /\ r.kind = kind /\ r.path = q /\ r.text = text /\ ~r.mine
  <1>1. ASSUME NEW b \in BOOLEAN
        PROVE  LET r == [Request(kind, q, text) EXCEPT !.mine = b]
               IN /\ IsRequest(r) /\ r.step = "sent"
                  /\ r.kind = kind /\ r.path = q /\ r.text = text /\ (r.mine <=> b)
    BY DEF Request, IsRequest
  <1>. HIDE DEF Request, IsRequest
  <1>2. FALSE \in BOOLEAN
    OBVIOUS
  <1>. QED BY <1>1, <1>2, Zenon

(* A request as the page on display makes it.                              *)
LEMMA OwnRequestMade ==
    ASSUME NEW kind \in RequestKinds, NEW q \in Paths, NEW text,
           kind \in Writers => text.form = "editor"
    PROVE  LET r == Request(kind, q, text)
           IN /\ IsRequest(r) /\ r.step = "sent"
              /\ r.kind = kind /\ r.path = q /\ r.text = text /\ r.mine
  BY DEF Request, IsRequest

(* The same with the types, and whether or not things are muddled.         *)
LEMMA SentKeeps ==
    ASSUME EditorInv, NEW r, IsRequest(r), ~muddled' => ~muddled /\ MaySend(r),
           wire' = Append(wire, r),
           UNCHANGED <<library, entry>>, lastSaved' = lastSaved \/ entry = "none",
           route' = route \/ (OwnLoad(r) /\ route' = r.path),
           OwnLoad(r) => route' = r.path
    PROVE  EditorInv'
  <1>1. EditorTypes'
    BY Sent DEF EditorInv, EditorTypes, library, IsRequest
  <1>2. ~muddled' => Unmuddled'
    BY AskingKeeps DEF EditorInv
  <1>. QED BY <1>1, <1>2 DEF EditorInv

(* A click on a pipeline asks for it.                                      *)
LEMMA OpenPipelineKeeps ==
    ASSUME EditorInv, NEW q \in Paths, OpenPipeline(q)
    PROVE  EditorInv'
  <1> DEFINE r == Request("load", q, Absent)
  <1>1. IsRequest(r) /\ r.step = "sent" /\ r.kind = "load" /\ r.path = q /\ r.text = Absent /\ r.mine
    BY OwnRequestMade DEF RequestKinds, Writers
  <1>2. MaySend(r) /\ OwnLoad(r)
    <2>. HIDE DEF r
    <2>. QED BY <1>1 DEF MaySend, OwnWrite, OwnLoad, Stray, Writers
  <1>3. /\ wire' = Append(wire, r) /\ route' = r.path /\ UNCHANGED <<library, muddled>>
        /\ (route = "list" /\ entry' = "none") \/ (UNCHANGED <<entry, lastSaved>>)
    BY <1>1 DEF OpenPipeline, NoInstance, instance
  <1>. HIDE DEF r
  <1>4. CASE UNCHANGED <<entry, lastSaved>>
    BY <1>1, <1>2, <1>3, <1>4, SentKeeps
  <1>5. CASE route = "list" /\ entry' = "none" /\ muddled
    BY <1>1, <1>3, <1>5, Sent DEF EditorInv, EditorTypes, library, IsRequest
  <1>6. CASE route = "list" /\ entry' = "none" /\ ~muddled
    <2>1. entry = "none"
      BY <1>6 DEF EditorInv, Unmuddled, InOrderOfPages
    <2>. QED BY <1>1, <1>2, <1>3, <1>6, <2>1, SentKeeps
  <1>. QED BY <1>3, <1>4, <1>5, <1>6

(* What the editor on display sends.                                       *)
LEMMA EditorSends ==
    ASSUME EditorInv, NEW kind \in RequestKinds \ {"load", "delete"}, NEW q \in Paths, NEW text,
           wire' = Append(wire, Request(kind, q, text)), text.form = "editor",
           kind # "saveAs" => q = entry, kind = "run" => text = lastSaved,
           entry # "none", UNCHANGED <<library, route, instance>>,
           ~muddled' => ~muddled /\ ~Turning /\ ~Saving /\ ~RunBusy
    PROVE  EditorInv'
  <1> DEFINE r == Request(kind, q, text)
  <1>1. IsRequest(r) /\ r.step = "sent" /\ r.kind = kind /\ r.path = q /\ r.text = text /\ r.mine
    BY OwnRequestMade
  <1>. HIDE DEF r
  <1>2. ASSUME ~muddled' PROVE MaySend(r)
    <2>1. /\ entry = route
          /\ \A i \in DOMAIN wire: ~OwnLoad(wire[i]) /\ ~OwnWrite(wire[i])
      BY <1>2 DEF Turning, Saving, RunBusy, Busy, OwnLoad, OwnWrite, Writers
    <2>2. ~Stray(r)
      BY <1>1 DEF Stray, Writers, RequestKinds
    <2>. QED BY <1>1, <2>1, <2>2 DEF MaySend
  <1>3. ~OwnLoad(r)
    BY <1>1 DEF OwnLoad
  <1>4. UNCHANGED <<entry, lastSaved>> /\ wire' = Append(wire, r)
    BY DEF instance, r
  <1>. QED BY <1>1, <1>2, <1>3, <1>4, SentKeeps

(* "Save", "Save As" and "Run" of the editor.                              *)
LEMMA EditorStepsKeep ==
    ASSUME EditorInv, Save \/ Run \/ \E q \in Paths: SaveAs(q)
    PROVE  EditorInv'
  <1>1. /\ draft # NoDraft /\ entry # "none" /\ entry \in Paths
        /\ UNCHANGED <<library, route, instance>>
    BY DEF Save, Run, SaveAs, Editing, EditorInv, EditorTypes
  <1>2. Yaml.form = "editor"
    BY DEF Yaml, Text
  <1>3. CASE Save
    <2>1. ~Saving /\ wire' = Append(wire, Request("save", entry, Yaml))
          /\ muddled' = (muddled \/ Turning \/ RunBusy)
      BY <1>3 DEF Save, Send
    <2>2. "save" \in RequestKinds \ {"load", "delete"}
      BY DEF RequestKinds, Writers
    <2>. QED BY <1>1, <1>2, <2>1, <2>2, EditorSends
  <1>4. ASSUME NEW q \in Paths, SaveAs(q) PROVE EditorInv'
    <2>1. ~Saving /\ wire' = Append(wire, Request("saveAs", q, Yaml))
          /\ muddled' = (muddled \/ Turning \/ RunBusy)
      BY <1>4 DEF SaveAs, Send
    <2>2. "saveAs" \in RequestKinds \ {"load", "delete"}
      BY DEF RequestKinds, Writers
    <2>. QED BY <1>1, <1>2, <2>1, <2>2, EditorSends
  <1>5. CASE Run
    <2>1. /\ ~RunBusy /\ wire' = Append(wire, Request(RunKind, entry, Yaml))
          /\ muddled' = (muddled \/ Turning \/ Saving)
      BY <1>5 DEF Run, Send
    <2>2. /\ RunKind \in RequestKinds \ {"load", "delete"} /\ RunKind # "saveAs"
          /\ RunKind = "run" => Yaml = lastSaved
      BY <1>1 DEF RunKind, Dirty, RequestKinds, Writers
    <2>. QED BY <1>1, <1>2, <2>1, <2>2, EditorSends
  <1>. QED BY <1>3, <1>4, <1>5

(* The buttons of the list pages.                                          *)
LEMMA OnListKeeps ==
    ASSUME EditorInv, NEW q \in Paths, OnList(q)
    PROVE  EditorInv'
  <1>1. route = "list" /\ UNCHANGED <<library, route, entry, lastSaved, muddled>>
    BY DEF OnList, instance
  <1>2. ASSUME NEW r, IsRequest(r), r.step = "sent", wire' = Append(wire, r), ~OwnWrite(r), ~OwnLoad(r),
               r.kind \in {"delete", "saveAs"} \/ (r.kind = "run" /\ r.text = Absent)
        PROVE  EditorInv'
    <2>1. MaySend(r)
      BY <1>1, <1>2 DEF MaySend, Stray, Writers
    <2>. QED BY <1>1, <1>2, <2>1, SentKeeps
  <1>3. CASE DeletePipeline(q)
    <2> DEFINE r == Request("delete", q, Absent)
    <2>1. IsRequest(r) /\ r.step = "sent" /\ r.kind = "delete"
      BY OwnRequestMade DEF RequestKinds, Writers
    <2>2. wire' = Append(wire, r)
      BY <1>3 DEF DeletePipeline, Send
    <2>. HIDE DEF r
    <2>. QED BY <1>2, <2>1, <2>2 DEF OwnWrite, OwnLoad, Writers
  <1>4. CASE RunFromList(q)
    <2> DEFINE r == Request("run", q, Absent)
    <2>1. IsRequest(r) /\ r.step = "sent" /\ r.kind = "run" /\ r.text = Absent
      BY OwnRequestMade DEF RequestKinds, Writers
    <2>2. wire' = Append(wire, r)
      BY <1>4 DEF RunFromList, Send
    <2>. HIDE DEF r
    <2>. QED BY <1>2, <2>1, <2>2 DEF OwnWrite, OwnLoad, Writers
  <1>5. CASE CreatePipeline(q)
    <2> DEFINE r == [Request("saveAs", q, Text(Starter)) EXCEPT !.mine = FALSE]
    <2>1. Text(Starter).form = "editor"
      BY DEF Text
    <2>2. IsRequest(r) /\ r.step = "sent" /\ r.kind = "saveAs" /\ ~r.mine
      BY <2>1, RequestMade DEF RequestKinds, Writers
    <2>3. wire' = Append(wire, r)
      BY <1>5 DEF CreatePipeline, Send
    <2>. HIDE DEF r
    <2>. QED BY <1>2, <2>2, <2>3 DEF OwnWrite, OwnLoad, Writers
  <1>. QED BY <1>3, <1>4, <1>5 DEF OnList

-----------------------------------------------------------------------------
(* Steps that send and answer nothing.                                     *)

(* Pipelines are listed, others come and go, the graph is edited: what     *)
(* changes in a file is known to be somebody else's.                       *)
LEMMA QuietKeeps ==
    ASSUME EditorInv, UNCHANGED <<route, entry, lastSaved, wire>>, muddled => muddled',
           DOMAIN texts' = Paths, foreign \subseteq foreign',
           \A q \in Paths: q \notin foreign' =>
              /\ texts'[q] = texts[q] /\ (Known(q) => Known(q)')
              /\ (Known(q)' => Known(q) \/ Exists(q))
    PROVE  EditorInv'
  <1>1. EditorTypes'
    BY DEF EditorInv, EditorTypes, IsRequest
  <1>2. ASSUME ~muddled' PROVE Unmuddled'
    <2>1. Unmuddled /\ \A i \in DOMAIN wire: wire[i].path \in Paths
      BY <1>2 DEF EditorInv, EditorTypes, IsRequest
    <2>2. \A q \in Paths: q \notin foreign' => (IsPipeline(q) <=> IsPipeline(q)') /\ (Exists(q) <=> Exists(q)')
      BY DEF IsPipeline, Exists
    <2>3. OneAtATime' /\ InOrderOfPages' /\ OneSave'
      BY <2>1 DEF Unmuddled, OneAtATime, InOrderOfPages, OneSave
    <2>4. HeadKnows'
      BY <2>1, <2>2 DEF Unmuddled, HeadKnows
    <2>5. EntryAgrees'
      <3>1. (Displaced <=> Displaced') /\ (JustSaved <=> JustSaved')
        BY DEF Displaced, JustSaved
      <3>2. entry \in Paths \cup {"none"}
        BY DEF EditorInv, EditorTypes
      <3>. QED BY <2>1, <2>2, <3>1, <3>2 DEF Unmuddled, EntryAgrees
    <2>6. RunsFind'
      BY <2>1, <2>2 DEF Unmuddled, RunsFind
    <2>. QED BY <2>3, <2>4, <2>5, <2>6 DEF Unmuddled
  <1>. QED BY <1>1, <1>2 DEF EditorInv

(* The steps that are quiet in this sense.                                 *)
LEMMA QuietStepsKeep ==
    ASSUME EditorInv,
           Edit \/ TimerFires \/ Others \/ (\E i \in DOMAIN checking: ValidationAnswers(i))
    PROVE  EditorInv'
  <1>1. UNCHANGED <<route, entry, lastSaved, wire>> /\ (muddled => muddled')
    <2>1. CASE Edit \/ TimerFires \/ Others
      BY <2>1 DEF Edit, TimerFires, Others, instance
    <2>2. ASSUME NEW i \in DOMAIN checking, ValidationAnswers(i)
          PROVE  UNCHANGED <<route, entry, lastSaved, wire>> /\ (muddled => muddled')
      BY <2>2 DEF ValidationAnswers
    <2>. QED BY <2>1, <2>2
  <1>2. CASE UNCHANGED library
    BY <1>1, <1>2, QuietKeeps DEF library, Known, EditorInv, EditorTypes
  <1>3. CASE List
    BY <1>1, <1>3, QuietKeeps DEF List, Enter, Known, EditorInv, EditorTypes
  <1>4. CASE RegisterProject \/ UnregisterProject
    BY <1>1, <1>4, QuietKeeps DEF RegisterProject, UnregisterProject, Known, EditorInv, EditorTypes
  <1>5. CASE \E q \in Paths, text \in MeddleTexts: Meddle(q, text)
    BY <1>1, <1>5, QuietKeeps DEF Meddle, Known, EditorInv, EditorTypes
  <1>. QED BY <1>2, <1>3, <1>4, <1>5 DEF Edit, TimerFires, Others, ValidationAnswers

(* Nobody waits any more for what a page that is left has asked for.       *)
LEMMA Abandoned ==
    ASSUME NEW r, IsRequest(r), NEW b \in BOOLEAN
    PROVE  LET left == [r EXCEPT !.mine = b]
           IN /\ IsRequest(left) /\ (left.mine <=> b)
              /\ left.kind = r.kind /\ left.path = r.path /\ left.text = r.text /\ left.step = r.step
  BY DEF IsRequest

(* The editor is left, and with it all it waits for.                       *)
LEMMA LeaveKeeps ==
    ASSUME EditorInv, Leave
    PROVE  EditorInv'
  <1>1. /\ DOMAIN wire = 1 .. Len(wire) /\ Len(wire) \in Nat
        /\ \A i \in DOMAIN wire: IsRequest(wire[i])
    BY LenProperties DEF EditorInv, EditorTypes
  <1>2. /\ wire' = [i \in DOMAIN wire |-> [wire[i] EXCEPT !.mine = FALSE]]
        /\ route' = "list" /\ entry' = "none" /\ UNCHANGED <<texts, index, foreign, muddled>>
    BY DEF Leave, NoInstance, library
  <1>3. FALSE \in BOOLEAN
    OBVIOUS
  <1>4. /\ DOMAIN wire' = DOMAIN wire
        /\ \A i \in DOMAIN wire: wire'[i] = [wire[i] EXCEPT !.mine = FALSE]
    BY <1>2
  <1>5. \A i \in DOMAIN wire: LET r == wire'[i] IN
           /\ IsRequest(r) /\ ~r.mine /\ r.kind = wire[i].kind /\ r.path = wire[i].path
           /\ r.text = wire[i].text /\ r.step = wire[i].step
    <2>. SUFFICES ASSUME NEW i \in DOMAIN wire
                  PROVE  LET r == wire'[i] IN
                         /\ IsRequest(r) /\ ~r.mine /\ r.kind = wire[i].kind /\ r.path = wire[i].path
                         /\ r.text = wire[i].text /\ r.step = wire[i].step
      OBVIOUS
    <2>1. IsRequest(wire[i]) /\ wire'[i] = [wire[i] EXCEPT !.mine = FALSE]
      BY <1>1, <1>4
    <2>. HIDE DEF IsRequest
    <2>. QED BY <1>3, <2>1, Abandoned, Zenon
  <1>6. EditorTypes'
    <2> DEFINE S == {wire'[i]: i \in DOMAIN wire'}
    <2>1. wire' \in [1 .. Len(wire) -> S]
      BY <1>1, <1>2, <1>4
    <2>2. wire' \in Seq(S)
      BY <1>1, <2>1
    <2>. QED BY <1>2, <1>4, <1>5, <2>2 DEF EditorTypes, EditorInv
  <1>7. ASSUME ~muddled PROVE Unmuddled'
    <2>1. Unmuddled
      BY <1>7 DEF EditorInv
    <2>2. OneAtATime' /\ OneSave'
      BY <1>4, <1>5, <2>1 DEF Unmuddled, OneAtATime, OneSave
    <2>3. InOrderOfPages'
      BY <1>2, <1>4, <1>5 DEF InOrderOfPages, OwnLoad, OwnWrite
    <2>4. HeadKnows'
      BY <1>2, <1>4, <1>5, <2>1 DEF Unmuddled, HeadKnows, OwnLoad, OwnWrite, IsPipeline, Exists, Known
    <2>5. EntryAgrees'
      BY <1>2 DEF EntryAgrees
    <2>6. RunsFind'
      BY <1>2, <1>4, <1>5, <2>1 DEF Unmuddled, RunsFind, Known, Exists
    <2>. QED BY <2>2, <2>3, <2>4, <2>5, <2>6 DEF Unmuddled
  <1>. QED BY <1>2, <1>6, <1>7 DEF EditorInv

-----------------------------------------------------------------------------
(* The server answers.                                                     *)

(* An answer changes two fields of a request.                              *)
LEMMA WithAnswer ==
    ASSUME NEW r, IsRequest(r), NEW text, NEW step
    PROVE  [r EXCEPT !.text = text, !.step = step]
              = [kind |-> r.kind, path |-> r.path, text |-> text, step |-> step, mine |-> r.mine]
  <1>1. ASSUME NEW k, NEW q, NEW t, NEW u, NEW m,
               r = [kind |-> k, path |-> q, text |-> t, step |-> u, mine |-> m]
        PROVE  [r EXCEPT !.text = text, !.step = step]
                  = [kind |-> k, path |-> q, text |-> text, step |-> step, mine |-> m]
    <2>1. [r EXCEPT !.text = text] = [kind |-> k, path |-> q, text |-> text, step |-> u, mine |-> m]
      BY <1>1
    <2>2. ASSUME NEW x, x = [kind |-> k, path |-> q, text |-> text, step |-> u, mine |-> m]
          PROVE  [x EXCEPT !.step = step]
                    = [kind |-> k, path |-> q, text |-> text, step |-> step, mine |-> m]
      BY <2>2
    <2>3. [r EXCEPT !.text = text, !.step = step] = [[r EXCEPT !.text = text] EXCEPT !.step = step]
      OBVIOUS
    <2>. QED BY <2>1, <2>2, <2>3
  <1>2. r = [kind |-> r.kind, path |-> r.path, text |-> r.text, step |-> r.step, mine |-> r.mine]
    BY DEF IsRequest
  <1>. QED BY <1>1, <1>2, Zenon

(* A request gets its text and its answer.                                 *)
LEMMA Progressed ==
    ASSUME EditorTypes, NEW i \in DOMAIN wire, NEW text, NEW step,
           wire[i].kind \in Writers => text.form = "editor",
           wire'[i].step = "begun" => wire[i].kind \in Writers,
           wire' = [wire EXCEPT ![i].text = text, ![i].step = step]
    PROVE  /\ wire' \in Seq({wire'[j]: j \in DOMAIN wire'})
           /\ \A j \in DOMAIN wire': IsRequest(wire'[j])
           /\ DOMAIN wire' = DOMAIN wire /\ \A j \in DOMAIN wire: j # i => wire'[j] = wire[j]
           /\ wire'[i].kind = wire[i].kind /\ wire'[i].path = wire[i].path
           /\ (wire'[i].mine <=> wire[i].mine)
           /\ wire'[i].text = text /\ wire'[i].step = step
  <1> DEFINE w == wire[i]
             r == [w EXCEPT !.text = text, !.step = step]
             s == [kind |-> w.kind, path |-> w.path, text |-> text, step |-> step, mine |-> w.mine]
  <1>1. IsRequest(w) /\ wire' = [wire EXCEPT ![i] = r]
    BY DEF EditorTypes
  <1>2. \A v: IsRequest(v) => [v EXCEPT !.text = text, !.step = step]
           = [kind |-> v.kind, path |-> v.path, text |-> text, step |-> step, mine |-> v.mine]
    <2>. HIDE DEF IsRequest
    <2>. QED BY WithAnswer, Zenon
  <1>3. r = s
    <2>. HIDE DEF IsRequest, w
    <2>. QED BY <1>1, <1>2, Zenon
  <1>4. s.kind = w.kind /\ s.path = w.path /\ s.mine = w.mine /\ s.text = text /\ s.step = step
    OBVIOUS
  <1>5. s = [kind |-> s.kind, path |-> s.path, text |-> s.text, step |-> s.step, mine |-> s.mine]
    BY <1>4
  <1>6. wire'[i] = s
    BY <1>1, <1>3
  <1>. HIDE DEF s, r
  <1>7. IsRequest(s)
    BY <1>1, <1>4, <1>5, <1>6 DEF IsRequest
  <1>. QED BY <1>1, <1>3, <1>4, <1>7, SteppedOn

(* A request gets its answer.                                              *)
LEMMA Stepped ==
    ASSUME EditorTypes, NEW i \in DOMAIN wire, NEW step,
           wire'[i].step = "begun" => wire[i].kind \in Writers,
           wire' = [wire EXCEPT ![i].step = step]
    PROVE  /\ wire' \in Seq({wire'[j]: j \in DOMAIN wire'})
           /\ \A j \in DOMAIN wire': IsRequest(wire'[j])
           /\ DOMAIN wire' = DOMAIN wire /\ \A j \in DOMAIN wire: j # i => wire'[j] = wire[j]
           /\ wire'[i].kind = wire[i].kind /\ wire'[i].path = wire[i].path
           /\ (wire'[i].mine <=> wire[i].mine)
           /\ wire'[i].text = wire[i].text /\ wire'[i].step = step
  <1> DEFINE r == [wire[i] EXCEPT !.step = step]
  <1>1. IsRequest(wire[i])
    BY DEF EditorTypes
  <1>2. /\ IsRequest(r) /\ r.kind = wire[i].kind /\ r.path = wire[i].path
        /\ (r.mine <=> wire[i].mine) /\ r.text = wire[i].text /\ r.step = step
    BY <1>1, SMTT(40) DEF IsRequest
  <1>3. wire' = [wire EXCEPT ![i] = r]
    OBVIOUS
  <1>. HIDE DEF r
  <1>. QED BY <1>2, <1>3, SteppedOn

(* The first request goes on, and its place stays what it was.             *)
LEMMA HeadSteps ==
    ASSUME Unmuddled, DOMAIN wire' = DOMAIN wire, 1 \in DOMAIN wire,
           \A j \in DOMAIN wire: j # 1 => wire'[j] = wire[j],
           wire'[1].kind = wire[1].kind, wire'[1].path = wire[1].path,
           wire'[1].mine <=> wire[1].mine, wire[1].step # "ok", wire'[1].step # "sent",
           UNCHANGED <<route, entry>>
    PROVE  /\ OneAtATime' /\ InOrderOfPages' /\ OneSave'
           /\ ~JustSaved /\ (Displaced => Displaced')
           /\ \A j \in DOMAIN wire: j # 1 => wire[j].step = "sent"
           /\ \A j \in DOMAIN wire: wire'[j].kind = wire[j].kind /\ wire'[j].path = wire[j].path
  <1>1. \A j \in DOMAIN wire: j # 1 => wire[j].step = "sent"
    BY DEF Unmuddled, OneAtATime
  <1>2. \A j \in DOMAIN wire: /\ wire'[j].kind = wire[j].kind /\ wire'[j].path = wire[j].path
                              /\ (wire'[j].mine <=> wire[j].mine)
    OBVIOUS
  <1>3. \A j \in DOMAIN wire: /\ (OwnLoad(wire[j]) <=> OwnLoad(wire'[j]))
                              /\ (OwnWrite(wire[j]) <=> OwnWrite(wire'[j]))
                              /\ (Stray(wire[j]) <=> Stray(wire'[j]))
    BY <1>2 DEF OwnLoad, OwnWrite, Stray
  <1>4. InOrderOfPages'
    BY <1>2, <1>3 DEF Unmuddled, InOrderOfPages
  <1>5. ~JustSaved
    BY <1>1 DEF JustSaved
  <1>6. Displaced => Displaced'
    BY <1>2, <1>3 DEF Displaced
  <1>7. OneAtATime' /\ OneSave'
    BY <1>1, <1>2 DEF Unmuddled, OneAtATime, OneSave
  <1>. QED BY <1>1, <1>2, <1>4, <1>5, <1>6, <1>7

(* What the first request is told by a step that leaves the files alone.   *)
LEMMA HeadIsTold ==
    ASSUME Unmuddled, wire[1].path \in Paths, "none" \notin Paths, DOMAIN wire' = DOMAIN wire, 1 \in DOMAIN wire,
           \A j \in DOMAIN wire: j # 1 => wire'[j] = wire[j],
           wire'[1].kind = wire[1].kind, wire'[1].path = wire[1].path,
           wire'[1].mine <=> wire[1].mine, wire[1].step # "ok",
           wire'[1].step # "sent", UNCHANGED <<route, entry, lastSaved, library>>,
           wire'[1].step = "ok" => wire[1].kind = "run"
              \/ (wire[1].kind = "load" /\ Loads(wire[1].path) /\ wire'[1].text = texts[wire[1].path]),
           wire'[1].step = "error" /\ wire[1].kind = "load" => ~Loads(wire[1].path)
    PROVE  Unmuddled'
  <1>1. /\ OneAtATime' /\ InOrderOfPages' /\ OneSave'
        /\ ~JustSaved /\ (Displaced => Displaced')
        /\ \A j \in DOMAIN wire: j # 1 => wire[j].step = "sent"
        /\ \A j \in DOMAIN wire: wire'[j].kind = wire[j].kind /\ wire'[j].path = wire[j].path
    BY HeadSteps
  <1>2. UNCHANGED <<texts, index, foreign>>
    BY DEF library
  <1>3. EntryAgrees'
    BY <1>1, <1>2 DEF Unmuddled, EntryAgrees, Known, IsPipeline, Exists
  <1>4. RunsFind'
    BY <1>1, <1>2 DEF Unmuddled, RunsFind, Known, Exists
  <1>5. HeadKnows'
    <2>. SUFFICES ASSUME NEW i \in DOMAIN wire
                  PROVE  LET r == wire'[i] IN
                     /\ (r.step = "ok" /\ r.path \notin foreign
                         /\ (OwnLoad(r) \/ r.kind \in {"save", "saveForRun"})) =>
                           texts[r.path] = r.text /\ IsPipeline(r.path)
                     /\ (r.step = "ok" /\ r.path \notin foreign /\ OwnLoad(r)) => Known(r.path)
                     /\ (r.step = "error" /\ OwnLoad(r) /\ r.path = entry) => entry \in foreign
                     /\ (r.step = "ok" /\ OwnWrite(r) /\ r.kind = "saveAs" /\ r.path = entry)
                           => entry \in foreign
      BY <1>2 DEF HeadKnows, IsPipeline, Exists, Known
    <2>1. CASE i # 1
      BY <1>1, <2>1
    <2>2. CASE i = 1
      <3>1. entry # "none" /\ entry \notin foreign => Loads(entry)
        BY DEF Unmuddled, EntryAgrees, Loads
      <3>2. OwnLoad(wire'[1]) => wire[1].kind = "load" /\ wire[1].mine
        BY DEF OwnLoad
      <3>3. CASE wire'[1].step = "ok"
        BY <2>2, <3>2, <3>3 DEF Loads
      <3>4. CASE wire'[1].step = "error"
        <4>1. OwnLoad(wire'[1]) => entry # "none" \/ wire'[1].path # entry
          OBVIOUS
        <4>. QED BY <2>2, <3>1, <3>2, <3>4, <4>1 DEF Loads
      <3>. QED BY <2>2, <3>3, <3>4
    <2>. QED BY <2>1, <2>2
  <1>. QED BY <1>1, <1>3, <1>4, <1>5 DEF Unmuddled

(* The first request is gone, and the rest moves up; a load or a run may   *)
(* come behind it.                                                         *)
MovedUp ==
    /\ \A j \in DOMAIN wire': j \in 1 .. Len(wire)
    /\ \A j \in DOMAIN wire':
          \/ j + 1 \in DOMAIN wire /\ wire'[j] = wire[j + 1]
          \/ /\ j = Len(wire) /\ wire'[j].step = "sent"
             /\ wire'[j].kind \in {"load", "run"}
    /\ \A j \in DOMAIN wire: j # 1 => j - 1 \in DOMAIN wire' /\ wire'[j - 1] = wire[j]

(* What is behind the first request has not been taken up.                 *)
LEMMA RestWaits ==
    ASSUME EditorTypes, Unmuddled, MovedUp
    PROVE  /\ \A j \in DOMAIN wire: j # 1 => wire[j].step = "sent"
           /\ \A j \in DOMAIN wire': wire'[j].step = "sent"
           /\ OneAtATime' /\ OneSave' /\ HeadKnows' /\ ~JustSaved'
           /\ DOMAIN wire = 1 .. Len(wire) /\ Len(wire) \in Nat
  <1>1. \A j \in DOMAIN wire: j # 1 => wire[j].step = "sent"
    BY DEF Unmuddled, OneAtATime
  <1>2. DOMAIN wire = 1 .. Len(wire) /\ Len(wire) \in Nat
    BY LenProperties DEF EditorTypes
  <1>3. \A j \in DOMAIN wire': wire'[j].step = "sent"
    BY <1>1, <1>2 DEF MovedUp
  <1>4. OneAtATime' /\ HeadKnows' /\ ~JustSaved'
    BY <1>3 DEF OneAtATime, HeadKnows, JustSaved
  <1>5. OneSave'
    BY <1>2 DEF MovedUp, OneSave, Unmuddled
  <1>. QED BY <1>1, <1>2, <1>3, <1>4, <1>5

(* What is behind the first request was sent in the order of the pages.    *)
LEMMA RestInOrder ==
    ASSUME EditorTypes, Unmuddled, MovedUp, UNCHANGED <<route, entry>>,
           \A j \in DOMAIN wire': wire'[j].kind = "load" => j + 1 \in DOMAIN wire /\ wire'[j] = wire[j + 1]
    PROVE  InOrderOfPages'
  <1>1. DOMAIN wire = 1 .. Len(wire) /\ Len(wire) \in Nat
    BY RestWaits
  <1>2. \A j \in DOMAIN wire': \/ j + 1 \in DOMAIN wire /\ wire'[j] = wire[j + 1]
                               \/ ~OwnLoad(wire'[j]) /\ ~OwnWrite(wire'[j]) /\ ~Stray(wire'[j])
    BY DEF MovedUp, OwnLoad, OwnWrite, Stray, Writers
  <1>3. \A j \in DOMAIN wire': j \in Nat
    BY <1>1 DEF MovedUp
  <1>. QED BY <1>1, <1>2, <1>3 DEF InOrderOfPages, Unmuddled

(* The first request is done with.                                         *)
LEMMA GoneMovesUp ==
    ASSUME EditorTypes, 1 \in DOMAIN wire, wire' = RemoveAt(wire, 1)
    PROVE  /\ MovedUp
           /\ \A j \in DOMAIN wire': j + 1 \in DOMAIN wire /\ wire'[j] = wire[j + 1]
  <1>1. /\ Len(wire) \in Nat \ {0} /\ DOMAIN wire = 1 .. Len(wire)
        /\ DOMAIN wire' = 1 .. (Len(wire) - 1)
        /\ \A j \in DOMAIN wire': wire'[j] = wire[j + 1]
    BY Gone
  <1>2. \A j \in DOMAIN wire': j + 1 \in DOMAIN wire /\ j \in 1 .. Len(wire)
    BY <1>1
  <1>3. ASSUME NEW j \in DOMAIN wire, j # 1
        PROVE  j - 1 \in DOMAIN wire' /\ wire'[j - 1] = wire[j]
    <2>1. j - 1 \in DOMAIN wire' /\ (j - 1) + 1 = j
      BY <1>1, <1>3
    <2>. QED BY <1>1, <2>1
  <1>. QED BY <1>1, <1>2, <1>3 DEF MovedUp

(* The runs that wait find what they look for after a step of the first    *)
(* request that leaves what is not its own, and so does a run that comes.  *)
LEMMA RunsMoveUp ==
    ASSUME EditorTypes, Unmuddled, MovedUp, UNCHANGED foreign,
           \A p \in Paths: \A text: (texts[p] = text \/ (p \notin index /\ texts[p] = Absent)) =>
              (texts'[p] = text \/ (p \notin index' /\ texts'[p] = Absent)),
           \A j \in DOMAIN wire': wire'[j].kind = "run" =>
              \/ j + 1 \in DOMAIN wire /\ wire'[j] = wire[j + 1]
              \/ wire'[j].path \notin foreign =>
                    /\ texts'[wire'[j].path] = wire'[j].text
                    /\ \A i \in DOMAIN wire: i # 1 /\ wire[i].kind \in Writers
                                                => wire[i].path # wire'[j].path
    PROVE  RunsFind'
  <1>1. /\ DOMAIN wire = 1 .. Len(wire) /\ Len(wire) \in Nat
        /\ \A i \in DOMAIN wire: wire[i].path \in Paths
    BY RestWaits DEF EditorTypes, IsRequest
  <1>. SUFFICES ASSUME NEW j \in DOMAIN wire', wire'[j].kind = "run", wire'[j].step = "sent",
                       wire'[j].text # Absent, wire'[j].path \notin foreign
                PROVE  /\ (\/ texts'[wire'[j].path] = wire'[j].text
                           \/ wire'[j].path \notin index' /\ texts'[wire'[j].path] = Absent)
                       /\ \A i \in DOMAIN wire': i < j /\ wire'[i].kind \in Writers
                             => wire'[i].path # wire'[j].path
    BY DEF RunsFind, Known, Exists
  <1>2. j \in 1 .. Len(wire)
    BY DEF MovedUp
  <1>3. ASSUME NEW i \in DOMAIN wire', i < j
        PROVE  i + 1 \in DOMAIN wire /\ wire'[i] = wire[i + 1] /\ i + 1 # 1 /\ i + 1 < j + 1
    <2>1. i \in 1 .. Len(wire) /\ i # Len(wire)
      BY <1>1, <1>2, <1>3 DEF MovedUp
    <2>. QED BY <1>1, <1>2, <1>3, <2>1 DEF MovedUp
  <1>4. CASE j + 1 \in DOMAIN wire /\ wire'[j] = wire[j + 1]
    <2> DEFINE r == wire[j + 1]
    <2>1. /\ texts[r.path] = r.text \/ (r.path \notin index /\ texts[r.path] = Absent)
          /\ \A i \in DOMAIN wire: i < j + 1 /\ wire[i].kind \in Writers => wire[i].path # r.path
      BY <1>4 DEF Unmuddled, RunsFind, Known, Exists
    <2>2. r.path \in Paths
      BY <1>1, <1>4
    <2>3. texts'[r.path] = r.text \/ (r.path \notin index' /\ texts'[r.path] = Absent)
      BY <2>1, <2>2
    <2>. QED BY <1>3, <1>4, <2>1, <2>3
  <1>5. CASE /\ texts'[wire'[j].path] = wire'[j].text
             /\ \A i \in DOMAIN wire: i # 1 /\ wire[i].kind \in Writers => wire[i].path # wire'[j].path
    BY <1>3, <1>5
  <1>. QED BY <1>4, <1>5

(* A deletion is of a list: no editor is there to be contradicted.         *)
LEMMA DeletionKeeps ==
    ASSUME EditorTypes, Unmuddled, 1 \in DOMAIN wire, wire[1].kind = "delete",
           wire' = RemoveAt(wire, 1), UNCHANGED <<route, entry>>,
           UNCHANGED library \/ Delete(wire[1].path)
    PROVE  Unmuddled'
  <1>1. MovedUp /\ \A j \in DOMAIN wire': j + 1 \in DOMAIN wire /\ wire'[j] = wire[j + 1]
    BY GoneMovesUp
  <1>2. OneAtATime' /\ OneSave' /\ HeadKnows' /\ InOrderOfPages'
    BY <1>1, RestWaits, RestInOrder
  <1>3. EntryAgrees'
    BY DEF Unmuddled, InOrderOfPages, EntryAgrees, Stray
  <1>4. RunsFind'
    <2>1. UNCHANGED foreign /\ wire[1].path \in Paths /\ DOMAIN texts = Paths
      BY DEF library, Delete, Store, EditorTypes, IsRequest
    <2>2. \A p \in Paths: \/ texts'[p] = texts[p] /\ (~Known(p) => ~Known(p)')
                          \/ texts'[p] = Absent /\ ~Known(p)'
      BY <2>1 DEF library, Delete, Store, Known, Strike
    <2>3. \A p \in Paths: \A text: (texts[p] = text \/ (p \notin index /\ texts[p] = Absent)) =>
             (texts'[p] = text \/ (p \notin index' /\ texts'[p] = Absent))
      BY <2>2 DEF Known
    <2>. QED BY <1>1, <2>1, <2>3, RunsMoveUp
  <1>. QED BY <1>2, <1>3, <1>4 DEF Unmuddled

(* The server takes a request up.                                          *)
LEMMA BeginKeeps ==
    ASSUME EditorInv, NEW i \in DOMAIN wire, Begin(i)
    PROVE  EditorInv'
  <1> DEFINE r == wire[i]
             known == IF r.kind = "saveAs" THEN Reachable(r.path) ELSE Known(r.path)
  <1>1. /\ r.step = "sent" /\ UNCHANGED <<route, entry, lastSaved>>
        /\ muddled' = (muddled \/ i # 1)
    BY DEF Begin, Overtakes, instance
  <1>2. /\ IsRequest(r) /\ "none" \notin Paths /\ EditorTypes
        /\ ~muddled' => ~muddled /\ i = 1 /\ Unmuddled
    BY <1>1, EditorAssumption DEF EditorInv, EditorTypes, EditorAssumption
  <1>3. CASE r.kind = "load"
    <2>1. ASSUME NEW text, NEW step, wire' = [wire EXCEPT ![i].text = text, ![i].step = step],
                 UNCHANGED library, wire'[i].step \in {"ok", "error"}, text = texts[r.path],
                 wire'[i].step = "ok" => Loads(r.path), wire'[i].step = "error" => ~Loads(r.path)
          PROVE  EditorInv'
      <3>1. r.kind \notin Writers
        BY <1>3 DEF Writers
      <3>2. /\ wire' \in Seq({wire'[j]: j \in DOMAIN wire'})
            /\ \A j \in DOMAIN wire': IsRequest(wire'[j])
            /\ DOMAIN wire' = DOMAIN wire /\ \A j \in DOMAIN wire: j # i => wire'[j] = wire[j]
            /\ wire'[i].kind = wire[i].kind /\ wire'[i].path = wire[i].path
            /\ (wire'[i].mine <=> wire[i].mine)
            /\ wire'[i].text = text
        <4>1. EditorTypes /\ (wire[i].kind \in Writers => text.form = "editor")
          BY <1>2, <3>1
        <4>2. wire'[i].step = "begun" => wire[i].kind \in Writers
          BY <2>1
        <4>. QED BY <2>1, <4>1, <4>2, Progressed
      <3>3. EditorTypes'
        BY <1>1, <1>2, <2>1, <3>2 DEF EditorTypes, library
      <3>4. ASSUME ~muddled' PROVE Unmuddled'
        BY <1>1, <1>2, <1>3, <2>1, <3>2, <3>4, HeadIsTold DEF IsRequest
      <3>. QED BY <3>3, <3>4 DEF EditorInv
    <2> DEFINE step == IF Loads(r.path) THEN "ok" ELSE "error"
    <2>2. wire' = [wire EXCEPT ![i].text = texts[r.path], ![i].step = step] /\ UNCHANGED library
      BY <1>3 DEF Begin
    <2>3. step \in {"ok", "error"} /\ (step = "ok" => Loads(r.path)) /\ (step = "error" => ~Loads(r.path))
      OBVIOUS
    <2>. HIDE DEF step
    <2>4. wire'[i].step = step
      BY <1>2, <2>2 DEF IsRequest
    <2>. QED BY <2>1, <2>2, <2>3, <2>4
  <1>4. ASSUME NEW step, wire' = [wire EXCEPT ![i].step = step], UNCHANGED library,
               wire'[i].step \in {"ok", "error", "begun"},
               wire'[i].step = "ok" => r.kind = "run",
               wire'[i].step = "begun" => r.kind \in Writers, r.kind # "load"
        PROVE  EditorInv'
    <2>1. /\ wire' \in Seq({wire'[j]: j \in DOMAIN wire'})
          /\ \A j \in DOMAIN wire': IsRequest(wire'[j])
          /\ DOMAIN wire' = DOMAIN wire /\ \A j \in DOMAIN wire: j # i => wire'[j] = wire[j]
          /\ wire'[i].kind = wire[i].kind /\ wire'[i].path = wire[i].path
          /\ (wire'[i].mine <=> wire[i].mine)
      BY <1>2, <1>4, Stepped
    <2>2. EditorTypes'
      BY <1>1, <1>2, <1>4, <2>1 DEF EditorTypes, library
    <2>3. ASSUME ~muddled' PROVE Unmuddled'
      BY <1>1, <1>2, <1>4, <2>1, <2>3, HeadIsTold DEF IsRequest
    <2>. QED BY <2>2, <2>3 DEF EditorInv
  <1>5. CASE r.kind = "run"
    <2> DEFINE step == IF Runs(r.path) THEN "ok" ELSE "error"
    <2>1. wire' = [wire EXCEPT ![i].step = step] /\ UNCHANGED library
      BY <1>5 DEF Begin, Answered
    <2>2. step \in {"ok", "error"}
      OBVIOUS
    <2>. HIDE DEF step
    <2>3. wire'[i].step = step
      BY <1>2, <2>1 DEF IsRequest
    <2>. QED BY <1>4, <1>5, <2>1, <2>2, <2>3
  <1>6. CASE r.kind = "delete"
    <2>1. wire' = RemoveAt(wire, i) /\ (UNCHANGED library \/ Delete(r.path))
      BY <1>6 DEF Begin
    <2>2. EditorTypes'
      BY <1>1, <1>2, <2>1, Gone DEF EditorTypes, library, Delete, Store
    <2>3. ASSUME ~muddled' PROVE Unmuddled'
      BY <1>1, <1>2, <1>6, <2>1, <2>3, DeletionKeeps
    <2>. QED BY <2>2, <2>3 DEF EditorInv
  <1>7. CASE r.kind \in Writers
    <2> DEFINE step == IF known THEN "begun" ELSE "error"
    <2>1. wire' = [wire EXCEPT ![i].step = step] /\ UNCHANGED library
      BY <1>7 DEF Begin, Writers
    <2>2. step \in {"begun", "error"}
      OBVIOUS
    <2>. HIDE DEF step
    <2>3. wire'[i].step = step
      BY <1>2, <2>1 DEF IsRequest
    <2>. QED BY <1>4, <1>7, <2>1, <2>2, <2>3 DEF Writers
  <1>. QED BY <1>2, <1>3, <1>5, <1>6, <1>7 DEF IsRequest, RequestKinds

(* What the editor saves is in the file when it is told so; a copy is      *)
(* never of the pipeline on display, whose file is there.                  *)
LEMMA WriteKeeps ==
    ASSUME EditorTypes, EditorTypes', Unmuddled, 1 \in DOMAIN wire, wire[1].step = "begun",
           DOMAIN wire' = DOMAIN wire, \A j \in DOMAIN wire: j # 1 => wire'[j] = wire[j],
           wire'[1].kind = wire[1].kind, wire'[1].path = wire[1].path,
           wire'[1].mine <=> wire[1].mine, wire'[1].text = wire[1].text,
           UNCHANGED <<route, entry, lastSaved>>,
           \/ wire'[1].step = "error" /\ UNCHANGED library
           \/ /\ wire'[1].step = "ok" /\ Store(wire[1].path, wire[1].text)
              /\ index \subseteq index'
              /\ IF wire[1].kind = "saveAs"
                 THEN ~Exists(wire[1].path) /\ index' = index \cup {wire[1].path}
                 ELSE Accepts(wire[1].text.doc) /\ index' = index
    PROVE  Unmuddled'
  <1> DEFINE r == wire[1]
             q == wire[1].path
  <1>1. /\ OneAtATime' /\ InOrderOfPages' /\ OneSave'
        /\ ~JustSaved /\ (Displaced => Displaced')
        /\ \A j \in DOMAIN wire: j # 1 => wire[j].step = "sent"
        /\ \A j \in DOMAIN wire: wire'[j].kind = wire[j].kind /\ wire'[j].path = wire[j].path
    BY HeadSteps
  <1>2. /\ IsRequest(r) /\ r.kind \in Writers /\ q \in Paths /\ r.text # Absent
        /\ UNCHANGED foreign /\ DOMAIN texts = Paths /\ entry \in Paths \cup {"none"}
        /\ "none" \notin Paths
    BY EditorAssumption DEF EditorTypes, IsRequest, Absent, Store, library, EditorAssumption
  <1>3. /\ r.mine => entry # "none" /\ (r.kind # "saveAs" => q = entry)
        /\ ~r.mine => entry = "none"
    BY <1>2 DEF Unmuddled, InOrderOfPages, OwnWrite, Stray
  <1>4. CASE wire'[1].step = "error"
    <2>1. UNCHANGED <<texts, index, foreign>>
      BY <1>4 DEF library
    <2>2. EntryAgrees'
      BY <1>1, <2>1 DEF Unmuddled, EntryAgrees, Known, IsPipeline, Exists
    <2>3. RunsFind'
      BY <1>1, <1>4, <2>1 DEF Unmuddled, RunsFind, Known, Exists
    <2>4. HeadKnows'
      BY <1>1, <1>2, <1>4 DEF HeadKnows, OwnLoad, Writers
    <2>. QED BY <1>1, <2>2, <2>3, <2>4 DEF Unmuddled
  <1>5. CASE wire'[1].step = "ok"
    <2>1. /\ texts'[q] = r.text /\ \A p \in Paths: p # q => texts'[p] = texts[p]
          /\ \A p \in Paths: p # q => (p \in index' <=> p \in index)
          /\ index \subseteq index'
          /\ r.kind = "saveAs" => texts[q] = Absent
          /\ r.kind # "saveAs" => Accepts(r.text.doc)
      BY <1>2, <1>5 DEF Store, Exists
    <2>2. r.kind # "saveAs" => IsPipeline(q)'
      <3>1. r.kind # "saveAs" => texts'[q] # Absent /\ Accepts(texts'[q].doc)
        BY <1>2, <2>1
      <3>. QED BY <3>1 DEF IsPipeline, Exists
    <2>3. r.kind = "saveAs" /\ q = entry => entry \in foreign
      BY <1>2, <2>1 DEF Unmuddled, EntryAgrees, IsPipeline, Exists
    <2>4. EntryAgrees'
      <3>1. CASE entry = "none" \/ entry \in foreign
        BY <1>2, <3>1 DEF EntryAgrees
      <3>2. CASE entry # "none" /\ entry \notin foreign /\ q # entry
        BY <1>1, <1>2, <2>1, <3>2 DEF Unmuddled, EntryAgrees, Known, IsPipeline, Exists
      <3>3. CASE entry # "none" /\ entry \notin foreign /\ q = entry
        <4>1. r.mine /\ r.kind \in {"save", "saveForRun"}
          BY <1>2, <1>3, <2>3, <3>3 DEF Writers
        <4>2. JustSaved'
          BY <1>5, <4>1 DEF JustSaved
        <4>3. Known(entry)'
          BY <2>1, <3>3 DEF Unmuddled, EntryAgrees, Known
        <4>. QED BY <2>2, <3>3, <4>1, <4>2, <4>3 DEF EntryAgrees, IsPipeline, Exists
      <3>. QED BY <3>1, <3>2, <3>3
    <2>5. RunsFind'
      <3>. SUFFICES ASSUME NEW j \in DOMAIN wire', wire'[j].kind = "run", wire'[j].step = "sent",
                           wire'[j].text # Absent, wire'[j].path \notin foreign
                    PROVE  /\ (\/ texts'[wire'[j].path] = wire'[j].text
                               \/ wire'[j].path \notin index' /\ texts'[wire'[j].path] = Absent)
                           /\ \A i \in DOMAIN wire': i < j /\ wire'[i].kind \in Writers
                                 => wire'[i].path # wire'[j].path
        BY <1>2 DEF RunsFind, Known, Exists
      <3>1. j # 1 /\ wire'[j] = wire[j] /\ j \in DOMAIN wire
        BY <1>5
      <3>2. DOMAIN wire = 1 .. Len(wire)
        BY LenProperties DEF EditorTypes
      <3>3. 1 < j /\ wire[j].path \in Paths
        BY <3>1, <3>2 DEF EditorTypes, IsRequest
      <3>4. wire[j].path # q
        BY <1>2, <3>1, <3>3 DEF Unmuddled, RunsFind
      <3>5. /\ \/ texts[wire[j].path] = wire[j].text
               \/ wire[j].path \notin index /\ texts[wire[j].path] = Absent
            /\ \A i \in DOMAIN wire: i < j /\ wire[i].kind \in Writers => wire[i].path # wire[j].path
        BY <3>1 DEF Unmuddled, RunsFind, Known, Exists
      <3>. QED BY <1>1, <2>1, <3>1, <3>3, <3>4, <3>5
    <2>6. HeadKnows'
      <3>1. ~OwnLoad(wire'[1])
        BY <1>2 DEF OwnLoad, Writers
      <3>2. r.kind \in {"save", "saveForRun"} => texts'[q] = r.text /\ IsPipeline(q)'
        BY <2>1, <2>2
      <3>3. \A j \in DOMAIN wire': j = 1 \/ wire'[j].step = "sent"
        BY <1>1
      <3>. QED BY <1>2, <1>5, <2>3, <3>1, <3>2, <3>3 DEF HeadKnows, IsPipeline, Exists, Known
    <2>. QED BY <1>1, <2>4, <2>5, <2>6 DEF Unmuddled
  <1>. QED BY <1>4, <1>5

(* The server writes a file, or does not.                                  *)
LEMMA FinishKeeps ==
    ASSUME EditorInv, NEW i \in DOMAIN wire, Finish(i)
    PROVE  EditorInv'
  <1> DEFINE r == wire[i]
  <1>1. PICK ok \in BOOLEAN:
           /\ IF r.kind = "saveAs" THEN Post(r.path, r.text, ok) ELSE FinishSave(r.path, r.text, ok)
           /\ Answered(i, ok)
    BY DEF Finish
  <1>2. /\ r.step = "begun" /\ UNCHANGED <<route, entry, lastSaved>>
        /\ muddled' = (muddled \/ i # 1)
    BY DEF Finish, Overtakes, instance
  <1>3. /\ IsRequest(r) /\ EditorTypes
        /\ ~muddled' => ~muddled /\ i = 1 /\ Unmuddled
    BY <1>2 DEF EditorInv, EditorTypes
  <1> DEFINE step == IF ok THEN "ok" ELSE "error"
  <1>4. wire' = [wire EXCEPT ![i].step = step]
    BY <1>1 DEF Answered
  <1>5. (ok => step = "ok") /\ (~ok => step = "error")
    OBVIOUS
  <1>. HIDE DEF step
  <1>6. wire'[i].step = step
    BY <1>3, <1>4 DEF IsRequest
  <1>7. /\ wire' \in Seq({wire'[j]: j \in DOMAIN wire'})
        /\ \A j \in DOMAIN wire': IsRequest(wire'[j])
        /\ DOMAIN wire' = DOMAIN wire /\ \A j \in DOMAIN wire: j # i => wire'[j] = wire[j]
        /\ wire'[i].kind = wire[i].kind /\ wire'[i].path = wire[i].path
        /\ (wire'[i].mine <=> wire[i].mine) /\ wire'[i].text = wire[i].text
    <2>1. wire'[i].step = "begun" => r.kind \in Writers
      BY <1>5, <1>6
    <2>. QED BY <1>3, <1>4, <2>1, Stepped
  <1>8. \/ wire'[i].step = "error" /\ UNCHANGED library
        \/ /\ wire'[i].step = "ok" /\ Store(r.path, r.text)
           /\ index \subseteq index'
           /\ IF r.kind = "saveAs"
              THEN ~Exists(r.path) /\ index' = index \cup {r.path}
              ELSE Accepts(r.text.doc) /\ index' = index
    <2>1. CASE r.kind = "saveAs"
      <3>1. Create(r.path, r.text, ok)
        BY <1>1, <2>1 DEF Post, PostProject, PostGlobal
      <3>. QED BY <1>5, <1>6, <2>1, <3>1 DEF Create, Enter
    <2>2. CASE r.kind # "saveAs"
      <3>1. FinishSave(r.path, r.text, ok)
        BY <1>1, <2>2
      <3>. QED BY <1>5, <1>6, <2>2, <3>1 DEF FinishSave
    <2>. QED BY <2>1, <2>2
  <1>9. EditorTypes'
    <2>1. DOMAIN texts' = Paths
      BY <1>3, <1>8 DEF EditorTypes, library, Store
    <2>. QED BY <1>2, <1>3, <1>7, <2>1 DEF EditorTypes
  <1>10. ASSUME ~muddled' PROVE Unmuddled'
    BY <1>2, <1>3, <1>7, <1>8, <1>9, <1>10, WriteKeeps
  <1>. QED BY <1>9, <1>10 DEF EditorInv

-----------------------------------------------------------------------------
(* The page handles an answer.                                             *)

(* The first request is done with, and another one sent.                   *)
LEMMA AskedNext ==
    ASSUME EditorTypes, 1 \in DOMAIN wire, NEW r, IsRequest(r), r.kind \in {"load", "run"},
           r.step = "sent", wire' = Append(RemoveAt(wire, 1), r)
    PROVE  /\ MovedUp
           /\ \A j \in DOMAIN wire':
                 (j + 1 \in DOMAIN wire /\ wire'[j] = wire[j + 1]) \/ (j = Len(wire) /\ wire'[j] = r)
           /\ Len(wire) \in DOMAIN wire' /\ wire'[Len(wire)] = r
           /\ \A j \in DOMAIN wire: j # 1 => \E k \in DOMAIN RemoveAt(wire, 1):
                                                RemoveAt(wire, 1)[k] = wire[j]
  <1> DEFINE n == Len(wire)
             others == RemoveAt(wire, 1)
  <1>1. /\ n \in Nat \ {0} /\ DOMAIN wire = 1 .. n /\ DOMAIN wire' = DOMAIN wire
        /\ \A j \in 1 .. (n - 1): wire'[j] = wire[j + 1]
        /\ wire'[n] = r /\ DOMAIN others = 1 .. (n - 1)
        /\ \A j \in 1 .. (n - 1): others[j] = wire'[j]
    BY GoneAndSent
  <1>2. /\ n \in 1 .. n /\ DOMAIN wire' = 1 .. n
        /\ \A j \in 1 .. n: j = n \/ (j \in 1 .. (n - 1) /\ j + 1 \in 1 .. n)
        /\ \A j \in 1 .. n: j # 1 => j - 1 \in 1 .. (n - 1) /\ j - 1 \in 1 .. n /\ (j - 1) + 1 = j
    <2>. HIDE DEF n
    <2>. QED BY <1>1
  <1>. HIDE DEF n, others
  <1>3. \A j \in DOMAIN wire':
           (j + 1 \in DOMAIN wire /\ wire'[j] = wire[j + 1]) \/ (j = n /\ wire'[j] = r)
    BY <1>1, <1>2
  <1>4. \A j \in DOMAIN wire: j # 1 =>
           /\ j - 1 \in DOMAIN wire' /\ wire'[j - 1] = wire[j]
           /\ j - 1 \in DOMAIN others /\ others[j - 1] = wire[j]
    BY <1>1, <1>2
  <1>5. MovedUp
    BY <1>2, <1>3, <1>4 DEF MovedUp, n
  <1>. QED BY <1>1, <1>2, <1>3, <1>4, <1>5 DEF n, others

(* The file of the pipeline on display, after an answer that tells the     *)
(* editor nothing new.                                                     *)
LEMMA ForgottenKeeps ==
    ASSUME EditorTypes, Unmuddled, 1 \in DOMAIN wire, wire' = RemoveAt(wire, 1),
           UNCHANGED <<library, route, entry, lastSaved>>,
           \/ wire[1].step = "error" \/ wire[1].kind = "run"
           \/ (wire[1].kind \in {"load", "save"} /\ ~wire[1].mine)
    PROVE  Unmuddled'
  <1>1. /\ MovedUp /\ \A j \in DOMAIN wire': j + 1 \in DOMAIN wire /\ wire'[j] = wire[j + 1]
        /\ UNCHANGED <<texts, index, foreign>>
    BY GoneMovesUp DEF library
  <1>2. /\ OneAtATime' /\ OneSave' /\ HeadKnows' /\ InOrderOfPages'
        /\ \A j \in DOMAIN wire: j # 1 => wire[j].step = "sent"
    BY <1>1, RestWaits, RestInOrder
  <1>3. RunsFind'
    BY <1>1, RunsMoveUp
  <1>4. EntryAgrees'
    <2>2. ~JustSaved
      BY <1>2 DEF JustSaved
    <2>3. Displaced /\ ~Displaced' => entry \in foreign
      <3>1. SUFFICES ASSUME Displaced, ~Displaced' PROVE entry \in foreign
        OBVIOUS
      <3>2. OwnLoad(wire[1]) /\ wire[1].path = entry
        BY <1>1, <3>1 DEF Displaced, MovedUp
      <3>3. wire[1].step = "error"
        BY <3>2 DEF OwnLoad
      <3>. QED BY <3>2, <3>3 DEF Unmuddled, HeadKnows
    <2>. QED BY <1>1, <2>2, <2>3 DEF Unmuddled, EntryAgrees, Known, IsPipeline, Exists
  <1>. QED BY <1>2, <1>3, <1>4 DEF Unmuddled

(* A pipeline comes on display.                                            *)
LEMMA LoadHandled ==
    ASSUME EditorTypes, Unmuddled, 1 \in DOMAIN wire, wire' = RemoveAt(wire, 1),
           UNCHANGED <<library, route>>, OwnLoad(wire[1]), wire[1].step = "ok",
           entry' = wire[1].path, lastSaved' = wire[1].text
    PROVE  Unmuddled'
  <1>1. /\ MovedUp /\ \A j \in DOMAIN wire': j + 1 \in DOMAIN wire /\ wire'[j] = wire[j + 1]
        /\ UNCHANGED <<texts, index, foreign>>
    BY GoneMovesUp DEF library
  <1>2. /\ OneAtATime' /\ OneSave' /\ HeadKnows'
        /\ DOMAIN wire = 1 .. Len(wire) /\ Len(wire) \in Nat
    BY <1>1, RestWaits
  <1>3. RunsFind'
    BY <1>1, RunsMoveUp
  <1>4. EntryAgrees'
    BY <1>1 DEF Unmuddled, HeadKnows, EntryAgrees, Known, IsPipeline, Exists
  <1>5. InOrderOfPages'
    <2>1. route # "list"
      BY DEF Unmuddled, InOrderOfPages
    <2>2. \A j \in DOMAIN wire: 1 < j => ~Stray(wire[j]) /\ ~OwnWrite(wire[j])
      BY DEF Unmuddled, InOrderOfPages
    <2>3. \A j \in DOMAIN wire': 1 < j + 1
      BY <1>1, <1>2 DEF MovedUp
    <2>4. \A j \in DOMAIN wire': ~Stray(wire'[j]) /\ ~OwnWrite(wire'[j])
      BY <1>1, <2>2, <2>3
    <2>. QED BY <2>1, <2>4 DEF InOrderOfPages
  <1>. QED BY <1>2, <1>3, <1>4, <1>5 DEF Unmuddled

(* The editor learns that its text is in the file.                         *)
LEMMA SaveHandled ==
    ASSUME EditorTypes, Unmuddled, 1 \in DOMAIN wire, wire' = RemoveAt(wire, 1),
           UNCHANGED <<library, route, entry>>, wire[1].kind = "save", wire[1].mine,
           wire[1].step = "ok", lastSaved' = wire[1].text
    PROVE  Unmuddled'
  <1>1. /\ MovedUp /\ \A j \in DOMAIN wire': j + 1 \in DOMAIN wire /\ wire'[j] = wire[j + 1]
        /\ UNCHANGED <<texts, index, foreign>>
    BY GoneMovesUp DEF library
  <1>2. OneAtATime' /\ OneSave' /\ HeadKnows' /\ InOrderOfPages'
    BY <1>1, RestWaits, RestInOrder
  <1>3. RunsFind'
    BY <1>1, RunsMoveUp
  <1>4. wire[1].path = entry
    BY DEF Unmuddled, InOrderOfPages, OwnWrite, Writers
  <1>5. EntryAgrees'
    BY <1>1, <1>4 DEF Unmuddled, HeadKnows, EntryAgrees, Known, IsPipeline, Exists
  <1>. QED BY <1>2, <1>3, <1>5 DEF Unmuddled

(* The run of what was saved is asked for.                                 *)
LEMMA RunSavedHandled ==
    ASSUME EditorTypes, Unmuddled, 1 \in DOMAIN wire, NEW r, IsRequest(r),
           r.kind = "run", r.step = "sent", r.path = wire[1].path, r.text = wire[1].text,
           wire' = Append(RemoveAt(wire, 1), r), ~Late(wire[1], RemoveAt(wire, 1)),
           UNCHANGED <<library, route, entry>>, wire[1].kind = "saveForRun",
           wire[1].step = "ok", wire[1].mine => lastSaved' = wire[1].text
    PROVE  Unmuddled'
  <1>1. /\ MovedUp
        /\ \A j \in DOMAIN wire':
              (j + 1 \in DOMAIN wire /\ wire'[j] = wire[j + 1]) \/ (j = Len(wire) /\ wire'[j] = r)
        /\ \A j \in DOMAIN wire: j # 1 => \E k \in DOMAIN RemoveAt(wire, 1):
                                             RemoveAt(wire, 1)[k] = wire[j]
        /\ UNCHANGED <<texts, index, foreign>>
    BY AskedNext DEF library
  <1>2. OneAtATime' /\ OneSave' /\ HeadKnows' /\ InOrderOfPages'
    BY <1>1, RestWaits, RestInOrder
  <1>3. r.path \notin foreign => texts[r.path] = r.text /\ IsPipeline(r.path)
    BY DEF Unmuddled, HeadKnows
  <1>4. RunsFind'
    <2>1. ASSUME NEW i \in DOMAIN wire, i # 1, wire[i].kind \in Writers
          PROVE  wire[i].path # r.path
      <3>1. wire[i].kind = "saveAs"
        BY <2>1 DEF Unmuddled, OneSave, Writers
      <3>. QED BY <1>1, <2>1, <3>1 DEF Late
    <2>. QED BY <1>1, <1>3, <2>1, RunsMoveUp
  <1>5. EntryAgrees'
    <2>1. /\ wire[1].mine => wire[1].path = entry
          /\ ~wire[1].mine => entry = "none"
      BY DEF Unmuddled, InOrderOfPages, OwnWrite, Stray, Writers
    <2>. QED BY <1>1, <1>3, <2>1 DEF Unmuddled, EntryAgrees, Known, IsPipeline, Exists
  <1>. QED BY <1>2, <1>4, <1>5 DEF Unmuddled

(* The address goes to a copy: the editor is to load it, and no other      *)
(* request of an editor is under way.                                      *)
LEMMA CopyHandled ==
    ASSUME EditorTypes, Unmuddled, 1 \in DOMAIN wire, wire[1].kind = "saveAs", wire[1].step = "ok",
           UNCHANGED <<library, entry>>, route' = wire[1].path,
           ~wire[1].mine => UNCHANGED lastSaved,
           \/ wire' = RemoveAt(wire, 1)
           \/ \E r: /\ IsRequest(r) /\ OwnLoad(r) /\ r.step = "sent"
                    /\ wire' = Append(RemoveAt(wire, 1), r)
    PROVE  Unmuddled'
  <1>1. /\ MovedUp
        /\ \A j \in DOMAIN wire':
              \/ j + 1 \in DOMAIN wire /\ wire'[j] = wire[j + 1]
              \/ j = Len(wire) /\ OwnLoad(wire'[j])
        /\ UNCHANGED <<texts, index, foreign>>
    <2>1. CASE wire' = RemoveAt(wire, 1)
      BY <2>1, GoneMovesUp DEF library
    <2>2. ASSUME NEW r, IsRequest(r), OwnLoad(r), r.step = "sent", wire' = Append(RemoveAt(wire, 1), r)
          PROVE  /\ MovedUp
                 /\ \A j \in DOMAIN wire':
                       \/ j + 1 \in DOMAIN wire /\ wire'[j] = wire[j + 1]
                       \/ j = Len(wire) /\ OwnLoad(wire'[j])
                 /\ UNCHANGED <<texts, index, foreign>>
      <3>1. r.kind \in {"load", "run"}
        BY <2>2 DEF OwnLoad
      <3>. QED BY <2>2, <3>1, AskedNext DEF library
    <2>. QED BY <2>1, <2>2
  <1>2. /\ OneAtATime' /\ OneSave' /\ HeadKnows'
        /\ DOMAIN wire = 1 .. Len(wire) /\ Len(wire) \in Nat
    BY <1>1, RestWaits
  <1>3. RunsFind'
    <2>1. \A j \in DOMAIN wire': wire'[j].kind = "run" => j + 1 \in DOMAIN wire /\ wire'[j] = wire[j + 1]
      BY <1>1 DEF OwnLoad
    <2>. QED BY <1>1, <2>1, RunsMoveUp
  <1>4. /\ wire[1].mine => entry # "none" /\ \A j \in DOMAIN wire: j # 1 => ~OwnWrite(wire[j])
        /\ ~wire[1].mine => entry = "none"
    BY DEF Unmuddled, InOrderOfPages, OwnWrite, Stray, Writers
  <1>5. \A j \in DOMAIN wire: OwnWrite(wire[j]) => j = 1 /\ wire[1].mine
    BY <1>4 DEF Unmuddled, InOrderOfPages, OwnWrite
  <1>6. route' # "list"
    BY EditorAssumption DEF EditorTypes, IsRequest, EditorAssumption
  <1>7. \A j \in DOMAIN wire': j \in 1 .. Len(wire) /\ j + 1 # 1
    BY <1>2, <1>1 DEF MovedUp
  <1>8. \A j \in DOMAIN wire': ~OwnWrite(wire'[j])
    BY <1>1, <1>5, <1>7 DEF OwnLoad, OwnWrite, Writers
  <1>9. InOrderOfPages'
    <2>1. ASSUME NEW i \in DOMAIN wire', Stray(wire'[i])
          PROVE  /\ entry' = "none" /\ \A j \in DOMAIN wire': j < i => ~OwnLoad(wire'[j])
      <3>1. i + 1 \in DOMAIN wire /\ wire'[i] = wire[i + 1]
        BY <1>1, <2>1 DEF Stray, OwnLoad, Writers
      <3>2. /\ entry = "none"
            /\ \A j \in DOMAIN wire: j < i + 1 => ~OwnLoad(wire[j])
        BY <2>1, <3>1 DEF Unmuddled, InOrderOfPages
      <3>3. ASSUME NEW j \in DOMAIN wire', j < i PROVE ~OwnLoad(wire'[j])
        <4>1. i \in 1 .. Len(wire) /\ j \in 1 .. Len(wire) /\ j # Len(wire)
          BY <1>2, <1>7, <3>3
        <4>2. j + 1 \in DOMAIN wire /\ wire'[j] = wire[j + 1] /\ j + 1 < i + 1
          BY <1>1, <1>2, <3>3, <4>1
        <4>. QED BY <3>2, <4>2
      <3>. QED BY <3>2, <3>3
    <2>. QED BY <1>6, <1>8, <2>1 DEF InOrderOfPages
  <1>10. EntryAgrees'
    <2>1. CASE ~wire[1].mine
      BY <1>4, <2>1 DEF EntryAgrees
    <2>2. CASE wire[1].mine /\ wire[1].path = entry
      BY <1>1, <2>2 DEF Unmuddled, HeadKnows, OwnWrite, Writers, EntryAgrees
    <2>3. CASE wire[1].mine /\ wire[1].path # entry
      <3>1. Displaced'
        BY <2>3 DEF Displaced
      <3>. QED BY <1>1, <3>1 DEF Unmuddled, EntryAgrees, Known, IsPipeline, Exists
    <2>. QED BY <2>1, <2>2, <2>3
  <1>. QED BY <1>2, <1>3, <1>9, <1>10 DEF Unmuddled

(* The run that follows a save.                                            *)
LEMMA AsRun ==
    ASSUME NEW r, IsRequest(r), NEW kind, NEW step
    PROVE  [r EXCEPT !.kind = kind, !.step = step]
              = [kind |-> kind, path |-> r.path, text |-> r.text, step |-> step, mine |-> r.mine]
  <1>1. ASSUME NEW k, NEW q, NEW t, NEW u, NEW m,
               r = [kind |-> k, path |-> q, text |-> t, step |-> u, mine |-> m]
        PROVE  [r EXCEPT !.kind = kind, !.step = step]
                  = [kind |-> kind, path |-> q, text |-> t, step |-> step, mine |-> m]
    <2>1. [r EXCEPT !.kind = kind] = [kind |-> kind, path |-> q, text |-> t, step |-> u, mine |-> m]
      BY <1>1
    <2>2. ASSUME NEW x, x = [kind |-> kind, path |-> q, text |-> t, step |-> u, mine |-> m]
          PROVE  [x EXCEPT !.step = step]
                    = [kind |-> kind, path |-> q, text |-> t, step |-> step, mine |-> m]
      BY <2>2
    <2>3. [r EXCEPT !.kind = kind, !.step = step] = [[r EXCEPT !.kind = kind] EXCEPT !.step = step]
      OBVIOUS
    <2>. QED BY <2>1, <2>2, <2>3
  <1>2. r = [kind |-> r.kind, path |-> r.path, text |-> r.text, step |-> r.step, mine |-> r.mine]
    BY DEF IsRequest
  <1>. QED BY <1>1, <1>2, Zenon

(* That run is a request, of the path and the text of the save.            *)
LEMMA RunOfRequest ==
    ASSUME NEW r, IsRequest(r)
    PROVE  LET run == [r EXCEPT !.kind = "run", !.step = "sent"]
           IN /\ IsRequest(run) /\ run.kind = "run" /\ run.step = "sent"
              /\ run.path = r.path /\ run.text = r.text
  <1> DEFINE s == [kind |-> "run", path |-> r.path, text |-> r.text, step |-> "sent", mine |-> r.mine]
  <1>1. [r EXCEPT !.kind = "run", !.step = "sent"] = s
    <2>. HIDE DEF IsRequest
    <2>. QED BY AsRun, Zenon
  <1>2. s.kind = "run" /\ s.path = r.path /\ s.mine = r.mine /\ s.text = r.text /\ s.step = "sent"
    OBVIOUS
  <1>3. s = [kind |-> s.kind, path |-> s.path, text |-> s.text, step |-> s.step, mine |-> s.mine]
    BY <1>2
  <1>. HIDE DEF s
  <1>4. IsRequest(s)
    BY <1>2, <1>3 DEF IsRequest, RequestKinds, Writers
  <1>. QED BY <1>1, <1>2, <1>4, Zenon

(* A copy is loaded, unless it is there already.                           *)
LEMMA CopyOpened ==
    ASSUME EditorTypes, NEW i \in DOMAIN wire, SaveAsAnswered(wire[i], RemoveAt(wire, i))
    PROVE  \/ wire' = RemoveAt(wire, i)
           \/ wire' = Append(RemoveAt(wire, i), Request("load", wire[i].path, Absent))
  <1> DEFINE W == {wire[j]: j \in DOMAIN wire}
             others == RemoveAt(wire, i)
             load == Request("load", wire[i].path, Absent)
             S == W \cup {load}
  <1>1. wire \in Seq(W) /\ i \in 1 .. Len(wire)
    <2>1. wire \in Seq(W)
      BY DEF EditorTypes
    <2>. HIDE DEF W
    <2>. QED BY <2>1, LenProperties
  <1>2. wire' = others \o IF wire[i].path = route THEN <<>> ELSE <<load>>
    BY DEF SaveAsAnswered
  <1>. HIDE DEF W, load
  <1>3. wire \in Seq(S) /\ load \in S
    BY <1>1, SeqMonotonic
  <1>. HIDE DEF S
  <1>4. others \in Seq(S)
    BY <1>1, <1>3, Removed
  <1>. HIDE DEF others
  <1>5. others \o <<>> = others /\ others \o <<load>> = Append(others, load)
    BY <1>3, <1>4, ConcatEmptySeq, AppendIsConcat
  <1>6. CASE wire[i].path = route
    BY <1>2, <1>5, <1>6 DEF others
  <1>7. CASE wire[i].path # route
    BY <1>2, <1>5, <1>7 DEF others, load
  <1>. QED BY <1>6, <1>7

(* The page handles an answer.                                             *)
LEMMA HandleKeeps ==
    ASSUME EditorInv, NEW i \in DOMAIN wire, Handle(i)
    PROVE  EditorInv'
  <1> DEFINE r == wire[i]
             others == RemoveAt(wire, i)
  <1>1. /\ r.step \in {"ok", "error"} /\ UNCHANGED library
        /\ muddled' = (muddled \/ i # 1 \/ (r.kind = "saveForRun" /\ Late(r, others)))
        /\ IsRequest(r) /\ EditorTypes
    BY DEF Handle, EditorInv, EditorTypes
  <1>2. ~muddled' =>
           /\ ~muddled /\ i = 1 /\ Unmuddled /\ 1 \in DOMAIN wire
           /\ r.kind = "saveForRun" => ~Late(r, others)
    BY <1>1 DEF EditorInv
  <1>3. UNCHANGED texts /\ DOMAIN texts = Paths /\ r.path \in Paths
    BY <1>1 DEF library, EditorTypes, IsRequest
  <1>4. CASE /\ wire' = others /\ UNCHANGED <<route, instance>>
             /\ \/ r.step = "error" \/ r.kind = "run"
                \/ (r.kind \in {"load", "save"} /\ ~r.mine)
    <2>1. UNCHANGED <<route, entry, lastSaved>>
      BY <1>4 DEF instance
    <2>2. EditorTypes'
      BY <1>1, <1>3, <1>4, <2>1, Gone DEF EditorTypes
    <2>3. ASSUME ~muddled' PROVE Unmuddled'
      BY <1>1, <1>2, <1>4, <2>1, <2>3, ForgottenKeeps
    <2>. QED BY <2>2, <2>3 DEF EditorInv
  <1>5. CASE r.kind = "load" /\ r.mine /\ r.step = "ok" /\ LoadAnswered(r, others)
    <2>1. wire' = others /\ entry' = r.path /\ lastSaved' = r.text /\ route' = route
      BY <1>5 DEF LoadAnswered
    <2>2. EditorTypes'
      BY <1>1, <1>3, <2>1, Gone DEF EditorTypes
    <2>3. ASSUME ~muddled' PROVE Unmuddled'
      BY <1>1, <1>2, <1>5, <2>1, <2>3, LoadHandled DEF OwnLoad
    <2>. QED BY <2>2, <2>3 DEF EditorInv
  <1>6. CASE r.kind = "save" /\ r.mine /\ r.step = "ok" /\ SaveAnswered(r, others)
    <2>1. wire' = others /\ lastSaved' = r.text /\ UNCHANGED <<route, entry>>
      BY <1>6 DEF SaveAnswered, SavedText
    <2>2. EditorTypes'
      BY <1>1, <1>3, <2>1, Gone DEF EditorTypes
    <2>3. ASSUME ~muddled' PROVE Unmuddled'
      BY <1>1, <1>2, <1>6, <2>1, <2>3, SaveHandled
    <2>. QED BY <2>2, <2>3 DEF EditorInv
  <1>7. CASE r.kind = "saveForRun" /\ r.step = "ok" /\ RunSaved(r, others)
    <2> DEFINE run == [r EXCEPT !.kind = "run", !.step = "sent"]
    <2>1. /\ wire' = Append(others, run) /\ UNCHANGED <<route, entry>>
          /\ r.mine => lastSaved' = r.text
      BY <1>7 DEF RunSaved, SavedText
    <2>2. /\ IsRequest(run) /\ run.kind = "run" /\ run.step = "sent"
          /\ run.path = r.path /\ run.text = r.text
      BY <1>1, RunOfRequest, Zenon
    <2>. HIDE DEF run
    <2>3. EditorTypes'
      BY <1>1, <1>3, <2>1, <2>2, GoneAndSent DEF EditorTypes
    <2>4. ASSUME ~muddled' PROVE Unmuddled'
      BY <1>1, <1>2, <1>7, <2>1, <2>2, <2>4, RunSavedHandled
    <2>. QED BY <2>3, <2>4 DEF EditorInv
  <1>8. CASE r.kind = "saveAs" /\ r.step = "ok" /\ SaveAsAnswered(r, others)
    <2> DEFINE load == Request("load", r.path, Absent)
    <2>1. /\ wire' = others \o IF r.path = route THEN <<>> ELSE <<load>>
          /\ route' = r.path /\ entry' = entry /\ (~r.mine => lastSaved' = lastSaved)
      BY <1>8 DEF SaveAsAnswered
    <2>2. IsRequest(load) /\ load.kind = "load" /\ load.step = "sent" /\ load.mine
      BY <1>3, OwnRequestMade DEF RequestKinds, Writers
    <2>. HIDE DEF load
    <2>3. wire' = others \/ wire' = Append(others, load)
      BY <1>1, <1>8, CopyOpened DEF load
    <2>4. EditorTypes'
      <3>1. CASE wire' = others
        BY <1>1, <1>3, <2>1, <3>1, Gone DEF EditorTypes
      <3>2. CASE wire' = Append(others, load)
        BY <1>1, <1>3, <2>1, <2>2, <3>2, GoneAndSent DEF EditorTypes
      <3>. QED BY <2>3, <3>1, <3>2
    <2>5. ASSUME ~muddled' PROVE Unmuddled'
      <3>1. OwnLoad(load)
        BY <2>2 DEF OwnLoad
      <3>. QED BY <1>1, <1>2, <1>8, <2>1, <2>2, <2>3, <2>5, <3>1, CopyHandled
    <2>. QED BY <2>4, <2>5 DEF EditorInv
  <1>. QED BY <1>1, <1>4, <1>5, <1>6, <1>7, <1>8 DEF Handle, IsRequest

(* At first a list is on display and nothing is asked for.                 *)
LEMMA EditorInitially ==
    ASSUME EditorInit
    PROVE  EditorInv
  <1>1. /\ wire = <<>> /\ route = "list" /\ entry = "none" /\ DOMAIN texts = Paths
    BY LibraryAssumption DEF EditorInit, LibraryInit, LibraryAssumption
  <1>2. DOMAIN wire = {} /\ wire \in Seq({wire[i]: i \in DOMAIN wire})
    <2>1. DOMAIN wire = {}
      BY <1>1
    <2>2. <<>> \in Seq({wire[i]: i \in DOMAIN wire})
      OBVIOUS
    <2>. QED BY <1>1, <2>1, <2>2
  <1>3. EditorTypes
    BY <1>1, <1>2 DEF EditorTypes
  <1>4. Unmuddled
    BY <1>1, <1>2 DEF Unmuddled, OneAtATime, InOrderOfPages, OneSave, HeadKnows, EntryAgrees, RunsFind
  <1>. QED BY <1>3, <1>4 DEF EditorInv

(* One step of anybody.                                                    *)
LEMMA EditorStep ==
    ASSUME EditorInv, [EditorNext]_editorVars
    PROVE  EditorInv'
  <1>1. CASE UNCHANGED editorVars
    <2>1. UNCHANGED <<texts, index, foreign, route, entry, lastSaved, wire, muddled>>
      BY <1>1 DEF editorVars, library, instance
    <2>. QED BY <2>1, QuietKeeps DEF Known, EditorInv, EditorTypes
  <1>2. CASE \E q \in Paths: OpenPipeline(q) \/ SaveAs(q) \/ OnList(q)
    BY <1>2, OpenPipelineKeeps, EditorStepsKeep, OnListKeeps
  <1>3. CASE Leave
    BY <1>3, LeaveKeeps
  <1>4. CASE Save \/ Run
    BY <1>4, EditorStepsKeep
  <1>5. CASE Edit \/ TimerFires \/ Others \/ (\E i \in DOMAIN checking: ValidationAnswers(i))
    BY <1>5, QuietStepsKeep
  <1>6. CASE \E i \in DOMAIN wire: Begin(i) \/ Finish(i) \/ Handle(i)
    BY <1>6, BeginKeeps, FinishKeeps, HandleKeeps
  <1>. QED BY <1>1, <1>2, <1>3, <1>4, <1>5, <1>6 DEF EditorNext

(* The invariant of the editor.                                            *)
THEOREM EditorIsSafe == EditorSpec => []EditorInv
  <1>. QED BY EditorInitially, EditorStep, PTL DEF EditorSpec

(* When everything is answered and the editor shows no unsaved changes,    *)
(* the file holds what the graph shows.                                    *)
THEOREM SavedTextsAreShown == EditorSpec => []SavedIsShown
  <1>1. ASSUME EditorInv PROVE SavedIsShown
    <2>. SUFFICES ASSUME wire = <<>>, Editing, entry = route, ~Dirty, ~muddled, entry \notin foreign
                  PROVE  texts[entry] = Yaml
      BY DEF SavedIsShown
    <2>1. DOMAIN wire = {}
      OBVIOUS
    <2>2. ~Displaced /\ ~JustSaved
      BY <2>1 DEF Displaced, JustSaved
    <2>3. texts[entry] = lastSaved
      BY <1>1, <2>2 DEF EditorInv, Unmuddled, EntryAgrees, Editing
    <2>. QED BY <2>3 DEF Dirty, Editing
  <1>. QED BY <1>1, EditorIsSafe, PTL

(* Only the server grants a request, and it takes them up in order.        *)
LEMMA OnlyBeginGrants ==
    ASSUME EditorInv, EditorNext, NEW i \in DOMAIN wire, wire[i].step = "sent",
           Len(wire') = Len(wire), wire'[i].step = "ok", ~muddled'
    PROVE  i = 1 /\ Begin(1)
  <1>1. /\ EditorTypes /\ wire' # wire /\ DOMAIN wire = 1 .. Len(wire) /\ Len(wire) \in Nat
    BY LenProperties DEF EditorInv, EditorTypes
  <1>2. ASSUME NEW r, wire' = Append(wire, r) PROVE FALSE
    BY <1>1, <1>2, LenProperties DEF EditorTypes
  <1>3. ~(\E q \in Paths: OpenPipeline(q) \/ SaveAs(q) \/ OnList(q)) /\ ~Save /\ ~Run
    BY <1>2 DEF OpenPipeline, SaveAs, OnList, DeletePipeline, RunFromList, CreatePipeline, Save, Run, Send
  <1>4. ~Edit /\ ~TimerFires /\ ~Others
    BY <1>1 DEF Edit, TimerFires, Others
  <1>5. ~(\E j \in DOMAIN checking: ValidationAnswers(j))
    BY <1>1 DEF ValidationAnswers
  <1>6. ~Leave
    <2>. SUFFICES ASSUME Leave PROVE FALSE
      OBVIOUS
    <2>1. wire'[i] = [wire[i] EXCEPT !.mine = FALSE] /\ IsRequest(wire[i])
      BY DEF Leave, EditorInv, EditorTypes
    <2>2. [wire[i] EXCEPT !.mine = FALSE].step = wire[i].step
      BY <2>1, Abandoned, Zenon
    <2>. QED BY <2>1, <2>2
  <1>7. ASSUME NEW j \in DOMAIN wire, Begin(j) PROVE i = 1 /\ Begin(1)
    <2>1. j = 1
      BY <1>7 DEF Begin, Overtakes
    <2>2. CASE wire[j].kind = "delete"
      <3>1. wire' = RemoveAt(wire, j)
        BY <1>7, <2>2 DEF Begin
      <3>2. Len(wire') = Len(wire) - 1
        BY <1>1, <3>1, Gone
      <3>. QED BY <1>1, <3>2
    <2>3. CASE wire[j].kind # "delete"
      <3>1. \A k \in DOMAIN wire: k # j => wire'[k] = wire[k]
        <4>1. CASE wire[j].kind = "load"
          BY <1>1, <1>7, <4>1 DEF Begin
        <4>2. CASE wire[j].kind = "run"
          BY <1>1, <1>7, <4>2 DEF Begin, Answered
        <4>3. CASE wire[j].kind \notin {"load", "run", "delete"}
          BY <1>1, <1>7, <4>3 DEF Begin
        <4>. QED BY <2>3, <4>1, <4>2, <4>3
      <3>. QED BY <1>7, <2>1, <3>1
    <2>. QED BY <2>2, <2>3
  <1>8. ASSUME NEW j \in DOMAIN wire, Finish(j) PROVE FALSE
    <2>1. wire[j].step = "begun" /\ \A k \in DOMAIN wire: k # j => wire'[k] = wire[k]
      BY <1>1, <1>8 DEF Finish, Answered
    <2>. QED BY <2>1
  <1>9. ASSUME NEW j \in DOMAIN wire, Handle(j) PROVE FALSE
    <2> DEFINE r == wire[j]
               others == RemoveAt(wire, j)
    <2>1. j = 1 /\ Unmuddled /\ IsRequest(r) /\ r.step # "sent"
      BY <1>9 DEF Handle, EditorInv, EditorTypes
    <2>2. wire' # others
      <3>1. wire' = others => Len(wire') = Len(wire) - 1
        BY <1>1, Gone
      <3>. QED BY <1>1, <3>1
    <2>3. ASSUME NEW q, IsRequest(q), q.kind \in {"load", "run"}, q.step = "sent", wire' = Append(others, q)
          PROVE  FALSE
      <3>1. MovedUp
        BY <1>1, <2>1, <2>3, AskedNext
      <3>2. i \in DOMAIN wire'
        BY <1>1, <2>1, <2>3, GoneAndSent
      <3>. QED BY <1>1, <2>1, <3>1, <3>2, RestWaits
    <2>4. CASE RunSaved(r, others)
      <3> DEFINE run == [r EXCEPT !.kind = "run", !.step = "sent"]
      <3>1. wire' = Append(others, run)
        BY <2>4 DEF RunSaved
      <3>2. IsRequest(run) /\ run.kind = "run" /\ run.step = "sent"
        BY <2>1, RunOfRequest, Zenon
      <3>. HIDE DEF run, others
      <3>. QED BY <2>3, <3>1, <3>2
    <2>5. CASE SaveAsAnswered(r, others)
      <3> DEFINE load == Request("load", r.path, Absent)
      <3>1. wire' = others \/ wire' = Append(others, load)
        BY <1>1, <2>5, CopyOpened
      <3>2. IsRequest(load) /\ load.kind = "load" /\ load.step = "sent"
        BY <2>1, OwnRequestMade DEF RequestKinds, Writers, IsRequest
      <3>. HIDE DEF load, others
      <3>. QED BY <2>2, <2>3, <3>1, <3>2
    <2>6. wire' = others \/ RunSaved(r, others) \/ SaveAsAnswered(r, others)
      BY <1>9 DEF Handle, LoadAnswered, SaveAnswered
    <2>. QED BY <2>2, <2>4, <2>5, <2>6
  <1>. QED BY <1>3, <1>4, <1>5, <1>6, <1>7, <1>8, <1>9 DEF EditorNext

(* A run executes what was on display when it was asked for.               *)
THEOREM RunsAreOfTheShown == EditorSpec => RunsWhatIsShown
  <1> DEFINE Granted(i) ==
        /\ wire[i].kind = "run" /\ wire[i].step = "sent"
        /\ Len(wire') = Len(wire) /\ wire'[i].step = "ok"
        /\ wire[i].text # Absent /\ ~muddled' /\ wire[i].path \notin foreign
  <1>1. ASSUME EditorInv, EditorNext, NEW i \in DOMAIN wire, Granted(i)
        PROVE  texts[wire[i].path] = wire[i].text
    <2>1. i = 1 /\ Begin(1)
      BY <1>1, OnlyBeginGrants
    <2>2. Runs(wire[1].path)
      <3> DEFINE step == IF Runs(wire[1].path) THEN "ok" ELSE "error"
      <3>1. wire' = [wire EXCEPT ![1].step = step] /\ IsRequest(wire[1])
        BY <1>1, <2>1 DEF Begin, Answered, EditorInv, EditorTypes
      <3>2. step # "ok" \/ Runs(wire[1].path)
        OBVIOUS
      <3>. HIDE DEF step
      <3>3. wire'[1].step = step
        BY <2>1, <3>1 DEF IsRequest
      <3>. QED BY <1>1, <2>1, <3>2, <3>3
    <2>3. Known(wire[1].path)
      BY <2>2 DEF Runs
    <2>4. ~muddled
      BY <1>1, <2>1 DEF Begin, Overtakes
    <2>. QED BY <1>1, <2>1, <2>3, <2>4 DEF EditorInv, Unmuddled, RunsFind
  <1>2. ASSUME EditorInv, [EditorNext]_editorVars
        PROVE  [\A i \in DOMAIN wire:
                  (/\ wire[i].kind = "run" /\ wire[i].step = "sent"
                   /\ Len(wire') = Len(wire) /\ wire'[i].step = "ok"
                   /\ wire[i].text # Absent /\ ~muddled' /\ wire[i].path \notin foreign)
                     => texts[wire[i].path] = wire[i].text]_editorVars
    BY <1>1, <1>2
  <1>. QED BY <1>2, EditorIsSafe, PTL DEF EditorSpec, RunsWhatIsShown

-----------------------------------------------------------------------------
(* What the editor writes is accepted.                                     *)

(* The new pipeline of a list page is accepted.                            *)
LEMMA StarterAccepted == Accepts(Starter) /\ Text(Starter).doc = Starter
  <1> DEFINE st == Stage(<<"echo">>, {}, FALSE)
  <1>1. /\ Starter.mode = "sequential" /\ Starter.stages = <<st>>
        /\ DOMAIN Starter.stages = {1} /\ Starter.stages[1] = st
    <2>1. Starter.mode = "sequential" /\ Starter.stages = <<st>>
      BY DEF Starter, Document
    <2>. HIDE DEF st
    <2>2. DOMAIN <<st>> = {1} /\ <<st>>[1] = st
      OBVIOUS
    <2>. QED BY <2>1, <2>2
  <1>2. st.name = <<"echo">> /\ st.deps = {} /\ st.lead = FALSE
    BY DEF Stage
  <1>. HIDE DEF st
  <1>3. \A names: DepsOf(Starter, names) = {}
    <2>. SUFFICES ASSUME NEW names, NEW x \in DepsOf(Starter, names) PROVE FALSE
      OBVIOUS
    <2>1. PICK i \in {j \in DOMAIN Starter.stages: Starter.stages[j].name \in names}:
             x \in Starter.stages[i].deps
      BY DEF DepsOf
    <2>. QED BY <1>1, <1>2, <2>1
  <1>4. Leads(Starter) = {}
    BY <1>1, <1>2 DEF Leads
  <1>5. ~Circular(Starter)
    <2>1. \A S \in (SUBSET StageNames(Starter)) \ {{}}: \E s \in S: TRUE
      OBVIOUS
    <2>2. \A S, s: ~(DepsOf(Starter, {s}) \cap S # {})
      BY <1>3
    <2>. QED BY <2>1, <2>2 DEF Circular
  <1>6. Accepts(Starter)
    BY <1>1, <1>3, <1>4, <1>5 DEF Accepts
  <1>. QED BY <1>6 DEF Text

(* The requests for copies, where the step is about one request.           *)
LEMMA CopiesStay ==
    ASSUME EditorInv, ~muddled', CopiesChecked,
           NEW i \in DOMAIN wire, Begin(i) \/ Finish(i) \/ Handle(i)
    PROVE  CopiesChecked'
  <1>1. i = 1 /\ Unmuddled /\ EditorTypes /\ IsRequest(wire[1])
    BY DEF Begin, Finish, Handle, Overtakes, EditorInv, EditorTypes
  <1>2. ASSUME DOMAIN wire' = DOMAIN wire, \A j \in DOMAIN wire: j # 1 => wire'[j] = wire[j],
               wire'[1].kind = wire[1].kind, wire[1].kind = "saveAs" => wire'[1].text = wire[1].text
        PROVE  CopiesChecked'
    BY <1>1, <1>2 DEF CopiesChecked
  <1>3. ASSUME wire' = RemoveAt(wire, 1) PROVE CopiesChecked'
    <2>1. \A j \in DOMAIN wire': j + 1 \in DOMAIN wire /\ wire'[j] = wire[j + 1]
      BY <1>1, <1>3, GoneMovesUp
    <2>. QED BY <2>1 DEF CopiesChecked
  <1>4. ASSUME NEW r, IsRequest(r), r.kind \in {"load", "run"}, r.step = "sent",
               wire' = Append(RemoveAt(wire, 1), r)
        PROVE  CopiesChecked'
    <2>1. \A j \in DOMAIN wire':
             (j + 1 \in DOMAIN wire /\ wire'[j] = wire[j + 1]) \/ (j = Len(wire) /\ wire'[j] = r)
      BY <1>1, <1>4, AskedNext
    <2>. QED BY <1>4, <2>1 DEF CopiesChecked
  <1>5. CASE Begin(i)
    <2>1. CASE wire[1].kind = "load"
      BY <1>1, <1>2, <1>5, <2>1 DEF Begin, IsRequest
    <2>2. CASE wire[1].kind = "run"
      BY <1>1, <1>2, <1>5, <2>2 DEF Begin, Answered, IsRequest
    <2>3. CASE wire[1].kind = "delete"
      BY <1>1, <1>3, <1>5, <2>3 DEF Begin
    <2>4. CASE wire[1].kind \in Writers
      BY <1>1, <1>2, <1>5, <2>4 DEF Begin, Writers, IsRequest
    <2>. QED BY <1>1, <2>1, <2>2, <2>3, <2>4 DEF IsRequest, RequestKinds
  <1>6. CASE Finish(i)
    BY <1>1, <1>2, <1>6 DEF Finish, Answered, IsRequest
  <1>7. CASE Handle(i)
    <2> DEFINE r == wire[1]
               others == RemoveAt(wire, 1)
    <2>1. CASE RunSaved(r, others)
      <3> DEFINE run == [r EXCEPT !.kind = "run", !.step = "sent"]
      <3>1. wire' = Append(others, run)
        BY <2>1 DEF RunSaved
      <3>2. IsRequest(run) /\ run.kind = "run" /\ run.step = "sent"
        BY <1>1, RunOfRequest, Zenon
      <3>. HIDE DEF run
      <3>. QED BY <1>4, <3>1, <3>2
    <2>2. CASE SaveAsAnswered(r, others)
      <3> DEFINE load == Request("load", r.path, Absent)
      <3>1. wire' = others \/ wire' = Append(others, load)
        BY <1>1, <2>2, CopyOpened
      <3>2. IsRequest(load) /\ load.kind = "load" /\ load.step = "sent"
        BY <1>1, OwnRequestMade DEF RequestKinds, Writers, IsRequest
      <3>. HIDE DEF load
      <3>. QED BY <1>3, <1>4, <3>1, <3>2
    <2>3. wire' = others \/ RunSaved(r, others) \/ SaveAsAnswered(r, others)
      BY <1>1, <1>7 DEF Handle, LoadAnswered, SaveAnswered
    <2>. QED BY <1>3, <2>1, <2>2, <2>3
  <1>. QED BY <1>5, <1>6, <1>7

(* What the server writes.                                                 *)
LEMMA FilesStay ==
    ASSUME EditorInv, CopiesChecked, FilesAccepted,
           NEW i \in DOMAIN wire, Begin(i) \/ Finish(i) \/ Handle(i)
    PROVE  FilesAccepted'
  <1> DEFINE r == wire[i]
  <1>1. DOMAIN texts = Paths /\ r.path \in Paths
    BY DEF EditorInv, EditorTypes, IsRequest
  <1>2. ASSUME UNCHANGED library PROVE FilesAccepted'
    BY <1>2 DEF library, FilesAccepted, Exists
  <1>3. ASSUME NEW text, Store(r.path, text), text = Absent \/ Accepts(text.doc)
        PROVE  FilesAccepted'
    BY <1>1, <1>3 DEF Store, FilesAccepted, Exists
  <1>4. CASE Begin(i)
    <2>1. CASE wire[i].kind = "delete"
      BY <1>2, <1>3, <1>4, <2>1 DEF Begin, Delete, library, FilesAccepted, Exists
    <2>2. CASE wire[i].kind # "delete"
      BY <1>2, <1>4, <2>2 DEF Begin
    <2>. QED BY <2>1, <2>2
  <1>5. CASE Finish(i)
    <2>1. PICK ok \in BOOLEAN:
             IF r.kind = "saveAs" THEN Post(r.path, r.text, ok) ELSE FinishSave(r.path, r.text, ok)
      BY <1>5 DEF Finish
    <2>2. CASE r.kind = "saveAs"
      BY <1>2, <1>3, <2>1, <2>2 DEF Post, PostProject, PostGlobal, Create, CopiesChecked
    <2>3. CASE r.kind # "saveAs"
      BY <1>2, <1>3, <2>1, <2>3 DEF FinishSave
    <2>. QED BY <2>2, <2>3
  <1>6. CASE Handle(i)
    BY <1>2, <1>6 DEF Handle
  <1>. QED BY <1>4, <1>5, <1>6

(* The documents that are sent for validation are a sequence.              *)
LEMMA CheckingStays ==
    ASSUME CheckingTypes, [EditorNext]_editorVars
    PROVE  CheckingTypes'
  <1> DEFINE S == {checking[i]: i \in DOMAIN checking}
  <1>1. checking \in Seq(S)
    BY DEF CheckingTypes
  <1>. HIDE DEF S
  <1>2. ASSUME NEW T, checking' \in Seq(T) PROVE CheckingTypes'
    BY <1>2, Listed DEF CheckingTypes
  <1>3. CASE TimerFires
    <2>1. checking' = Append(checking, Serialize(draft))
      BY <1>3 DEF TimerFires
    <2>2. checking \in Seq(S \cup {Serialize(draft)}) /\ Serialize(draft) \in S \cup {Serialize(draft)}
      BY <1>1, SeqMonotonic
    <2>. QED BY <1>2, <2>1, <2>2, Appended
  <1>4. ASSUME NEW i \in DOMAIN checking, ValidationAnswers(i) PROVE CheckingTypes'
    <2>1. checking' = RemoveAt(checking, i) /\ i \in 1 .. Len(checking)
      BY <1>1, <1>4, LenProperties DEF ValidationAnswers
    <2>. QED BY <1>1, <1>2, <2>1, Removed
  <1>5. CASE checking' = checking
    BY <1>1, <1>2, <1>5
  <1>6. CASE checking' = <<>>
    <2>1. <<>> \in Seq(S)
      OBVIOUS
    <2>. QED BY <1>2, <1>6, <2>1
  <1>7. CASE UNCHANGED editorVars \/ Edit \/ Save \/ Run \/ Others \/ Leave
    BY <1>5, <1>6, <1>7 DEF editorVars, Edit, Save, Run, Others, Leave, NoInstance, instance
  <1>8. ASSUME NEW q \in Paths, OpenPipeline(q) \/ SaveAs(q) \/ OnList(q) PROVE CheckingTypes'
    BY <1>5, <1>6, <1>8 DEF OpenPipeline, SaveAs, OnList, NoInstance, instance
  <1>9. ASSUME NEW i \in DOMAIN wire, Begin(i) \/ Finish(i) \/ Handle(i) PROVE CheckingTypes'
    BY <1>5, <1>9 DEF Begin, Finish, Handle, LoadAnswered, SaveAnswered, SaveAsAnswered, RunSaved, instance
  <1>. QED BY <1>3, <1>4, <1>7, <1>8, <1>9 DEF EditorNext

(* The graph on display is validated before it counts as valid for long.   *)
LEMMA DraftStays ==
    ASSUME CheckingTypes, DraftChecked, EditorNext, ~hasty'
    PROVE  DraftChecked'
  <1>1. CASE UNCHANGED <<draft, valid, timer, checking>>
    BY <1>1 DEF DraftChecked
  <1>2. CASE NoInstance
    BY <1>2 DEF NoInstance, DraftChecked
  <1>3. ASSUME NEW g, NEW ok, Display(g, ok) PROVE DraftChecked'
    BY <1>3 DEF Display, DraftChecked
  <1>4. CASE Edit
    <2>1. PICK g \in EditsOf(draft) \ {draft}:
             IF Serialize(g) = Serialize(draft) THEN draft' = g /\ UNCHANGED <<valid, timer>>
             ELSE Display(g, valid)
      BY <1>4 DEF Edit
    <2>2. CASE Serialize(g) = Serialize(draft)
      <3>1. Serialize(draft') = Serialize(draft) /\ UNCHANGED <<valid, timer, checking>>
        BY <1>4, <2>1, <2>2 DEF Edit
      <3>. QED BY <3>1 DEF DraftChecked
    <2>3. CASE Serialize(g) # Serialize(draft)
      BY <1>3, <2>1, <2>3
    <2>. QED BY <2>2, <2>3
  <1>5. CASE TimerFires
    <2>1. checking' = Append(checking, Serialize(draft))
      BY <1>5 DEF TimerFires
    <2> DEFINE S == {checking[i]: i \in DOMAIN checking}
    <2>2. checking \in Seq(S)
      BY DEF CheckingTypes
    <2>. HIDE DEF S
    <2>3. checking' # <<>>
      <3>1. checking \in Seq(S \cup {Serialize(draft)}) /\ Serialize(draft) \in S \cup {Serialize(draft)}
        BY <2>2, SeqMonotonic
      <3>. QED BY <2>1, <3>1, Appended, LenProperties
    <2>. QED BY <2>3 DEF DraftChecked
  <1>6. ASSUME NEW i \in DOMAIN checking, ValidationAnswers(i) PROVE DraftChecked'
    <2>1. checking[i] = Serialize(draft) /\ valid' = Accepts(checking[i]) /\ draft' = draft
      BY <1>6 DEF ValidationAnswers
    <2>. QED BY <2>1 DEF DraftChecked
  <1>7. ASSUME NEW i \in DOMAIN wire, Handle(i) PROVE DraftChecked'
    <2>1. CASE LoadAnswered(wire[i], RemoveAt(wire, i))
      BY <1>3, <2>1 DEF LoadAnswered
    <2>2. CASE UNCHANGED <<draft, valid, timer, checking>>
      BY <1>1, <2>2
    <2>. QED BY <1>7, <2>1, <2>2 DEF Handle, SaveAnswered, SaveAsAnswered, RunSaved, instance
  <1>8. ASSUME NEW i \in DOMAIN wire, Begin(i) \/ Finish(i) PROVE DraftChecked'
    BY <1>1, <1>8 DEF Begin, Finish, instance
  <1>9. CASE Save \/ Run \/ Others \/ \E q \in Paths: SaveAs(q) \/ OnList(q)
    BY <1>1, <1>9 DEF Save, Run, Others, SaveAs, OnList, instance
  <1>10. CASE Leave \/ \E q \in Paths: OpenPipeline(q)
    BY <1>1, <1>2, <1>10 DEF Leave, OpenPipeline, instance
  <1>. QED BY <1>4, <1>5, <1>6, <1>7, <1>8, <1>9, <1>10 DEF EditorNext

(* A request is sent; if it is for a new file, its text is accepted.       *)
LEMMA CopySent ==
    ASSUME EditorTypes, CopiesChecked, NEW r, IsRequest(r), wire' = Append(wire, r),
           r.kind = "saveAs" => Accepts(r.text.doc)
    PROVE  CopiesChecked'
  <1>1. /\ DOMAIN wire = 1 .. Len(wire) /\ DOMAIN wire' = 1 .. (Len(wire) + 1) /\ Len(wire) \in Nat
        /\ wire'[Len(wire) + 1] = r /\ \A j \in DOMAIN wire: wire'[j] = wire[j]
    BY Sent
  <1>2. \A j \in DOMAIN wire': j = Len(wire) + 1 \/ j \in DOMAIN wire
    BY <1>1
  <1>. QED BY <1>1, <1>2 DEF CopiesChecked

(* One step of anybody.                                                    *)
LEMMA AcceptedStep ==
    ASSUME EditorInv, CheckingTypes, AcceptedInv, EditorNext
    PROVE  AcceptedInv'
  <1>. SUFFICES ASSUME ~hasty', ~muddled'
                PROVE  DraftChecked' /\ CopiesChecked' /\ FilesAccepted'
    BY DEF AcceptedInv
  <1>0. ~hasty /\ ~muddled
    <2>1. hasty => hasty'
      <3>1. ASSUME NEW q \in Paths, OpenPipeline(q) \/ SaveAs(q) \/ OnList(q) PROVE hasty => hasty'
        BY <3>1, Zenon DEF OpenPipeline, SaveAs, OnList
      <3>2. CASE Leave \/ Edit \/ TimerFires \/ Save \/ Run \/ Others
        BY <3>2, Zenon DEF Leave, Edit, TimerFires, Save, Run, Others
      <3>3. ASSUME NEW i \in DOMAIN checking, ValidationAnswers(i) PROVE hasty => hasty'
        BY <3>3, Zenon DEF ValidationAnswers
      <3>4. ASSUME NEW i \in DOMAIN wire, Begin(i) \/ Finish(i) \/ Handle(i) PROVE hasty => hasty'
        BY <3>4, Zenon DEF Begin, Finish, Handle
      <3>. QED BY <3>1, <3>2, <3>3, <3>4 DEF EditorNext
    <2>2. muddled => muddled'
      <3>1. ASSUME NEW q \in Paths, OpenPipeline(q) \/ SaveAs(q) \/ OnList(q) PROVE muddled => muddled'
        BY <3>1, Zenon DEF OpenPipeline, SaveAs, OnList
      <3>2. CASE Leave \/ Edit \/ TimerFires \/ Save \/ Run \/ Others
        BY <3>2, Zenon DEF Leave, Edit, TimerFires, Save, Run, Others
      <3>3. ASSUME NEW i \in DOMAIN checking, ValidationAnswers(i) PROVE muddled => muddled'
        BY <3>3, Zenon DEF ValidationAnswers
      <3>4. ASSUME NEW i \in DOMAIN wire, Begin(i) \/ Finish(i) \/ Handle(i) PROVE muddled => muddled'
        BY <3>4, Zenon DEF Begin, Finish, Handle, Overtakes
      <3>. QED BY <3>1, <3>2, <3>3, <3>4 DEF EditorNext
    <2>. QED BY <2>1, <2>2
  <1>1. DraftChecked /\ CopiesChecked /\ FilesAccepted /\ EditorTypes
    BY <1>0 DEF AcceptedInv, EditorInv
  <1>2. DraftChecked'
    BY <1>1, DraftStays
  <1>3. ASSUME UNCHANGED library PROVE FilesAccepted'
    BY <1>1, <1>3 DEF library, FilesAccepted, Exists
  <1>4. ASSUME UNCHANGED wire PROVE CopiesChecked'
    BY <1>1, <1>4 DEF CopiesChecked
  <1>5. ASSUME NEW i \in DOMAIN wire, Begin(i) \/ Finish(i) \/ Handle(i)
        PROVE  CopiesChecked' /\ FilesAccepted'
    BY <1>1, <1>5, CopiesStay, FilesStay
  <1>6. CASE Leave
    <2>1. UNCHANGED library /\ wire' = [i \in DOMAIN wire |-> [wire[i] EXCEPT !.mine = FALSE]]
      BY <1>6 DEF Leave
    <2>2. \A i \in DOMAIN wire: IsRequest(wire[i]) /\ wire'[i] = [wire[i] EXCEPT !.mine = FALSE]
      BY <1>1, <2>1 DEF EditorTypes
    <2>3. \A i \in DOMAIN wire: wire'[i].kind = wire[i].kind /\ wire'[i].text = wire[i].text
      <3>. SUFFICES ASSUME NEW i \in DOMAIN wire
                    PROVE  wire'[i].kind = wire[i].kind /\ wire'[i].text = wire[i].text
        OBVIOUS
      <3>1. FALSE \in BOOLEAN
        OBVIOUS
      <3>. HIDE DEF IsRequest
      <3>. QED BY <2>2, <3>1, Abandoned, Zenon
    <2>4. DOMAIN wire' = DOMAIN wire
      BY <2>1
    <2>5. CopiesChecked'
      BY <1>1, <2>3, <2>4 DEF CopiesChecked
    <2>. QED BY <1>2, <1>3, <2>1, <2>5
  <1>7. CASE Edit \/ TimerFires \/ Others \/ (\E i \in DOMAIN checking: ValidationAnswers(i))
    <2>1. UNCHANGED wire
      BY <1>7 DEF Edit, TimerFires, Others, ValidationAnswers
    <2>2. CASE UNCHANGED library
      BY <1>2, <1>3, <1>4, <2>1, <2>2
    <2>3. CASE List \/ RegisterProject \/ UnregisterProject
      BY <1>1, <1>2, <1>4, <2>1, <2>3 DEF List, RegisterProject, UnregisterProject, FilesAccepted, Exists
    <2>4. ASSUME NEW q \in Paths, NEW text \in MeddleTexts, Meddle(q, text)
          PROVE  CopiesChecked' /\ FilesAccepted'
      BY <1>1, <1>4, <2>1, <2>4 DEF Meddle, FilesAccepted, Exists, EditorTypes
    <2>. QED BY <1>2, <1>7, <2>2, <2>3, <2>4 DEF Edit, TimerFires, Others, ValidationAnswers
  <1>8. ASSUME NEW r, IsRequest(r), UNCHANGED library, wire' = Append(wire, r),
               r.kind = "saveAs" => Accepts(r.text.doc)
        PROVE  CopiesChecked' /\ FilesAccepted'
    BY <1>1, <1>3, <1>8, CopySent
  <1>9. ASSUME NEW kind \in RequestKinds, NEW q \in Paths, NEW text,
               wire' = Append(wire, Request(kind, q, text)), UNCHANGED library,
               kind \in Writers => text.form = "editor",
               kind = "saveAs" => Accepts(text.doc)
        PROVE  CopiesChecked' /\ FilesAccepted'
    <2> DEFINE r == Request(kind, q, text)
    <2>1. IsRequest(r) /\ r.kind = kind /\ r.text = text
      BY <1>9, OwnRequestMade
    <2>. HIDE DEF r
    <2>2. wire' = Append(wire, r)
      BY <1>9 DEF r
    <2>. QED BY <1>8, <1>9, <2>1, <2>2
  <1>10. Yaml.form = "editor" /\ Yaml.doc = Serialize(draft)
    BY DEF Yaml, Text
  <1>11. CASE Save \/ Run
    <2>1. /\ UNCHANGED library /\ entry \in Paths
          /\ wire' = Append(wire, Request("save", entry, Yaml)) \/ wire' = Append(wire, Request(RunKind, entry, Yaml))
      BY <1>1, <1>11 DEF Save, Run, Send, Editing, EditorTypes
    <2>2. "save" \in RequestKinds /\ RunKind \in RequestKinds /\ RunKind # "saveAs"
      BY DEF RunKind, RequestKinds, Writers
    <2>. QED BY <1>2, <1>9, <1>10, <2>1, <2>2
  <1>12. ASSUME NEW q \in Paths, SaveAs(q) PROVE CopiesChecked' /\ FilesAccepted'
    <2>1. /\ UNCHANGED library /\ wire' = Append(wire, Request("saveAs", q, Yaml))
          /\ valid /\ ~timer /\ checking = <<>>
      BY <1>12 DEF SaveAs, Send
    <2>2. Accepts(Yaml.doc) /\ "saveAs" \in RequestKinds
      BY <1>1, <1>10, <2>1 DEF DraftChecked, RequestKinds, Writers
    <2>. QED BY <1>9, <1>10, <2>1, <2>2
  <1>13. ASSUME NEW q \in Paths, OpenPipeline(q) PROVE CopiesChecked' /\ FilesAccepted'
    <2>1. UNCHANGED library /\ wire' = Append(wire, Request("load", q, Absent))
      BY <1>13 DEF OpenPipeline
    <2>. QED BY <1>9, <2>1 DEF RequestKinds, Writers
  <1>14. ASSUME NEW q \in Paths, OnList(q) PROVE CopiesChecked' /\ FilesAccepted'
    <2>1. CASE DeletePipeline(q) \/ RunFromList(q)
      <3>1. \E kind \in {"delete", "run"}: wire' = Append(wire, Request(kind, q, Absent))
        BY <2>1 DEF DeletePipeline, RunFromList, Send
      <3>2. UNCHANGED library
        BY <1>14 DEF OnList
      <3>. QED BY <1>9, <3>1, <3>2 DEF RequestKinds, Writers
    <2>2. CASE CreatePipeline(q)
      <3> DEFINE r == [Request("saveAs", q, Text(Starter)) EXCEPT !.mine = FALSE]
      <3>1. Text(Starter).form = "editor" /\ "saveAs" \in RequestKinds
        BY DEF Text, RequestKinds, Writers
      <3>2. IsRequest(r) /\ r.text = Text(Starter)
        BY <3>1, RequestMade
      <3>3. wire' = Append(wire, r) /\ UNCHANGED library
        BY <1>14, <2>2 DEF CreatePipeline, Send, OnList
      <3>. HIDE DEF r
      <3>. QED BY <1>8, <3>2, <3>3, StarterAccepted
    <2>. QED BY <1>14, <2>1, <2>2 DEF OnList
  <1>. QED BY <1>2, <1>5, <1>6, <1>7, <1>11, <1>12, <1>13, <1>14 DEF EditorNext

(* What the editor has written can be opened and run, provided that the    *)
(* person waits for the validation before going on, and that the files     *)
(* could be at first.                                                      *)
THEOREM WhatIsSavedOpens ==
    ASSUME GoodFiles
    PROVE  EditorSpec => []SavedPipelinesOpen
  <1>1. ASSUME EditorInit PROVE AcceptedInv
    <2>1. DOMAIN wire = {} /\ valid = FALSE
      BY <1>1 DEF EditorInit
    <2>. QED BY <1>1, <2>1 DEF AcceptedInv, DraftChecked, CopiesChecked, FilesAccepted, Exists,
                              GoodFiles, EditorInit, LibraryInit
  <1>2. ASSUME EditorInv, CheckingTypes, AcceptedInv, [EditorNext]_editorVars PROVE AcceptedInv'
    <2>1. CASE UNCHANGED editorVars
      <3>1. UNCHANGED <<texts, foreign, wire, draft, valid, timer, checking, hasty, muddled>>
        BY <2>1 DEF editorVars, library, instance
      <3>. QED BY <1>2, <3>1 DEF AcceptedInv, DraftChecked, CopiesChecked, FilesAccepted, Exists
    <2>. QED BY <1>2, <2>1, AcceptedStep
  <1>3. AcceptedInv => SavedPipelinesOpen
    BY DEF AcceptedInv, FilesAccepted, SavedPipelinesOpen
  <1>4. EditorInit => CheckingTypes
    <2>. SUFFICES ASSUME checking = <<>> PROVE checking \in Seq({checking[i]: i \in DOMAIN checking})
      BY DEF EditorInit, CheckingTypes
    <2>1. <<>> \in Seq({checking[i]: i \in DOMAIN checking})
      OBVIOUS
    <2>. QED BY <2>1
  <1>5. CheckingTypes /\ [EditorNext]_editorVars => CheckingTypes'
    BY CheckingStays
  <1>. QED BY <1>1, <1>2, <1>3, <1>4, <1>5, EditorIsSafe, PTL DEF EditorSpec

-----------------------------------------------------------------------------
(* A set of numbers has a least one.                                       *)
LEMMA LeastNumber ==
    ASSUME NEW T, T \subseteq Nat, T # {}
    PROVE  \E x \in T: \A y \in T: x <= y
  <1>. DEFINE less == {ss \in Nat \X Nat: ss[1] < ss[2]}
  <1>1. IsWellFoundedOn(less, Nat)
    <2>1. less = OpToRel(<, Nat)
      BY DEF OpToRel
    <2>. QED BY <2>1, NatLessThanWellFounded
  <1>2. PICK x \in T: \A y \in T: <<y, x>> \notin less
    <2>. HIDE DEF less
    <2>. QED BY <1>1, WFMin
  <1>3. \A y \in T: ~(y < x)
    BY <1>2
  <1>. QED BY <1>3

(* The numbers of a finite set are counted by those that precede them.     *)
LEMMA NumbersRanked ==
    ASSUME NEW T, T \subseteq Nat, IsFiniteSet(T)
    PROVE  /\ Cardinality(T) \in Nat
           /\ \A i \in T: Cardinality(Preceding(T, i)) + 1 \in 1 .. Cardinality(T)
           /\ \A i, k \in T: Cardinality(Preceding(T, i)) = Cardinality(Preceding(T, k)) => i = k
           /\ \A n \in 1 .. Cardinality(T): \E i \in T: Cardinality(Preceding(T, i)) = n - 1
  <1>. DEFINE rank(i) == Cardinality(Preceding(T, i))
  <1>0. T \subseteq Nat
    OBVIOUS
  <1>1. IsFiniteSet(T) /\ Cardinality(T) \in Nat
    BY FS_CardinalityType
  <1>2. ASSUME NEW i \in T
        PROVE  /\ IsFiniteSet(Preceding(T, i)) /\ rank(i) \in Nat
               /\ IsFiniteSet(Preceding(T, i) \cup {i}) /\ Cardinality(Preceding(T, i) \cup {i}) = rank(i) + 1
    <2>1. Preceding(T, i) \in SUBSET T /\ i \notin Preceding(T, i)
      BY DEF Preceding
    <2>2. IsFiniteSet(Preceding(T, i))
      BY <1>1, <2>1, FS_Subset
    <2>3. IsFiniteSet(Preceding(T, i) \cup {i}) /\ Cardinality(Preceding(T, i) \cup {i}) = rank(i) + 1
      BY <2>1, <2>2, FS_AddElement
    <2>. QED BY <2>2, <2>3, FS_CardinalityType
  <1>3. ASSUME NEW i \in T PROVE rank(i) + 1 \in 1 .. Cardinality(T)
    <2>1. Preceding(T, i) \cup {i} \in SUBSET T
      BY DEF Preceding
    <2>2. Cardinality(Preceding(T, i) \cup {i}) <= Cardinality(T)
      BY <1>1, <2>1, FS_Subset
    <2>3. rank(i) + 1 <= Cardinality(T) /\ rank(i) \in Nat
      BY <1>2, <2>2
    <2>. HIDE DEF rank
    <2>. QED BY <1>1, <2>3
  <1>4. ASSUME NEW i \in T, NEW k \in T, i < k PROVE rank(i) < rank(k)
    <2>1. Preceding(T, i) \cup {i} \in SUBSET Preceding(T, k)
      <3>1. \A j \in T: j < i => j < k
        <4>1. \A j \in Nat: j < i => j < k
          BY <1>0, <1>4
        <4>. QED BY <1>0, <4>1
      <3>. QED BY <1>4, <3>1 DEF Preceding
    <2>2. Cardinality(Preceding(T, i) \cup {i}) <= rank(k)
      BY <1>2, <2>1, FS_Subset
    <2>3. rank(i) + 1 <= rank(k) /\ rank(i) \in Nat /\ rank(k) \in Nat
      BY <1>2, <2>2
    <2>. HIDE DEF rank
    <2>. QED BY <2>3
  <1>5. ASSUME NEW i \in T, NEW k \in T, rank(i) = rank(k) PROVE i = k
    <2>1. i < k \/ k < i \/ i = k
      OBVIOUS
    <2>2. rank(i) \in Nat /\ rank(k) \in Nat
      BY <1>2
    <2>. HIDE DEF rank
    <2>. QED BY <1>4, <1>5, <2>1, <2>2
  <1>6. \A n \in 1 .. Cardinality(T): \E i \in T: rank(i) = n - 1
    <2>. DEFINE U == {n \in 1 .. Cardinality(T): ~ \E i \in T: rank(i) = n - 1}
    <2>. SUFFICES ASSUME U # {} PROVE FALSE
      OBVIOUS
    <2>1. PICK n \in U: \A y \in U: n <= y
      <3>1. U \subseteq Nat
        BY <1>1
      <3>. HIDE DEF U
      <3>. QED BY <3>1, LeastNumber
    <2>2. n \in 1 .. Cardinality(T) /\ \A i \in T: rank(i) # n - 1
      BY <2>1
    <2>3. CASE n = 1
      <3>1. T # {}
        BY <1>1, <2>2, FS_EmptySet
      <3>2. PICK x \in T: \A y \in T: x <= y
        BY <1>0, <3>1, LeastNumber
      <3>3. Preceding(T, x) = {}
        <4>1. \A y \in T: ~(y < x)
          BY <1>0, <3>2
        <4>. QED BY <4>1 DEF Preceding
      <3>4. rank(x) = 0
        BY <3>3, FS_EmptySet
      <3>. QED BY <2>2, <2>3, <3>4
    <2>4. CASE n # 1
      <3>1. n - 1 \in 1 .. Cardinality(T) /\ n \in Nat
        BY <1>1, <2>2, <2>4
      <3>2. n - 1 \notin U
        BY <2>1, <3>1
      <3>3. PICK i \in T: rank(i) = (n - 1) - 1
        BY <3>1, <3>2
      <3>. DEFINE above == {j \in T: j > i}
      <3>4. above # {}
        <4>. SUFFICES ASSUME above = {} PROVE FALSE
          OBVIOUS
        <4>1. T = Preceding(T, i) \cup {i}
          <5>1. \A j \in T: j < i \/ j = i
            BY <1>0
          <5>. QED BY <5>1 DEF Preceding
        <4>2. Cardinality(T) = rank(i) + 1
          BY <1>2, <4>1
        <4>. HIDE DEF rank
        <4>. QED BY <1>1, <2>2, <3>1, <3>3, <4>2
      <3>5. PICK x \in above: \A y \in above: x <= y
        <4>1. above \subseteq Nat
          BY <1>0
        <4>. HIDE DEF above
        <4>. QED BY <3>4, <4>1, LeastNumber
      <3>6. x \in T /\ Preceding(T, x) = Preceding(T, i) \cup {i}
        <4>1. x \in T /\ x > i /\ \A j \in T: j > i => x <= j
          BY <3>5
        <4>2. \A j \in T: j < x <=> j < i \/ j = i
          BY <1>0, <4>1
        <4>. QED BY <4>1, <4>2 DEF Preceding
      <3>7. rank(x) = rank(i) + 1
        BY <1>2, <3>6
      <3>. HIDE DEF rank
      <3>. QED BY <2>2, <3>1, <3>3, <3>6, <3>7
    <2>. QED BY <2>3, <2>4
  <1>. QED BY <1>1, <1>3, <1>5, <1>6

(* The greatest number of a finite set is the one that all others precede. *)
LEMMA HighestNumber ==
    ASSUME NEW T, T \subseteq Nat, IsFiniteSet(T), T # {}
    PROVE  Max(T) \in T /\ \A y \in T: y <= Max(T)
  <1>. DEFINE rank(i) == Cardinality(Preceding(T, i))
              card == Cardinality(T)
  <1>1. /\ card \in Nat
        /\ \A i \in T: rank(i) + 1 \in 1 .. card
        /\ \A n \in 1 .. card: \E i \in T: rank(i) = n - 1
    BY NumbersRanked
  <1>2. card # 0
    BY FS_EmptySet
  <1>. HIDE DEF card
  <1>3. PICK x \in T: rank(x) = card - 1
    <2>1. card \in 1 .. card
      BY <1>1, <1>2
    <2>. HIDE DEF rank
    <2>. QED BY <1>1, <2>1
  <1>4. ASSUME NEW y \in T, y > x PROVE FALSE
    <2>1. Preceding(T, y) \in SUBSET T /\ Preceding(T, x) \in SUBSET T /\ x \notin Preceding(T, x)
      BY DEF Preceding
    <2>2. IsFiniteSet(Preceding(T, y)) /\ IsFiniteSet(Preceding(T, x))
      BY <2>1, FS_Subset
    <2>3. Preceding(T, x) \cup {x} \in SUBSET Preceding(T, y)
      <3>1. \A j \in T: j < x => j < y
        <4>1. \A j \in Nat: j < x => j < y
          BY <1>4
        <4>. QED BY <4>1
      <3>. QED BY <1>4, <3>1 DEF Preceding
    <2>4. Cardinality(Preceding(T, x) \cup {x}) = rank(x) + 1
      BY <2>1, <2>2, FS_AddElement
    <2>5. Cardinality(Preceding(T, x) \cup {x}) <= rank(y)
      BY <2>2, <2>3, FS_Subset
    <2>6. rank(y) \in Nat /\ rank(x) \in Nat /\ rank(y) + 1 \in 1 .. card
      BY <1>1, <2>2, FS_CardinalityType
    <2>. HIDE DEF rank
    <2>. QED BY <1>1, <1>3, <2>4, <2>5, <2>6
  <1>5. \A y \in T: x >= y
    BY <1>4
  <1>6. Max(T) \in T /\ \A y \in T: Max(T) >= y
    BY <1>5 DEF Max
  <1>. QED BY <1>6

(* The names of finitely many nodes are finitely many.                     *)
LEMMA FinitelyNamed ==
    ASSUME NEW ns, IsFiniteSet(ns), NEW nodes
    PROVE  IsFiniteSet({nodes[n].name: n \in ns})
  <1>. DEFINE f == [n \in ns |-> nodes[n].name]
              T == {nodes[n].name: n \in ns}
  <1>1. f \in Surjection(ns, T)
    BY DEF Surjection
  <1>. QED BY <1>1, FS_Surjection

(* A name that ends with a suffix ends with that one only.                 *)
LEMMA SuffixTells ==
    ASSUME NEW S, NEW base \in Seq(S), NEW j \in Nat, NEW k \in Nat, Append(base, j) = Append(base, k)
    PROVE  j = k
  <1>1. base \in Seq(S \cup Nat)
    BY SeqMonotonic
  <1>2. Append(base, j)[Len(base) + 1] = j /\ Append(base, k)[Len(base) + 1] = k
    <2>1. j \in S \cup Nat /\ k \in S \cup Nat
      OBVIOUS
    <2>. QED BY <1>1, <2>1, AppendProperties
  <1>. QED BY <1>2

(* uniqueStageName finds a name that is free: of more suffixes than there  *)
(* are names one is.                                                       *)
LEMMA FreeName ==
    ASSUME NEW Parts, NEW base \in Seq(Parts), NEW taken, IsFiniteSet(taken)
    PROVE  UniqueName(base, taken) \notin taken
  <1>. DEFINE C == Cardinality(taken)
              S == 2 .. C + 2
              free == {k \in S: Append(base, k) \notin taken}
  <1>1. CASE base \notin taken
    BY <1>1 DEF UniqueName
  <1>2. CASE base \in taken
    <2>1. C \in Nat
      BY FS_CardinalityType
    <2>. HIDE DEF C
    <2>2. IsFiniteSet(S) /\ Cardinality(S) = C + 1
      <3>1. 2 \in Int /\ C + 2 \in Int
        BY <2>1
      <3>2. IsFiniteSet(S) /\ Cardinality(S) = IF 2 > C + 2 THEN 0 ELSE (C + 2) - 2 + 1
        BY <3>1, FS_Interval
      <3>. QED BY <2>1, <3>2
    <2>3. free # {}
      <3>. SUFFICES ASSUME free = {} PROVE FALSE
        OBVIOUS
      <3>. DEFINE f == [k \in S |-> Append(base, k)]
      <3>1. f \in [S -> taken]
        OBVIOUS
      <3>2. C < Cardinality(S) /\ C = Cardinality(taken)
        BY <2>1, <2>2 DEF C
      <3>3. PICK j, k \in S: j # k /\ f[j] = f[k]
        <4>. HIDE DEF f, S
        <4>. QED BY <2>2, <3>1, <3>2, FS_PigeonHole
      <3>4. Append(base, j) = Append(base, k) /\ j \in Nat /\ k \in Nat
        BY <2>1, <3>3
      <3>. QED BY <3>3, <3>4, SuffixTells
    <2>4. free \subseteq Nat
      BY <2>1
    <2>5. PICK k \in free: \A y \in free: k <= y
      <3>. HIDE DEF free
      <3>. QED BY <2>3, <2>4, LeastNumber
    <2>6. Min(free) \in free
      <3>. HIDE DEF free
      <3>. QED BY <2>5 DEF Min
    <2>7. UniqueName(base, taken) = Append(base, Min(free))
      BY <1>2 DEF UniqueName, C
    <2>. QED BY <2>6, <2>7
  <1>. QED BY <1>1, <1>2


-----------------------------------------------------------------------------
(* Graphs.                                                                 *)

IsNode(x) == x = [name |-> x.name, kind |-> x.kind] /\ x.kind \in {"stage", "orchestrator"}

NamesDiffer(g) == \A m, n \in DOMAIN g.nodes: g.nodes[m].name = g.nodes[n].name => m = n

IsGraph(g) ==
    /\ g = [mode |-> g.mode, nodes |-> g.nodes, edges |-> g.edges] /\ g.mode \in Modes
    /\ DOMAIN g.nodes \subseteq Nat \ {0} /\ IsFiniteSet(DOMAIN g.nodes)
    /\ g.nodes = [n \in DOMAIN g.nodes |-> g.nodes[n]]
    /\ \A n \in DOMAIN g.nodes: IsNode(g.nodes[n])
    /\ g.edges \subseteq (DOMAIN g.nodes) \X (DOMAIN g.nodes)

(* A sequential pipeline has no orchestrator.                              *)
KindsFit(g) == g.mode = "sequential" => \A n \in DOMAIN g.nodes: g.nodes[n].kind = "stage"

Sound(g) == IsGraph(g) /\ NamesDiffer(g) /\ KindsFit(g)

(* When no two nodes share a name all are written, in the order of their   *)
(* numbers.                                                                *)
LEMMA AllWritten ==
    ASSUME NEW g, IsGraph(g), NamesDiffer(g)
    PROVE  /\ Cardinality(DOMAIN g.nodes) \in Nat
           /\ \E nth \in [1 .. Cardinality(DOMAIN g.nodes) -> DOMAIN g.nodes]:
                /\ Serialize(g) = Document(g.mode, [i \in 1 .. Cardinality(DOMAIN g.nodes) |-> StageDoc(g, nth[i])])
                /\ \A i, j \in 1 .. Cardinality(DOMAIN g.nodes): nth[i] = nth[j] => i = j
                /\ \A n \in DOMAIN g.nodes: \E i \in 1 .. Cardinality(DOMAIN g.nodes): nth[i] = n
  <1>. DEFINE T == DOMAIN g.nodes
              card == Cardinality(T)
              Nth(i) == CHOOSE n \in T: Cardinality(Preceding(T, n)) = i - 1
              nth == [i \in 1 .. card |-> Nth(i)]
  <1>1. Written(g) = T /\ \A n \in T: LastNamed(g, n) = n
    <2>1. \A n \in T: n <= n
      BY DEF IsGraph
    <2>2. \A n \in T: SameName(g, n) = {n}
      BY DEF SameName, NamesDiffer
    <2>. QED BY <2>1, <2>2 DEF Written, LastNamed
  <1>2. T \subseteq Nat /\ IsFiniteSet(T)
    BY DEF IsGraph
  <1>. HIDE DEF T
  <1>3. /\ card \in Nat
        /\ \A i \in T: Cardinality(Preceding(T, i)) + 1 \in 1 .. card
        /\ \A i, k \in T: Cardinality(Preceding(T, i)) = Cardinality(Preceding(T, k)) => i = k
        /\ \A n \in 1 .. card: \E i \in T: Cardinality(Preceding(T, i)) = n - 1
    BY <1>2, NumbersRanked
  <1>. HIDE DEF card
  <1>4. \A i \in 1 .. card: Nth(i) \in T /\ Cardinality(Preceding(T, Nth(i))) = i - 1
    BY <1>3
  <1>5. ASSUME NEW n \in T PROVE \E i \in 1 .. card: Nth(i) = n
    <2>. DEFINE i == Cardinality(Preceding(T, n)) + 1
    <2>1. Cardinality(Preceding(T, n)) \in Nat
      <3>1. Preceding(T, n) \in SUBSET T
        BY DEF Preceding
      <3>. QED BY <1>2, <3>1, FS_Subset, FS_CardinalityType
    <2>2. i \in 1 .. card /\ Cardinality(Preceding(T, n)) = i - 1
      <3>1. i \in 1 .. card
        BY <1>3
      <3>. QED BY <2>1, <3>1
    <2>. HIDE DEF i
    <2>3. Nth(i) \in T /\ Cardinality(Preceding(T, Nth(i))) = i - 1
      BY <1>4, <2>2
    <2>. HIDE DEF Nth
    <2>. QED BY <1>3, <2>2, <2>3
  <1>6. Serialize(g) = Document(g.mode, [i \in 1 .. card |-> StageDoc(g, Nth(i))])
    <2>1. Serialize(g) = Document(g.mode, [i \in 1 .. card |-> StageDoc(g, LastNamed(g, Nth(i)))])
      BY <1>1 DEF Serialize, card
    <2>2. \A i \in 1 .. card: LastNamed(g, Nth(i)) = Nth(i)
      BY <1>1, <1>4
    <2>. HIDE DEF Nth
    <2>3. [i \in 1 .. card |-> StageDoc(g, LastNamed(g, Nth(i)))] = [i \in 1 .. card |-> StageDoc(g, Nth(i))]
      BY <2>2
    <2>. QED BY <2>1, <2>3
  <1>. HIDE DEF Nth
  <1>7. nth \in [1 .. card -> T] /\ \A i \in 1 .. card: nth[i] = Nth(i)
    BY <1>4
  <1>8. Serialize(g) = Document(g.mode, [i \in 1 .. card |-> StageDoc(g, nth[i])])
    <2>1. [i \in 1 .. card |-> StageDoc(g, nth[i])] = [i \in 1 .. card |-> StageDoc(g, Nth(i))]
      BY <1>7
    <2>. QED BY <1>6, <2>1
  <1>9. \A i, j \in 1 .. card: nth[i] = nth[j] => i = j
    <2>. SUFFICES ASSUME NEW i \in 1 .. card, NEW j \in 1 .. card, Nth(i) = Nth(j) PROVE i = j
      BY <1>7
    <2>1. i - 1 = j - 1
      BY <1>4
    <2>. QED BY <1>3, <2>1
  <1>10. \A n \in T: \E i \in 1 .. card: nth[i] = n
    BY <1>5, <1>7
  <1>. HIDE DEF nth
  <1>. QED BY <1>3, <1>7, <1>8, <1>9, <1>10 DEF T, card

(* What is written of a node.                                              *)
LEMMA WrittenStage ==
    ASSUME NEW g, NEW n
    PROVE  /\ StageDoc(g, n).name = g.nodes[n].name
           /\ StageDoc(g, n).deps = IF g.mode = "sequential" THEN Dependencies(g, n) ELSE {}
           /\ StageDoc(g, n).lead = (g.mode = "orchestrated" /\ g.nodes[n].kind = "orchestrator")
  BY DEF StageDoc, Stage

(* What the editor writes is a document.                                   *)
LEMMA WrittenIsDocument ==
    ASSUME NEW g, IsGraph(g), NamesDiffer(g)
    PROVE  IsDocument(Serialize(g))
  <1>. DEFINE card == Cardinality(DOMAIN g.nodes)
  <1>1. card \in Nat
    BY AllWritten
  <1>2. PICK nth \in [1 .. card -> DOMAIN g.nodes]:
           /\ Serialize(g) = Document(g.mode, [i \in 1 .. card |-> StageDoc(g, nth[i])])
           /\ \A i, j \in 1 .. card: nth[i] = nth[j] => i = j
    BY AllWritten
  <1>. HIDE DEF card
  <1>. DEFINE stages == [i \in 1 .. card |-> StageDoc(g, nth[i])]
  <1>3. Serialize(g).mode = g.mode /\ Serialize(g).stages = stages
    BY <1>2 DEF Document
  <1>4. DOMAIN stages = 1 .. card /\ Len(stages) = card
    <2>1. stages \in Seq({StageDoc(g, nth[i]): i \in 1 .. card})
      BY <1>1
    <2>2. DOMAIN stages = 1 .. Len(stages) /\ Len(stages) \in Nat
      <3>. HIDE DEF stages
      <3>. QED BY <2>1, LenProperties
    <2>. QED BY <1>1, <2>2
  <1>5. \A i \in 1 .. card: stages[i].name = g.nodes[nth[i]].name
    BY WrittenStage
  <1>. HIDE DEF stages
  <1>6. \A i, j \in 1 .. card: stages[i].name = stages[j].name => i = j
    BY <1>2, <1>5 DEF NamesDiffer
  <1>. QED BY <1>1, <1>3, <1>4, <1>6 DEF IsDocument, IsGraph

(* The graph made of what the editor writes is the graph it was made from. *)
LEMMA ReopenedIsTheSame ==
    ASSUME NEW g, Sound(g)
    PROVE  Shape(CreateEditorState(Serialize(g))) = Shape(g)
  <1>. DEFINE T == DOMAIN g.nodes
              card == Cardinality(T)
  <1>0. IsGraph(g) /\ NamesDiffer(g) /\ KindsFit(g)
    BY DEF Sound
  <1>1. card \in Nat
    BY <1>0, AllWritten
  <1>2. PICK nth \in [1 .. card -> T]:
           /\ Serialize(g) = Document(g.mode, [i \in 1 .. card |-> StageDoc(g, nth[i])])
           /\ \A i, j \in 1 .. card: nth[i] = nth[j] => i = j
           /\ \A n \in T: \E i \in 1 .. card: nth[i] = n
    BY <1>0, AllWritten
  <1>. HIDE DEF card
  <1>. DEFINE stages == [i \in 1 .. card |-> StageDoc(g, nth[i])]
              h == CreateEditorState(Serialize(g))
  <1>3. Serialize(g).mode = g.mode /\ Serialize(g).stages = stages /\ DOMAIN stages = 1 .. card
    BY <1>2 DEF Document
  <1>4. \A i \in 1 .. card: /\ stages[i].name = g.nodes[nth[i]].name
                            /\ stages[i].deps = IF g.mode = "sequential" THEN Dependencies(g, nth[i]) ELSE {}
                            /\ stages[i].lead = (g.mode = "orchestrated" /\ g.nodes[nth[i]].kind = "orchestrator")
    BY WrittenStage
  <1>. HIDE DEF stages
  <1>5. /\ h.mode = g.mode
        /\ h.nodes = [i \in 1 .. card |-> NodeOf(stages[i])]
        /\ h.edges = {e \in (1 .. card) \X (1 .. card): stages[e[1]].name \in stages[e[2]].deps}
    BY <1>3 DEF CreateEditorState
  <1>. HIDE DEF h
  <1>6. ASSUME NEW i \in 1 .. card PROVE h.nodes[i] = g.nodes[nth[i]]
    <2>. DEFINE x == g.nodes[nth[i]]
    <2>1. x = [name |-> x.name, kind |-> x.kind] /\ x.kind \in {"stage", "orchestrator"}
      BY <1>0 DEF IsGraph, IsNode
    <2>2. g.mode = "sequential" => x.kind = "stage"
      BY <1>0 DEF KindsFit
    <2>3. g.mode = "sequential" \/ g.mode = "orchestrated"
      BY <1>0 DEF IsGraph, Modes
    <2>4. h.nodes[i] = [name |-> stages[i].name, kind |-> IF stages[i].lead THEN "orchestrator" ELSE "stage"]
      BY <1>5 DEF NodeOf
    <2>5. stages[i].name = x.name /\ stages[i].lead = (g.mode = "orchestrated" /\ x.kind = "orchestrator")
      BY <1>4
    <2>. HIDE DEF x
    <2>6. (IF stages[i].lead THEN "orchestrator" ELSE "stage") = x.kind
      BY <2>1, <2>2, <2>3, <2>5
    <2>7. h.nodes[i] = x
      BY <2>1, <2>4, <2>5, <2>6
    <2>. QED BY <2>7 DEF x
  <1>7. DOMAIN h.nodes = 1 .. card
    BY <1>5
  <1>8. {h.nodes[n]: n \in DOMAIN h.nodes} = {g.nodes[n]: n \in T}
    BY <1>2, <1>6, <1>7
  <1>9. Cardinality(DOMAIN h.nodes) = card
    <2>1. 1 \in Int /\ card \in Int
      BY <1>1
    <2>2. Cardinality(1 .. card) = IF 1 > card THEN 0 ELSE card - 1 + 1
      BY <2>1, FS_Interval
    <2>. QED BY <1>1, <1>7, <2>2
  <1>10. ASSUME g.mode # "orchestrated"
         PROVE  {<<h.nodes[e[1]].name, h.nodes[e[2]].name>>: e \in h.edges}
                    = {<<g.nodes[e[1]].name, g.nodes[e[2]].name>>: e \in g.edges}
    <2>1. g.mode = "sequential"
      BY <1>0, <1>10 DEF IsGraph, Modes
    <2>2. \A i, j \in 1 .. card:
            <<i, j>> \in h.edges <=> \E f \in g.edges: f[2] = nth[j] /\ g.nodes[nth[i]].name = g.nodes[f[1]].name
      BY <1>4, <1>5, <2>1 DEF Dependencies
    <2>3. g.edges \subseteq T \X T
      BY <1>0 DEF IsGraph
    <2>4. ASSUME NEW e \in h.edges
          PROVE  \E f \in g.edges: <<h.nodes[e[1]].name, h.nodes[e[2]].name>> = <<g.nodes[f[1]].name, g.nodes[f[2]].name>>
      <3>1. PICK i, j \in 1 .. card: e = <<i, j>>
        BY <1>5
      <3>2. PICK f \in g.edges: f[2] = nth[j] /\ g.nodes[nth[i]].name = g.nodes[f[1]].name
        BY <2>2, <3>1
      <3>3. h.nodes[i].name = g.nodes[f[1]].name /\ h.nodes[j].name = g.nodes[f[2]].name
        BY <1>6, <3>2
      <3>. QED BY <3>1, <3>3
    <2>5. ASSUME NEW f \in g.edges
          PROVE  \E e \in h.edges: <<h.nodes[e[1]].name, h.nodes[e[2]].name>> = <<g.nodes[f[1]].name, g.nodes[f[2]].name>>
      <3>1. f[1] \in T /\ f[2] \in T
        BY <2>3
      <3>2. PICK i, j \in 1 .. card: nth[i] = f[1] /\ nth[j] = f[2]
        BY <1>2, <3>1
      <3>3. <<i, j>> \in h.edges
        BY <2>2, <3>2
      <3>4. h.nodes[i].name = g.nodes[f[1]].name /\ h.nodes[j].name = g.nodes[f[2]].name
        BY <1>6, <3>2
      <3>. QED BY <3>3, <3>4
    <2>. QED BY <2>4, <2>5
  <1>11. Shape(h) = Shape(g)
    BY <1>5, <1>8, <1>9, <1>10 DEF Shape, card
  <1>. QED BY <1>11 DEF h

(* The effect of a change of mode makes the kinds fit.                     *)
LEMMA ModeSeenTo ==
    ASSUME NEW g, NEW before, IsGraph(g), NamesDiffer(g), g.mode = before => KindsFit(g)
    PROVE  Sound(ModeChanged(g, before)) 
  <1>1. CASE g.mode = before
    BY <1>1 DEF Sound, ModeChanged
  <1>2. CASE g.mode # before
    <2>. DEFINE kinds == {g.nodes[n].kind: n \in DOMAIN g.nodes}
                Kind(n) == IF g.mode = "sequential" THEN "stage"
                           ELSE IF "orchestrator" \notin kinds /\ n = Min(DOMAIN g.nodes) THEN "orchestrator"
                           ELSE g.nodes[n].kind
                nodes == [n \in DOMAIN g.nodes |-> [g.nodes[n] EXCEPT !.kind = Kind(n)]]
                h == ModeChanged(g, before)
    <2>1. h = [g EXCEPT !.nodes = nodes]
      BY <1>2 DEF ModeChanged
    <2>2. h = [mode |-> g.mode, nodes |-> nodes, edges |-> g.edges]
      BY <2>1 DEF IsGraph
    <2>3. \A n \in DOMAIN g.nodes: Kind(n) \in {"stage", "orchestrator"} /\ (g.mode = "sequential" => Kind(n) = "stage")
      BY DEF IsGraph, IsNode
    <2>4. DOMAIN nodes = DOMAIN g.nodes
      OBVIOUS
    <2>. HIDE DEF h, Kind
    <2>5. \A n \in DOMAIN g.nodes: nodes[n] = [name |-> g.nodes[n].name, kind |-> Kind(n)]
      BY DEF IsGraph, IsNode
    <2>6. nodes = [n \in DOMAIN nodes |-> nodes[n]]
      OBVIOUS
    <2>. HIDE DEF nodes
    <2>7. h.mode = g.mode /\ h.nodes = nodes /\ h.edges = g.edges /\ h = [mode |-> h.mode, nodes |-> h.nodes, edges |-> h.edges]
      BY <2>2
    <2>8. \A n \in DOMAIN nodes: IsNode(nodes[n]) /\ nodes[n].name = g.nodes[n].name /\ nodes[n].kind = Kind(n)
      <3>. SUFFICES ASSUME NEW n \in DOMAIN g.nodes
                    PROVE  IsNode(nodes[n]) /\ nodes[n].name = g.nodes[n].name /\ nodes[n].kind = Kind(n)
        BY <2>4
      <3>. DEFINE k == Kind(n)
      <3>1. nodes[n] = [name |-> g.nodes[n].name, kind |-> k] /\ k \in {"stage", "orchestrator"}
        BY <2>3, <2>5
      <3>. HIDE DEF k
      <3>2. IsNode(nodes[n]) /\ nodes[n].name = g.nodes[n].name /\ nodes[n].kind = k
        BY <3>1 DEF IsNode
      <3>. QED BY <3>2 DEF k
    <2>9. IsGraph(h)
      BY <2>4, <2>6, <2>7, <2>8 DEF IsGraph
    <2>10. NamesDiffer(h) /\ KindsFit(h)
      BY <2>3, <2>4, <2>7, <2>8 DEF NamesDiffer, KindsFit
    <2>. QED BY <2>9, <2>10 DEF Sound, h
  <1>. QED BY <1>1, <1>2


(* A graph is put together.                                                *)
LEMMA GraphOf ==
    ASSUME NEW h, NEW mode \in Modes, NEW nodes, NEW edges,
           h = [mode |-> mode, nodes |-> nodes, edges |-> edges],
           DOMAIN nodes \subseteq Nat \ {0}, IsFiniteSet(DOMAIN nodes),
           nodes = [n \in DOMAIN nodes |-> nodes[n]], \A n \in DOMAIN nodes: IsNode(nodes[n]),
           edges \subseteq (DOMAIN nodes) \X (DOMAIN nodes)
    PROVE  IsGraph(h) /\ h.mode = mode /\ h.nodes = nodes /\ h.edges = edges
  <1>1. h.mode = mode /\ h.nodes = nodes /\ h.edges = edges
    OBVIOUS
  <1>2. h = [mode |-> h.mode, nodes |-> h.nodes, edges |-> h.edges]
    BY <1>1
  <1>. QED BY <1>1, <1>2 DEF IsGraph

(* The number of a new node is a new one.                                  *)
LEMMA FreshIsNew ==
    ASSUME NEW g, IsGraph(g)
    PROVE  FreshNode(g) \in Nat \ {0} /\ FreshNode(g) \notin DOMAIN g.nodes
  <1>. DEFINE T == {0} \cup DOMAIN g.nodes
  <1>1. T \cup UNION {{e[1], e[2]}: e \in g.edges} = T
    <2>1. \A e \in g.edges: e[1] \in DOMAIN g.nodes /\ e[2] \in DOMAIN g.nodes
      BY DEF IsGraph
    <2>. QED BY <2>1
  <1>2. T \subseteq Nat /\ T # {} /\ DOMAIN g.nodes \subseteq Nat
    BY DEF IsGraph
  <1>3. IsFiniteSet(T)
    <2>1. IsFiniteSet(DOMAIN g.nodes \cup {0}) /\ T = DOMAIN g.nodes \cup {0}
      BY FS_AddElement DEF IsGraph
    <2>. QED BY <2>1
  <1>4. FreshNode(g) = 1 + Max(T)
    BY <1>1 DEF FreshNode
  <1>5. Max(T) \in T /\ \A y \in T: y <= Max(T)
    <2>. HIDE DEF T
    <2>. QED BY <1>2, <1>3, HighestNumber
  <1>6. ASSUME FreshNode(g) \in DOMAIN g.nodes PROVE FALSE
    <2>1. 1 + Max(T) <= Max(T) /\ Max(T) \in Nat
      BY <1>2, <1>4, <1>5, <1>6
    <2>. HIDE DEF T
    <2>. QED BY <2>1
  <1>. QED BY <1>2, <1>4, <1>5, <1>6

(* The name that a stage gets is the name of no other one.                 *)
LEMMA NameIsFree ==
    ASSUME NEW g, IsGraph(g), NEW n, NEW S, NEW base \in Seq(S)
    PROVE  UniqueName(base, NamesBut(g, n)) \notin NamesBut(g, n)
  <1>1. IsFiniteSet(DOMAIN g.nodes \ {n})
    BY FS_Subset DEF IsGraph
  <1>2. IsFiniteSet(NamesBut(g, n))
    BY <1>1, FinitelyNamed DEF NamesBut
  <1>. QED BY <1>2, FreeName

Edited(g, h) == IsGraph(h) /\ NamesDiffer(h) /\ (h.mode = g.mode => KindsFit(h))

(* A stage is added, or the orchestrator.                                  *)
LEMMA StageAdded ==
    ASSUME NEW g, Sound(g), NEW kind \in {"stage", "orchestrator"}
    PROVE  Edited(g, AddStage(g, kind))
  <1>. DEFINE n == FreshNode(g)
              node == [name |-> UniqueName(<<kind>>, NamesBut(g, 0)), kind |-> kind]
              nodes == [m \in DOMAIN g.nodes \cup {n} |-> IF m = n THEN node ELSE g.nodes[m]]
              mode == IF kind = "orchestrator" THEN "orchestrated" ELSE g.mode
              h == AddStage(g, kind)
  <1>0. IsGraph(g) /\ NamesDiffer(g) /\ KindsFit(g)
    BY DEF Sound
  <1>1. CASE h = g
    BY <1>0, <1>1 DEF Edited
  <1>2. CASE h # g
    <2>1. h = [WithNode(g, n, node) EXCEPT !.mode = mode]
      BY <1>2 DEF AddStage
    <2>2. n \in Nat \ {0} /\ n \notin DOMAIN g.nodes
      BY <1>0, FreshIsNew
    <2>3. node.name \notin NamesBut(g, 0)
      <3>1. <<kind>> \in Seq({kind})
        OBVIOUS
      <3>. QED BY <1>0, <3>1, NameIsFree
    <2>4. IsNode(node) /\ node.kind = kind
      BY DEF IsNode
    <2>. HIDE DEF n, node, h
    <2>5. WithNode(g, n, node) = [mode |-> g.mode, nodes |-> nodes, edges |-> g.edges]
      BY <1>0 DEF WithNode, IsGraph
    <2>6. h = [mode |-> mode, nodes |-> nodes, edges |-> g.edges]
      <3>. HIDE DEF nodes, mode
      <3>. QED BY <2>1, <2>5
    <2>7. DOMAIN nodes = DOMAIN g.nodes \cup {n} /\ nodes[n] = node /\ \A m \in DOMAIN g.nodes: nodes[m] = g.nodes[m]
      BY <2>2
    <2>8. nodes = [m \in DOMAIN nodes |-> nodes[m]]
      OBVIOUS
    <2>9. mode \in Modes
      BY <1>0 DEF IsGraph, Modes
    <2>. HIDE DEF nodes, mode
    <2>10. IsFiniteSet(DOMAIN nodes) /\ DOMAIN nodes \subseteq Nat \ {0}
      BY <1>0, <2>2, <2>7, FS_AddElement DEF IsGraph
    <2>11. \A m \in DOMAIN nodes: IsNode(nodes[m])
      BY <1>0, <2>4, <2>7 DEF IsGraph
    <2>12. g.edges \subseteq (DOMAIN nodes) \X (DOMAIN nodes)
      BY <1>0, <2>7 DEF IsGraph
    <2>13. IsGraph(h) /\ h.mode = mode /\ h.nodes = nodes
      BY <2>6, <2>8, <2>9, <2>10, <2>11, <2>12, GraphOf
    <2>14. NamesDiffer(h)
      <3>1. \A m \in DOMAIN g.nodes: g.nodes[m].name # node.name
        BY <1>0, <2>3 DEF NamesBut, IsGraph
      <3>. QED BY <1>0, <2>7, <2>13, <3>1 DEF NamesDiffer
    <2>15. h.mode = g.mode => KindsFit(h)
      <3>1. CASE kind = "stage"
        BY <1>0, <2>4, <2>7, <2>13, <3>1 DEF KindsFit, mode
      <3>2. CASE kind = "orchestrator"
        BY <2>13, <3>2 DEF KindsFit, mode
      <3>. QED BY <3>1, <3>2
    <2>. QED BY <2>13, <2>14, <2>15 DEF Edited, h
  <1>. QED BY <1>1, <1>2

(* A stage gets another name.                                              *)
LEMMA StageRenamed ==
    ASSUME NEW g, Sound(g), NEW n \in DOMAIN g.nodes, NEW S, NEW base \in Seq(S)
    PROVE  Edited(g, Rename(g, n, base))
  <1>. DEFINE name == UniqueName(base, NamesBut(g, n))
              node == [name |-> name, kind |-> g.nodes[n].kind]
              nodes == [m \in DOMAIN g.nodes |-> IF m = n THEN node ELSE g.nodes[m]]
              h == Rename(g, n, base)
  <1>0. IsGraph(g) /\ NamesDiffer(g) /\ KindsFit(g)
    BY DEF Sound
  <1>1. name \notin NamesBut(g, n)
    BY <1>0, NameIsFree
  <1>2. h = [g EXCEPT !.nodes[n].name = name]
    BY DEF Rename
  <1>. HIDE DEF name, h
  <1>3. [g.nodes EXCEPT ![n].name = name] = nodes
    <2>1. [g.nodes[n] EXCEPT !.name = name] = node
      BY <1>0 DEF IsGraph, IsNode
    <2>. HIDE DEF node
    <2>2. [g.nodes EXCEPT ![n] = node] = nodes
      BY <1>0 DEF IsGraph
    <2>. QED BY <2>1, <2>2
  <1>4. h = [mode |-> g.mode, nodes |-> nodes, edges |-> g.edges]
    <2>. HIDE DEF nodes
    <2>1. h = [g EXCEPT !.nodes = nodes]
      BY <1>2, <1>3
    <2>. QED BY <1>0, <2>1 DEF IsGraph
  <1>5. DOMAIN nodes = DOMAIN g.nodes /\ nodes[n] = node /\ \A m \in DOMAIN g.nodes \ {n}: nodes[m] = g.nodes[m]
    OBVIOUS
  <1>6. nodes = [m \in DOMAIN nodes |-> nodes[m]]
    OBVIOUS
  <1>7. IsNode(node) /\ node.name = name /\ node.kind = g.nodes[n].kind
    BY <1>0 DEF IsNode, IsGraph
  <1>. HIDE DEF nodes, node
  <1>8. \A m \in DOMAIN nodes: IsNode(nodes[m]) /\ nodes[m].kind = g.nodes[m].kind
    BY <1>0, <1>5, <1>7 DEF IsGraph
  <1>9. IsGraph(h) /\ h.mode = g.mode /\ h.nodes = nodes
    BY <1>0, <1>4, <1>5, <1>6, <1>8, GraphOf DEF IsGraph
  <1>10. NamesDiffer(h)
    <2>1. \A m \in DOMAIN g.nodes \ {n}: g.nodes[m].name # name
      BY <1>1 DEF NamesBut
    <2>. QED BY <1>0, <1>5, <1>7, <1>9, <2>1 DEF NamesDiffer
  <1>11. KindsFit(h)
    BY <1>0, <1>5, <1>8, <1>9 DEF KindsFit
  <1>. QED BY <1>9, <1>10, <1>11 DEF Edited, h

(* A stage is deleted, with its edges.                                     *)
LEMMA StageDeleted ==
    ASSUME NEW g, Sound(g), NEW n \in DOMAIN g.nodes
    PROVE  Edited(g, DeleteNode(g, n))
  <1>. DEFINE nodes == [m \in DOMAIN g.nodes \ {n} |-> g.nodes[m]]
              edges == {e \in g.edges: n \notin {e[1], e[2]}}
              h == DeleteNode(g, n)
  <1>0. IsGraph(g) /\ NamesDiffer(g) /\ KindsFit(g)
    BY DEF Sound
  <1>1. h = [g EXCEPT !.nodes = nodes, !.edges = edges]
    BY DEF DeleteNode
  <1>2. DOMAIN nodes = DOMAIN g.nodes \ {n} /\ \A m \in DOMAIN nodes: nodes[m] = g.nodes[m]
    OBVIOUS
  <1>3. nodes = [m \in DOMAIN nodes |-> nodes[m]]
    OBVIOUS
  <1>4. edges \subseteq (DOMAIN nodes) \X (DOMAIN nodes)
    BY <1>0 DEF IsGraph
  <1>. HIDE DEF nodes, edges, h
  <1>5. h = [mode |-> g.mode, nodes |-> nodes, edges |-> edges]
    BY <1>0, <1>1 DEF IsGraph
  <1>6. IsFiniteSet(DOMAIN nodes) /\ DOMAIN nodes \subseteq Nat \ {0}
    BY <1>0, <1>2, FS_Subset DEF IsGraph
  <1>7. IsGraph(h) /\ h.mode = g.mode /\ h.nodes = nodes
    BY <1>0, <1>2, <1>3, <1>4, <1>5, <1>6, GraphOf DEF IsGraph
  <1>8. NamesDiffer(h) /\ KindsFit(h)
    BY <1>0, <1>2, <1>7 DEF NamesDiffer, KindsFit
  <1>. QED BY <1>7, <1>8 DEF Edited, h

(* Only the edges change, or the mode.                                     *)
LEMMA NodesStay ==
    ASSUME NEW g, Sound(g), NEW h, NEW mode \in Modes, NEW edges \in SUBSET ((DOMAIN g.nodes) \X (DOMAIN g.nodes)),
           h = [mode |-> mode, nodes |-> g.nodes, edges |-> edges]
    PROVE  Edited(g, h)
  <1>0. IsGraph(g) /\ NamesDiffer(g) /\ KindsFit(g)
    BY DEF Sound
  <1>1. IsGraph(h) /\ h.mode = mode /\ h.nodes = g.nodes
    BY <1>0, GraphOf DEF IsGraph
  <1>. QED BY <1>0, <1>1 DEF Edited, NamesDiffer, KindsFit

(* What a person does to a sound graph leaves one whose kinds fit unless   *)
(* its mode has changed.                                                   *)
LEMMA EditedGraph ==
    ASSUME NEW g, Sound(g), NEW h \in EditsOf(g)
    PROVE  Edited(g, h)
  <1>. DEFINE nodes == DOMAIN g.nodes
  <1>0. IsGraph(g) /\ g = [mode |-> g.mode, nodes |-> g.nodes, edges |-> g.edges] /\ g.mode \in Modes
        /\ g.edges \subseteq nodes \X nodes
    BY DEF Sound, IsGraph
  <1>1. ASSUME NEW kind \in {"stage", "orchestrator"}, h = AddStage(g, kind) PROVE Edited(g, h)
    BY <1>1, StageAdded
  <1>2. ASSUME NEW n \in nodes, NEW base \in Bases, h = Rename(g, n, base) PROVE Edited(g, h)
    <2>1. base \in Seq({base[i]: i \in DOMAIN base})
      BY EditorAssumption DEF EditorAssumption
    <2>. QED BY <1>2, <2>1, StageRenamed
  <1>3. ASSUME NEW n \in nodes, h = DeleteNode(g, n) PROVE Edited(g, h)
    BY <1>3, StageDeleted
  <1>4. ASSUME NEW m \in nodes, NEW n \in nodes, h = Connect(g, m, n) PROVE Edited(g, h)
    <2>1. CASE h = g
      BY <2>1 DEF Edited, Sound
    <2>2. CASE h # g
      <3>. DEFINE edges == g.edges \cup {<<m, n>>}
      <3>1. h = [g EXCEPT !.edges = edges]
        BY <1>4, <2>2 DEF Connect
      <3>2. edges \in SUBSET (nodes \X nodes)
        BY <1>0
      <3>. HIDE DEF edges
      <3>3. h = [mode |-> g.mode, nodes |-> g.nodes, edges |-> edges]
        BY <1>0, <3>1
      <3>. QED BY <1>0, <3>2, <3>3, NodesStay
    <2>. QED BY <2>1, <2>2
  <1>5. ASSUME NEW e \in g.edges, h = [g EXCEPT !.edges = @ \ {e}] PROVE Edited(g, h)
    <2>. DEFINE edges == g.edges \ {e}
    <2>1. h = [mode |-> g.mode, nodes |-> g.nodes, edges |-> edges]
      BY <1>0, <1>5
    <2>2. edges \in SUBSET (nodes \X nodes)
      BY <1>0
    <2>. HIDE DEF edges
    <2>. QED BY <1>0, <2>1, <2>2, NodesStay
  <1>6. ASSUME NEW mode \in Modes, h = [g EXCEPT !.mode = mode] PROVE Edited(g, h)
    <2>1. h = [mode |-> mode, nodes |-> g.nodes, edges |-> g.edges]
      BY <1>0, <1>6
    <2>. QED BY <1>0, <2>1, NodesStay
  <1>7. \/ \E kind \in {"stage", "orchestrator"}: h = AddStage(g, kind)
        \/ \E n \in nodes, base \in Bases: h = Rename(g, n, base)
        \/ \E n \in nodes: h = DeleteNode(g, n)
        \/ \E m \in nodes, n \in nodes: h = Connect(g, m, n)
        \/ \E e \in g.edges: h = [g EXCEPT !.edges = @ \ {e}]
        \/ \E mode \in Modes: h = [g EXCEPT !.mode = mode]
    BY DEF EditsOf
  <1>. QED BY <1>1, <1>2, <1>3, <1>4, <1>5, <1>6, <1>7

(* What is loaded is a sound graph, if it is what the server accepts.      *)
LEMMA OpenedGraph ==
    ASSUME NEW d, IsDocument(d), Accepts(d)
    PROVE  LET g == CreateEditorState(d) IN IsGraph(g) /\ NamesDiffer(g) /\ KindsFit(g)
  <1>. DEFINE g == CreateEditorState(d)
              T == DOMAIN d.stages
              nodes == [i \in T |-> NodeOf(d.stages[i])]
              edges == {e \in T \X T: d.stages[e[1]].name \in d.stages[e[2]].deps}
  <1>1. g = [mode |-> d.mode, nodes |-> nodes, edges |-> edges] /\ d.mode \in Modes
    BY DEF CreateEditorState, IsDocument
  <1>2. T \subseteq Nat \ {0} /\ IsFiniteSet(T)
    <2>1. T = 1 .. Len(d.stages) /\ Len(d.stages) \in Nat
      BY DEF IsDocument
    <2>2. IsFiniteSet(1 .. Len(d.stages))
      BY <2>1, FS_Interval
    <2>. HIDE DEF T
    <2>. QED BY <2>1, <2>2
  <1>3. DOMAIN nodes = T /\ edges \subseteq T \X T /\ nodes = [i \in DOMAIN nodes |-> nodes[i]]
    OBVIOUS
  <1>4. \A i \in T: IsNode(nodes[i]) /\ nodes[i].name = d.stages[i].name
                    /\ (~d.stages[i].lead => nodes[i].kind = "stage")
    BY DEF NodeOf, IsNode
  <1>5. \A i, j \in T: d.stages[i].name = d.stages[j].name => i = j
    BY DEF IsDocument
  <1>6. d.mode = "sequential" => \A i \in T: ~d.stages[i].lead
    BY DEF Accepts, Leads
  <1>. HIDE DEF g, T, nodes, edges
  <1>7. IsGraph(g) /\ g.mode = d.mode /\ g.nodes = nodes
    BY <1>1, <1>2, <1>3, <1>4, GraphOf
  <1>8. NamesDiffer(g) /\ KindsFit(g)
    BY <1>3, <1>4, <1>5, <1>6, <1>7 DEF NamesDiffer, KindsFit
  <1>. QED BY <1>7, <1>8 DEF g

-----------------------------------------------------------------------------
(* Whatever was edited, the graph on display is sound; what is in a file,  *)
(* or on its way to one, is a document, and what was loaded is accepted.   *)
Carries(r) ==
    /\ r.kind \in Writers => IsDocument(r.text.doc)
    /\ r.kind = "load" /\ r.step = "ok" => IsDocument(r.text.doc) /\ Accepts(r.text.doc)

AllCarry == \A i \in DOMAIN wire: Carries(wire[i])
FilesAreDocuments == \A p \in Paths: IsDocument(texts[p].doc)
DraftSound == draft # NoDraft => Sound(draft)

DraftInv == DraftSound /\ FilesAreDocuments /\ AllCarry

(* The requests that stay carry what they did, and a new one too.          *)
LEMMA SentCarries ==
    ASSUME EditorTypes, AllCarry, NEW r, IsRequest(r), Carries(r), wire' = Append(wire, r)
    PROVE  AllCarry'
  <1>1. /\ DOMAIN wire = 1 .. Len(wire) /\ DOMAIN wire' = 1 .. (Len(wire) + 1) /\ Len(wire) \in Nat
        /\ wire'[Len(wire) + 1] = r /\ \A j \in DOMAIN wire: wire'[j] = wire[j]
    BY Sent
  <1>2. \A j \in DOMAIN wire': j = Len(wire) + 1 \/ j \in DOMAIN wire
    BY <1>1
  <1>. QED BY <1>1, <1>2 DEF AllCarry

(* What is left on the wire when a request is gone.                        *)
LEMMA GoneCarries ==
    ASSUME EditorTypes, AllCarry, NEW i \in DOMAIN wire
    PROVE  /\ DOMAIN RemoveAt(wire, i) = 1 .. (Len(wire) - 1)
           /\ \A j \in 1 .. (Len(wire) - 1): Carries(RemoveAt(wire, i)[j])
  <1> DEFINE W == {wire[j]: j \in DOMAIN wire}
             others == RemoveAt(wire, i)
  <1>1. wire \in Seq(W)
    BY DEF EditorTypes
  <1>. HIDE DEF W
  <1>2. DOMAIN wire = 1 .. Len(wire) /\ Len(wire) \in Nat
    BY <1>1, LenProperties
  <1>3. /\ others \in Seq(W) /\ Len(others) = Len(wire) - 1
        /\ \A j \in 1 .. (Len(wire) - 1): others[j] = wire[IF j < i THEN j ELSE j + 1]
    BY <1>1, <1>2, Removed
  <1>. HIDE DEF others
  <1>4. DOMAIN others = 1 .. (Len(wire) - 1)
    BY <1>3, LenProperties
  <1>5. \A j \in 1 .. (Len(wire) - 1): (IF j < i THEN j ELSE j + 1) \in DOMAIN wire
    BY <1>2
  <1>6. \A j \in 1 .. (Len(wire) - 1): Carries(others[j])
    BY <1>3, <1>5 DEF AllCarry
  <1>. QED BY <1>4, <1>6 DEF others

(* What is on the wire when one is gone and another one sent.              *)
LEMMA GoneAndSentCarries ==
    ASSUME EditorTypes, AllCarry, NEW i \in DOMAIN wire, NEW r, IsRequest(r), Carries(r),
           wire' = Append(RemoveAt(wire, i), r)
    PROVE  AllCarry'
  <1>1. /\ Len(wire) \in Nat \ {0} /\ DOMAIN wire = 1 .. Len(wire) /\ DOMAIN wire' = DOMAIN wire
        /\ wire'[Len(wire)] = r
        /\ \A j \in 1 .. (Len(wire) - 1): RemoveAt(wire, i)[j] = wire'[j]
    BY GoneAndSent
  <1>2. \A j \in 1 .. (Len(wire) - 1): Carries(RemoveAt(wire, i)[j])
    BY GoneCarries
  <1>3. \A n \in Nat \ {0}: \A j \in 1 .. n: j = n \/ j \in 1 .. (n - 1)
    OBVIOUS
  <1>4. ASSUME NEW j \in DOMAIN wire' PROVE Carries(wire'[j])
    <2>1. j = Len(wire) \/ j \in 1 .. (Len(wire) - 1)
      <3>1. j \in 1 .. Len(wire)
        BY <1>1
      <3>. QED BY <1>1, <1>3, <3>1
    <2>2. CASE j = Len(wire)
      BY <1>1, <2>2
    <2>3. CASE j \in 1 .. (Len(wire) - 1)
      <3>1. Carries(RemoveAt(wire, i)[j]) /\ RemoveAt(wire, i)[j] = wire'[j]
        BY <1>1, <1>2, <2>3
      <3>. QED BY <3>1
    <2>. QED BY <2>1, <2>2, <2>3
  <1>. QED BY <1>4 DEF AllCarry

(* The graph that is displayed is sound when its mode has been seen to.    *)
LEMMA DisplayedIsSound ==
    ASSUME NEW g, NEW ok, Display(g, ok), IsGraph(g), NamesDiffer(g), g.mode = draft.mode => KindsFit(g)
    PROVE  DraftSound'
  <1>1. draft' = ModeChanged(g, draft.mode)
    BY DEF Display
  <1>. QED BY <1>1, ModeSeenTo DEF DraftSound

(* The graph on display, edited or not.                                    *)
LEMMA EditIsSound ==
    ASSUME DraftSound, Edit
    PROVE  DraftSound'
  <1>1. draft # NoDraft
    BY DEF Edit
  <1>2. PICK g \in EditsOf(draft) \ {draft}:
           IF Serialize(g) = Serialize(draft) THEN draft' = g /\ UNCHANGED <<valid, timer>>
           ELSE Display(g, valid)
    BY DEF Edit
  <1>3. IsGraph(g) /\ NamesDiffer(g) /\ (g.mode = draft.mode => KindsFit(g))
    BY <1>1, EditedGraph DEF DraftSound, Edited
  <1>4. CASE Serialize(g) = Serialize(draft)
    <2>1. Serialize(g).mode = g.mode /\ Serialize(draft).mode = draft.mode
      BY DEF Serialize, Document
    <2>. QED BY <1>2, <1>3, <1>4, <2>1 DEF DraftSound, Sound
  <1>5. CASE Serialize(g) # Serialize(draft)
    BY <1>2, <1>3, <1>5, DisplayedIsSound
  <1>. QED BY <1>4, <1>5

(* What the editor sends to be written is a document.                      *)
LEMMA YamlIsDocument ==
    ASSUME DraftSound, draft # NoDraft
    PROVE  IsDocument(Yaml.doc) /\ Yaml.form = "editor"
  BY WrittenIsDocument DEF DraftSound, Sound, Yaml, Text

(* What a new pipeline starts with is a document.                          *)
LEMMA StarterIsDocument == IsDocument(Text(Starter).doc)
  <1> DEFINE st == Stage(<<"echo">>, {}, FALSE)
  <1>1. Text(Starter).doc = Starter /\ Starter.mode = "sequential" /\ Starter.stages = <<st>>
    BY DEF Text, Starter, Document
  <1>. HIDE DEF st
  <1>2. DOMAIN <<st>> = 1 .. Len(<<st>>) /\ Len(<<st>>) = 1
    OBVIOUS
  <1>. QED BY <1>1, <1>2 DEF IsDocument, Modes

(* What the answer to a load changes on the wire.                          *)
LEMMA LoadProgressed ==
    ASSUME EditorTypes, NEW i \in DOMAIN wire, NEW text, NEW step,
           wire' = [wire EXCEPT ![i].text = text, ![i].step = step]
    PROVE  /\ DOMAIN wire' = DOMAIN wire /\ \A j \in DOMAIN wire: j # i => wire'[j] = wire[j]
           /\ wire'[i] = [kind |-> wire[i].kind, path |-> wire[i].path, text |-> text,
                          step |-> step, mine |-> wire[i].mine]
  <1> DEFINE w == wire[i]
             r == [w EXCEPT !.text = text, !.step = step]
             s == [kind |-> w.kind, path |-> w.path, text |-> text, step |-> step, mine |-> w.mine]
  <1>1. IsRequest(w) /\ wire' = [wire EXCEPT ![i] = r]
    BY DEF EditorTypes
  <1>2. \A v: IsRequest(v) => [v EXCEPT !.text = text, !.step = step]
           = [kind |-> v.kind, path |-> v.path, text |-> text, step |-> step, mine |-> v.mine]
    <2>. HIDE DEF IsRequest
    <2>. QED BY WithAnswer, Zenon
  <1>3. r = s
    <2>. HIDE DEF IsRequest, w
    <2>. QED BY <1>1, <1>2, Zenon
  <1>5. wire' = [wire EXCEPT ![i] = s]
    BY <1>1, <1>3
  <1>. HIDE DEF s, r
  <1>6. /\ DOMAIN wire' = DOMAIN wire /\ wire'[i] = s
        /\ \A j \in DOMAIN wire: j # i => wire'[j] = wire[j]
    BY <1>5 DEF EditorTypes
  <1>. QED BY <1>6 DEF s

(* A load is answered with the text of its file, well or not.              *)
LoadAnswer(i, text, step) ==
    /\ wire[i].kind = "load" /\ text = texts[wire[i].path]
    /\ step # "begun"
    /\ step = "ok" => IsPipeline(wire[i].path)

(* An answer to a load that succeeds carries a document.                   *)
LEMMA AnswerCarries ==
    ASSUME EditorTypes, AllCarry, FilesAreDocuments, NEW i \in DOMAIN wire,
           NEW text, NEW step, LoadAnswer(i, text, step),
           wire' = [wire EXCEPT ![i].text = text, ![i].step = step]
    PROVE  AllCarry'
  <1>1. wire[i].kind \notin Writers /\ wire[i].path \in Paths
    BY DEF Writers, IsRequest, EditorTypes, LoadAnswer
  <1>2. /\ DOMAIN wire' = DOMAIN wire /\ \A j \in DOMAIN wire: j # i => wire'[j] = wire[j]
        /\ wire'[i].kind = wire[i].kind /\ wire'[i].text = text /\ wire'[i].step = step
    <2>1. DOMAIN wire' = DOMAIN wire
      BY LoadProgressed
    <2>2. \A j \in DOMAIN wire: j # i => wire'[j] = wire[j]
      BY LoadProgressed
    <2>3. wire'[i] = [kind |-> wire[i].kind, path |-> wire[i].path, text |-> text,
                     step |-> step, mine |-> wire[i].mine]
      BY LoadProgressed
    <2>. QED BY <2>1, <2>2, <2>3
  <1>3. Carries(wire'[i])
    BY <1>1, <1>2 DEF Carries, FilesAreDocuments, IsPipeline, LoadAnswer
  <1>. QED BY <1>2, <1>3 DEF AllCarry

(* So does the answer the server gives.                                    *)
LEMMA LoadCarries ==
    ASSUME EditorTypes, AllCarry, FilesAreDocuments, NEW i \in DOMAIN wire, wire[i].kind = "load",
           wire' = [wire EXCEPT ![i].text = texts[wire[i].path],
                                ![i].step = IF Loads(wire[i].path) THEN "ok" ELSE "error"]
    PROVE  AllCarry'
  <1> DEFINE text == texts[wire[i].path]
             step == IF Loads(wire[i].path) THEN "ok" ELSE "error"
  <1>1. LoadAnswer(i, text, step)
    BY DEF Loads, LoadAnswer
  <1>2. wire' = [wire EXCEPT ![i].text = text, ![i].step = step]
    OBVIOUS
  <1>. HIDE DEF text, step
  <1>. QED BY <1>1, <1>2, AnswerCarries

(* The server takes a request up, or ends what it has begun.               *)
LEMMA ServedCarries ==
    ASSUME EditorTypes, DraftInv, NEW i \in DOMAIN wire, Begin(i) \/ Finish(i)
    PROVE  DraftInv'
  <1> DEFINE r == wire[i]
  <1>0. /\ DraftSound /\ FilesAreDocuments /\ AllCarry /\ UNCHANGED draft
        /\ IsRequest(r) /\ DOMAIN texts = Paths
    BY DEF DraftInv, Begin, Finish, instance, EditorTypes
  <1>1. DraftSound'
    BY <1>0 DEF DraftSound, NoDraft
  <1>2. ASSUME UNCHANGED texts PROVE FilesAreDocuments'
    BY <1>0, <1>2 DEF FilesAreDocuments
  <1>3. ASSUME NEW p \in Paths, NEW text, IsDocument(text.doc), Store(p, text) PROVE FilesAreDocuments'
    BY <1>0, <1>3 DEF FilesAreDocuments, Store
  <1>4. ASSUME NEW step, wire' = [wire EXCEPT ![i].step = step], r.kind # "load",
               step = "begun" => r.kind \in Writers
        PROVE  AllCarry'
    <2>1. wire'[i].step = "begun" => wire[i].kind \in Writers
      <3>1. wire'[i] = [r EXCEPT !.step = step]
        BY <1>0, <1>4 DEF EditorTypes
      <3>2. wire'[i].step = step
        BY <1>0, <3>1 DEF IsRequest
      <3>. QED BY <1>4, <3>2
    <2>2. /\ DOMAIN wire' = DOMAIN wire /\ \A j \in DOMAIN wire: j # i => wire'[j] = wire[j]
          /\ wire'[i].kind = wire[i].kind /\ wire'[i].text = wire[i].text
      BY <1>4, <2>1, Stepped
    <2>3. Carries(wire'[i])
      BY <1>0, <1>4, <2>2 DEF Carries, AllCarry
    <2>. QED BY <1>0, <2>2, <2>3 DEF AllCarry
  <1>5. CASE Begin(i) /\ r.kind = "load"
    <2>1. /\ wire' = [wire EXCEPT ![i].text = texts[r.path],
                                  ![i].step = IF Loads(r.path) THEN "ok" ELSE "error"]
          /\ UNCHANGED library
      BY <1>5 DEF Begin
    <2>2. AllCarry'
      BY <1>0, <1>5, <2>1, LoadCarries
    <2>. QED BY <1>1, <1>2, <2>1, <2>2 DEF DraftInv, library
  <1>6. CASE Begin(i) /\ r.kind = "run"
    <2>1. wire' = [wire EXCEPT ![i].step = IF Runs(r.path) THEN "ok" ELSE "error"] /\ UNCHANGED library
      BY <1>6 DEF Begin, Answered
    <2>. QED BY <1>1, <1>2, <1>4, <1>6, <2>1 DEF DraftInv, library
  <1>7. CASE Begin(i) /\ r.kind = "delete"
    <2>1. wire' = RemoveAt(wire, i) /\ (UNCHANGED texts \/ Store(r.path, Absent)) /\ r.path \in Paths
      BY <1>0, <1>7 DEF Begin, Delete, library, IsRequest
    <2>2. IsDocument(Absent.doc)
      <3>1. Absent.doc.mode = "sequential" /\ Absent.doc.stages = <<>>
        BY DEF Absent, Document
      <3>2. DOMAIN <<>> = 1 .. Len(<<>>) /\ Len(<<>>) = 0
        OBVIOUS
      <3>. QED BY <3>1, <3>2 DEF IsDocument, Modes
    <2>3. AllCarry'
      BY <1>0, <2>1, GoneCarries DEF AllCarry
    <2>. QED BY <1>1, <1>2, <1>3, <2>1, <2>2, <2>3 DEF DraftInv
  <1>8. CASE Begin(i) /\ r.kind \in Writers
    <2>1. \E known \in BOOLEAN: wire' = [wire EXCEPT ![i].step = IF known THEN "begun" ELSE "error"]
      BY <1>8 DEF Begin, Writers, Reachable, Known
    <2>2. UNCHANGED library /\ r.kind # "load"
      BY <1>8 DEF Begin, Writers
    <2>. QED BY <1>1, <1>2, <1>4, <1>8, <2>1, <2>2 DEF DraftInv, library
  <1>9. CASE Finish(i)
    <2>1. r.kind \in Writers /\ r.kind # "load" /\ r.path \in Paths
      BY <1>0, <1>9 DEF Finish, IsRequest, Writers
    <2>2. PICK ok \in BOOLEAN:
             /\ IF r.kind = "saveAs" THEN Post(r.path, r.text, ok) ELSE FinishSave(r.path, r.text, ok)
             /\ wire' = [wire EXCEPT ![i].step = IF ok THEN "ok" ELSE "error"]
      BY <1>9 DEF Finish, Answered
    <2>3. UNCHANGED texts \/ Store(r.path, r.text)
      BY <2>2 DEF Post, PostProject, PostGlobal, Create, FinishSave, library
    <2>4. IsDocument(r.text.doc)
      BY <1>0, <2>1 DEF AllCarry, Carries
    <2>5. FilesAreDocuments'
      BY <1>2, <1>3, <2>1, <2>3, <2>4
    <2>. QED BY <1>1, <1>4, <2>1, <2>2, <2>5 DEF DraftInv
  <1>10. r.kind \in {"load", "run", "delete"} \cup Writers
    BY <1>0 DEF IsRequest, RequestKinds
  <1>. QED BY <1>5, <1>6, <1>7, <1>8, <1>9, <1>10

(* The page handles an answer.                                             *)
LEMMA HandledCarries ==
    ASSUME EditorTypes, DraftInv, NEW i \in DOMAIN wire, Handle(i)
    PROVE  DraftInv'
  <1> DEFINE r == wire[i]
             others == RemoveAt(wire, i)
  <1>0. /\ DraftSound /\ FilesAreDocuments /\ AllCarry /\ UNCHANGED texts
        /\ IsRequest(r) /\ Carries(r)
    BY DEF DraftInv, Handle, library, EditorTypes, AllCarry
  <1>1. FilesAreDocuments'
    BY <1>0 DEF FilesAreDocuments
  <1>2. ASSUME UNCHANGED draft PROVE DraftSound'
    BY <1>0, <1>2 DEF DraftSound, NoDraft
  <1>3. ASSUME wire' = others PROVE AllCarry'
    BY <1>0, <1>3, GoneCarries DEF AllCarry
  <1>4. CASE LoadAnswered(r, others) /\ r.kind = "load" /\ r.step = "ok"
    <2> DEFINE g == CreateEditorState(r.text.doc)
    <2>1. Display(g, TRUE) /\ wire' = others
      BY <1>4 DEF LoadAnswered
    <2>2. IsGraph(g) /\ NamesDiffer(g) /\ KindsFit(g)
      BY <1>0, <1>4, OpenedGraph DEF Carries
    <2>. HIDE DEF g
    <2>. QED BY <1>1, <1>3, <2>1, <2>2, DisplayedIsSound DEF DraftInv
  <1>5. CASE RunSaved(r, others)
    <2> DEFINE run == [r EXCEPT !.kind = "run", !.step = "sent"]
    <2>1. wire' = Append(others, run) /\ UNCHANGED draft
      BY <1>5 DEF RunSaved
    <2>2. IsRequest(run) /\ run.kind = "run"
      BY <1>0, RunOfRequest, Zenon
    <2>. HIDE DEF run
    <2>3. Carries(run)
      BY <2>2 DEF Carries, Writers
    <2>. QED BY <1>0, <1>1, <1>2, <2>1, <2>2, <2>3, GoneAndSentCarries DEF DraftInv
  <1>6. CASE SaveAsAnswered(r, others)
    <2> DEFINE load == Request("load", r.path, Absent)
    <2>1. wire' = others \/ wire' = Append(others, load)
      BY <1>6, CopyOpened
    <2>2. IsRequest(load) /\ load.kind = "load" /\ load.step = "sent"
      BY <1>0, OwnRequestMade DEF RequestKinds, Writers, IsRequest
    <2>3. UNCHANGED draft
      BY <1>6 DEF SaveAsAnswered
    <2>. HIDE DEF load
    <2>4. Carries(load)
      BY <2>2 DEF Carries, Writers
    <2>. QED BY <1>0, <1>1, <1>2, <1>3, <2>1, <2>2, <2>3, <2>4, GoneAndSentCarries DEF DraftInv
  <1>7. CASE wire' = others /\ UNCHANGED draft
    BY <1>1, <1>2, <1>3, <1>7 DEF DraftInv
  <1>8. \/ LoadAnswered(r, others) /\ r.kind = "load" /\ r.step = "ok"
        \/ RunSaved(r, others) \/ SaveAsAnswered(r, others)
        \/ wire' = others /\ UNCHANGED draft
    BY DEF Handle, SaveAnswered, instance
  <1>. QED BY <1>4, <1>5, <1>6, <1>7, <1>8

(* Clicks and changes by others.                                           *)
LEMMA ClickedCarries ==
    ASSUME EditorTypes, DraftInv,
           \/ Save \/ Run \/ Leave \/ Others
           \/ \E q \in Paths: OpenPipeline(q) \/ SaveAs(q) \/ OnList(q)
    PROVE  DraftInv'
  <1>0. DraftSound /\ FilesAreDocuments /\ AllCarry /\ DOMAIN texts = Paths
    BY DEF DraftInv, EditorTypes
  <1>1. ASSUME UNCHANGED texts PROVE FilesAreDocuments'
    BY <1>0, <1>1 DEF FilesAreDocuments
  <1>2. ASSUME draft' \in {draft, NoDraft} PROVE DraftSound'
    BY <1>0, <1>2 DEF DraftSound, NoDraft
  <1>3. ASSUME NEW kind \in RequestKinds, NEW q \in Paths, NEW text,
               wire' = Append(wire, Request(kind, q, text)),
               kind \in Writers => text.form = "editor" /\ IsDocument(text.doc)
        PROVE  AllCarry'
    <2> DEFINE r == Request(kind, q, text)
    <2>1. IsRequest(r) /\ r.kind = kind /\ r.text = text /\ r.step = "sent"
      BY <1>3, OwnRequestMade
    <2>2. wire' = Append(wire, r)
      BY <1>3
    <2>. HIDE DEF r
    <2>3. Carries(r)
      BY <1>3, <2>1 DEF Carries
    <2>. QED BY <1>0, <2>1, <2>2, <2>3, SentCarries
  <1>4. CASE Save \/ Run \/ \E q \in Paths: SaveAs(q)
    <2>1. draft # NoDraft /\ entry \in Paths
      BY <1>4 DEF Save, Run, SaveAs, Editing, EditorTypes
    <2>2. \E kind \in RequestKinds, q \in Paths: wire' = Append(wire, Request(kind, q, Yaml))
      BY <1>4, <2>1 DEF Save, Run, SaveAs, Send, RunKind, RequestKinds, Writers
    <2>3. UNCHANGED <<texts, draft>>
      BY <1>4 DEF Save, Run, SaveAs, library, instance
    <2>. QED BY <1>0, <1>1, <1>2, <1>3, <2>1, <2>2, <2>3, YamlIsDocument DEF DraftInv
  <1>5. ASSUME NEW q \in Paths, OpenPipeline(q) PROVE DraftInv'
    <2>1. UNCHANGED texts /\ wire' = Append(wire, Request("load", q, Absent)) /\ draft' \in {draft, NoDraft}
      BY <1>5 DEF OpenPipeline, library, instance, NoInstance
    <2>. QED BY <1>1, <1>2, <1>3, <2>1 DEF DraftInv, RequestKinds, Writers
  <1>6. ASSUME NEW q \in Paths, OnList(q) PROVE DraftInv'
    <2>1. UNCHANGED <<texts, draft>>
      BY <1>6 DEF OnList, library, instance
    <2>2. CASE DeletePipeline(q) \/ RunFromList(q)
      <3>1. \E kind \in {"delete", "run"}: wire' = Append(wire, Request(kind, q, Absent))
        BY <2>2 DEF DeletePipeline, RunFromList, Send
      <3>. QED BY <1>1, <1>2, <1>3, <2>1, <3>1 DEF DraftInv, RequestKinds, Writers
    <2>3. CASE CreatePipeline(q)
      <3> DEFINE r == [Request("saveAs", q, Text(Starter)) EXCEPT !.mine = FALSE]
      <3>1. Text(Starter).form = "editor" /\ "saveAs" \in RequestKinds
        BY DEF Text, RequestKinds, Writers
      <3>2. IsRequest(r) /\ r.text = Text(Starter) /\ r.step = "sent"
        BY <3>1, RequestMade
      <3>3. wire' = Append(wire, r)
        BY <2>3 DEF CreatePipeline, Send
      <3>. HIDE DEF r
      <3>4. Carries(r)
        BY <3>2, StarterIsDocument DEF Carries
      <3>. QED BY <1>0, <1>1, <1>2, <2>1, <3>2, <3>3, <3>4, SentCarries DEF DraftInv
    <2>. QED BY <1>6, <2>2, <2>3 DEF OnList
  <1>7. CASE Leave
    <2>1. UNCHANGED texts /\ draft' = NoDraft /\ wire' = [i \in DOMAIN wire |-> [wire[i] EXCEPT !.mine = FALSE]]
      BY <1>7 DEF Leave, library, NoInstance
    <2>2. \A i \in DOMAIN wire: IsRequest(wire[i]) /\ wire'[i] = [wire[i] EXCEPT !.mine = FALSE]
      BY <2>1 DEF EditorTypes
    <2>3. \A i \in DOMAIN wire: /\ wire'[i].kind = wire[i].kind /\ wire'[i].text = wire[i].text
                                /\ wire'[i].step = wire[i].step
      <3>. SUFFICES ASSUME NEW i \in DOMAIN wire
                    PROVE  wire'[i].kind = wire[i].kind /\ wire'[i].text = wire[i].text
                           /\ wire'[i].step = wire[i].step
        OBVIOUS
      <3>1. FALSE \in BOOLEAN
        OBVIOUS
      <3>. HIDE DEF IsRequest
      <3>. QED BY <2>2, <3>1, Abandoned, Zenon
    <2>4. DOMAIN wire' = DOMAIN wire
      BY <2>1
    <2>5. AllCarry'
      BY <1>0, <2>3, <2>4 DEF AllCarry, Carries
    <2>. QED BY <1>1, <1>2, <2>1, <2>5 DEF DraftInv
  <1>8. CASE Others
    <2>1. UNCHANGED <<draft, wire>>
      BY <1>8 DEF Others, instance
    <2>2. FilesAreDocuments'
      <3>1. CASE UNCHANGED texts
        BY <1>1, <3>1
      <3>2. ASSUME NEW p \in Paths, NEW text \in MeddleTexts, Meddle(p, text) PROVE FilesAreDocuments'
        <4>1. IsDocument(text.doc)
          BY EditorAssumption DEF EditorAssumption
        <4>. QED BY <1>0, <3>2, <4>1 DEF Meddle, FilesAreDocuments
      <3>. QED BY <1>8, <3>1, <3>2 DEF Others, List, RegisterProject, UnregisterProject
    <2>3. AllCarry'
      BY <1>0, <2>1 DEF AllCarry
    <2>. QED BY <1>2, <2>1, <2>2, <2>3 DEF DraftInv
  <1>. QED BY <1>4, <1>5, <1>6, <1>7, <1>8

(* One step of anybody.                                                    *)
LEMMA DraftStep ==
    ASSUME EditorTypes, DraftInv, [EditorNext]_editorVars
    PROVE  DraftInv'
  <1>1. CASE UNCHANGED editorVars \/ TimerFires \/ \E i \in DOMAIN checking: ValidationAnswers(i)
    <2>1. UNCHANGED <<texts, draft, wire>>
      BY <1>1 DEF editorVars, TimerFires, ValidationAnswers, library, instance
    <2>. QED BY <2>1 DEF DraftInv, DraftSound, NoDraft, FilesAreDocuments, AllCarry
  <1>2. CASE Edit
    <2>1. UNCHANGED <<texts, wire>>
      BY <1>2 DEF Edit, library
    <2>2. FilesAreDocuments' /\ AllCarry'
      BY <2>1 DEF DraftInv, FilesAreDocuments, AllCarry
    <2>. QED BY <1>2, <2>2, EditIsSound DEF DraftInv
  <1>. QED BY <1>1, <1>2, ServedCarries, HandledCarries, ClickedCarries DEF EditorNext

(* Save, leave and come back: the graph that the editor makes of its own   *)
(* YAML is the graph it was made from, whatever was edited and however     *)
(* late the answers come.                                                  *)
THEOREM DraftsReopen == EditorSpec => []ReopensTheSame
  <1>1. EditorInit => DraftInv
    <2>. SUFFICES ASSUME EditorInit PROVE DraftInv
      OBVIOUS
    <2>1. DOMAIN wire = {} /\ draft = NoDraft /\ texts \in Initially
      BY DEF EditorInit, LibraryInit
    <2>2. FilesAreDocuments
      BY <2>1, LibraryAssumption DEF LibraryAssumption, FilesAreDocuments
    <2>. QED BY <2>1, <2>2 DEF DraftInv, DraftSound, AllCarry
  <1>2. EditorInv => EditorTypes
    BY DEF EditorInv
  <1>3. EditorTypes /\ DraftInv /\ [EditorNext]_editorVars => DraftInv'
    BY DraftStep
  <1>4. DraftInv => ReopensTheSame
    BY ReopenedIsTheSame DEF DraftInv, DraftSound, ReopensTheSame
  <1>. QED BY <1>1, <1>2, <1>3, <1>4, EditorIsSafe, PTL DEF EditorSpec
===============================================================================
