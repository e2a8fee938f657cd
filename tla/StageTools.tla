------------------------------ MODULE StageTools ------------------------------
(***************************************************************************)
(* The agents of the runs at work in one project directory: the built-in   *)
(* tools with the caches of a tool session, and the sandbox of a stage with *)
(* "permissions: sandbox", its review and what becomes of it.  A tool does *)
(* not wait while it works.  What consent it needs is in Permissions.      *)
(***************************************************************************)
EXTENDS Naturals, FiniteSets

CONSTANTS
    Stages,     \* agents that a sequential pipeline starts
    Boxed,      \* those of them that work in a sandbox
    Delegates,  \* agents that only an orchestrator starts
    Paths,      \* files of the project
    Linked,     \* those that prepareSandboxForCommand links
    Initially,  \* the sets of files it may have at first
    HasReview,  \* whether the caller gave an onSandboxReview
    Calls,      \* [Agents -> what their models call: [tool, path, text]]
    MaxCalls,   \* [Agents -> number of its calls], a bound of the model only
    Edits,      \* what persons change in the project meanwhile: [path, text]
    MaxEdits    \* number of those and of a left process's changes, likewise

Agents == Stages \cup Delegates

Absent == "absent"
Link   == "link"
Texts  == {"old", "new"}

(* In a sandbox the other tools change nothing.                            *)
Tools(a) == {"write_file", "run_command"} \cup
            IF a \in Boxed THEN {} ELSE {"read_file", "list_files", "search_files"}

ASSUME StageToolsAssumption ==
    /\ Boxed \subseteq Stages /\ Stages \cap Delegates = {}
    /\ Linked \subseteq Paths /\ HasReview \in BOOLEAN
    /\ Initially \subseteq SUBSET Paths
    /\ MaxCalls \in [Agents -> Nat] /\ MaxEdits \in Nat
    /\ Agents \cap {"nobody", "person"} = {}
    /\ \A a \in Agents: Calls[a] \subseteq [tool: Tools(a), path: Paths, text: Texts]
    /\ Edits \subseteq [path: Paths, text: Texts \cup {Absent}]

VARIABLES
    disk,      \* [Paths -> text and time stamp]
    dirs,      \* whether the project has .git or node_modules
    box,       \* [Boxed -> [Paths -> what the sandbox directory has there]]
    dirLinks,  \* the sandboxes with links to those directories
    leftover,  \* the stages whose commands may have left processes behind
    phase,     \* [Agents -> "idle", "working", "reviewing", "done" or "failed"]
    calls,     \* [Agents -> number of calls]
    work,      \* [Agents -> the kinds of work in workSummary]
    stats,     \* [Agents -> [Paths -> the stamp in the cache of read_file, 0 for none]]
    listed,    \* the agents with the listing in the cache of list_files
    edits,
    (* History. *)
    seen,      \* [Agents -> [Paths -> the text the agent was last shown]]
    names,     \* [Agents -> the listing it was last shown]
    overtaken, \* the agents during whose session others made or removed files
    author,    \* [Paths -> who changed the file last]
    approved,  \* [Boxed -> the paths in the diff shown, or changed since it was]
    past       \* [Boxed -> the paths it has written past its sandbox]

session   == <<stats, listed, seen, names>>
loop      == <<phase, calls, work>>
boxes     == <<box, dirLinks, leftover, past>>
sandboxes == <<boxes, approved>>
project   == <<disk, author, overtaken>>
toolVars  == <<project, dirs, sandboxes, loop, session, edits>>

Names == {p \in Paths: disk[p].text # Absent}

(* A sandbox when it is made, and when it has been cleaned up.             *)
Bare == [p \in Paths |-> Absent]

ToolsInit ==
    /\ \E there \in Initially: disk =
          [p \in Paths |-> [text |-> IF p \in there THEN "old" ELSE Absent, stamp |-> 1]]
    /\ dirs \in BOOLEAN
    /\ box = [b \in Boxed |-> Bare] /\ dirLinks = {}
    /\ leftover = {} /\ past = [b \in Boxed |-> {}]
    /\ phase = [a \in Agents |-> IF a \in Stages THEN "working" ELSE "idle"]
    /\ calls = [a \in Agents |-> 0]
    /\ work = [a \in Agents |-> {}]
    /\ stats = [a \in Agents |-> [p \in Paths |-> 0]] /\ listed = {}
    /\ edits = 0
    /\ seen = [a \in Agents |-> [p \in Paths |-> Absent]] /\ names = [a \in Agents |-> {}]
    /\ overtaken = {} /\ author = [p \in Paths |-> "nobody"]
    /\ approved = [b \in Boxed |-> {}]

-----------------------------------------------------------------------------
(* The project and the sessions.                                           *)

(* Somebody gives the paths of `texts` these texts.                        *)
Put(who, texts) ==
    /\ disk' = [p \in Paths |-> IF p \in DOMAIN texts
                   THEN [text |-> texts[p], stamp |-> disk[p].stamp + 1] ELSE disk[p]]
    /\ author' = [p \in Paths |-> IF p \in DOMAIN texts THEN who ELSE author[p]]
    /\ overtaken' = IF \E p \in DOMAIN texts: (texts[p] = Absent) # (disk[p].text = Absent)
                    THEN overtaken \cup (Agents \ {who}) ELSE overtaken

(* A sandbox under review: the path is not as it was when the diff was shown.*)
Disturb(texts) ==
    approved' = [b \in Boxed |-> IF phase[b] = "reviewing"
                                 THEN approved[b] \cup DOMAIN texts ELSE approved[b]]

(* The fsEpoch of the session is part of every key of its caches.          *)
NewEpoch(a) ==
    /\ stats' = [stats EXCEPT ![a] = [p \in Paths |-> 0]]
    /\ listed' = listed \ {a}
    /\ UNCHANGED <<seen, names>>

Hit(a, p) == stats[a][p] = disk[p].stamp

One(p, text) == [q \in {p} |-> text]

-----------------------------------------------------------------------------
(* The tools without a sandbox.                                            *)

ReadFile(a, p) ==
    /\ IF disk[p].text = Absent \/ Hit(a, p) THEN UNCHANGED <<stats, seen>>
       ELSE /\ stats' = [stats EXCEPT ![a][p] = disk[p].stamp]
            /\ seen' = [seen EXCEPT ![a][p] = disk[p].text]
    /\ UNCHANGED <<project, listed, names, sandboxes>>

ListFiles(a) ==
    /\ IF a \in listed THEN UNCHANGED <<listed, names, overtaken>>
       ELSE /\ listed' = listed \cup {a}
            /\ names' = [names EXCEPT ![a] = Names]
            /\ overtaken' = overtaken \ {a}
    /\ UNCHANGED <<disk, author, stats, seen, sandboxes>>

WriteFile(a, p, text) ==
    /\ Put(a, One(p, text)) /\ Disturb(One(p, text)) /\ NewEpoch(a)
    /\ UNCHANGED boxes

(* Mutant: a command that fails after it has changed a file does not count *)
(* as a change.                                                            *)
RunCommandQuietly(a, p, text) ==
    /\ \/ UNCHANGED <<project, approved>>
       \/ \E t \in {text, Absent}: Put(a, One(p, t)) /\ Disturb(One(p, t))
    /\ NewEpoch(a) \/ UNCHANGED session
    /\ UNCHANGED boxes

(* A command, whatever its exit code, may have changed a file.             *)
RunCommand(a, p, text) ==
    /\ \/ UNCHANGED <<project, approved>>
       \/ \E t \in {text, Absent}: Put(a, One(p, t)) /\ Disturb(One(p, t))
    /\ NewEpoch(a)
    /\ UNCHANGED boxes

(* search_files has no cache.                                              *)
SearchFiles(a, p) ==
    /\ seen' = [seen EXCEPT ![a][p] = IF disk[p].text = Absent THEN @ ELSE disk[p].text]
    /\ UNCHANGED <<project, stats, listed, names, sandboxes>>

-----------------------------------------------------------------------------
(* The same with one: what write_file is given goes to a directory of its  *)
(* own, but for the files linked there for the first command.  It reads    *)
(* with no cache, which changes nothing.                                   *)

(* A file of the project is written at once, through a link or by its path.*)
WritePast(b, p, text) ==
    /\ Put(b, One(p, text)) /\ Disturb(One(p, text))
    /\ past' = [past EXCEPT ![b] = @ \cup {p}]

(* Mutant: the path is resolved in the project.                            *)
WriteFileUnboxed(b, p, text) ==
    /\ Put(b, One(p, text)) /\ Disturb(One(p, text))
    /\ UNCHANGED <<session, boxes>>

WriteFileBoxed(b, p, text) ==
    /\ IF box[b][p] = Link THEN WritePast(b, p, text) /\ UNCHANGED box
       ELSE box' = [box EXCEPT ![b][p] = text] /\ UNCHANGED <<project, approved, past>>
    /\ UNCHANGED <<session, dirLinks, leftover>>

(* Links to what the project has and the sandbox has not.                  *)
Prepared(b) ==
    [p \in Paths |-> IF p \in Linked \cap Names /\ box[b][p] = Absent THEN Link ELSE box[b][p]]

(* A command writes or removes a file: in its directory, where it may      *)
(* replace a link, or in the project, whose path is in its environment.    *)
(* What it starts in the background, or leaves running at its timeout,     *)
(* goes on.                                                                *)
RunCommandBoxed(b, p, text) ==
    /\ dirLinks' = IF dirs THEN dirLinks \cup {b} ELSE dirLinks
    /\ leftover' = leftover \cup {b}
    /\ \/ \E c \in {Prepared(b)[p], text, Absent}:
             /\ box' = [box EXCEPT ![b] = [Prepared(b) EXCEPT ![p] = c]]
             /\ UNCHANGED <<project, approved, past>>
       \/ /\ box' = [box EXCEPT ![b] = Prepared(b)]
          /\ \E t \in {text, Absent}: WritePast(b, p, t)
    /\ UNCHANGED session

-----------------------------------------------------------------------------
(* An agent's loop.                                                        *)

(* What is noted of a call before it is made.                              *)
Noted(k) == {k.tool} \cap {"write_file", "run_command"}

(* A tool call, and the work that is noted of it before; it may be refused,*)
(* by a rule, a person or the tool itself.                                 *)
Use(a, k, executed) ==
    /\ phase[a] = "working" /\ calls[a] < MaxCalls[a]
    /\ calls' = [calls EXCEPT ![a] = @ + 1]
    /\ work' = [work EXCEPT ![a] = @ \cup Noted(k)]
    /\ IF ~executed THEN UNCHANGED <<project, sandboxes, session>>
       ELSE IF a \in Boxed
       THEN CASE k.tool = "write_file"  -> WriteFileBoxed(a, k.path, k.text)
              [] k.tool = "run_command" -> RunCommandBoxed(a, k.path, k.text)
       ELSE CASE k.tool = "search_files" -> SearchFiles(a, k.path)
              [] k.tool = "read_file"    -> ReadFile(a, k.path)
              [] k.tool = "list_files"   -> ListFiles(a)
              [] k.tool = "write_file"   -> WriteFile(a, k.path, k.text)
              [] k.tool = "run_command"  -> RunCommand(a, k.path, k.text)
    /\ UNCHANGED <<phase, dirs, edits>>

(* sandbox.diff()                                                          *)
Diff(b) == {p \in Paths: box[b][p] \notin {Absent, Link} /\ box[b][p] # disk[p].text}

(* The loop ends.  What a sandbox holds is compared with the project, which *)
(* throws at a link to a directory; without changes, or nobody to show     *)
(* them to, it is discarded.                                               *)
Stop(a) ==
    /\ phase[a] = "working"
    /\ phase' = [phase EXCEPT ![a] =
           IF a \in dirLinks THEN "failed"
           ELSE IF a \in Boxed /\ HasReview /\ Diff(a) # {} THEN "reviewing" ELSE "done"]
    /\ approved' = IF a \in Boxed THEN [approved EXCEPT ![a] = Diff(a)] ELSE approved
    /\ box' = [b \in Boxed |-> IF b = a /\ phase'[b] = "done" THEN Bare ELSE box[b]]
    /\ UNCHANGED <<project, dirs, dirLinks, leftover, past, calls, work, session, edits>>

(* The model cannot be reached, or the loop finds itself cancelled.  What  *)
(* is in a sandbox stays there.                                            *)
Fail(a) ==
    /\ phase[a] = "working"
    /\ phase' = [phase EXCEPT ![a] = "failed"]
    /\ UNCHANGED <<project, dirs, sandboxes, calls, work, session, edits>>

(* sandbox.apply(): the diff is computed again.  Applied or discarded, the *)
(* sandbox is cleaned up.                                                  *)
Apply(b) ==
    /\ Put(b, [p \in Diff(b) |-> box[b][p]])
    /\ approved' = [c \in Boxed |-> IF c # b /\ phase[c] = "reviewing"
                                    THEN approved[c] \cup Diff(b) ELSE approved[c]]

Answer(b) ==
    /\ phase[b] = "reviewing"
    /\ Apply(b) \/ UNCHANGED <<project, approved>>
    /\ phase' = [phase EXCEPT ![b] = "done"]
    /\ box' = [box EXCEPT ![b] = Bare]
    /\ UNCHANGED <<dirs, dirLinks, leftover, past, calls, work, session, edits>>

(* A process that a command of a stage left behind does what the command   *)
(* may: in the sandbox as long as it is there, its review included, or in  *)
(* the project.                                                            *)
Linger(b) ==
    /\ b \in leftover /\ edits < MaxEdits /\ edits' = edits + 1
    /\ \E k \in Calls[b]: k.tool = "run_command" /\ \E t \in {k.text, Absent}:
          \/ /\ phase[b] \in {"working", "reviewing"}
             /\ box' = [box EXCEPT ![b][k.path] = t]
             /\ approved' = IF phase[b] = "reviewing"
                            THEN [approved EXCEPT ![b] = @ \cup {k.path}] ELSE approved
             /\ UNCHANGED <<project, past>>
          \/ WritePast(b, k.path, t) /\ UNCHANGED box
    /\ UNCHANGED <<dirs, dirLinks, leftover, loop, session>>

(* A person, or a program of theirs, changes a file of the project.        *)
EditFile(e) ==
    /\ edits < MaxEdits /\ edits' = edits + 1
    /\ Put("person", One(e.path, e.text)) /\ Disturb(One(e.path, e.text))
    /\ UNCHANGED <<dirs, boxes, loop, session>>
=============================================================================
