--------------------------------- MODULE Repl ---------------------------------
(***************************************************************************)
(* The interactive command line: lines are typed at any time and worked    *)
(* off one after the other, prompts by runs of the pipeline that is loaded *)
(* then.  A run asks its questions on the same terminal: every chunk that  *)
(* the terminal delivers goes to readline, to the listener of every        *)
(* question that waits, and to an orchestrator that listens.               *)
(*                                                                         *)
(* In raw mode every key is a chunk and Ctrl+C and Ctrl+D are keys;        *)
(* otherwise a chunk is a line and Ctrl+C ends the process.                *)
(***************************************************************************)
EXTENDS PipelineSession, Sequences

CONSTANTS
    Orchestrated,  \* the names of the pipelines whose mode is orchestrated
    MaxLines,      \* lines typed, a bound of the model only
    MaxQuestions,  \* questions of the stages of one run, likewise
    MaxTampers     \* changes others make to the registry, likewise

VARIABLES
    raw,         \* the terminal's mode
    open,        \* readline is not closed
    flowing,     \* stdin is not paused
    leftover,    \* keys of answers are in readline's line
    queue,       \* lineQueue: numbered lines
    typed,       \* number of lines so far
    processing,
    current,     \* the lines being worked off, with what they are: [line, kind]
    controller,  \* activeAbortController: "none", "fresh" or "aborted"
    pending,     \* the questions that wait: [kind, number]
    asked,       \* questions of the run so far
    process,     \* "running", "exited" or "killed"
    tampers,
    (* History *)
    started      \* the lines in the order in which they were begun

terminal == <<raw, open, flowing, leftover>>
lines    == <<queue, typed, processing, current, started>>
running  == <<controller, pending, asked>>
replVars == <<terminal, lines, running, process, tampers>>
vars     == <<sessionVars, replVars>>

Kinds == {"permission", "review", "error", "tokens"}
Accepted(kind) ==
    CASE kind = "permission" -> {"y", "n", "a", "d", "enter"}
      [] kind = "error"      -> {"r", "s", "a", "enter"}
      [] OTHER               -> {"y", "n", "enter"}
Keys == {"y", "n", "a", "d", "r", "s", "enter"}

Init ==
    /\ SessionInit
    /\ raw = TRUE /\ open = TRUE /\ flowing = TRUE /\ leftover = FALSE
    /\ queue = <<>> /\ typed = 0 /\ processing = FALSE /\ current = {} /\ started = <<>>
    /\ controller = "none" /\ pending = {} /\ asked = 0
    /\ process = "running" /\ tampers = 0

Going(what) == \E c \in current: c.kind = what
Alive == process = "running"

-----------------------------------------------------------------------------
(* The terminal.                                                           *)

Understand(key) == {q \in pending: key \in Accepted(q.kind)}

(* The listeners of all questions that understand the key: each is         *)
(* answered, and leaves raw mode.                                          *)
Heard(key) ==
    /\ pending' = pending \ Understand(key)
    /\ raw' = (raw /\ Understand(key) = {})
    /\ UNCHANGED <<controller, asked>>

(* A line ends: rl.on("line"), as long as readline listens.                *)
EnterLine ==
    IF open
    THEN /\ queue' = Append(queue, typed + 1) /\ typed' = typed + 1
         /\ processing' = TRUE /\ leftover' = FALSE
         /\ UNCHANGED <<current, started>>
    ELSE UNCHANGED <<lines, leftover>>

(* A person types a line.  In raw mode its keys, and Enter at last, answer *)
(* what they happen to answer; otherwise the line does if it is an answer. *)
TypeLine ==
    /\ Alive /\ flowing /\ typed < MaxLines
    /\ EnterLine
    /\ IF raw THEN Heard("enter")
       ELSE UNCHANGED <<raw, running>> \/ \E key \in Keys: Heard(key)
    /\ UNCHANGED <<sessionVars, open, flowing, process, tampers>>

(* A person presses a key, with no Enter, to answer.                       *)
PressKey(key) ==
    /\ Alive /\ flowing /\ raw /\ key # "enter" /\ Understand(key) # {}
    /\ Heard(key)
    /\ leftover' = (leftover \/ open)
    /\ UNCHANGED <<sessionVars, open, flowing, lines, process, tampers>>

(* rl.on("SIGINT"), or the signal itself.                                  *)
CtrlC ==
    /\ Alive /\ flowing
    /\ IF ~raw
       THEN process' = "killed" /\ UNCHANGED running
       ELSE /\ controller' = IF open /\ controller # "none" THEN "aborted" ELSE controller
            /\ UNCHANGED <<process, pending, asked>>
    /\ UNCHANGED <<sessionVars, terminal, lines, tampers>>

(* readline closes, by /exit or Ctrl+D on an empty line, and pauses stdin. *)
Close == open' = FALSE /\ flowing' = FALSE

CtrlD ==
    /\ Alive /\ open /\ flowing /\ ~leftover
    /\ Close /\ raw' = FALSE
    /\ UNCHANGED <<sessionVars, leftover, lines, running, process, tampers>>

(* The handler of "close" waits for what is being worked off.              *)
Exit ==
    /\ Alive /\ ~open /\ ~processing
    /\ process' = "exited"
    /\ UNCHANGED <<sessionVars, terminal, lines, running, tampers>>

-----------------------------------------------------------------------------
(* The lines.                                                              *)

(* Mutant: the latest line first.                                          *)
TakeLatest(kind) ==
    /\ Alive /\ processing /\ current = {} /\ queue # <<>>
    /\ current' = {[line |-> queue[Len(queue)], kind |-> kind]}
    /\ started' = Append(started, queue[Len(queue)])
    /\ queue' = SubSeq(queue, 1, Len(queue) - 1)
    /\ controller' = IF kind = "run" THEN "fresh" ELSE controller
    /\ asked' = 0
    /\ UNCHANGED <<sessionVars, terminal, typed, processing, pending, process, tampers>>

(* processQueue takes the next line: a command, or a prompt.  An           *)
(* orchestrated run leaves raw mode to listen to the person.               *)
Take(kind) ==
    /\ Alive /\ processing /\ current = {} /\ queue # <<>>
    /\ current' = {[line |-> Head(queue), kind |-> kind]}
    /\ started' = Append(started, Head(queue))
    /\ queue' = Tail(queue)
    /\ controller' = IF kind = "run" THEN "fresh" ELSE controller
    /\ asked' = 0
    /\ raw' = (raw /\ ~(kind = "run" /\ loaded.name \in Orchestrated))
    /\ flowing' = (flowing \/ (kind = "run" /\ loaded.name \in Orchestrated))
    /\ UNCHANGED <<sessionVars, open, leftover, typed, processing, pending, process, tampers>>

Over == current' = {} /\ UNCHANGED <<queue, typed, started>>

(* A slash command is over.                                                *)
Do ==
    /\ Alive /\ Going("command") /\ Over
    /\ Command
    /\ UNCHANGED <<terminal, processing, running, process, tampers>>

(* /exit: what is still in the queue is not looked at.                     *)
Quit ==
    /\ Alive /\ Going("command") /\ Over
    /\ Close /\ raw' = FALSE
    /\ processing' = FALSE
    /\ UNCHANGED <<sessionVars, leftover, running, process, tampers>>

(* A stage of the run asks; every question adds its own listener.          *)
AskOnTerminal(kind) ==
    /\ Alive /\ Going("run") /\ loaded # NoFile /\ asked < MaxQuestions
    /\ asked' = asked + 1
    /\ pending' = pending \cup {[kind |-> kind, number |-> asked]}
    /\ raw' = TRUE /\ flowing' = TRUE
    /\ UNCHANGED <<sessionVars, open, leftover, lines, controller, process, tampers>>

(* The run is over, also when it was cancelled.                            *)
RunEnds ==
    /\ Alive /\ Going("run") /\ pending = {} /\ Over
    /\ controller' = "none"
    /\ UNCHANGED <<sessionVars, terminal, processing, pending, asked, process, tampers>>

(* Mutant: processing stays set.                                           *)
IdleProcessing ==
    /\ Alive /\ processing /\ current = {} /\ queue = <<>>
    /\ UNCHANGED vars

(* The loop of processQueue ends.                                          *)
Idle ==
    /\ Alive /\ processing /\ current = {} /\ queue = <<>>
    /\ processing' = FALSE
    /\ UNCHANGED <<sessionVars, terminal, queue, typed, current, started, running, process, tampers>>

Disturb ==
    /\ tampers < MaxTampers /\ tampers' = tampers + 1
    /\ Tamper
    /\ UNCHANGED <<terminal, lines, running, process>>

Work ==
    \/ \E kind \in {"command", "run"}: Take(kind)
    \/ Do \/ Quit \/ RunEnds \/ Idle \/ Exit

Next ==
    \/ Work
    \/ TypeLine \/ CtrlC \/ CtrlD \/ \E key \in Keys: PressKey(key)
    \/ \E kind \in Kinds: AskOnTerminal(kind)
    \/ Disturb

(* Commands and runs go on, unless they wait for an answer; a person need  *)
(* not do anything.                                                        *)
Spec == Init /\ [][Next]_vars /\ WF_vars(Work)

-----------------------------------------------------------------------------
(* Properties.                                                             *)

(* Lines are worked off one at a time in the order they were typed, and    *)
(* none is left out while the session lasts, though they are typed while   *)
(* others are worked off and while questions wait.                         *)
LinesInTurn ==
    /\ Cardinality(current) <= 1
    /\ started \o queue = [i \in 1 .. typed |-> i]

(* A pipeline that was chosen by its name, or at the start, is no longer   *)
(* loaded when it has been removed in the session; whatever copy of the    *)
(* same name was removed, and in whichever directory one has worked since. *)
RemovedNotLoaded == byName /\ ~outside => loaded \in files

(* A session that is opened in the directory loads what is loaded in this  *)
(* one, if that was chosen by a name which still means the same file:      *)
(* "Active pipeline set via /pipeline switch <name>" comes first.          *)
NextSessionAgrees ==
    byName /\ ~outside /\ Resolve(dir, loaded.name) = {loaded} => Detect(dir) = {loaded}

(* The process ends when it is told to, unless a question of the run still *)
(* waits for an answer.                                                    *)
ExitsWhenClosed == ~open ~> (~Alive \/ pending # {})
=============================================================================
