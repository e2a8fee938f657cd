----------------------------- MODULE Permissions -----------------------------
(***************************************************************************)
(* Human consent for tool calls: the permission engine of every run, its   *)
(* gates, and the rules file ~/.openthk/permissions.json that all runs of  *)
(* all processes (the UI server, a command line) share.                    *)
(*                                                                         *)
(* A process does not wait between the statements of a handler, so it does *)
(* nothing else while it changes the file; another process may come in     *)
(* between: reading and writing the file are steps, and writeFileSync      *)
(* truncates the file first.                                               *)
(***************************************************************************)
EXTENDS Naturals, Sequences, FiniteSets, SequencesExt

CONSTANTS
    Callers,   \* stages of the server's runs, each calls one tool after the other
    Mode,      \* [Callers -> permission mode of that run's pipeline]
    ToolCalls, \* what they call: [tool, subject, outside, destructive, harmless]
    TypedTools, \* the tools ("*" for all) and
    Patterns,  \* the patterns a person types into the rules page
    Globbed,   \* [Patterns -> the subjects a glob among them matches]
    MaxCalls,  \* [Callers -> number of its calls], a bound of the model only
    MaxEdits   \* changes a person makes to the rules, likewise

Processes == {"server", "cli"}

ASSUME PermissionsAssumption ==
    /\ Mode \in [Callers -> {"auto", "sandbox", "confirm", "strict"}]
    /\ Globbed \in [Patterns -> SUBSET {k.subject: k \in ToolCalls}]
    /\ MaxCalls \in [Callers -> Nat] /\ MaxEdits \in Nat

VARIABLES
    file,      \* permissions.json, or what is left of it
    writing,   \* [Processes -> the rules about to be saved, or NoWrite]
    phase,     \* [Callers -> "idle", "asking", or what was decided: "allow", "deny"]
    call,      \* [Callers -> the call being decided]
    count,     \* [Callers -> number of calls so far]
    gates,     \* the pending maps of all engines, in the order of insertion
    edits,
    (* History, for the properties. *)
    decided,   \* the rules the persons have decided on
    raced      \* two processes have changed the file at once

file_   == <<file, writing, decided, raced>>
engine  == <<phase, call, count, gates>>
permVars == <<file_, engine, edits>>

Text(rules) == [parses |-> TRUE, rules |-> rules]
Garbled == [parses |-> FALSE, rules |-> <<>>]
NoWrite == [step |-> "none", rules |-> <<>>]
NoCall  == [tool |-> "none", subject |-> "", outside |-> FALSE, destructive |-> FALSE, harmless |-> FALSE]
Unanswered == [action |-> "none", remember |-> FALSE]
Responses  == [action: {"allow", "deny"}, remember: BOOLEAN]

Rule(tool, pattern, action) == [tool |-> tool, pattern |-> pattern, action |-> action]

(* A process is between two of its handlers.                               *)
Free(p) == writing[p].step = "none"

-----------------------------------------------------------------------------
(* The risk classifier and the rules.                                      *)

ReadTools == {"read_file", "list_files", "search_files", "get_context"}

Risk(k) ==
    CASE k.tool \in ReadTools     -> "safe"
      [] k.tool = "write_file"    -> IF k.outside THEN "dangerous" ELSE "moderate"
      [] k.tool = "run_command"   -> IF k.destructive THEN "dangerous"
                                     ELSE IF k.harmless THEN "safe" ELSE "moderate"
      [] OTHER                    -> "moderate"

Matches(pattern, subject) ==
    \/ pattern = subject
    \/ pattern \in {"*", "**"}
    \/ pattern \in Patterns /\ subject \in Globbed[pattern]

(* loadFile: a file that does not parse has no rules.                      *)
Loaded == file.rules

Covers(r, k) == r.tool \in {k.tool, "*"} /\ Matches(r.pattern, k.subject)

RulesFor(k) == {i \in DOMAIN Loaded: Covers(Loaded[i], k)}

(* Mutant: the first rule that matches wins.                               *)
FindRuleForward(k) == IF RulesFor(k) = {} THEN "none" ELSE Loaded[Min(RulesFor(k))].action

(* findRule: the last one that matches wins.                               *)
FindRule(k) == IF RulesFor(k) = {} THEN "none" ELSE Loaded[Max(RulesFor(k))].action

Before(places, i) == {j \in places: j < i}

(* rules.filter: the rules at some places, in their order; a rule comes    *)
(* after as many as precede it.                                            *)
Keeping(rules, places) ==
    [n \in 1 .. Cardinality(places) |->
        rules[CHOOSE i \in places: Cardinality(Before(places, i)) = n - 1]]

(* Mutant: every rule of the tool is replaced.                             *)
WithRuleForTool(rules, r) ==
    Append(Keeping(rules, {i \in DOMAIN rules: rules[i].tool # r.tool}), r)

WithRule(rules, r) ==
    Append(Keeping(rules, {i \in DOMAIN rules: ~(rules[i].tool = r.tool /\ rules[i].pattern = r.pattern)}), r)

(* Without a pattern every rule of the tool goes.                          *)
WithoutRule(rules, tool, pattern) ==
    Keeping(rules, {i \in DOMAIN rules: rules[i].tool # tool \/ (pattern # "" /\ rules[i].pattern # pattern)})

-----------------------------------------------------------------------------
(* The rules file.                                                         *)

(* addRule, removeRule and clearRules read the file and change what they   *)
(* read ...                                                                *)
Change(p, new, wanted) ==
    /\ writing' = [writing EXCEPT ![p] = [step |-> "read", rules |-> new]]
    /\ decided' = wanted
    /\ raced' = (raced \/ \E q \in Processes: ~Free(q))
    /\ UNCHANGED file

(* ... then truncate it ...                                                *)
Truncate(p) ==
    /\ writing[p].step = "read"
    /\ file' = Garbled
    /\ writing' = [writing EXCEPT ![p].step = "truncated"]
    /\ UNCHANGED <<decided, raced, engine, edits>>

(* ... and write it; when another process has written meanwhile, the text  *)
(* of the two may be mixed.                                                *)
Write(p) ==
    /\ writing[p].step = "truncated"
    /\ \/ file' = Text(writing[p].rules)
       \/ file # Garbled /\ file' = Garbled
    /\ writing' = [writing EXCEPT ![p] = NoWrite]
    /\ UNCHANGED <<decided, raced, engine, edits>>

Decides(r) == {q \in decided: ~(q.tool = r.tool /\ q.pattern = r.pattern)} \cup {r}

AddRule(p, r) == Change(p, WithRule(Loaded, r), Decides(r))

(* The other uses of the file.  A person types a rule into the rules page, *)
(* or removes rules there or with /permissions; the engine of a command    *)
(* line remembers an answer given in the terminal.                         *)
Edit(p) ==
    /\ Free(p) /\ edits < MaxEdits /\ edits' = edits + 1
    /\ \/ \E t \in TypedTools, pt \in Patterns, a \in {"allow", "deny"}:
             p = "server" /\ AddRule(p, Rule(t, pt, a))
       \/ \E k \in ToolCalls, a \in {"allow", "deny"}:
             p = "cli" /\ AddRule(p, Rule(k.tool, k.subject, a))
       \/ \E t \in {r.tool: r \in ToSet(Loaded)}, pt \in {""} \cup {r.pattern: r \in ToSet(Loaded)}:
             Change(p, WithoutRule(Loaded, t, pt),
                    {q \in decided: q.tool # t \/ (pt # "" /\ q.pattern # pt)})
       \/ Change(p, <<>>, {})
    /\ UNCHANGED engine

-----------------------------------------------------------------------------
(* The engine.                                                             *)

Id(c) == <<c, count[c]>>

Gate(c) == CHOOSE i \in DOMAIN gates: gates[i].id = Id(c)

Decide(c, k) ==
    IF Mode[c] \in {"auto", "sandbox"} THEN "allow"
    ELSE IF FindRule(k) # "none" THEN FindRule(k)
    ELSE IF Mode[c] = "confirm" /\ Risk(k) = "safe" THEN "allow"
    ELSE "ask"

(* A tool is called: check, up to its first wait.                          *)
Check(c, k) ==
    /\ Free("server") /\ phase[c] = "idle" /\ count[c] < MaxCalls[c]
    /\ call' = [call EXCEPT ![c] = k]
    /\ count' = [count EXCEPT ![c] = @ + 1]
    /\ IF Decide(c, k) = "ask"
       THEN /\ phase' = [phase EXCEPT ![c] = "asking"]
            /\ gates' = Append(gates, [id |-> <<c, count[c] + 1>>, answer |-> Unanswered])
       ELSE /\ phase' = [phase EXCEPT ![c] = Decide(c, k)]
            /\ UNCHANGED gates
    /\ UNCHANGED <<file_, edits>>

Pending(id) == \E i \in DOMAIN gates: gates[i].id = id

(* confirmations().resolve: a promise keeps its first answer.              *)
Resolve(id, response) ==
    /\ gates' = [i \in DOMAIN gates |->
                    IF gates[i].id = id /\ gates[i].answer = Unanswered
                    THEN [gates[i] EXCEPT !.answer = response] ELSE gates[i]]
    /\ UNCHANGED <<phase, call, count, file_, edits>>

(* Mutant: the gate stays in the map.                                      *)
WakeKeepsGate(c) ==
    /\ Free("server") /\ phase[c] = "asking"
    /\ LET answer == gates[Gate(c)].answer IN
       /\ answer # Unanswered
       /\ phase' = [phase EXCEPT ![c] = answer.action]
       /\ UNCHANGED gates
       /\ IF answer.remember
          THEN AddRule("server", Rule(call[c].tool, call[c].subject, answer.action))
          ELSE UNCHANGED file_
    /\ UNCHANGED <<call, count, edits>>

(* The rest of check, in the microtasks after the answer: the gate leaves  *)
(* the map, the rule is remembered.                                        *)
Wake(c) ==
    /\ Free("server") /\ phase[c] = "asking"
    /\ LET answer == gates[Gate(c)].answer IN
       /\ answer # Unanswered
       /\ phase' = [phase EXCEPT ![c] = answer.action]
       /\ gates' = RemoveAt(gates, Gate(c))
       /\ IF answer.remember
          THEN AddRule("server", Rule(call[c].tool, call[c].subject, answer.action))
          ELSE UNCHANGED file_
    /\ UNCHANGED <<call, count, edits>>

(* The tool is executed, or its refusal returned to the model.             *)
Finish(c) ==
    /\ Free("server") /\ phase[c] \in {"allow", "deny"}
    /\ phase' = [phase EXCEPT ![c] = "idle"]
    /\ call' = [call EXCEPT ![c] = NoCall]
    /\ UNCHANGED <<count, gates, file_, edits>>

PermInit ==
    /\ file = Text(<<>>) /\ writing = [p \in Processes |-> NoWrite]
    /\ phase = [c \in Callers |-> "idle"] /\ call = [c \in Callers |-> NoCall]
    /\ count = [c \in Callers |-> 0] /\ gates = <<>> /\ edits = 0
    /\ decided = {} /\ raced = FALSE

PermStep ==
    \/ \E p \in Processes: Truncate(p) \/ Write(p) \/ Edit(p)
    \/ \E c \in Callers: Wake(c) \/ Finish(c) \/ \E k \in ToolCalls: Check(c, k)

(* What the engines and processes go on with by themselves.                *)
PermProgress ==
    \/ \E p \in Processes: Truncate(p) \/ Write(p)
    \/ \E c \in Callers: Wake(c) \/ Finish(c)
=============================================================================
