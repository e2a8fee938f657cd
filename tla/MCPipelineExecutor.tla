------------------------ MODULE MCPipelineExecutor ------------------------
(***************************************************************************)
(* Small instances of PipelineExecutor for TLC.                            *)
(***************************************************************************)
EXTENDS PipelineExecutor, ContextAccess, TLC

CONSTANTS a, b, c, prompt, note

MCStages == {a, b, c}
MCExtraKeys == {prompt, note}

None == [s \in MCStages |-> {}]
Edge == c :> {a} @@ None
Fork == b :> {a} @@ c :> {a} @@ None
Join == c :> {a, b} @@ None
Chain == b :> {a} @@ c :> {b} @@ None
Triangle == b :> {a} @@ c :> {a, b} @@ None

(* Every graph over the three stages and one unknown name that no run can  *)
(* follow, together with the acyclic graphs that have an edge, up to        *)
(* renaming.                                                               *)
AllGraphs == [MCStages -> SUBSET (MCStages \cup {note})]
IllFormed(g) ==
    \/ \E s \in MCStages : note \in g[s]
    \/ \E C \in SUBSET MCStages : C # {} /\ \A s \in C : g[s] \cap C # {}
MCGraphs == {g \in AllGraphs : IllFormed(g)} \cup {Edge, Fork, Join, Chain, Triangle}

OneRetry == a :> 1 @@ b :> 0 @@ c :> 1
OneFallback == b :> 1 @@ a :> 0 @@ c :> 0
InjectNote == a :> note @@ b :> NoKey @@ c :> NoKey
ZeroOne == {0, 1}
OnlyNote == {note}
OnlyB == {b}

(* A database no run has used, and one that a run of the same pipeline has *)
(* left behind.                                                            *)
All(x) == [k \in MCStages \cup MCExtraKeys |-> x]
Unused == [entries |-> All("none"), snapshots |-> [s \in MCStages |-> NoSnap]]
Used == [entries |-> All("old"), snapshots |-> [s \in MCStages |-> All("old")]]
MCDatabases == {Unused, Used}

(* context.write of each stage, and the stages it lets write their output. *)
WritePatterns ==
    a :> {<<a, "*">>} @@ b :> {<<"summary">>, <<"**", "output">>} @@ c :> {<<"*">>}
MCMayWrite == {s \in MCStages : Allowed(WritePatterns[s], <<s, "output">>)}

(* matchGlob does what it promises, for short patterns and keys.           *)
UpTo3(S) == UNION {[1 .. n -> S] : n \in 1 .. 3}
ASSUME GlobsMatch ==
    \A pattern \in UpTo3({"plan", "output", "*", "**"}), key \in UpTo3({"plan", "output"}) :
        MatchGlob(pattern, key) = Matches(pattern, key)
=============================================================================
