---------------------------- MODULE PipelineDocument ----------------------------
(***************************************************************************)
(* A pipeline as a YAML document, what the parser accepts of it, and the   *)
(* graph the web editor makes of it and turns back into a document.        *)
(*                                                                         *)
(* A document is a mode and a sequence of stages, each with its name, the  *)
(* names it depends on and whether it is the orchestrator.  Providers,     *)
(* models and the other fields of a stage go through the editor unchanged  *)
(* and are left out.  A stage name is a base and the suffixes put to it.   *)
(***************************************************************************)
EXTENDS Naturals, FiniteSets, SequencesExt

Modes == {"sequential", "orchestrated"}
Document(mode, stages) == [mode |-> mode, stages |-> stages]
Stage(name, deps, lead) == [name |-> name, deps |-> deps, lead |-> lead]

(* The stages are the values of a map, in their order.                     *)
IsDocument(d) ==
    /\ d.mode \in Modes
    /\ Len(d.stages) \in Nat /\ DOMAIN d.stages = 1 .. Len(d.stages)
    /\ \A i, j \in DOMAIN d.stages: d.stages[i].name = d.stages[j].name => i = j

StageNames(d) == {d.stages[i].name: i \in DOMAIN d.stages}
Leads(d) == {i \in DOMAIN d.stages: d.stages[i].lead}
DepsOf(d, names) == UNION {d.stages[i].deps: i \in {j \in DOMAIN d.stages: d.stages[j].name \in names}}

---------------------------------------------------------------------------
(* The parser                                                              *)

(* A set of stages of which each waits for another one of the set.         *)
Circular(d) == \E S \in (SUBSET StageNames(d)) \ {{}}: \A s \in S: DepsOf(d, {s}) \cap S # {}

(* validateConfig *)
Accepts(d) ==
    /\ DepsOf(d, StageNames(d)) \subseteq StageNames(d)
    /\ d.mode = "orchestrated" => Cardinality(Leads(d)) = 1
    /\ d.mode = "sequential" => Leads(d) = {} /\ ~Circular(d)

---------------------------------------------------------------------------
(* The editor's graph: nodes by number, which is their order, and edges    *)
(* between the numbers.                                                    *)

NodeOf(stage) == [name |-> stage.name, kind |-> IF stage.lead THEN "orchestrator" ELSE "stage"]

(* createEditorState: a dependency on a stage that is not there is dropped. *)
CreateEditorState(d) ==
    [mode  |-> d.mode,
     nodes |-> [i \in DOMAIN d.stages |-> NodeOf(d.stages[i])],
     edges |-> {e \in (DOMAIN d.stages) \X (DOMAIN d.stages):
                   d.stages[e[1]].name \in d.stages[e[2]].deps}]

Dependencies(g, n) == {g.nodes[e[1]].name: e \in {f \in g.edges: f[2] = n}}

StageDoc(g, n) ==
    Stage(g.nodes[n].name,
          IF g.mode = "sequential" THEN Dependencies(g, n) ELSE {},
          g.mode = "orchestrated" /\ g.nodes[n].kind = "orchestrator")

(* serializeDraft: stages are keyed by name, so nodes of one name give one *)
(* stage, with the place of the first and the fields of the last.  In      *)
(* orchestrated mode the edges are left out, in sequential mode the role.  *)
SameName(g, n) == {m \in DOMAIN g.nodes: g.nodes[m].name = g.nodes[n].name}
Written(g) == {n \in DOMAIN g.nodes: \A m \in SameName(g, n): n <= m}
LastNamed(g, n) == CHOOSE m \in SameName(g, n): \A k \in SameName(g, n): k <= m

(* The stage at i comes after i - 1 others.                                *)
Preceding(ns, n) == {m \in ns: m < n}

Serialize(g) ==
    LET Nth(i) == CHOOSE n \in Written(g): Cardinality(Preceding(Written(g), n)) = i - 1
    IN Document(g.mode,
                [i \in 1 .. Cardinality(Written(g)) |-> StageDoc(g, LastNamed(g, Nth(i)))])

(* getLocalDraftError *)
LocalError(g) ==
    \/ g.nodes = <<>>
    \/ \E m, n \in DOMAIN g.nodes: m # n /\ g.nodes[m].name = g.nodes[n].name
    \/ g.mode = "orchestrated" /\ Cardinality({n \in DOMAIN g.nodes: g.nodes[n].kind = "orchestrator"}) # 1

---------------------------------------------------------------------------
(* What a person does to the graph                                         *)

NamesBut(g, n) == {g.nodes[m].name: m \in DOMAIN g.nodes \ {n}}

(* Mutant: every name is free.                                             *)
UniqueNameAnyway(base, taken) == base

(* uniqueStageName: the first of base, base-2, base-3, ... that is free.   *)
UniqueName(base, taken) ==
    IF base \notin taken THEN base
    ELSE Append(base, Min({k \in 2 .. Cardinality(taken) + 2: Append(base, k) \notin taken}))

(* A number nothing refers to; the editor draws a random one.              *)
FreshNode(g) == 1 + Max({0} \cup DOMAIN g.nodes \cup UNION {{e[1], e[2]}: e \in g.edges})

WithNode(g, n, node) == [g EXCEPT !.nodes = [m \in DOMAIN g.nodes \cup {n} |-> IF m = n THEN node ELSE g.nodes[m]]]

(* addStageNode; the first orchestrator makes the pipeline orchestrated.   *)
AddStage(g, kind) ==
    IF kind = "orchestrator" /\ \E n \in DOMAIN g.nodes: g.nodes[n].kind = kind THEN g
    ELSE LET more == WithNode(g, FreshNode(g), [name |-> UniqueName(<<kind>>, NamesBut(g, 0)), kind |-> kind])
         IN [more EXCEPT !.mode = IF kind = "orchestrator" THEN "orchestrated" ELSE g.mode]

(* The stage name field of the inspector, with ensureUniqueStageName.      *)
Rename(g, n, base) == [g EXCEPT !.nodes[n].name = UniqueName(base, NamesBut(g, n))]

(* onConnect *)
Connect(g, m, n) ==
    IF g.mode = "sequential" /\ m # n THEN [g EXCEPT !.edges = @ \cup {<<m, n>>}] ELSE g

(* deleteSelectedStage, and what React Flow does on Backspace.             *)
DeleteNode(g, n) ==
    [g EXCEPT !.nodes = [m \in DOMAIN g.nodes \ {n} |-> g.nodes[m]],
              !.edges = {e \in g.edges: n \notin {e[1], e[2]}}]

(* The effect of a change of mode: an orchestrated pipeline gets its first *)
(* stage for an orchestrator unless it has one, a sequential one has none. *)
ModeChanged(g, before) ==
    LET kinds == {g.nodes[n].kind: n \in DOMAIN g.nodes}
        first == Min(DOMAIN g.nodes)
        Kind(n) == IF g.mode = "sequential" THEN "stage"
                   ELSE IF "orchestrator" \notin kinds /\ n = first THEN "orchestrator" ELSE g.nodes[n].kind
    IN IF g.mode = before THEN g
       ELSE [g EXCEPT !.nodes = [n \in DOMAIN g.nodes |-> [g.nodes[n] EXCEPT !.kind = Kind(n)]]]

(* Two graphs that differ in their numbers only; edges count only where    *)
(* they are written.                                                       *)
Shape(g) ==
    [mode |-> g.mode, nodes |-> {g.nodes[n]: n \in DOMAIN g.nodes}, size |-> Cardinality(DOMAIN g.nodes),
     edges |-> IF g.mode = "orchestrated" THEN {}
               ELSE {<<g.nodes[e[1]].name, g.nodes[e[2]].name>>: e \in g.edges}]
===============================================================================
