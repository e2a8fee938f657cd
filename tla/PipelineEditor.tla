----------------------------- MODULE PipelineEditor -----------------------------
(***************************************************************************)
(* The pipeline editor of the web front end on top of the library: a page  *)
(* loads a pipeline, a person edits its graph, and the page validates,     *)
(* saves, copies and runs it.  Requests overtake each other, and the page  *)
(* does not ask whether an answer is still wanted.                         *)
(***************************************************************************)
EXTENDS PipelineLibrary

CONSTANTS
    Bases,       \* names a person gives to a stage
    MeddleTexts, \* what others write
    MaxEdits,    \* edits, a bound of the model only
    MaxInFlight  \* requests on their way, a bound of the model only

ASSUME EditorAssumption ==
    /\ "list" \notin Paths /\ "none" \notin Paths
    /\ \A base \in Bases: base \in Seq({base[i]: i \in DOMAIN base})
    /\ \A text \in MeddleTexts: IsDocument(text.doc)
    /\ MaxEdits \in Nat /\ MaxInFlight \in Nat

VARIABLES
    route,      \* the address: a path of a pipeline, or "list"
    entry,      \* the pipeline the editor holds, or "none"
    draft,      \* its graph, or NoDraft
    lastSaved,  \* lastSavedYamlRef
    valid,      \* validation.ok
    timer,      \* whether a validation is about to be sent
    checking,   \* documents sent for validation and not answered yet
    wire,       \* the other requests, until their answers are handled
    edits,
    (* History *)
    muddled,    \* requests overtook each other or crossed with clicks
    hasty       \* an answer of the validation was about an earlier draft, or Save As did not wait for it

instance == <<entry, draft, lastSaved, valid, timer, checking>>
editorVars == <<library, route, instance, wire, edits, muddled, hasty>>

(* STARTER_YAML *)
Starter == Document("sequential", <<Stage(<<"echo">>, {}, FALSE)>>)

NoDraft == [mode |-> "none"]
Yaml == Text(Serialize(draft))
Dirty == draft # NoDraft /\ Yaml # lastSaved
Busy(kinds) == \E i \in DOMAIN wire: wire[i].mine /\ wire[i].kind \in kinds
Saving == Busy({"save", "saveAs"})
RunBusy == Busy({"saveForRun", "run"})
Turning == entry # route \/ Busy({"load"})
Request(kind, p, text) == [kind |-> kind, path |-> p, text |-> text, step |-> "sent", mine |-> TRUE]
Room == Len(wire) + Len(checking) < MaxInFlight
Send(request) == Room /\ wire' = Append(wire, request)

NoInstance ==
    /\ entry' = "none" /\ draft' = NoDraft /\ lastSaved' = Absent
    /\ valid' = FALSE /\ timer' = FALSE /\ checking' = <<>>

EditorInit ==
    /\ LibraryInit
    /\ route = "list" /\ entry = "none" /\ draft = NoDraft /\ lastSaved = Absent
    /\ valid = FALSE /\ timer = FALSE /\ checking = <<>>
    /\ wire = <<>> /\ edits = 0 /\ muddled = FALSE /\ hasty = FALSE

---------------------------------------------------------------------------
(* Navigation.  From one pipeline to another the editor is the same        *)
(* instance; it loads and shows the old one until the answer comes.        *)

OpenPipeline(p) ==
    /\ route # p /\ Room
    /\ route' = p
    /\ wire' = Append(wire, Request("load", p, Absent))
    /\ IF route = "list" THEN NoInstance ELSE UNCHANGED instance
    /\ UNCHANGED <<library, edits, muddled, hasty>>

(* Away from the editor: what it has asked for goes on without it.         *)
Leave ==
    /\ route # "list" /\ route' = "list"
    /\ NoInstance
    /\ wire' = [i \in DOMAIN wire |-> [wire[i] EXCEPT !.mine = FALSE]]
    /\ UNCHANGED <<library, edits, muddled, hasty>>

---------------------------------------------------------------------------
(* The graph and its validation                                            *)

(* The graph is replaced, and the effects of that follow: the mode is seen  *)
(* to, and the graph is found wrong or is to be validated.  It is looked    *)
(* at once before the mode is seen to.                                      *)
Display(g, ok) ==
    LET settled == ModeChanged(g, draft.mode) IN
    /\ draft' = settled
    /\ valid' = (ok /\ ~LocalError(g) /\ ~LocalError(settled))
    /\ timer' = ~LocalError(settled)

(* Stages are added, renamed and deleted, edges drawn and deleted, the     *)
(* mode is changed.                                                        *)
EditsOf(g) ==
    LET nodes == DOMAIN g.nodes IN
    UNION {{AddStage(g, kind): kind \in {"stage", "orchestrator"}},
           {Rename(g, x[1], x[2]): x \in nodes \X Bases},
           {DeleteNode(g, n): n \in nodes},
           {Connect(g, x[1], x[2]): x \in nodes \X nodes},
           {[g EXCEPT !.edges = @ \ {e}]: e \in g.edges},
           {[g EXCEPT !.mode = mode]: mode \in Modes}}

Edit ==
    /\ draft # NoDraft /\ edits < MaxEdits /\ edits' = edits + 1
    /\ \E g \in EditsOf(draft) \ {draft}:
          IF Serialize(g) = Serialize(draft) THEN draft' = g /\ UNCHANGED <<valid, timer>>
          ELSE Display(g, valid)
    /\ UNCHANGED <<library, route, entry, lastSaved, checking, wire, muddled, hasty>>

TimerFires ==
    /\ timer /\ Room
    /\ timer' = FALSE
    /\ checking' = Append(checking, Serialize(draft))
    /\ UNCHANGED <<library, route, entry, draft, lastSaved, valid, wire, edits, muddled, hasty>>

(* An answer counts when it comes, whatever the draft is by then.          *)
ValidationAnswers(i) ==
    /\ valid' = Accepts(checking[i])
    /\ checking' = RemoveAt(checking, i)
    /\ muddled' = (muddled \/ i # 1)
    /\ hasty' = (hasty \/ draft = NoDraft \/ checking[i] # Serialize(draft))
    /\ UNCHANGED <<library, route, entry, draft, lastSaved, timer, wire, edits>>

---------------------------------------------------------------------------
(* Saving, copying, running, deleting                                      *)

Editing == draft # NoDraft /\ entry # "none"

(* "Save" is open unless one is going on, "Run" unless a run is; neither   *)
(* waits for the other, and both are about the pipeline on display.        *)
Save ==
    /\ Editing /\ ~Saving /\ Dirty /\ valid
    /\ Send(Request("save", entry, Yaml))
    /\ muddled' = (muddled \/ Turning \/ RunBusy)
    /\ UNCHANGED <<library, route, instance, edits, hasty>>

SaveAs(p) ==
    /\ Editing /\ ~Saving /\ valid
    /\ Send(Request("saveAs", p, Yaml))
    /\ muddled' = (muddled \/ Turning \/ RunBusy)
    /\ hasty' = (hasty \/ timer \/ checking # <<>>)
    /\ UNCHANGED <<library, route, instance, edits>>

(* Mutant: what is in the file is run.                                     *)
RunKindUnsaved == "run"

RunKind == IF Dirty THEN "saveForRun" ELSE "run"

Run ==
    /\ Editing /\ ~RunBusy /\ valid
    /\ Send(Request(RunKind, entry, Yaml))
    /\ muddled' = (muddled \/ Turning \/ Saving)
    /\ UNCHANGED <<library, route, instance, edits, hasty>>

(* The list pages: "Delete", "Run" and the new pipeline of a given text.   *)
DeletePipeline(p) == p \in index /\ Send(Request("delete", p, Absent))
RunFromList(p) == p \in index /\ Send(Request("run", p, Absent))
CreatePipeline(p) == Send([Request("saveAs", p, Text(Starter)) EXCEPT !.mine = FALSE])

OnList(p) ==
    /\ route = "list"
    /\ DeletePipeline(p) \/ RunFromList(p) \/ CreatePipeline(p)
    /\ UNCHANGED <<library, route, instance, edits, muddled, hasty>>

Answered(i, ok) == wire' = [wire EXCEPT ![i].step = IF ok THEN "ok" ELSE "error"]
Overtakes(i) == muddled' = (muddled \/ i # 1)

(* The server takes a request up.  A load, a run and a deletion are        *)
(* answered in one step; what writes a file waits for its body between the *)
(* lookup and the rest.                                                    *)
Begin(i) ==
    LET r == wire[i]
        known == IF r.kind = "saveAs" THEN Reachable(r.path) ELSE Known(r.path)
    IN
    /\ r.step = "sent"
    /\ CASE r.kind = "load" -> /\ wire' = [wire EXCEPT ![i].text = texts[r.path],
                                                        ![i].step = IF Loads(r.path) THEN "ok" ELSE "error"]
                               /\ UNCHANGED library
         [] r.kind = "run" -> Answered(i, Runs(r.path)) /\ UNCHANGED library
         [] r.kind = "delete" -> /\ wire' = RemoveAt(wire, i)
                                 /\ IF known THEN Delete(r.path) ELSE UNCHANGED library
         [] OTHER -> /\ wire' = [wire EXCEPT ![i].step = IF known THEN "begun" ELSE "error"]
                     /\ UNCHANGED library
    /\ Overtakes(i)
    /\ UNCHANGED <<route, instance, edits, hasty>>

Finish(i) ==
    LET r == wire[i] IN
    /\ r.step = "begun"
    /\ \E ok \in BOOLEAN:
          /\ IF r.kind = "saveAs" THEN Post(r.path, r.text, ok) ELSE FinishSave(r.path, r.text, ok)
          /\ Answered(i, ok)
    /\ Overtakes(i)
    /\ UNCHANGED <<route, instance, edits, hasty>>

(* Mutant: what is on display when the answer comes counts as saved.       *)
SavedTextNow(r) == Yaml

SavedText(r) == r.text

(* The answers.  A load replaces what is on display, whichever pipeline it *)
(* is of.                                                                  *)
LoadAnswered(r, others) ==
    /\ entry' = r.path /\ lastSaved' = r.text
    /\ Display(CreateEditorState(r.text.doc), TRUE)
    /\ wire' = others /\ UNCHANGED <<route, checking>>

SaveAnswered(r, others) ==
    /\ lastSaved' = SavedText(r)
    /\ wire' = others
    /\ UNCHANGED <<route, entry, draft, valid, timer, checking>>

(* A copy that was made is opened, wherever the page is by then.           *)
SaveAsAnswered(r, others) ==
    /\ lastSaved' = IF r.mine THEN SavedText(r) ELSE lastSaved
    /\ route' = r.path
    /\ wire' = others \o IF r.path = route THEN <<>> ELSE <<Request("load", r.path, Absent)>>
    /\ UNCHANGED <<entry, draft, valid, timer, checking>>

(* A run goes on from its save, behind what was asked for since then, the  *)
(* new pipeline of its name too.                                           *)
Late(r, others) == \E j \in DOMAIN others: others[j].kind = "saveAs" /\ others[j].path = r.path

RunSaved(r, others) ==
    /\ lastSaved' = IF r.mine THEN SavedText(r) ELSE lastSaved
    /\ wire' = Append(others, [r EXCEPT !.kind = "run", !.step = "sent"])
    /\ UNCHANGED <<route, entry, draft, valid, timer, checking>>

Handle(i) ==
    LET r == wire[i]
        others == RemoveAt(wire, i)
    IN
    /\ r.step \in {"ok", "error"}
    /\ IF r.step = "error" \/ r.kind = "run" \/ (r.kind \in {"load", "save"} /\ ~r.mine)
       THEN wire' = others /\ UNCHANGED <<route, instance>>
       ELSE \/ r.kind = "load" /\ LoadAnswered(r, others)
            \/ r.kind = "save" /\ SaveAnswered(r, others)
            \/ r.kind = "saveAs" /\ SaveAsAnswered(r, others)
            \/ r.kind = "saveForRun" /\ RunSaved(r, others)
    /\ muddled' = (muddled \/ i # 1 \/ (r.kind = "saveForRun" /\ Late(r, others)))
    /\ UNCHANGED <<library, edits, hasty>>

Others ==
    /\ \/ List \/ RegisterProject \/ UnregisterProject
       \/ \E p \in Paths, text \in MeddleTexts: Meddle(p, text)
    /\ UNCHANGED <<route, instance, wire, edits, muddled, hasty>>

EditorNext ==
    \/ \E p \in Paths: OpenPipeline(p) \/ SaveAs(p) \/ OnList(p)
    \/ Leave \/ Edit \/ TimerFires \/ Save \/ Run \/ Others
    \/ \E i \in DOMAIN checking: ValidationAnswers(i)
    \/ \E i \in DOMAIN wire: Begin(i) \/ Finish(i) \/ Handle(i)

EditorSpec == EditorInit /\ [][EditorNext]_editorVars

---------------------------------------------------------------------------
(* Properties                                                              *)

(* When everything is answered and the editor shows no unsaved changes, the *)
(* file holds what the graph shows (unless somebody else has written it).  *)
SavedIsShown ==
    (wire = <<>> /\ Editing /\ entry = route /\ ~Dirty /\ ~muddled /\ entry \notin foreign)
        => texts[entry] = Yaml

(* Save, leave and come back: the graph that the editor makes of its own   *)
(* YAML is the graph it was made from, whatever was edited.                *)
ReopensTheSame ==
    draft # NoDraft => Shape(CreateEditorState(Serialize(draft))) = Shape(draft)

(* What the editor has written can be opened and run, provided that the     *)
(* person waits for the validation before going on.                        *)
SavedPipelinesOpen ==
    (~hasty /\ ~muddled) => \A p \in Paths \ foreign: Exists(p) => Accepts(texts[p].doc)

(* A run executes what was on display when it was asked for.               *)
RunsWhatIsShown ==
    [][\A i \in DOMAIN wire:
         (/\ wire[i].kind = "run" /\ wire[i].step = "sent"
          /\ Len(wire') = Len(wire) /\ wire'[i].step = "ok"
          /\ wire[i].text # Absent /\ ~muddled' /\ wire[i].path \notin foreign)
            => texts[wire[i].path] = wire[i].text]_editorVars
================================================================================
