-------------------------------- MODULE Skills --------------------------------
(***************************************************************************)
(* The skills of one project and of the user: the directories they are in, *)
(* the server that lists, creates, reads, saves and deletes them, the      *)
(* windows in which persons do so (SkillManager with its two dialogs), and *)
(* what a stage that names a skill gets.  Replies reach a window late, in  *)
(* any order, or not at all.  The server's handlers do not wait, but a     *)
(* stage, in another process, looks at the files one after the other, also *)
(* between two changes of one handler, and a handler may fail there.       *)
(***************************************************************************)
EXTENDS Naturals, Sequences

CONSTANTS
    Skills,      \* namespace/name, as directories have it
    NoSkill,
    Namespace,   \* [Skills -> namespaces]
    Spellings,   \* what persons type for a new skill
    Normalized,  \* [Spellings -> Skills, or NoSkill for one that is refused]
    BuiltIn,     \* the skills in the built-in directory
    Named,       \* the skills that stages name
    ByHand,      \* documents that may be there at first
    InitialFiles, \* what the directories may hold at first
    Windows,
    Typed,       \* [Windows -> the documents that a person types in it]
    ScopeOf,     \* [Windows -> Scopes]: a project's page or the global one
    MaxClicks    \* [Windows -> its persons' requests], a bound of the model only

Scopes == {"project", "global"}
NoFile == "absent"
Blank  == ""

ASSUME SkillsAssumption ==
    /\ NoSkill \notin Skills /\ BuiltIn \subseteq Skills /\ Named \subseteq Skills
    /\ Normalized \in [Spellings -> Skills \cup {NoSkill}]
    /\ ScopeOf \in [Windows -> Scopes] /\ MaxClicks \in [Windows -> Nat]
    /\ InitialFiles \subseteq [Scopes \X Skills -> ByHand]
    /\ \A d \in ByHand \cup (UNION {Typed[w]: w \in Windows}):
          d = [prompt |-> d.prompt, manifest |-> d.manifest]

VARIABLES
    files,       \* [Scopes \X Skills -> document]
    writing,     \* what a create, save or delete has still to do
    load,        \* how far a stage has got that loads a skill
    net,         \* [Windows -> requests and replies]
    shown,       \* [Windows -> the skills listed]
    stale,       \* the windows that have asked for a new list
    form,        \* the windows with the dialog for a new skill
    editor,      \* [Windows -> the skill in the other dialog, or NoSkill]
    fields,      \* [Windows -> the document in it]
    clicks,      \* [Windows -> number of those requests]
    loading, failed,  \* the windows in which it is loading; in which it shows an error
    (* History. *)
    source,      \* [Windows -> the skill that the fields were read from]
    crossed,     \* the windows whose dialog waits, or waited, for two documents
    torn         \* the documents with pieces that a handler left when it failed

server == <<files, writing, load, torn>>
dialog == <<editor, fields, loading, failed, source, crossed>>
page   == <<shown, stale, form, dialog, clicks>>
skillVars == <<server, net, page>>

Document(prompt, manifest) == [prompt |-> prompt, manifest |-> manifest]

Nothing == Document(NoFile, NoFile)
Default == Document("default prompt", "default tools")
Shipped == Document("shipped prompt", "shipped tools")

(* readSkillDocument: a file that is not there reads as an empty one.      *)
AsRead(d) == [f \in DOMAIN d |-> IF d[f] = NoFile THEN Blank ELSE d[f]]

Empty == AsRead(Nothing)

Message(op, s, d) == [op |-> op, skill |-> s, doc |-> d, at |-> "sent", live |-> TRUE]

Parts == DOMAIN Nothing

Idle == [window |-> "none", skill |-> NoSkill, doc |-> Nothing, left |-> {}]

Free == writing = Idle

(* The document that a create, save or delete is changing.                 *)
Half == <<ScopeOf[writing.window], writing.skill>>

LeftWhole ==
    LET left == ByHand \cup (UNION {Typed[w]: w \in Windows}) \cup {Default, Shipped, Nothing}
    IN left \cup {AsRead(d): d \in left}

(* A stage at one of the directories, which it looks through in this order.*)
Roots == <<"project", "global", "built-in">>

At(root, s, spoilt) ==
    [skill |-> s, root |-> root, at |-> "prompt?", prompt |-> NoFile, manifest |-> NoFile,
     spoilt |-> spoilt]

NoLoad == [At(1, NoSkill, FALSE) EXCEPT !.at = "done"]

SkillsInit ==
    /\ files \in InitialFiles
    /\ writing = Idle /\ load = NoLoad /\ torn = {}
    /\ net = [w \in Windows |-> {}]
    /\ shown = [w \in Windows |-> {s \in Skills: files[<<ScopeOf[w], s>>] # Nothing}]
    /\ stale = {} /\ form = {} /\ clicks = [w \in Windows |-> 0]
    /\ editor = [w \in Windows |-> NoSkill]
    /\ fields = [w \in Windows |-> Empty] /\ loading = {} /\ failed = {}
    /\ source = [w \in Windows |-> NoSkill] /\ crossed = {}

-----------------------------------------------------------------------------
(* What a stage gets.                                                      *)

(* The tools that a manifest declares; one that cannot be parsed counts as *)
(* one that declares nothing.                                              *)
Declared(manifest) ==
    IF manifest \in {NoFile, Blank, "malformed"} THEN "undeclared" ELSE manifest

Given(d) == [prompt |-> d.prompt, tools |-> Declared(d.manifest)]

InRoot(root, s) ==
    IF root = "built-in" THEN IF s \in BuiltIn THEN Shipped ELSE Nothing
    ELSE files[<<root, s>>]

(* Where the stage looks now.                                              *)
Here == <<Roots[load.root], load.skill>>

(* The stage comes to a directory; history: the document there is being    *)
(* written, or a handler has failed there.                                 *)
Enter(root, s) ==
    LET x == <<Roots[root], s>>
    IN load' = At(root, s, x \in torn \/ (~Free /\ x = Half))

(* Mutant: each file is looked for in all the directories.                 *)
FileAnywhere(f) ==
    LET has == {i \in DOMAIN Roots: InRoot(Roots[i], load.skill)[f] # NoFile}
    IN IF has = {} THEN NoFile
       ELSE InRoot(Roots[CHOOSE i \in has: \A j \in has: i <= j], load.skill)[f]

FileHere(f) == InRoot(Roots[load.root], load.skill)[f]

(* loadSkillDefinition: the first directory that has one of the files, and *)
(* then these, each one looked for and read at a time of its own.  (One    *)
(* that goes between the two fails the stage, which is as if it had not    *)
(* asked.)                                                                 *)
LoadSkill(s) == load.at = "done" /\ Enter(1, s)

LoadStep ==
    \/ /\ load.at = "prompt?"
       /\ load' = [load EXCEPT !.at =
              IF InRoot(Roots[load.root], load.skill).prompt # NoFile THEN "prompt" ELSE "manifest?"]
    \/ /\ load.at = "manifest?"
       /\ IF InRoot(Roots[load.root], load.skill).manifest # NoFile
          THEN load' = [load EXCEPT !.at = "prompt"]
          ELSE IF load.root < Len(Roots) THEN Enter(load.root + 1, load.skill)
          ELSE load' = [load EXCEPT !.at = "done"]
    \/ load.at = "prompt" /\ load' = [load EXCEPT !.prompt = FileHere("prompt"), !.at = "manifest"]
    \/ load.at = "manifest" /\ load' = [load EXCEPT !.manifest = FileHere("manifest"), !.at = "done"]

Stage ==
    /\ LoadStep \/ \E s \in Named: LoadSkill(s)
    /\ UNCHANGED <<files, writing, torn, net, page>>

-----------------------------------------------------------------------------
(* The server.                                                             *)

Listing(scope) == {s \in Skills: files[<<scope, s>>] # Nothing}

Answered(w, m, reply) == net' = [net EXCEPT ![w] = (@ \ {m}) \cup {reply}]

Done(m)    == [m EXCEPT !.at = "ok"]
Refused(m) == [m EXCEPT !.at = "error"]

(* Neither a name that is missing nor one that is taken.                   *)
MayCreate(scope, s) == s # NoSkill /\ files[<<scope, s>>] = Nothing

(* Mutant: the namespace goes with any of its skills.                      *)
AlwaysPruned(scope, s) == TRUE

(* A namespace without skills is removed.                                  *)
Pruned(scope, s) ==
    \A t \in Listing(scope) \ {s}: Namespace[t] # Namespace[s]

Gone(scope, s) ==
    {t \in Skills: t = s \/ (Pruned(scope, s) /\ Namespace[t] = Namespace[s])}

(* History: a stage reads where a document is changed.                     *)
Spoil(x) == load' = IF Here = x THEN [load EXCEPT !.spoilt = TRUE] ELSE load

(* A create, save or delete has started.                                   *)
Begin(w, m, d) ==
    /\ writing' = [window |-> w, skill |-> m.skill, doc |-> d, left |-> Parts]
    /\ Answered(w, m, [m EXCEPT !.at = "begun"])
    /\ Spoil(<<ScopeOf[w], m.skill>>)

(* create and save write the prompt, and then the manifest; a file that is *)
(* opened to be written is empty first.                                    *)
OpenPrompt(w, m, d) ==
    /\ files' = [files EXCEPT ![<<ScopeOf[w], m.skill>>].prompt = Blank]
    /\ Begin(w, m, d)

Handle(w, m) ==
    LET scope == ScopeOf[w] IN
    /\ m \in net[w] /\ m.at = "sent" /\ Free
    /\ CASE m.op = "create" ->
                IF MayCreate(scope, m.skill) THEN OpenPrompt(w, m, Default)
                ELSE Answered(w, m, Refused(m)) /\ UNCHANGED <<files, writing, load>>
         [] m.op = "read" ->
                /\ Answered(w, m, [Done(m) EXCEPT !.doc = AsRead(files[<<scope, m.skill>>])])
                /\ UNCHANGED <<files, writing, load>>
         [] m.op = "save" -> OpenPrompt(w, m, m.doc)
         [] m.op = "delete" ->
                IF m.skill \in Listing(scope) THEN Begin(w, m, Nothing) /\ UNCHANGED files
                ELSE Answered(w, m, Refused(m)) /\ UNCHANGED <<files, writing, load>>
    /\ UNCHANGED <<page, torn>>

Deleting == writing.doc = Nothing

(* A directory's files are removed in any order.                           *)
Turn(f) == ~Free /\ f \in writing.left /\ (Deleting \/ f = "prompt" \/ "prompt" \notin writing.left)

OpenFile(f) ==
    /\ Turn(f) /\ ~Deleting /\ files[Half][f] # Blank
    /\ files' = [files EXCEPT ![Half][f] = Blank]
    /\ Spoil(Half)
    /\ UNCHANGED <<writing, torn, net, page>>

Replied(at) ==
    net' = [net EXCEPT ![writing.window] =
               {IF m.at = "begun" THEN [m EXCEPT !.at = at] ELSE m: m \in @}]

(* A file is written or removed.  After the last one the namespace may be  *)
(* removed, and the window gets its answer.  History: what was read in     *)
(* pieces is also written so.                                              *)
ChangeFile(f) ==
    /\ Turn(f) /\ (Deleting \/ files[Half][f] = Blank)
    /\ LET gone == IF Deleting /\ writing.left = {f}
                   THEN {Half[1]} \X (Gone(Half[1], Half[2]) \ {Half[2]}) ELSE {}
       IN files' = [x \in DOMAIN files |->
                        IF x = Half THEN [files[x] EXCEPT ![f] = writing.doc[f]]
                        ELSE IF x \in gone THEN Nothing ELSE files[x]]
    /\ Spoil(Half)
    /\ IF writing.left = {f}
       THEN /\ writing' = Idle /\ Replied("ok")
            /\ torn' = IF writing.doc \in LeftWhole THEN torn \ {Half} ELSE torn \cup {Half}
       ELSE writing' = [writing EXCEPT !.left = @ \ {f}] /\ UNCHANGED <<torn, net>>
    /\ UNCHANGED page

(* The next file cannot be written or removed, or the server dies.  (A     *)
(* directory that is left without files counts as gone.)                   *)
BreakOff ==
    /\ ~Free
    /\ torn' = IF files[Half] \in LeftWhole THEN torn ELSE torn \cup {Half}
    /\ writing' = Idle /\ Replied("error")
    /\ UNCHANGED <<files, load, page>>

-----------------------------------------------------------------------------
(* A window.                                                               *)

Click(w) == clicks[w] < MaxClicks[w] /\ clicks' = [clicks EXCEPT ![w] = @ + 1]

Underway(w, op) == \E m \in net[w]: m.op = op /\ m.live

Send(w, m) == net' = [net EXCEPT ![w] = @ \cup {m}]

(* What is under way for a dialog that is closed goes on without it; a     *)
(* document that it waited for is not wanted any more.                     *)
Orphaned(ms, op) ==
    {IF m.op = op THEN [m EXCEPT !.live = FALSE] ELSE m: m \in {n \in ms: n.op # "read"}}

NewSkill(w) ==
    /\ w \notin form /\ editor[w] = NoSkill /\ clicks[w] < MaxClicks[w]
    /\ form' = form \cup {w}
    /\ UNCHANGED <<server, net, shown, stale, dialog, clicks>>

CloseForm(w) ==
    /\ w \in form /\ form' = form \ {w}
    /\ net' = [net EXCEPT ![w] = Orphaned(@, "create")]
    /\ UNCHANGED <<server, shown, stale, dialog, clicks>>

Create(w, spelling) ==
    /\ w \in form /\ ~Underway(w, "create") /\ Click(w)
    /\ Send(w, Message("create", Normalized[spelling], Empty))
    /\ UNCHANGED <<server, shown, stale, form, dialog>>

(* Mutant: the dialog reads when it opens, and not when its skill changes. *)
OpenOnce(w, s, pending) ==
    /\ editor' = [editor EXCEPT ![w] = s]
    /\ IF editor[w] # NoSkill
       THEN net' = [net EXCEPT ![w] = pending]
            /\ UNCHANGED <<loading, failed, fields, source, crossed>>
       ELSE /\ net' = [net EXCEPT ![w] = pending \cup {Message("read", s, Empty)}]
            /\ loading' = loading \cup {w} /\ failed' = failed \ {w}
            /\ fields' = [fields EXCEPT ![w] = Empty]
            /\ source' = [source EXCEPT ![w] = NoSkill]
            /\ UNCHANGED crossed

(* setEditingSkill(s), and the effect of the dialog when its path changes: *)
(* one that is open already keeps its fields until the document comes.     *)
Open(w, s, pending) ==
    /\ editor' = [editor EXCEPT ![w] = s]
    /\ IF editor[w] = s
       THEN net' = [net EXCEPT ![w] = pending]
            /\ UNCHANGED <<loading, failed, fields, source, crossed>>
       ELSE /\ net' = [net EXCEPT ![w] = pending \cup {Message("read", s, Empty)}]
            /\ loading' = loading \cup {w} /\ failed' = failed \ {w}
            /\ IF editor[w] = NoSkill
               THEN /\ fields' = [fields EXCEPT ![w] = Empty]
                    /\ source' = [source EXCEPT ![w] = NoSkill]
               ELSE UNCHANGED <<fields, source>>
            /\ crossed' = IF Underway(w, "read") THEN crossed \cup {w} ELSE crossed

Closed(w, pending) ==
    /\ net' = [net EXCEPT ![w] = Orphaned(pending, "save")]
    /\ editor' = [editor EXCEPT ![w] = NoSkill]
    /\ fields' = [fields EXCEPT ![w] = Empty]
    /\ loading' = loading \ {w} /\ failed' = failed \ {w}
    /\ source' = [source EXCEPT ![w] = NoSkill] /\ crossed' = crossed \ {w}

EditSkill(w, s) ==
    /\ s \in shown[w] /\ w \notin form /\ editor[w] = NoSkill /\ Click(w)
    /\ Open(w, s, net[w])
    /\ UNCHANGED <<server, shown, stale, form>>

CloseEditor(w) ==
    /\ editor[w] # NoSkill
    /\ Closed(w, net[w])
    /\ UNCHANGED <<server, shown, stale, form, clicks>>

Type(w, d) ==
    /\ editor[w] # NoSkill /\ w \notin loading
    /\ fields' = [fields EXCEPT ![w] = d]
    /\ UNCHANGED <<server, net, shown, stale, form, editor, loading, failed, source, crossed, clicks>>

CanSave(w) == editor[w] # NoSkill /\ w \notin loading /\ ~Underway(w, "save")

Save(w) ==
    /\ CanSave(w) /\ Click(w)
    /\ Send(w, Message("save", editor[w], fields[w]))
    /\ failed' = failed \ {w}
    /\ UNCHANGED <<server, shown, stale, form, editor, fields, loading, source, crossed>>

(* deleteSkill, once the person has confirmed.                             *)
Delete(w, s) ==
    /\ s \in shown[w] /\ w \notin form /\ editor[w] = NoSkill /\ Click(w)
    /\ Send(w, Message("delete", s, Empty))
    /\ UNCHANGED <<server, shown, stale, form, dialog>>

-----------------------------------------------------------------------------
(* The replies.                                                            *)

Reply(w, m, op, at) == m \in net[w] /\ m.op = op /\ m.at = at

Rest(w, m) == net[w] \ {m}

(* The list comes, if at all; one that was overtaken by another is not told *)
(* from one that others have changed since.                                *)
Listed(w) ==
    /\ w \in stale /\ Free
    /\ stale' = stale \ {w}
    /\ shown' = [shown EXCEPT ![w] = Listing(ScopeOf[w])]
    /\ UNCHANGED <<server, net, form, dialog, clicks>>

(* onCreated: whether its dialog is still open or not.                     *)
Created(w, m) ==
    /\ Reply(w, m, "create", "ok")
    /\ form' = form \ {w}
    /\ Open(w, m.skill, Rest(w, m))
    /\ stale' = stale \cup {w}
    /\ UNCHANGED <<server, shown, clicks>>

Read(w, m) ==
    /\ Reply(w, m, "read", "ok")
    /\ net' = [net EXCEPT ![w] = Rest(w, m)]
    /\ fields' = [fields EXCEPT ![w] = m.doc]
    /\ source' = [source EXCEPT ![w] = m.skill]
    /\ loading' = loading \ {w}
    /\ UNCHANGED <<server, shown, stale, form, editor, failed, crossed, clicks>>

(* onSaved and onClose are those of the page: it closes the dialog that is *)
(* open now.                                                               *)
Saved(w, m) ==
    /\ Reply(w, m, "save", "ok")
    /\ Closed(w, Rest(w, m))
    /\ stale' = stale \cup {w}
    /\ UNCHANGED <<server, shown, form, clicks>>

Deleted(w, m) ==
    /\ Reply(w, m, "delete", "ok")
    /\ net' = [net EXCEPT ![w] = Rest(w, m)]
    /\ stale' = stale \cup {w}
    /\ UNCHANGED <<server, shown, form, dialog, clicks>>

(* The request is refused: the server has said so, the project is not in the*)
(* index any more, or the connection fails, be it after the request was    *)
(* handled.  The error is only shown, in the dialog if the request is its. *)
Complain(w, m) ==
    /\ m \in net[w]
    /\ net' = [net EXCEPT ![w] = Rest(w, m)]
    /\ IF m.op \in {"read", "save"} /\ m.live
       THEN /\ failed' = failed \cup {w}
            /\ loading' = IF m.op = "read" THEN loading \ {w} ELSE loading
       ELSE UNCHANGED <<failed, loading>>
    /\ UNCHANGED <<server, shown, stale, form, editor, fields, source, crossed, clicks>>

ServerStep ==
    \/ BreakOff
    \/ \E f \in Parts: OpenFile(f) \/ ChangeFile(f)
    \/ \E w \in Windows: \E m \in net[w]: Handle(w, m)

PageStep(w) ==
    \/ Listed(w) \/ NewSkill(w) \/ CloseForm(w) \/ CloseEditor(w) \/ Save(w)
    \/ \E spelling \in Spellings: Create(w, spelling)
    \/ \E s \in Skills: EditSkill(w, s) \/ Delete(w, s)
    \/ \E d \in Typed[w]: Type(w, d)
    \/ \E m \in net[w]:
          Created(w, m) \/ Read(w, m) \/ Saved(w, m) \/ Deleted(w, m)
             \/ Complain(w, m)

SkillsNext == Stage \/ ServerStep \/ \E w \in Windows: PageStep(w)

SkillsSpec == SkillsInit /\ [][SkillsNext]_skillVars

-----------------------------------------------------------------------------
(* Properties.                                                             *)

Asked(x) ==
    \/ ~Free /\ x = Half
    \/ \E w \in Windows: \E m \in net[w]:
          /\ m.at = "sent" /\ m \notin net'[w]
          /\ x = <<ScopeOf[w], m.skill>>
          /\ m.op = "save" \/ (m.op = "create" /\ files[x] = Nothing)

(* A skill changes only when somebody saves or deletes that skill, or      *)
(* creates it where there was none: not for what happens to its neighbours.*)
OnlyAskedChanges == [][\A x \in DOMAIN files: files'[x] # files[x] => Asked(x)]_files

(* A dialog that offers to save, and shows no error, has the document of   *)
(* the skill it names, also when that skill changed under it; unless it    *)
(* waited for two documents at once.                                       *)
EditorHoldsItsSkill ==
    \A w \in Windows: CanSave(w) /\ w \notin failed \cup crossed => source[w] = editor[w]

(* A stage gets the prompt and the tools that somebody left together,      *)
(* whatever is created, saved and deleted meanwhile; unless that was the   *)
(* document it was reading, or a handler had failed on it.                 *)
StagesLoadWhole ==
    load.at = "done" /\ ~load.spoilt =>
        Given(Document(load.prompt, load.manifest)) \in {Given(d): d \in LeftWhole}
=============================================================================
