--------------------------- MODULE PipelineSession ---------------------------
(***************************************************************************)
(* Which pipeline a command-line session works with: the YAML files        *)
(* registered in a project's .openthk/pipelines and in ~/.openthk/pipelines,*)
(* the name in the project's active-pipeline file, the defaults for names  *)
(* registered in both, what is loaded in the session, and the slash        *)
(* commands that change them.  A file is registered under its file name,   *)
(* and has a name of its own inside.                                       *)
(***************************************************************************)
EXTENDS Naturals, FiniteSets

CONSTANTS
    Dirs,       \* working directories
    Names,      \* names of files, without their extensions
    Title,      \* [Names -> the name inside the file]
    RootFile    \* the directories with an openthk.pipeline.yaml

ASSUME SessionAssumption == DOMAIN Title = Names /\ RootFile \subseteq Dirs

VARIABLES
    files,     \* the registered files
    broken,    \* those, and root files, that do not parse
    active,    \* [Dirs -> content of active-pipeline, or Nothing]
    default,   \* [Dirs -> [Names -> an origin, or Nothing]]: preferences.json
    dir,       \* state.workingDir
    loaded,    \* state.pipelinePath, or NoFile
    (* History *)
    byName,    \* what is loaded was chosen by its registered name, or at the start
    outside    \* others have changed the files of the registry since

registry == <<files, broken, active, default>>
session  == <<dir, loaded, byName, outside>>
sessionVars == <<registry, session>>

Nothing == "nothing"
Origins == {"project", "user"}
Entry(o, d, n) == [origin |-> o, dir |-> IF o = "user" THEN "home" ELSE d, name |-> n]
NoFile == Entry("none", "none", "none")
Root(d) == Entry("root", d, "openthk")

(* listAvailablePipelines                                                  *)
Available(d) == {f \in files: f.dir \in {d, "home"}}
Conflicts(d, n) == {f \in Available(d): f.name = n}
Parses(f) == f \notin broken

(* resolvePipelinePath: no file, the file, or two that conflict.           *)
Resolve(d, n) ==
    LET found == Conflicts(d, n)
        preferred == {f \in found: f.origin = default[d][n]}
    IN IF Cardinality(found) = 2 /\ preferred # {} THEN preferred ELSE found

Unique(found) == Cardinality(found) = 1

(* resolvePipelineForWorkspace: what is loaded in a directory ...          *)
ActiveFile(d) == {f \in Available(d): active[d] \in Names /\ Resolve(d, active[d]) = {f} /\ Parses(f)}
OnlyOne(d, o) == {f \in Available(d): f.origin = o /\ Parses(f) /\ ~\E g \in Available(d) \ {f}: g.origin = o}

(* Mutant: the pipeline that was active is not looked for.                 *)
DetectOnlyOne(d) ==
    CASE OnlyOne(d, "project") # {} -> OnlyOne(d, "project")
      [] OTHER -> {}

Detect(d) ==
    CASE ActiveFile(d) # {} -> ActiveFile(d)
      [] ActiveFile(d) = {} /\ OnlyOne(d, "project") # {} -> OnlyOne(d, "project")
      [] OTHER ->
           IF Cardinality({f \in Available(d): f.origin = "project"}) > 1 THEN {}
           ELSE IF d \in RootFile /\ Parses(Root(d)) THEN {Root(d)}
           ELSE OnlyOne(d, "user")

(* ... which becomes active unless it was or is not registered.            *)
OpenDir(d) ==
    /\ dir' = d /\ outside' = FALSE
    /\ IF Detect(d) = {}
       THEN loaded' = NoFile /\ byName' = FALSE /\ UNCHANGED active
       ELSE \E f \in Detect(d):
              /\ loaded' = f /\ byName' = (f # Root(d))
              /\ active' = IF f = Root(d) THEN active ELSE [active EXCEPT ![d] = f.name]
    /\ UNCHANGED <<files, broken, default>>

SessionInit ==
    /\ files = {} /\ broken = {}
    /\ active = [d \in Dirs |-> Nothing]
    /\ default = [d \in Dirs |-> [n \in Names |-> Nothing]]
    /\ dir \in Dirs /\ loaded = (IF dir \in RootFile THEN Root(dir) ELSE NoFile)
    /\ byName = FALSE /\ outside = FALSE

-----------------------------------------------------------------------------
(* The slash commands that have an effect.                                 *)

Load(f, chosen) == loaded' = f /\ byName' = chosen

(* setActivePipeline: the file is written, whatever it said.               *)
Activate(d, n) == active' = [active EXCEPT ![d] = n]

(* /workspace switch <path>, of a directory that is there.                 *)
SwitchWorkspace == \E d \in Dirs: OpenDir(d)

(* /pipeline and /pipeline list: what is loaded, and what is available.    *)
ShowPipelines == UNCHANGED sessionVars

(* /model, /stages and /skills                                             *)
ShowStages == UNCHANGED sessionVars

(* /pipeline add <path> [project|user]: the file is copied, and becomes    *)
(* active under the name inside.                                           *)
Add(n, o) ==
    /\ Entry(o, dir, n) \notin files
    /\ files' = files \cup {Entry(o, dir, n)}
    /\ broken' = broken \ {Entry(o, dir, n)}
    /\ Activate(dir, Title[n])
    /\ Load(Entry(o, dir, n), Title[n] = n)
    /\ UNCHANGED <<default, dir, outside>>

(* Mutant: only a pipeline that is loaded from the project is unloaded.    *)
RemoveFromProject(n, o) ==
    /\ Entry(o, dir, n) \in files
    /\ files' = files \ {Entry(o, dir, n)}
    /\ IF active[dir] = n /\ loaded.origin = "project" THEN Load(NoFile, FALSE) ELSE UNCHANGED <<loaded, byName>>
    /\ UNCHANGED <<broken, active, default, dir, outside>>

(* /pipeline remove <name> [project|user]                                  *)
RemovePipeline(n, o) ==
    /\ Entry(o, dir, n) \in files
    /\ files' = files \ {Entry(o, dir, n)}
    /\ IF active[dir] = n THEN Load(NoFile, FALSE) ELSE UNCHANGED <<loaded, byName>>
    /\ UNCHANGED <<broken, active, default, dir, outside>>

(* /pipeline switch <name>                                                 *)
Switch(n) ==
    /\ Unique(Resolve(dir, n))
    /\ \E f \in Resolve(dir, n): Parses(f) /\ Load(f, TRUE)
    /\ Activate(dir, n)
    /\ UNCHANGED <<files, broken, default, dir, outside>>

(* /pipeline default <name> <project|user|clear>                           *)
SetDefault(n, o) ==
    /\ Conflicts(dir, n) # {} /\ (o # Nothing => Cardinality(Conflicts(dir, n)) = 2)
    /\ default' = [default EXCEPT ![dir][n] = o]
    /\ UNCHANGED <<files, broken, active, session>>

(* /pipeline refresh <name>, which loads it; without a name the text of    *)
(* what is loaded is read again.                                           *)
Refresh(n) ==
    /\ Unique(Resolve(dir, n))
    /\ \E f \in Resolve(dir, n): Parses(f) /\ Load(f, f = loaded /\ byName)
    /\ UNCHANGED <<registry, dir, outside>>

(* /pipeline load <path>, of a registered file or the one of the directory.*)
LoadPath ==
    /\ \E f \in files \cup {Root(d): d \in RootFile}: Parses(f) /\ Load(f, FALSE)
    /\ UNCHANGED <<registry, dir, outside>>

Command ==
    \/ \E n \in Names, o \in Origins: Add(n, o) \/ RemovePipeline(n, o) \/ SetDefault(n, o)
    \/ \E n \in Names: Switch(n) \/ Refresh(n) \/ SetDefault(n, Nothing)
    \/ LoadPath \/ SwitchWorkspace
    \/ ShowPipelines \/ ShowStages       \* or another one, that fails or acts elsewhere

(* Somebody else breaks, mends or deletes a file of the registry.          *)
Tamper ==
    /\ \E f \in files:
          \/ files' = files \ {f} /\ UNCHANGED broken
          \/ broken' = (broken \cup {f}) \ (broken \cap {f}) /\ UNCHANGED files
    /\ outside' = TRUE
    /\ UNCHANGED <<active, default, dir, loaded, byName>>
=============================================================================
