---------------------------- MODULE PipelineLibrary ----------------------------
(***************************************************************************)
(* The UI server's side of the pipeline files: the directories they live   *)
(* in, the index that gives them their ids, and the handlers that read,    *)
(* write, create, delete and run them.  A handler that awaits its body or  *)
(* a file has two steps: what it looked up in the first may be gone in the *)
(* second.                                                                 *)
(*                                                                         *)
(* A file is absent or a text: a document, and whether it is in the form   *)
(* the editor writes.  An id stands for its path (makeId).                 *)
(***************************************************************************)
EXTENDS PipelineDocument

CONSTANTS
    Paths,      \* of pipeline files
    InProject,  \* those in the project's directory; the others are global
    Initially,  \* the files at first
    MaxMeddles  \* changes by others and a missing project, a bound of the model only

ASSUME LibraryAssumption ==
    /\ InProject \subseteq Paths /\ MaxMeddles \in Nat
    /\ \A f \in Initially: DOMAIN f = Paths /\ \A p \in Paths: IsDocument(f[p].doc)

VARIABLES
    texts,       \* [Paths -> what is in the file]
    index,       \* the registered paths
    registered,  \* whether the project is
    (* History *)
    foreign      \* files that somebody else has changed

library == <<texts, index, registered, foreign>>

Absent == [doc |-> Document("sequential", <<>>), form |-> "absent"]
Text(doc) == [doc |-> doc, form |-> "editor"]
Foreign(doc) == [doc |-> doc, form |-> "foreign"]
Exists(p) == texts[p] # Absent

(* parsePipeline *)
IsPipeline(p) == Exists(p) /\ Accepts(texts[p].doc)

(* Whether the directory of a pipeline can be told: syncPipelineDirectory  *)
(* and the deletion of a file need its project.                            *)
Reachable(p) == p \in InProject => registered

LibraryInit ==
    /\ texts \in Initially
    /\ index = {p \in Paths: texts[p] # Absent}
    /\ registered = TRUE /\ foreign = {}

(* The index: getIndexedPipeline, registerPipeline, unregisterPipeline.    *)
Known(p) == p \in index
Enter(ps) == index' = index \cup ps
Strike(p) == index' = index \ {p}

(* syncPipelineDirectory, whenever pipelines or projects are listed: what  *)
(* is in the directories gets an entry.                                    *)
List ==
    /\ Enter({p \in Paths: Exists(p) /\ Reachable(p)})
    /\ UNCHANGED <<texts, registered, foreign>>

Meddled == Cardinality(foreign) + (IF registered THEN 0 ELSE 1)

RegisterProject == registered' = TRUE /\ UNCHANGED <<texts, index, foreign>>

(* The project's pipelines stay where they are and in the index.           *)
UnregisterProject ==
    /\ registered /\ Meddled < MaxMeddles
    /\ registered' = FALSE /\ UNCHANGED <<texts, index, foreign>>

(* An editor, another page or a command line writes or removes a file.     *)
Meddle(p, text) ==
    /\ Meddled < MaxMeddles /\ p \notin foreign
    /\ texts' = [texts EXCEPT ![p] = text] /\ foreign' = foreign \cup {p}
    /\ UNCHANGED <<index, registered>>

Store(p, text) == texts' = [texts EXCEPT ![p] = text] /\ UNCHANGED <<registered, foreign>>

---------------------------------------------------------------------------
(* The handlers; `ok' is whether the request is granted.                   *)

(* GET /api/pipelines/:id reads the file and parses it from the disk.      *)
Loads(p) == Known(p) /\ IsPipeline(p)

(* Mutant: the body is stored as it comes.                                 *)
FinishSaveUnchecked(p, text, ok) ==
    /\ ok = TRUE
    /\ Store(p, text) /\ UNCHANGED index

(* PUT /api/pipelines/:id validates and writes; whether the entry or the   *)
(* file still exists is not looked at again.                               *)
FinishSave(p, text, ok) ==
    /\ ok = Accepts(text.doc)
    /\ IF ok THEN Store(p, text) /\ UNCHANGED index ELSE UNCHANGED library

(* A file that is there stays; the content is not validated.               *)
Create(p, text, ok) ==
    /\ ok = ~Exists(p)
    /\ IF ok THEN Store(p, text) /\ Enter({p}) ELSE UNCHANGED library

(* POST /api/projects/:id/pipelines and POST /api/pipelines                *)
PostProject(p, text, ok) == p \in InProject /\ Create(p, text, ok)
PostGlobal(p, text, ok) == p \notin InProject /\ Create(p, text, ok)
Post(p, text, ok) == PostProject(p, text, ok) \/ PostGlobal(p, text, ok)

(* DELETE /api/pipelines/:id: the file goes when its directory is known.   *)
Delete(p) ==
    /\ IF Reachable(p) THEN Store(p, Absent) ELSE UNCHANGED <<texts, registered, foreign>>
    /\ Strike(p)

(* POST /api/pipelines/:id/run, into startRun, which parses the file.      *)
Runs(p) == Known(p) /\ registered /\ IsPipeline(p)
===============================================================================
