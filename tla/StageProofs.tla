------------------------------ MODULE StageProofs ------------------------------
(***************************************************************************)
(* Theorems about the agents of a stage and what they are given: what the  *)
(* caches of their tools answer is true, what a sandbox lets out was       *)
(* reviewed, an orchestrated run that succeeds has done something, and the *)
(* skills that a stage loads are whole, and changed by nobody but on       *)
(* request.                                                                *)
(***************************************************************************)
EXTENDS Orchestrator, Skills, TLAPS

(* A time stamp that a cache knows is not newer than the file.             *)
CacheTypes ==
    /\ DOMAIN stats = Agents /\ DOMAIN seen = Agents /\ DOMAIN names = Agents
    /\ \A a \in Agents: DOMAIN stats[a] = Paths /\ DOMAIN seen[a] = Paths
    /\ \A p \in Paths: disk[p].stamp \in Nat \ {0}
    /\ \A a \in Agents, p \in Paths: stats[a][p] \in Nat /\ stats[a][p] <= disk[p].stamp

CacheInv == CacheTypes /\ CachedAnswersTrue

(* Nothing that the caches depend on changes.                              *)
LEMMA CachesUndisturbed ==
    ASSUME CacheInv, UNCHANGED <<disk, session, overtaken>>
    PROVE  CacheInv'
  BY DEF CacheInv, CacheTypes, CachedAnswersTrue, Hit, Names, session

(* A new epoch: the agent's caches have nothing to answer.                 *)
LEMMA NewEpochKeeps ==
    ASSUME CacheInv, NEW a \in Agents, NewEpoch(a), UNCHANGED <<disk, overtaken>>
    PROVE  CacheInv'
  <1>1. /\ stats' = [stats EXCEPT ![a] = [p \in Paths |-> 0]]
        /\ listed' = listed \ {a} /\ UNCHANGED <<seen, names>>
    BY DEF NewEpoch
  <1>2. \A b \in Agents, p \in Paths: stats'[b][p] = IF b = a THEN 0 ELSE stats[b][p]
    BY <1>1 DEF CacheInv, CacheTypes
  <1>3. CacheTypes'
    BY <1>1, <1>2 DEF CacheInv, CacheTypes
  <1>4. CachedAnswersTrue'
    BY <1>1, <1>2 DEF CacheInv, CacheTypes, CachedAnswersTrue, Hit, Names
  <1>. QED BY <1>3, <1>4 DEF CacheInv

(* Files that change: their stamps are newer than what any cache knows,    *)
(* and who has a listing is overtaken, unless it has a new epoch itself.   *)
LEMMA PutKeeps ==
    ASSUME CacheInv, NEW who, NEW texts, Put(who, texts),
           \/ UNCHANGED session /\ who \notin Agents \ Boxed
           \/ who \in Agents /\ NewEpoch(who)
    PROVE  CacheInv'
  <1>1. \A p \in Paths:
            /\ p \in DOMAIN texts => disk'[p].text = texts[p] /\ disk'[p].stamp = disk[p].stamp + 1
            /\ p \notin DOMAIN texts => disk'[p] = disk[p]
    BY DEF Put
  <1>2. /\ UNCHANGED <<seen, names>> /\ listed' \subseteq listed
        /\ who \in Agents \ Boxed => who \notin listed'
        /\ DOMAIN stats' = Agents
        /\ \A a \in Agents, p \in Paths: stats'[a][p] = stats[a][p] \/ stats'[a][p] = 0
        /\ \A a \in Agents: DOMAIN stats'[a] = Paths
    BY DEF NewEpoch, session, CacheInv, CacheTypes
  <1>3. CacheTypes'
    BY <1>1, <1>2 DEF CacheInv, CacheTypes
  <1>4. ASSUME NEW a \in Agents \ Boxed, NEW p \in Names', Hit(a, p)'
        PROVE  seen'[a][p] = disk'[p].text
    <2>1. p \in Paths /\ stats'[a][p] = disk'[p].stamp
      BY <1>4 DEF Names, Hit
    <2>2. p \notin DOMAIN texts /\ stats'[a][p] = stats[a][p]
      BY <1>1, <1>2, <2>1 DEF CacheInv, CacheTypes
    <2>3. disk'[p] = disk[p] /\ p \in Names /\ Hit(a, p)
      BY <1>1, <2>1, <2>2 DEF Names, Hit
    <2>4. seen[a][p] = disk[p].text
      BY <2>3 DEF CacheInv, CachedAnswersTrue
    <2>. QED BY <1>2, <2>3, <2>4
  <1>5. ASSUME NEW a \in Agents \ Boxed, a \in listed', a \notin overtaken'
        PROVE  names'[a] = Names'
    <2>1. a # who /\ a \in listed
      BY <1>2, <1>5
    <2>2. overtaken' = overtaken /\ \A p \in DOMAIN texts: (texts[p] = Absent) = (disk[p].text = Absent)
      BY <1>5, <2>1 DEF Put
    <2>3. Names' = Names
      BY <1>1, <2>2 DEF Names
    <2>. QED BY <1>2, <1>5, <2>1, <2>2, <2>3 DEF CacheInv, CachedAnswersTrue
  <1>. QED BY <1>3, <1>4, <1>5 DEF CacheInv, CachedAnswersTrue

(* What the model of an agent may call.                                    *)
LEMMA CallsKnown ==
    ASSUME NEW a \in Agents, NEW k \in Calls[a]
    PROVE  /\ k.tool \in {"write_file", "run_command", "read_file", "list_files", "search_files"}
           /\ a \in Boxed => k.tool \in {"write_file", "run_command"}
           /\ k.path \in Paths /\ k.text # Link
  BY StageToolsAssumption DEF Tools, Texts, Link

(* The tools that read remember what they have shown.                      *)
LEMMA ReadingKeeps ==
    ASSUME CacheInv, NEW a \in Agents, NEW p \in Paths,
           ReadFile(a, p) \/ SearchFiles(a, p) \/ ListFiles(a)
    PROVE  CacheInv'
  <1>1. CASE ReadFile(a, p)
    <2>1. UNCHANGED <<disk, listed, names, overtaken>>
      BY <1>1 DEF ReadFile, project
    <2>2. CASE UNCHANGED <<stats, seen>>
      BY <2>1, <2>2, CachesUndisturbed DEF session
    <2>3. CASE /\ stats' = [stats EXCEPT ![a][p] = disk[p].stamp]
               /\ seen' = [seen EXCEPT ![a][p] = disk[p].text]
      <3>1. /\ DOMAIN stats' = Agents /\ DOMAIN seen' = Agents
            /\ \A b \in Agents: DOMAIN stats'[b] = Paths /\ DOMAIN seen'[b] = Paths
            /\ \A b \in Agents, q \in Paths:
                  /\ stats'[b][q] = IF b = a /\ q = p THEN disk[p].stamp ELSE stats[b][q]
                  /\ seen'[b][q] = IF b = a /\ q = p THEN disk[p].text ELSE seen[b][q]
        BY <2>3 DEF CacheInv, CacheTypes
      <3>. QED BY <2>1, <3>1 DEF CacheInv, CacheTypes, CachedAnswersTrue, Hit, Names
    <2>. QED BY <1>1, <2>2, <2>3 DEF ReadFile
  <1>2. CASE SearchFiles(a, p)
    <2>. DEFINE text == IF disk[p].text = Absent THEN seen[a][p] ELSE disk[p].text
    <2>1. UNCHANGED <<disk, stats, listed, names, overtaken>> /\ seen' = [seen EXCEPT ![a][p] = text]
      BY <1>2 DEF SearchFiles, project
    <2>2. /\ DOMAIN seen' = Agents /\ \A b \in Agents: DOMAIN seen'[b] = Paths
          /\ \A b \in Agents, q \in Paths: seen'[b][q] = IF b = a /\ q = p THEN text ELSE seen[b][q]
      BY <2>1 DEF CacheInv, CacheTypes
    <2>. QED BY <2>1, <2>2 DEF CacheInv, CacheTypes, CachedAnswersTrue, Hit, Names
  <1>3. CASE ListFiles(a)
    <2>1. UNCHANGED <<disk, stats, seen>>
      BY <1>3 DEF ListFiles
    <2>2. CASE UNCHANGED <<listed, names, overtaken>>
      BY <2>1, <2>2, CachesUndisturbed DEF session
    <2>3. CASE listed' = listed \cup {a} /\ names' = [names EXCEPT ![a] = Names]
               /\ overtaken' = overtaken \ {a}
      BY <2>1, <2>3 DEF CacheInv, CacheTypes, CachedAnswersTrue, Hit, Names
    <2>. QED BY <1>3, <2>2, <2>3 DEF ListFiles
  <1>. QED BY <1>1, <1>2, <1>3

(* A tool without a sandbox.                                               *)
LEMMA PlainToolKeeps ==
    ASSUME CacheInv, NEW a \in Agents \ Boxed, NEW k \in Calls[a],
           NEW executed \in BOOLEAN, Use(a, k, executed)
    PROVE  CacheInv'
  <1>1. CASE ~executed
    BY <1>1, CachesUndisturbed DEF Use, project, session
  <1>2. CASE executed
    <2>. DEFINE p == k.path
                text == k.text
    <2>1. p \in Paths
      BY CallsKnown
    <2>2. \/ SearchFiles(a, p) \/ ReadFile(a, p) \/ ListFiles(a)
          \/ WriteFile(a, p, text) \/ RunCommand(a, p, text)
      BY <1>2, CallsKnown DEF Use
    <2>. HIDE DEF p, text
    <2>3. CASE WriteFile(a, p, text)
      BY <2>3, PutKeeps DEF WriteFile
    <2>4. CASE RunCommand(a, p, text)
      <3>1. CASE UNCHANGED project
        BY <2>4, <3>1, NewEpochKeeps DEF RunCommand, project
      <3>2. ASSUME NEW t, Put(a, One(p, t)) PROVE CacheInv'
        BY <2>4, <3>2, PutKeeps DEF RunCommand
      <3>. QED BY <2>4, <3>1, <3>2 DEF RunCommand
    <2>. QED BY <2>1, <2>2, <2>3, <2>4, ReadingKeeps
  <1>. QED BY <1>1, <1>2

(* A tool of a stage in a sandbox: what goes past it is put there by no    *)
(* agent with caches.                                                      *)
LEMMA BoxedToolKeeps ==
    ASSUME CacheInv, NEW b \in Boxed, NEW k \in Calls[b],
           NEW executed \in BOOLEAN, Use(b, k, executed)
    PROVE  CacheInv'
  <1>1. CASE UNCHANGED project /\ UNCHANGED session
    BY <1>1, CachesUndisturbed DEF project
  <1>2. CASE UNCHANGED session /\ \E texts: Put(b, texts)
    BY <1>2, PutKeeps
  <1>3. b \in Agents
    BY StageToolsAssumption DEF Agents
  <1>. QED
    BY <1>1, <1>2, <1>3, CallsKnown DEF Use, WriteFileBoxed, RunCommandBoxed, WritePast

(* Every step keeps what is said of the caches.                            *)
LEMMA CacheStepKeeps == CacheInv /\ [Next]_vars => CacheInv'
  <1>. SUFFICES ASSUME CacheInv, [Next]_vars PROVE CacheInv'
    OBVIOUS
  <1>1. ASSUME NEW a \in Delegates, Delegate(a) PROVE CacheInv'
    <2>1. a \in Agents /\ UNCHANGED <<disk, overtaken>>
      BY <1>1 DEF Delegate, Agents, project
    <2>. QED BY <1>1, <2>1, NewEpochKeeps, CachesUndisturbed DEF Delegate
  <1>2. ASSUME NEW a \in Delegates, Return(a) PROVE CacheInv'
    BY <1>2, CachesUndisturbed DEF Return, project
  <1>3. CASE Conclude \/ Cancel
    BY <1>3, CachesUndisturbed DEF Conclude, Cancel, toolVars, project
  <1>4. ASSUME NEW a \in Agents, AgentStep(a) PROVE CacheInv'
    <2>1. CASE Stop(a) \/ Fail(a)
      BY <2>1, CachesUndisturbed DEF Stop, Fail, project
    <2>2. ASSUME NEW k \in Calls[a], NEW executed \in BOOLEAN, Use(a, k, executed) PROVE CacheInv'
      BY <2>2, PlainToolKeeps, BoxedToolKeeps
    <2>. QED BY <1>4, <2>1, <2>2 DEF AgentStep
  <1>5. ASSUME NEW b \in Boxed, Answer(b) PROVE CacheInv'
    <2>1. CASE UNCHANGED <<project, approved>>
      BY <1>5, <2>1, CachesUndisturbed DEF Answer, project
    <2>2. CASE Apply(b)
      BY <1>5, <2>2, PutKeeps DEF Answer, Apply
    <2>. QED BY <1>5, <2>1, <2>2 DEF Answer
  <1>8. ASSUME NEW b \in Boxed, Linger(b) PROVE CacheInv'
    <2>1. UNCHANGED session
      BY <1>8 DEF Linger
    <2>2. UNCHANGED project \/ \E p, t: Put(b, One(p, t))
      BY <1>8 DEF Linger, WritePast
    <2>3. b \notin Agents \ Boxed
      OBVIOUS
    <2>. QED BY <2>1, <2>2, <2>3, PutKeeps, CachesUndisturbed DEF project
  <1>6. ASSUME NEW e \in Edits, EditFile(e) PROVE CacheInv'
    <2>1. "person" \notin Agents
      BY StageToolsAssumption
    <2>. QED BY <1>6, <2>1, PutKeeps DEF EditFile
  <1>7. CASE UNCHANGED vars
    BY <1>7, CachesUndisturbed DEF vars, toolVars, project
  <1>. QED BY <1>1, <1>2, <1>3, <1>4, <1>5, <1>6, <1>7, <1>8 DEF Next, OrchestratorStep

(* What the caches answer instead of reading again is what the files say,  *)
(* whichever agents, reviews and persons write them meanwhile              *)
(* (ToolSessionState in built-in-tools.ts).                                *)
THEOREM CachedAnswersAreTrue == Spec => []CachedAnswersTrue
  <1>1. Init => CacheInv
    <2>. SUFFICES ASSUME ToolsInit PROVE CacheInv
      BY DEF Init
    <2>1. \A p \in Paths: disk[p].stamp = 1
      BY DEF ToolsInit
    <2>2. /\ stats = [a \in Agents |-> [p \in Paths |-> 0]] /\ listed = {}
          /\ seen = [a \in Agents |-> [p \in Paths |-> Absent]] /\ names = [a \in Agents |-> {}]
      BY DEF ToolsInit
    <2>. QED BY <2>1, <2>2 DEF CacheInv, CacheTypes, CachedAnswersTrue, Hit, Names
  <1>2. CacheInv => CachedAnswersTrue
    BY DEF CacheInv
  <1>. QED BY <1>1, <1>2, CacheStepKeeps, PTL DEF Spec

-----------------------------------------------------------------------------
(* What will be applied of a sandbox under review was shown, or changed    *)
(* since it was.                                                           *)
BoxTypes ==
    /\ DOMAIN phase = Agents /\ DOMAIN author = Paths
    /\ DOMAIN approved = Boxed /\ DOMAIN past = Boxed
    /\ DOMAIN box = Boxed /\ \A b \in Boxed: DOMAIN box[b] = Paths
DiffsShown == \A b \in Boxed: phase[b] = "reviewing" => Diff(b) \subseteq approved[b]
BoxInv == BoxTypes /\ DiffsShown /\ OnlyReviewedWork

(* A step in which no review starts: who becomes the author of a file is   *)
(* not a sandboxed stage, wrote past its sandbox or had it reviewed, and   *)
(* what changes during a review is noted.                                  *)
LEMMA BoxStep ==
    ASSUME BoxInv, BoxTypes',
           \A b \in Boxed: /\ phase'[b] = phase[b] \/ (phase[b] # "done" /\ phase'[b] # "reviewing")
                           /\ past[b] \subseteq past'[b] /\ approved[b] \subseteq approved'[b],
           \A p \in Paths: \/ author'[p] = author[p] \/ author'[p] \notin Boxed
                           \/ p \in past'[author'[p]]
                           \/ phase'[author'[p]] = "done" /\ p \in approved'[author'[p]],
           \A b \in Boxed, p \in Paths: phase'[b] = "reviewing" =>
                \/ box'[b][p] = box[b][p] /\ disk'[p].text = disk[p].text
                \/ p \in approved'[b]
    PROVE  BoxInv'
  <1>1. DiffsShown'
    <2>. SUFFICES ASSUME NEW b \in Boxed, phase'[b] = "reviewing", NEW p \in Diff(b)'
                  PROVE  p \in approved'[b]
      BY DEF DiffsShown
    <2>1. phase[b] = "reviewing"
      OBVIOUS
    <2>2. p \in Diff(b) \/ p \in approved'[b]
      BY DEF Diff
    <2>. QED BY <2>1, <2>2 DEF BoxInv, DiffsShown
  <1>2. OnlyReviewedWork'
    <2>. SUFFICES ASSUME NEW p \in Paths, author'[p] \in Boxed
                  PROVE  \/ phase'[author'[p]] = "done" /\ p \in approved'[author'[p]]
                         \/ p \in past'[author'[p]]
      BY DEF OnlyReviewedWork
    <2>1. CASE author'[p] = author[p]
      <3>1. \/ phase[author[p]] = "done" /\ p \in approved[author[p]]
            \/ p \in past[author[p]]
        BY <2>1 DEF BoxInv, OnlyReviewedWork
      <3>. QED BY <2>1, <3>1
    <2>. QED BY <2>1
  <1>. QED BY <1>1, <1>2 DEF BoxInv

(* Nothing changes but what is in sandboxes that are not reviewed, and     *)
(* that stages which have not ended do end.                                *)
LEMMA SandboxesUndisturbed ==
    ASSUME BoxInv, UNCHANGED <<disk, author, approved, past>>, DOMAIN phase' = Agents,
           \A b \in Boxed: phase'[b] = phase[b] \/ (phase[b] # "done" /\ phase'[b] # "reviewing"),
           DOMAIN box' = Boxed, \A b \in Boxed: DOMAIN box'[b] = Paths,
           \A b \in Boxed: phase'[b] = "reviewing" => box'[b] = box[b]
    PROVE  BoxInv'
  <1>1. BoxTypes'
    BY DEF BoxInv, BoxTypes
  <1>. QED BY <1>1, BoxStep

(* Somebody puts files there, past a sandbox if it is a sandboxed stage,   *)
(* while others are reviewed.                                              *)
LEMMA PuttingKeeps ==
    ASSUME BoxInv, UNCHANGED phase, NEW who, NEW texts, Put(who, texts), Disturb(texts),
           DOMAIN past' = Boxed, \A b \in Boxed: past[b] \subseteq past'[b],
           who \in Boxed => DOMAIN texts \subseteq past'[who],
           DOMAIN box' = Boxed, \A b \in Boxed: DOMAIN box'[b] = Paths,
           \A b \in Boxed: phase[b] = "reviewing" => box'[b] = box[b]
    PROVE  BoxInv'
  <1>1. /\ DOMAIN approved' = Boxed
        /\ \A b \in Boxed: approved'[b] = IF phase[b] = "reviewing" THEN approved[b] \cup DOMAIN texts
                                           ELSE approved[b]
    BY DEF Disturb
  <1>2. /\ DOMAIN author' = Paths
        /\ \A p \in Paths \ DOMAIN texts: disk'[p] = disk[p] /\ author'[p] = author[p]
        /\ \A p \in Paths \cap DOMAIN texts: author'[p] = who
    BY DEF Put
  <1>3. BoxTypes'
    BY <1>1, <1>2 DEF BoxInv, BoxTypes
  <1>. QED BY <1>1, <1>2, <1>3, BoxStep

(* A sandboxed stage that is not reviewed, or one of its commands, writes  *)
(* past the sandbox.                                                       *)
LEMMA WritePastKeeps ==
    ASSUME BoxInv, UNCHANGED phase, NEW b \in Boxed, NEW p, NEW text, WritePast(b, p, text),
           DOMAIN box' = Boxed, \A c \in Boxed: DOMAIN box'[c] = Paths,
           \A c \in Boxed: phase[c] = "reviewing" => box'[c] = box[c]
    PROVE  BoxInv'
  <1>1. Put(b, One(p, text)) /\ Disturb(One(p, text)) /\ past' = [past EXCEPT ![b] = @ \cup {p}]
    BY DEF WritePast
  <1>2. DOMAIN past' = Boxed /\ p \in past'[b] /\ \A c \in Boxed: past[c] \subseteq past'[c]
    BY <1>1 DEF BoxInv, BoxTypes
  <1>3. DOMAIN One(p, text) \subseteq past'[b]
    BY <1>2 DEF One
  <1>. QED BY <1>1, <1>2, <1>3, PuttingKeeps

(* The tools of a stage in a sandbox.                                      *)
LEMMA BoxedUseKeeps ==
    ASSUME BoxInv, NEW b \in Boxed, NEW k \in Calls[b], NEW executed \in BOOLEAN, Use(b, k, executed)
    PROVE  BoxInv'
  <1>. DEFINE p == k.path
              text == k.text
  <1>1. UNCHANGED phase /\ phase[b] = "working"
    BY DEF Use
  <1>2. b \in Agents /\ p \in Paths
    BY CallsKnown, StageToolsAssumption DEF Agents
  <1>3. CASE UNCHANGED <<project, sandboxes>>
    BY <1>1, <1>3, SandboxesUndisturbed DEF project, sandboxes, boxes, BoxInv, BoxTypes
  <1>4. CASE WriteFileBoxed(b, p, text)
    <2>. HIDE DEF p, text
    <2>1. CASE WritePast(b, p, text) /\ UNCHANGED box
      BY <1>1, <2>1, WritePastKeeps DEF BoxInv, BoxTypes
    <2>2. CASE box' = [box EXCEPT ![b][p] = text] /\ UNCHANGED <<project, approved, past>>
      <3>1. DOMAIN box' = Boxed /\ \A c \in Boxed: DOMAIN box'[c] = Paths
        BY <2>2 DEF BoxInv, BoxTypes
      <3>2. \A c \in Boxed \ {b}: box'[c] = box[c]
        BY <2>2 DEF BoxInv, BoxTypes
      <3>. QED BY <1>1, <2>2, <3>1, <3>2, SandboxesUndisturbed DEF project, BoxInv, BoxTypes
    <2>. QED BY <1>4, <2>1, <2>2 DEF WriteFileBoxed
  <1>5. CASE RunCommandBoxed(b, p, text)
    <2>. HIDE DEF p, text
    <2>1. /\ DOMAIN box' = Boxed /\ \A c \in Boxed: DOMAIN box'[c] = Paths
          /\ \A c \in Boxed \ {b}: box'[c] = box[c]
      BY <1>5 DEF RunCommandBoxed, Prepared, BoxInv, BoxTypes
    <2>2. CASE UNCHANGED <<project, approved, past>>
      BY <1>1, <2>1, <2>2, SandboxesUndisturbed DEF project, BoxInv, BoxTypes
    <2>3. ASSUME NEW t, WritePast(b, p, t) PROVE BoxInv'
      BY <1>1, <2>1, <2>3, WritePastKeeps
    <2>. QED BY <1>5, <2>2, <2>3 DEF RunCommandBoxed
  <1>6. executed => WriteFileBoxed(b, p, text) \/ RunCommandBoxed(b, p, text)
    <2>1. k.tool \in {"write_file", "run_command"}
      BY <1>2, CallsKnown
    <2>2. CASE k.tool = "write_file"
      BY <2>2 DEF Use
    <2>3. CASE k.tool = "run_command"
      BY <2>3 DEF Use
    <2>. QED BY <2>1, <2>2, <2>3
  <1>7. ~executed => UNCHANGED <<project, sandboxes>>
    BY DEF Use
  <1>. QED BY <1>3, <1>4, <1>5, <1>6, <1>7

(* The tools of the others.                                                *)
LEMMA PlainUseKeeps ==
    ASSUME BoxInv, NEW a \in Agents \ Boxed, NEW k \in Calls[a],
           NEW executed \in BOOLEAN, Use(a, k, executed)
    PROVE  BoxInv'
  <1>1. UNCHANGED phase
    BY DEF Use
  <1>2. /\ UNCHANGED <<box, past>>
        /\ \/ UNCHANGED <<disk, author, approved>>
           \/ \E texts: Put(a, texts) /\ Disturb(texts)
    BY CallsKnown
       DEF Use, project, sandboxes, boxes, SearchFiles, ReadFile, ListFiles, WriteFile, RunCommand
  <1>3. ASSUME NEW texts, Put(a, texts), Disturb(texts) PROVE BoxInv'
    BY <1>1, <1>2, <1>3, PuttingKeeps DEF BoxInv, BoxTypes
  <1>. QED BY <1>1, <1>2, <1>3, SandboxesUndisturbed DEF BoxInv, BoxTypes

(* The review ends: what is applied was shown or changed since.            *)
LEMMA ReviewKeeps ==
    ASSUME BoxInv, NEW b \in Boxed, Answer(b)
    PROVE  BoxInv'
  <1>1. /\ phase[b] = "reviewing" /\ phase' = [phase EXCEPT ![b] = "done"]
        /\ box' = [box EXCEPT ![b] = Bare] /\ UNCHANGED past /\ b \in Agents
    BY StageToolsAssumption DEF Answer, Agents
  <1>2. /\ \A a \in Agents: phase'[a] = IF a = b THEN "done" ELSE phase[a]
        /\ Boxed \subseteq Agents /\ DOMAIN phase' = Agents
    BY <1>1, StageToolsAssumption DEF BoxInv, BoxTypes, Agents
  <1>3. /\ DOMAIN box' = Boxed /\ \A c \in Boxed: DOMAIN box'[c] = Paths
        /\ \A c \in Boxed \ {b}: box'[c] = box[c]
    BY <1>1 DEF Bare, BoxInv, BoxTypes
  <1>4. CASE UNCHANGED <<project, approved>>
    BY <1>1, <1>2, <1>3, <1>4, SandboxesUndisturbed DEF project
  <1>5. CASE Apply(b)
    <2>. DEFINE texts == [p \in Diff(b) |-> box[b][p]]
    <2>1. Put(b, texts) /\ DOMAIN texts = Diff(b)
      BY <1>5 DEF Apply
    <2>. HIDE DEF texts
    <2>2. /\ DOMAIN approved' = Boxed
          /\ \A c \in Boxed: approved'[c] = IF c # b /\ phase[c] = "reviewing" THEN approved[c] \cup Diff(b)
                                             ELSE approved[c]
      BY <1>5 DEF Apply
    <2>3. /\ DOMAIN author' = Paths
          /\ \A p \in Paths: IF p \in Diff(b) THEN author'[p] = b
                              ELSE author'[p] = author[p] /\ disk'[p] = disk[p]
      BY <2>1 DEF Put
    <2>4. Diff(b) \subseteq approved[b]
      BY <1>1 DEF BoxInv, DiffsShown
    <2>5. BoxTypes'
      BY <1>1, <1>2, <1>3, <2>2, <2>3 DEF BoxInv, BoxTypes
    <2>6. \A p \in Paths: \/ author'[p] = author[p]
                          \/ phase'[author'[p]] = "done" /\ p \in approved'[author'[p]]
      BY <1>1, <1>2, <2>2, <2>3, <2>4
    <2>7. \A c \in Boxed, p \in Paths: phase'[c] = "reviewing" =>
              (box'[c][p] = box[c][p] /\ disk'[p].text = disk[p].text) \/ p \in approved'[c]
      BY <1>2, <1>3, <2>2, <2>3
    <2>8. \A c \in Boxed: /\ phase'[c] = phase[c] \/ (phase[c] # "done" /\ phase'[c] # "reviewing")
                          /\ past[c] \subseteq past'[c] /\ approved[c] \subseteq approved'[c]
      BY <1>1, <1>2, <2>2
    <2>. QED BY <2>5, <2>6, <2>7, <2>8, BoxStep
  <1>. QED BY <1>4, <1>5 DEF Answer

(* A process a stage has left behind changes something.                    *)
LEMMA LingerKeeps ==
    ASSUME BoxInv, NEW b \in Boxed, Linger(b)
    PROVE  BoxInv'
  <1>1. UNCHANGED phase
    BY DEF Linger, loop
  <1>2. ASSUME NEW p, NEW t, WritePast(b, p, t), UNCHANGED box PROVE BoxInv'
    BY <1>1, <1>2, WritePastKeeps DEF BoxInv, BoxTypes
  <1>3. ASSUME NEW p, NEW t, box' = [box EXCEPT ![b][p] = t], UNCHANGED <<project, past>>,
               approved' = IF phase[b] = "reviewing"
                           THEN [approved EXCEPT ![b] = @ \cup {p}] ELSE approved
        PROVE  BoxInv'
    <2>1. /\ DOMAIN box' = Boxed /\ \A c \in Boxed: DOMAIN box'[c] = Paths
          /\ \A c \in Boxed, q \in Paths: box'[c][q] = box[c][q] \/ (c = b /\ q = p)
      BY <1>3 DEF BoxInv, BoxTypes
    <2>2. /\ DOMAIN approved' = Boxed /\ \A c \in Boxed: approved[c] \subseteq approved'[c]
          /\ phase[b] = "reviewing" => p \in approved'[b]
      BY <1>3 DEF BoxInv, BoxTypes
    <2>3. BoxTypes'
      BY <1>1, <1>3, <2>1, <2>2 DEF BoxInv, BoxTypes, project
    <2>. QED BY <1>1, <1>3, <2>1, <2>2, <2>3, BoxStep DEF project
  <1>. QED BY <1>2, <1>3 DEF Linger

(* The loop of a stage ends, and its review begins.                        *)
LEMMA StopKeeps ==
    ASSUME BoxInv, NEW a \in Agents, Stop(a)
    PROVE  BoxInv'
  <1>1. /\ UNCHANGED <<disk, author, past>> /\ phase[a] = "working"
        /\ approved' = IF a \in Boxed THEN [approved EXCEPT ![a] = Diff(a)] ELSE approved
        /\ box' = [b \in Boxed |-> IF b = a /\ phase'[b] = "done" THEN Bare ELSE box[b]]
    BY DEF Stop, project
  <1>2. DOMAIN phase' = Agents /\ \A b \in Boxed: phase'[b] = phase[b] \/ b = a
    BY StageToolsAssumption DEF Stop, BoxInv, BoxTypes, Agents
  <1>3. BoxTypes' /\ \A b \in Boxed: approved'[b] = IF b = a THEN Diff(a) ELSE approved[b]
    BY <1>1, <1>2 DEF BoxInv, BoxTypes, Bare
  <1>4. DiffsShown'
    <2>1. \A b \in Boxed: phase'[b] = "reviewing" => Diff(b)' = Diff(b)
      BY <1>1 DEF Diff
    <2>. QED BY <1>2, <1>3, <2>1 DEF BoxInv, DiffsShown
  <1>5. OnlyReviewedWork'
    BY <1>1, <1>2, <1>3 DEF BoxInv, OnlyReviewedWork
  <1>. QED BY <1>3, <1>4, <1>5 DEF BoxInv

(* Every step keeps what is said of the sandboxes.                         *)
LEMMA BoxStepKeeps == BoxInv /\ [Next]_vars => BoxInv'
  <1>. SUFFICES ASSUME BoxInv, [Next]_vars PROVE BoxInv'
    OBVIOUS
  <1>1. ASSUME NEW a \in Delegates, Delegate(a) \/ Return(a) PROVE BoxInv'
    <2>1. a \notin Boxed /\ UNCHANGED <<disk, author, box, approved, past>>
      BY <1>1, StageToolsAssumption DEF Delegate, Return, project, sandboxes, boxes
    <2>2. DOMAIN phase' = Agents /\ \A b \in Boxed: phase'[b] = phase[b]
      BY <1>1, <2>1, StageToolsAssumption DEF Delegate, Return, BoxInv, BoxTypes, Agents
    <2>. QED BY <2>1, <2>2, SandboxesUndisturbed DEF BoxInv, BoxTypes
  <1>2. CASE Conclude \/ Cancel \/ UNCHANGED vars
    <2>1. UNCHANGED <<disk, author, box, approved, past, phase>>
      BY <1>2 DEF Conclude, Cancel, vars, toolVars, project, sandboxes, boxes, loop
    <2>. QED BY <2>1, SandboxesUndisturbed DEF BoxInv, BoxTypes
  <1>3. ASSUME NEW a \in Agents, Fail(a) PROVE BoxInv'
    <2>1. UNCHANGED <<disk, author, box, approved, past>> /\ phase' = [phase EXCEPT ![a] = "failed"]
          /\ phase[a] = "working"
      BY <1>3 DEF Fail, project, sandboxes, boxes
    <2>. QED BY <2>1, StageToolsAssumption, SandboxesUndisturbed DEF BoxInv, BoxTypes, Agents
  <1>4. ASSUME NEW a \in Agents, NEW k \in Calls[a], NEW executed \in BOOLEAN, Use(a, k, executed)
        PROVE  BoxInv'
    BY <1>4, BoxedUseKeeps, PlainUseKeeps
  <1>5. ASSUME NEW e \in Edits, EditFile(e) PROVE BoxInv'
    <2>1. "person" \notin Boxed
      BY StageToolsAssumption DEF Agents
    <2>2. UNCHANGED <<box, past, phase>>
      BY <1>5 DEF EditFile, boxes, loop
    <2>. QED BY <1>5, <2>1, <2>2, PuttingKeeps DEF EditFile, BoxInv, BoxTypes
  <1>. QED
    BY <1>1, <1>2, <1>3, <1>4, <1>5, StopKeeps, ReviewKeeps, LingerKeeps
    DEF Next, OrchestratorStep, AgentStep

(* What a sandboxed stage leaves in the project was shown to the person    *)
(* who applied it, or changed since by others or a process it had left     *)
(* behind, or was put there past the sandbox, by a command or through a    *)
(* link (sandbox-manager.ts, sandbox-tools.ts, executeStage).              *)
THEOREM WorkIsReviewed == Spec => []OnlyReviewedWork
  <1>1. Init => BoxInv
    <2>. SUFFICES ASSUME ToolsInit PROVE BoxInv
      BY DEF Init
    <2>1. \A p \in Paths: author[p] \notin Boxed
      BY StageToolsAssumption DEF ToolsInit, Agents
    <2>2. \A b \in Boxed: phase[b] = "working"
      BY StageToolsAssumption DEF ToolsInit, Agents
    <2>3. BoxTypes
      BY DEF ToolsInit, BoxTypes, Bare
    <2>. QED BY <2>1, <2>2, <2>3 DEF BoxInv, DiffsShown, OnlyReviewedWork
  <1>2. BoxInv => OnlyReviewedWork
    BY DEF BoxInv
  <1>. QED BY <1>1, <1>2, BoxStepKeeps, PTL DEF Spec

-----------------------------------------------------------------------------
(* What is noted as work was done, unless such a call was refused.         *)
WorkTypes == DOMAIN work = Agents /\ refused \in BOOLEAN
NotedIsDone == refused \/ (summary \subseteq worked /\ \A a \in Delegates: work[a] \subseteq worked)
WorkInv == WorkTypes /\ NotedIsDone /\ SuccessMeansWork

(* Neither the stages of the sequential run nor what they wait for touch   *)
(* the orchestrated one.                                                   *)
LEMMA WorkUndisturbed ==
    ASSUME WorkInv, UNCHANGED <<run, work>>
    PROVE  WorkInv'
  BY DEF WorkInv, WorkTypes, NotedIsDone, SuccessMeansWork, run

(* Every step keeps what is said of the work of an orchestrated run.       *)
LEMMA WorkStepKeeps == WorkInv /\ [Next]_vars => WorkInv'
  <1>. SUFFICES ASSUME WorkInv, [Next]_vars PROVE WorkInv'
    OBVIOUS
  <1>. USE DEF WorkInv
  <1>1. ASSUME NEW a \in Delegates, Delegate(a) PROVE WorkInv'
    <2>1. work' = work \/ work' = [work EXCEPT ![a] = {}]
      BY <1>1 DEF Delegate
    <2>2. UNCHANGED <<summary, worked, refused>> /\ orchestrator' # "success"
      BY <1>1 DEF Delegate
    <2>3. SuccessMeansWork'
      BY <2>2 DEF SuccessMeansWork
    <2>4. WorkTypes' /\ NotedIsDone'
      <3>1. DOMAIN work' = Agents /\ \A d \in Delegates: work'[d] = work[d] \/ work'[d] = {}
        BY <2>1 DEF WorkTypes, Agents
      <3>. QED BY <2>2, <3>1 DEF WorkTypes, NotedIsDone
    <2>. QED BY <2>3, <2>4
  <1>2. ASSUME NEW a \in Delegates, Return(a) PROVE WorkInv'
    BY <1>2 DEF Return, WorkTypes, NotedIsDone, SuccessMeansWork
  <1>3. CASE Conclude
    <2>1. UNCHANGED <<work, summary, worked, refused>>
      BY <1>3 DEF Conclude, toolVars, loop
    <2>2. orchestrator' = "success" => Convincing
      BY <1>3 DEF Conclude
    <2>. QED BY <2>1, <2>2 DEF WorkTypes, NotedIsDone, SuccessMeansWork, Convincing
  <1>4. CASE Cancel
    BY <1>4 DEF Cancel, toolVars, loop, WorkTypes, NotedIsDone, SuccessMeansWork
  <1>5. ASSUME NEW a \in Agents, Stop(a) \/ Fail(a), UNCHANGED run PROVE WorkInv'
    BY <1>5, WorkUndisturbed DEF Stop, Fail
  <1>6. ASSUME NEW a \in Agents, NEW k \in Calls[a], NEW executed \in BOOLEAN, Use(a, k, executed),
               worked' = IF a \in Delegates /\ executed THEN worked \cup Noted(k) ELSE worked,
               refused' = (refused \/ (a \in Delegates /\ ~executed /\ Noted(k) # {})),
               UNCHANGED <<orchestrator, summary>>
        PROVE  WorkInv'
    <2>1. work' = [work EXCEPT ![a] = work[a] \cup Noted(k)]
      BY <1>6 DEF Use
    <2>2. WorkTypes' /\ \A d \in Agents: work'[d] = IF d = a THEN work[a] \cup Noted(k) ELSE work[d]
      BY <1>6, <2>1 DEF WorkTypes
    <2>3. Delegates \subseteq Agents /\ worked \subseteq worked'
      BY <1>6 DEF Agents
    <2>4. NotedIsDone'
      BY <1>6, <2>2, <2>3 DEF NotedIsDone
    <2>5. SuccessMeansWork'
      BY <1>6, <2>3 DEF SuccessMeansWork
    <2>. QED BY <2>2, <2>4, <2>5
  <1>7. ASSUME NEW b \in Boxed, Answer(b), UNCHANGED run PROVE WorkInv'
    BY <1>7, WorkUndisturbed DEF Answer
  <1>8. ASSUME NEW e \in Edits, EditFile(e), UNCHANGED run PROVE WorkInv'
    BY <1>8, WorkUndisturbed DEF EditFile, loop
  <1>10. ASSUME NEW b \in Boxed, Linger(b), UNCHANGED run PROVE WorkInv'
    BY <1>10, WorkUndisturbed DEF Linger, loop
  <1>9. CASE UNCHANGED vars
    BY <1>9, WorkUndisturbed DEF vars, toolVars, loop
  <1>. QED
    BY <1>1, <1>2, <1>3, <1>4, <1>5, <1>6, <1>7, <1>8, <1>9, <1>10
    DEF Next, OrchestratorStep, AgentStep

(* An orchestrated run that succeeds had work done by a tool, of the kind  *)
(* its prompt asks for, unless a call that counts as work was refused      *)
(* (validateOrchestratedWork).                                             *)
THEOREM SuccessIsWork == Spec => []SuccessMeansWork
  <1>1. Init => WorkInv
    <2>. SUFFICES ASSUME Init PROVE WorkInv
      OBVIOUS
    <2>1. orchestrator # "success" /\ refused = FALSE /\ summary = {} /\ work = [a \in Agents |-> {}]
      BY DEF Init, ToolsInit
    <2>. QED BY <2>1 DEF WorkInv, WorkTypes, NotedIsDone, SuccessMeansWork, Agents
  <1>2. WorkInv => SuccessMeansWork
    BY DEF WorkInv
  <1>. QED BY <1>1, <1>2, WorkStepKeeps, PTL DEF Spec

-----------------------------------------------------------------------------
(* The skills.                                                             *)

Contents == {d.prompt: d \in LeftWhole} \cup {d.manifest: d \in LeftWhole} \cup {Blank}

Documents == [prompt: Contents, manifest: Contents]

Places == Scopes \X Skills

(* What is under way.                                                      *)
Messages == [op: {"create", "read", "save", "delete"}, skill: Skills \cup {NoSkill},
             doc: Documents, at: {"sent", "begun", "ok", "error"}, live: BOOLEAN]

SkillTypes ==
    /\ DOMAIN net = Windows /\ \A w \in Windows: net[w] \subseteq Messages
    /\ \A w \in Windows: \A m \in net[w]:
          m.op # "create" \/ m.at \in {"begun", "ok"} => m.skill \in Skills
    /\ editor \in [Windows -> Skills \cup {NoSkill}]
    /\ source \in [Windows -> Skills \cup {NoSkill}]
    /\ fields \in [Windows -> Documents]

(* Every document is whole but the one that is being changed, and those    *)
(* that a handler has failed on; of the one that is being changed, what has*)
(* not still to be written is as it will be.                               *)
DocumentsWhole ==
    /\ files \in [Places -> Documents]
    /\ \A x \in Places: x \notin torn /\ (Free \/ x # Half) => files[x] \in LeftWhole
    /\ ~Free =>
          /\ writing \in [window: Windows, skill: Skills, doc: Documents, left: SUBSET Parts]
          /\ \A f \in Parts \ writing.left: files[Half][f] = writing.doc[f]

(* What a stage has read is what the directory has, unless that was being  *)
(* changed, or a handler had failed on it.                                 *)
Loads == [skill: Skills \cup {NoSkill}, root: DOMAIN Roots,
          at: {"prompt?", "manifest?", "prompt", "manifest", "done"},
          prompt: Contents, manifest: Contents, spoilt: BOOLEAN]

LoadWhole ==
    /\ load \in Loads
    /\ load.at # "done" => load.skill \in Skills
    /\ load.at # "done" /\ ~load.spoilt => Here \notin torn /\ (Free \/ Half # Here)
    /\ load.at \in {"prompt?", "manifest?"} => load.prompt = NoFile /\ load.manifest = NoFile
    /\ load.at = "manifest" /\ ~load.spoilt => load.prompt = FileHere("prompt")
    /\ load.at = "done" /\ ~load.spoilt => Document(load.prompt, load.manifest) \in LeftWhole

(* The dialog of a window waits only for the skill that it names, unless it*)
(* crossed; what it shows is that skill's, unless it waits or complains.   *)
DialogAgrees(w) ==
    /\ w \in form => editor[w] = NoSkill
    /\ editor[w] = NoSkill => w \notin crossed /\ \A m \in net[w]: m.op # "read"
    /\ \A m \in net[w]: m.op = "read" => m.live /\ (w \in crossed \/ m.skill = editor[w])
    /\ CanSave(w) /\ w \notin failed \cup crossed => source[w] = editor[w]

WindowsInv == SkillTypes /\ \A w \in Windows: DialogAgrees(w)

SkillsInv == WindowsInv /\ DocumentsWhole /\ LoadWhole

-----------------------------------------------------------------------------
(* Documents.                                                              *)

LEMMA TwoParts == Parts = {"prompt", "manifest"}
  BY DEF Parts, Nothing, Document

(* What was left has a prompt and a manifest; what reads as empty has two. *)
LEMMA LeftDocuments ==
    /\ {Nothing, Empty, Default, Shipped} \subseteq LeftWhole
    /\ \A w \in Windows: Typed[w] \subseteq LeftWhole
    /\ LeftWhole \subseteq Documents
    /\ Blank \in Contents /\ NoFile \in Contents
    /\ \A d \in Documents: AsRead(d) \in Documents /\ d = Document(d.prompt, d.manifest)
  <1> DEFINE left == ByHand \cup (UNION {Typed[w]: w \in Windows}) \cup {Default, Shipped, Nothing}
  <1>1. LeftWhole = left \cup {AsRead(d): d \in left}
    BY DEF LeftWhole
  <1>2. \A d \in left: d = Document(d.prompt, d.manifest)
    <2>1. \A d \in {Default, Shipped, Nothing}: d = Document(d.prompt, d.manifest)
      <3>1. \A p, q: Document(p, q) = Document(Document(p, q).prompt, Document(p, q).manifest)
        BY DEF Document
      <3>. QED BY <3>1 DEF Default, Shipped, Nothing
    <2>2. \A d \in ByHand \cup (UNION {Typed[w]: w \in Windows}): d = Document(d.prompt, d.manifest)
      BY SkillsAssumption DEF SkillsAssumption, Document
    <2>. QED BY <2>1, <2>2
  <1>3. ASSUME NEW d, d = Document(d.prompt, d.manifest)
        PROVE  AsRead(d) = Document(IF d.prompt = NoFile THEN Blank ELSE d.prompt,
                                    IF d.manifest = NoFile THEN Blank ELSE d.manifest)
    <2>1. DOMAIN d = {"prompt", "manifest"}
      BY <1>3 DEF Document
    <2>2. AsRead(d) = [f \in {"prompt", "manifest"} |-> IF d[f] = NoFile THEN Blank ELSE d[f]]
      BY <2>1 DEF AsRead
    <2>. QED BY <2>2 DEF Document
  <1>4. Empty = AsRead(Nothing) /\ {Default, Shipped, Nothing} \subseteq left
    BY DEF Empty
  <1>5. \A w \in Windows: Typed[w] \subseteq left
    OBVIOUS
  <1>. HIDE DEF left
  <1>6. \A d \in LeftWhole: d = Document(d.prompt, d.manifest)
    <2>1. \A p, q: Document(p, q) = Document(Document(p, q).prompt, Document(p, q).manifest)
      BY DEF Document
    <2>. QED BY <1>1, <1>2, <1>3, <2>1
  <1>7. \A p \in Contents, q \in Contents: Document(p, q) \in Documents
    BY DEF Document, Documents
  <1>8. LeftWhole \subseteq Documents
    BY <1>6, <1>7 DEF Contents
  <1>9. Blank \in Contents /\ NoFile \in Contents
    <2>1. Nothing \in LeftWhole /\ Nothing.prompt = NoFile
      BY <1>1, <1>4 DEF Nothing, Document
    <2>. QED BY <2>1 DEF Contents
  <1>10. \A d \in Documents: d = Document(d.prompt, d.manifest) /\ d.prompt \in Contents /\ d.manifest \in Contents
    BY DEF Documents, Document
  <1>11. \A d \in Documents: AsRead(d) \in Documents
    BY <1>3, <1>7, <1>9, <1>10
  <1>. QED BY <1>1, <1>4, <1>5, <1>8, <1>9, <1>10, <1>11

(* A document with one part replaced.                                      *)
LEMMA PartReplaced ==
    ASSUME NEW d \in Documents, NEW f \in Parts, NEW c \in Contents
    PROVE  LET e == [d EXCEPT ![f] = c]
           IN e \in Documents /\ \A g \in Parts: e[g] = IF g = f THEN c ELSE d[g]
  BY TwoParts DEF Documents

LEMMA SameParts ==
    ASSUME NEW d \in Documents, NEW e \in Documents, \A f \in Parts: d[f] = e[f]
    PROVE  d = e
  BY TwoParts DEF Documents

-----------------------------------------------------------------------------
(* What a stage loads.                                                     *)

LEMMA ThreeRoots ==
    /\ DOMAIN Roots = 1 .. 3 /\ Len(Roots) = 3
    /\ Roots[1] = "project" /\ Roots[2] = "global" /\ Roots[3] = "built-in"
    /\ Scopes = {"project", "global"}
  BY DEF Roots, Scopes

(* A directory that is not being changed has a whole document.             *)
LEMMA WholeThere ==
    ASSUME DocumentsWhole, NEW i \in DOMAIN Roots, NEW s \in Skills,
           <<Roots[i], s>> \notin torn, Free \/ Half # <<Roots[i], s>>
    PROVE  InRoot(Roots[i], s) \in LeftWhole
  <1>1. CASE Roots[i] = "built-in"
    BY <1>1, LeftDocuments DEF InRoot
  <1>2. CASE Roots[i] # "built-in"
    <2>1. Roots[i] \in Scopes /\ <<Roots[i], s>> \in Places
      BY <1>2, ThreeRoots DEF Places
    <2>. QED BY <1>2, <2>1 DEF InRoot, DocumentsWhole
  <1>. QED BY <1>1, <1>2

LEMMA DocumentThere ==
    ASSUME DocumentsWhole, NEW i \in DOMAIN Roots, NEW s \in Skills
    PROVE  InRoot(Roots[i], s) \in Documents
  <1>1. CASE Roots[i] = "built-in"
    BY <1>1, LeftDocuments DEF InRoot
  <1>2. CASE Roots[i] # "built-in"
    <2>1. Roots[i] \in Scopes /\ <<Roots[i], s>> \in Places
      BY <1>2, ThreeRoots DEF Places
    <2>. QED BY <1>2, <2>1 DEF InRoot, DocumentsWhole
  <1>. QED BY <1>1, <1>2

(* The stage comes to a directory.                                         *)
LEMMA EnterKeeps ==
    ASSUME DocumentsWhole, NEW i \in DOMAIN Roots, NEW s \in Skills, Enter(i, s),
           UNCHANGED <<files, writing, torn>>
    PROVE  LoadWhole'
  <1> DEFINE x == <<Roots[i], s>>
             spoilt == x \in torn \/ (~Free /\ x = Half)
  <1>1. load' = At(i, s, spoilt)
    BY DEF Enter
  <1>. HIDE DEF spoilt
  <1>2. /\ load'.skill = s /\ load'.root = i /\ load'.at = "prompt?" /\ load'.prompt = NoFile
        /\ load'.manifest = NoFile /\ load'.spoilt = spoilt
    BY <1>1 DEF At
  <1>3. load' \in Loads
    <2>1. spoilt \in BOOLEAN
      BY DEF spoilt
    <2>. QED BY <1>1, <2>1, LeftDocuments DEF At, Loads
  <1>4. Here' = x
    BY <1>2 DEF Here
  <1>5. ~spoilt => x \notin torn' /\ (Free' \/ Half' # x)
    BY DEF spoilt, Free, Half
  <1>. HIDE DEF x
  <1>. QED BY <1>2, <1>3, <1>4, <1>5 DEF LoadWhole

(* The stage looks at a file, or reads it.                                 *)
LEMMA StageKeeps ==
    ASSUME SkillsInv, Stage
    PROVE  SkillsInv'
  <1>1. UNCHANGED <<files, writing, torn, net, form, editor, fields, loading, failed, source, crossed>>
    BY DEF Stage, page, dialog
  <1>2. WindowsInv' /\ DocumentsWhole'
    BY <1>1 DEF SkillsInv, WindowsInv, SkillTypes, DialogAgrees, CanSave, Underway, DocumentsWhole,
        Free, Half
  <1> DEFINE there == InRoot(Roots[load.root], load.skill)
  <1>3. /\ load \in Loads /\ load.root \in DOMAIN Roots
        /\ load.at # "done" => load.skill \in Skills /\ there \in Documents
        /\ load.at # "done" /\ ~load.spoilt => there \in LeftWhole
    <2>1. load \in Loads /\ load.root \in DOMAIN Roots /\ (load.at # "done" => load.skill \in Skills)
      BY DEF SkillsInv, LoadWhole, Loads
    <2>2. ASSUME load.at # "done" PROVE there \in Documents
      BY <2>1, <2>2, DocumentThere DEF SkillsInv
    <2>3. ASSUME load.at # "done", ~load.spoilt PROVE there \in LeftWhole
      BY <2>1, <2>3, WholeThere DEF SkillsInv, LoadWhole, Here
    <2>. QED BY <2>1, <2>2, <2>3
  <1>4. ASSUME NEW s \in Named, LoadSkill(s) PROVE LoadWhole'
    BY <1>1, <1>4, EnterKeeps, ThreeRoots, SkillsAssumption DEF SkillsInv, LoadSkill, SkillsAssumption
  <1>5. ASSUME load.at # "done", NEW at \in {"manifest?", "prompt"},
               load' = [load EXCEPT !.at = at],
               at = "prompt" \/ load.at = "prompt?"
        PROVE  LoadWhole'
    <2>1. load' \in Loads /\ load'.at = at /\ load'.skill = load.skill /\ load'.root = load.root
          /\ load'.prompt = load.prompt /\ load'.manifest = load.manifest /\ load'.spoilt = load.spoilt
      BY <1>3, <1>5 DEF Loads
    <2>. QED BY <1>1, <1>5, <2>1 DEF SkillsInv, LoadWhole, Here, Free, Half
  <1>6. ASSUME load.at = "manifest?", load.root < Len(Roots), Enter(load.root + 1, load.skill)
        PROVE  LoadWhole'
    <2>1. load.root + 1 \in DOMAIN Roots
      BY <1>3, <1>6, ThreeRoots
    <2>. QED BY <1>1, <1>3, <1>6, <2>1, EnterKeeps DEF SkillsInv
  <1>7. ASSUME load.at = "manifest?", load' = [load EXCEPT !.at = "done"] PROVE LoadWhole'
    <2>1. /\ load' \in Loads /\ load'.at = "done"
          /\ load'.prompt = NoFile /\ load'.manifest = NoFile
      BY <1>3, <1>7 DEF Loads, SkillsInv, LoadWhole
    <2>2. Document(NoFile, NoFile) \in LeftWhole
      BY LeftDocuments DEF Nothing
    <2>. QED BY <2>1, <2>2 DEF LoadWhole
  <1>8. ASSUME load.at = "prompt", load' = [load EXCEPT !.prompt = FileHere("prompt"), !.at = "manifest"]
        PROVE  LoadWhole'
    <2>1. FileHere("prompt") \in Contents
      BY <1>3, <1>8 DEF FileHere, Documents
    <2>2. load' \in Loads /\ load'.at = "manifest" /\ load'.skill = load.skill /\ load'.root = load.root
          /\ load'.prompt = FileHere("prompt") /\ load'.spoilt = load.spoilt
      BY <1>3, <1>8, <2>1 DEF Loads
    <2>3. FileHere("prompt")' = FileHere("prompt")
      BY <1>1, <2>2 DEF FileHere, InRoot
    <2>. QED BY <1>1, <1>8, <2>2, <2>3 DEF SkillsInv, LoadWhole, Here, Free, Half
  <1>9. ASSUME load.at = "manifest",
               load' = [load EXCEPT !.manifest = FileHere("manifest"), !.at = "done"]
        PROVE  LoadWhole'
    <2>1. FileHere("manifest") = there.manifest /\ FileHere("prompt") = there.prompt /\ there \in Documents
      BY <1>3, <1>9 DEF FileHere
    <2>2. FileHere("manifest") \in Contents
      BY <2>1 DEF Documents
    <2>3. load' \in Loads /\ load'.at = "done" /\ load'.prompt = load.prompt
          /\ load'.manifest = FileHere("manifest") /\ load'.spoilt = load.spoilt
      BY <1>3, <1>9, <2>2 DEF Loads
    <2>4. ~load.spoilt => Document(load'.prompt, load'.manifest) = there /\ there \in LeftWhole
      <3>1. ~load.spoilt => load.prompt = there.prompt /\ there \in LeftWhole
        BY <1>3, <1>9, <2>1 DEF SkillsInv, LoadWhole
      <3>2. there = Document(there.prompt, there.manifest)
        BY <2>1, LeftDocuments
      <3>. HIDE DEF there
      <3>. QED BY <2>1, <2>3, <3>1, <3>2
    <2>. QED BY <2>3, <2>4 DEF LoadWhole
  <1>. QED BY <1>2, <1>4, <1>5, <1>6, <1>7, <1>8, <1>9 DEF SkillsInv, Stage, LoadStep

(* A handler changes one document: the stage that reads there is spoilt,   *)
(* and one that does not read there does not notice.                       *)
LEMMA ChangeSpoils ==
    ASSUME LoadWhole, NEW x \in Places,
           load' = load \/ load' = [load EXCEPT !.spoilt = TRUE],
           ~load'.spoilt /\ load.at # "done" => Here # x,
           \A y \in Places: y # x => files'[y] = files[y],
           torn' \subseteq torn \cup {x}, Free' \/ Half' = x
    PROVE  LoadWhole'
  <1>1. /\ load' \in Loads /\ load'.at = load.at /\ load'.skill = load.skill /\ load'.root = load.root
        /\ load'.prompt = load.prompt /\ load'.manifest = load.manifest
        /\ ~load'.spoilt => ~load.spoilt
    BY DEF LoadWhole, Loads
  <1>2. Here' = Here
    BY <1>1 DEF Here
  <1>3. ASSUME load.at = "manifest", ~load'.spoilt PROVE FileHere("prompt")' = FileHere("prompt")
    <2>1. Here # x /\ Here = <<Roots[load.root], load.skill>> /\ load.skill \in Skills
          /\ load.root \in DOMAIN Roots
      BY <1>3 DEF Here, LoadWhole, Loads
    <2>2. Roots[load.root] = "built-in" \/ Here \in Places
      BY <2>1, ThreeRoots DEF Places
    <2>. QED BY <1>1, <2>1, <2>2 DEF FileHere, InRoot
  <1>. QED BY <1>1, <1>2, <1>3 DEF LoadWhole

-----------------------------------------------------------------------------
(* The server's steps.                                                     *)

(* No window is disturbed when messages only move on.                      *)
LEMMA MovesKeep ==
    ASSUME WindowsInv, UNCHANGED page, DOMAIN net' = Windows,
           \A w \in Windows: net'[w] \subseteq Messages,
           \A w \in Windows: \A n \in net'[w]: \E k \in net[w]:
              /\ n.op = k.op /\ n.skill = k.skill /\ n.live = k.live
              /\ n.op # "create" \/ n.at \in {"begun", "ok"} => n.skill \in Skills,
           \A w \in Windows: \A k \in net[w]: \E n \in net'[w]:
              n.op = k.op /\ n.skill = k.skill /\ n.live = k.live
    PROVE  WindowsInv'
  <1>1. UNCHANGED <<form, editor, fields, loading, failed, source, crossed>>
    BY DEF page, dialog
  <1>2. SkillTypes'
    BY <1>1 DEF WindowsInv, SkillTypes
  <1>3. ASSUME NEW w \in Windows PROVE DialogAgrees(w)'
    BY <1>1 DEF WindowsInv, DialogAgrees, CanSave, Underway
  <1>. QED BY <1>2, <1>3 DEF WindowsInv

(* A message that a handler answers is replaced by its reply.              *)
LEMMA AnswerKeeps ==
    ASSUME WindowsInv, UNCHANGED page, NEW w \in Windows, NEW m \in net[w], NEW reply \in Messages,
           Answered(w, m, reply), reply.op = m.op, reply.skill = m.skill, reply.live = m.live,
           reply.op # "create" \/ reply.at \in {"begun", "ok"} => reply.skill \in Skills
    PROVE  WindowsInv'
  <1>1. \A v \in Windows: net'[v] = IF v = w THEN (net[w] \ {m}) \cup {reply} ELSE net[v]
    BY DEF Answered, WindowsInv, SkillTypes
  <1>2. DOMAIN net' = Windows
    BY DEF Answered, WindowsInv, SkillTypes
  <1>3. \A v \in Windows: net'[v] \subseteq Messages
    BY <1>1 DEF WindowsInv, SkillTypes
  <1>4. \A v \in Windows: \A n \in net'[v]: \E k \in net[v]:
            /\ n.op = k.op /\ n.skill = k.skill /\ n.live = k.live
            /\ n.op # "create" \/ n.at \in {"begun", "ok"} => n.skill \in Skills
    BY <1>1 DEF WindowsInv, SkillTypes
  <1>5. \A v \in Windows: \A k \in net[v]: \E n \in net'[v]:
            n.op = k.op /\ n.skill = k.skill /\ n.live = k.live
    BY <1>1
  <1>. QED BY <1>2, <1>3, <1>4, <1>5, MovesKeep

(* A reply is a message, about the same.                                   *)
LEMMA RepliesAreMessages ==
    ASSUME NEW m \in Messages, NEW at \in {"sent", "begun", "ok", "error"}
    PROVE  LET reply == [m EXCEPT !.at = at]
           IN /\ reply \in Messages /\ reply.at = at
              /\ reply.op = m.op /\ reply.skill = m.skill /\ reply.live = m.live
              /\ reply.doc = m.doc
  BY DEF Messages

(* The handler that has changed its document, or not, answers.             *)
LEMMA RepliedKeeps ==
    ASSUME WindowsInv, UNCHANGED page, writing.window \in Windows,
           NEW at \in {"ok", "error"}, Replied(at)
    PROVE  WindowsInv'
  <1> DEFINE R(m) == IF m.at = "begun" THEN [m EXCEPT !.at = at] ELSE m
  <1>1. /\ DOMAIN net' = Windows
        /\ \A v \in Windows: net'[v] = IF v = writing.window THEN {R(m): m \in net[v]} ELSE net[v]
    BY DEF Replied, WindowsInv, SkillTypes
  <1>2. \A m \in Messages: /\ R(m) \in Messages /\ R(m).op = m.op
                           /\ R(m).skill = m.skill /\ R(m).live = m.live
                           /\ R(m).at = m.at \/ m.at = "begun"
    <2>. at \in {"sent", "begun", "ok", "error"}
      OBVIOUS
    <2>1. ASSUME NEW m \in Messages
          PROVE  LET r == [m EXCEPT !.at = at] IN
                 r \in Messages /\ r.op = m.op /\ r.skill = m.skill /\ r.live = m.live
      BY RepliesAreMessages
    <2>. QED BY <2>1
  <1>. HIDE DEF R
  <1>3. \A v \in Windows: net[v] \subseteq Messages
    BY DEF WindowsInv, SkillTypes
  <1>4. \A v \in Windows: net'[v] \subseteq Messages
    BY <1>1, <1>2, <1>3
  <1>5. \A v \in Windows: \A n \in net'[v]: \E k \in net[v]:
            /\ n.op = k.op /\ n.skill = k.skill /\ n.live = k.live
            /\ n.at = k.at \/ k.at = "begun"
    BY <1>1, <1>2, <1>3
  <1>6. \A v \in Windows: \A n \in net'[v]: \E k \in net[v]:
            /\ n.op = k.op /\ n.skill = k.skill /\ n.live = k.live
            /\ n.op # "create" \/ n.at \in {"begun", "ok"} => n.skill \in Skills
    BY <1>5 DEF WindowsInv, SkillTypes
  <1>7. \A v \in Windows: \A k \in net[v]: \E n \in net'[v]:
            n.op = k.op /\ n.skill = k.skill /\ n.live = k.live
    BY <1>1, <1>2, <1>3
  <1>. QED BY <1>1, <1>4, <1>6, <1>7, MovesKeep

(* A create, save or delete starts, or opens the file of the prompt.       *)
LEMMA BeginKeeps ==
    ASSUME SkillsInv, Free, NEW w \in Windows, NEW m \in net[w], NEW d \in Documents,
           m.skill \in Skills, Begin(w, m, d), UNCHANGED <<page, torn>>,
           \/ UNCHANGED files
           \/ files' = [files EXCEPT ![<<ScopeOf[w], m.skill>>].prompt = Blank]
    PROVE  SkillsInv'
  <1> DEFINE reply == [m EXCEPT !.at = "begun"]
             here == <<ScopeOf[w], m.skill>>
  <1>1. m \in Messages
    BY DEF SkillsInv, WindowsInv, SkillTypes
  <1>2. reply \in Messages /\ reply.op = m.op /\ reply.skill = m.skill /\ reply.live = m.live
    BY <1>1, RepliesAreMessages
  <1>3. Answered(w, m, reply)
    BY DEF Begin
  <1>4. here \in Places
    BY SkillsAssumption DEF SkillsAssumption, Places
  <1>5. WindowsInv'
    <2>. HIDE DEF reply
    <2>. QED BY <1>2, <1>3, AnswerKeeps DEF SkillsInv
  <1>6. /\ writing'.window = w /\ writing'.skill = m.skill /\ writing'.doc = d /\ writing'.left = Parts
        /\ Half' = here /\ ~Free'
        /\ writing' \in [window: Windows, skill: Skills, doc: Documents, left: SUBSET Parts]
    <2>1. writing' = [window |-> w, skill |-> m.skill, doc |-> d, left |-> Parts]
      BY DEF Begin
    <2>2. writing' # Idle
      BY <2>1, SkillsAssumption DEF Idle, SkillsAssumption
    <2>. QED BY <2>1, <2>2 DEF Half, Free
  <1>7. files' \in [Places -> Documents] /\ \A y \in Places: y # here => files'[y] = files[y]
    <2>1. files \in [Places -> Documents]
      BY DEF SkillsInv, DocumentsWhole
    <2>2. CASE UNCHANGED files
      BY <2>1, <2>2
    <2>3. CASE files' = [files EXCEPT ![here].prompt = Blank]
      <3>1. [files[here] EXCEPT !["prompt"] = Blank] \in Documents
        BY <1>4, <2>1, PartReplaced, TwoParts, LeftDocuments
      <3>2. files' = [files EXCEPT ![here] = [files[here] EXCEPT !["prompt"] = Blank]]
        BY <2>3
      <3>. HIDE DEF here
      <3>. QED BY <1>4, <2>1, <3>1, <3>2
    <2>. QED BY <2>2, <2>3
  <1>8. Spoil(here)
    BY DEF Begin
  <1>. HIDE DEF here
  <1>9. DocumentsWhole'
    <2>1. \A x \in Places: x \notin torn' /\ (Free' \/ x # Half') => files'[x] \in LeftWhole
      BY <1>6, <1>7 DEF SkillsInv, DocumentsWhole
    <2>. QED BY <1>6, <1>7, <2>1 DEF DocumentsWhole
  <1>10. LoadWhole'
    <2>1. ~load'.spoilt => Here # here
      BY <1>8 DEF Spoil, SkillsInv, LoadWhole, Loads
    <2>2. load' = load \/ load' = [load EXCEPT !.spoilt = TRUE]
      BY <1>8 DEF Spoil
    <2>. QED BY <1>4, <1>6, <1>7, <2>1, <2>2, ChangeSpoils DEF SkillsInv
  <1>. QED BY <1>5, <1>9, <1>10 DEF SkillsInv

(* An answer that changes nothing.                                         *)
LEMMA AnswersKeep ==
    ASSUME SkillsInv, NEW w \in Windows, NEW m \in net[w], NEW reply \in Messages,
           Answered(w, m, reply), reply.op = m.op, reply.skill = m.skill, reply.live = m.live,
           reply.op # "create" \/ reply.at \in {"begun", "ok"} => reply.skill \in Skills,
           UNCHANGED <<server, page>>
    PROVE  SkillsInv'
  <1>1. WindowsInv'
    BY AnswerKeeps DEF SkillsInv
  <1>2. DocumentsWhole' /\ LoadWhole'
    BY DEF SkillsInv, DocumentsWhole, LoadWhole, Free, Half, Here, FileHere, InRoot, server
  <1>. QED BY <1>1, <1>2 DEF SkillsInv

(* The handlers.                                                           *)
LEMMA HandleKeeps ==
    ASSUME SkillsInv, NEW w \in Windows, NEW m \in net[w], Handle(w, m)
    PROVE  SkillsInv'
  <1> DEFINE scope == ScopeOf[w]
  <1>1. m \in Messages /\ m.at = "sent" /\ Free /\ UNCHANGED <<page, torn>>
    BY DEF Handle, SkillsInv, WindowsInv, SkillTypes
  <1>2. scope \in Scopes
    BY SkillsAssumption DEF SkillsAssumption
  <1>3. m.op # "create" => m.skill \in Skills
    BY DEF SkillsInv, WindowsInv, SkillTypes
  <1>6. ASSUME Answered(w, m, Refused(m)), UNCHANGED <<files, writing, load>>,
               m.op \in {"create", "delete"}
        PROVE  SkillsInv'
    <2>1. /\ Refused(m) \in Messages /\ Refused(m).at = "error" /\ Refused(m).op = m.op
          /\ Refused(m).skill = m.skill /\ Refused(m).live = m.live
      BY <1>1, RepliesAreMessages DEF Refused
    <2>. QED BY <1>1, <1>3, <1>6, <2>1, AnswersKeep DEF server
  <1>7. /\ Done(m) \in Messages /\ Done(m).at = "ok" /\ Done(m).op = m.op
        /\ Done(m).skill = m.skill /\ Done(m).live = m.live
    BY <1>1, RepliesAreMessages DEF Done
  <1>8. CASE m.op = "create"
    <2>1. IF MayCreate(scope, m.skill) THEN OpenPrompt(w, m, Default)
          ELSE Answered(w, m, Refused(m)) /\ UNCHANGED <<files, writing, load>>
      BY <1>8 DEF Handle
    <2>2. MayCreate(scope, m.skill) => m.skill \in Skills
      BY <1>1 DEF MayCreate, Messages
    <2>. QED BY <1>1, <1>6, <1>8, <2>1, <2>2, LeftDocuments, BeginKeeps DEF OpenPrompt
  <1>9. CASE m.op = "read"
    <2> DEFINE doc == AsRead(files[<<scope, m.skill>>])
               reply == [Done(m) EXCEPT !.doc = doc]
    <2>1. Answered(w, m, reply) /\ UNCHANGED <<files, writing, load>>
      BY <1>9 DEF Handle
    <2>2. doc \in Documents
      BY <1>2, <1>3, <1>9, LeftDocuments DEF SkillsInv, DocumentsWhole, Places
    <2>3. reply \in Messages /\ reply.op = m.op /\ reply.skill = m.skill /\ reply.live = m.live
      <3>. HIDE DEF doc
      <3>. QED BY <1>7, <2>2 DEF Messages
    <2>. HIDE DEF reply
    <2>. QED BY <1>1, <1>3, <1>9, <2>1, <2>3, AnswersKeep DEF server
  <1>10. CASE m.op = "save"
    <2>1. OpenPrompt(w, m, m.doc)
      BY <1>10 DEF Handle
    <2>2. m.doc \in Documents
      BY <1>1 DEF Messages
    <2>. QED BY <1>1, <1>3, <1>10, <2>1, <2>2, BeginKeeps DEF OpenPrompt
  <1>11. CASE m.op = "delete"
    <2>1. IF m.skill \in Listing(scope) THEN Begin(w, m, Nothing) /\ UNCHANGED files
          ELSE Answered(w, m, Refused(m)) /\ UNCHANGED <<files, writing, load>>
      BY <1>11 DEF Handle
    <2>. QED BY <1>1, <1>3, <1>6, <1>11, <2>1, LeftDocuments, BeginKeeps
  <1>. QED BY <1>1, <1>8, <1>9, <1>10, <1>11 DEF Messages

(* What a handler has still to do lies in a directory.                     *)
LEMMA HalfIsAPlace ==
    ASSUME SkillsInv, ~Free
    PROVE  /\ Half \in Places /\ Half[1] = ScopeOf[writing.window] /\ Half[2] = writing.skill
           /\ writing.window \in Windows /\ writing.doc \in Documents /\ files[Half] \in Documents
  BY SkillsAssumption DEF SkillsInv, DocumentsWhole, SkillsAssumption, Half, Places

(* Removing a namespace changes nothing: it has no other skill.            *)
LEMMA OnlyHalfChanges ==
    ASSUME SkillsInv, NEW f \in Parts, ChangeFile(f)
    PROVE  /\ files' \in [Places -> Documents]
           /\ \A x \in Places: files'[x] = IF x = Half THEN [files[x] EXCEPT ![f] = writing.doc[f]]
                                           ELSE files[x]
  <1> DEFINE gone == IF Deleting /\ writing.left = {f}
                     THEN {Half[1]} \X (Gone(Half[1], Half[2]) \ {Half[2]}) ELSE {}
  <1>1. ~Free /\ files \in [Places -> Documents]
    BY DEF ChangeFile, Turn, SkillsInv, DocumentsWhole
  <1>2. files' = [x \in Places |->
                    IF x = Half THEN [files[x] EXCEPT ![f] = writing.doc[f]]
                    ELSE IF x \in gone THEN Nothing ELSE files[x]]
    BY <1>1 DEF ChangeFile
  <1>3. ASSUME NEW x \in Places, x \in gone PROVE files[x] = Nothing
    <2>1. x = <<Half[1], x[2]>> /\ x[2] \in Gone(Half[1], Half[2]) /\ x[2] # Half[2] /\ x[2] \in Skills
      BY <1>3 DEF Places
    <2>2. Pruned(Half[1], Half[2]) /\ Namespace[x[2]] = Namespace[Half[2]]
      BY <2>1 DEF Gone
    <2>3. x[2] \notin Listing(Half[1])
      BY <2>1, <2>2 DEF Pruned
    <2>. QED BY <2>1, <2>3 DEF Listing
  <1>. HIDE DEF gone
  <1>4. \A x \in Places: files'[x] = IF x = Half THEN [files[x] EXCEPT ![f] = writing.doc[f]]
                                     ELSE files[x]
    BY <1>2, <1>3
  <1>5. writing.doc[f] \in Contents /\ files[Half] \in Documents
    BY <1>1, HalfIsAPlace, TwoParts DEF Documents
  <1>6. [files[Half] EXCEPT ![f] = writing.doc[f]] \in Documents
    BY <1>5, PartReplaced
  <1>7. \A x \in Places: files'[x] \in Documents
    BY <1>1, <1>4, <1>6
  <1>. QED BY <1>2, <1>4, <1>7

(* The file that is written next is empty first.                           *)
LEMMA OpenFileKeeps ==
    ASSUME SkillsInv, NEW f \in Parts, OpenFile(f)
    PROVE  SkillsInv'
  <1>1. /\ ~Free /\ f \in writing.left /\ Spoil(Half) /\ UNCHANGED <<writing, torn, net, page>>
        /\ files' = [files EXCEPT ![Half] = [files[Half] EXCEPT ![f] = Blank]]
    BY DEF OpenFile, Turn
  <1>2. Half \in Places /\ files[Half] \in Documents /\ files \in [Places -> Documents]
    BY <1>1, HalfIsAPlace DEF SkillsInv, DocumentsWhole
  <1>3. LET e == [files[Half] EXCEPT ![f] = Blank]
        IN e \in Documents /\ \A g \in Parts: e[g] = IF g = f THEN Blank ELSE files[Half][g]
    BY <1>2, PartReplaced, LeftDocuments
  <1>4. /\ files' \in [Places -> Documents] /\ \A y \in Places: y # Half => files'[y] = files[y]
        /\ \A g \in Parts \ {f}: files'[Half][g] = files[Half][g]
    BY <1>1, <1>2, <1>3
  <1>5. Half' = Half /\ ~Free'
    BY <1>1 DEF Half, Free
  <1>6. WindowsInv'
    BY <1>1 DEF SkillsInv, WindowsInv, SkillTypes, DialogAgrees, CanSave, Underway, page, dialog
  <1>7. DocumentsWhole'
    BY <1>1, <1>4, <1>5 DEF SkillsInv, DocumentsWhole
  <1>8. LoadWhole'
    <2>1. ~load'.spoilt => Here # Half
      BY <1>1 DEF Spoil, SkillsInv, LoadWhole, Loads
    <2>2. load' = load \/ load' = [load EXCEPT !.spoilt = TRUE]
      BY <1>1 DEF Spoil
    <2>. QED BY <1>1, <1>2, <1>4, <1>5, <2>1, <2>2, ChangeSpoils DEF SkillsInv
  <1>. QED BY <1>6, <1>7, <1>8 DEF SkillsInv

(* A file is written or removed: after the last one the document is the one*)
(* that was sent, or none.                                                 *)
LEMMA ChangeFileKeeps ==
    ASSUME SkillsInv, NEW f \in Parts, ChangeFile(f)
    PROVE  SkillsInv'
  <1>1. ~Free /\ f \in writing.left /\ Spoil(Half) /\ UNCHANGED page
    BY DEF ChangeFile, Turn
  <1>2. /\ Half \in Places /\ files[Half] \in Documents /\ writing.doc \in Documents
        /\ writing.window \in Windows
    BY <1>1, HalfIsAPlace
  <1>3. /\ files' \in [Places -> Documents] /\ \A y \in Places: y # Half => files'[y] = files[y]
        /\ files'[Half] = [files[Half] EXCEPT ![f] = writing.doc[f]]
    BY <1>2, OnlyHalfChanges
  <1>4. \A g \in Parts: files'[Half][g] = IF g = f THEN writing.doc[f] ELSE files[Half][g]
    <2>1. writing.doc[f] \in Contents
      BY <1>2, TwoParts DEF Documents
    <2>. QED BY <1>2, <1>3, <2>1, PartReplaced
  <1>5. \A g \in Parts \ writing.left: files[Half][g] = writing.doc[g]
    BY <1>1 DEF SkillsInv, DocumentsWhole
  <1>6. CASE writing.left = {f}
    <2>1. writing' = Idle /\ Free' /\ Replied("ok")
          /\ torn' = IF writing.doc \in LeftWhole THEN torn \ {Half} ELSE torn \cup {Half}
      BY <1>6 DEF ChangeFile, Free
    <2>2. files'[Half] = writing.doc
      <3>1. \A g \in Parts: files'[Half][g] = writing.doc[g]
        BY <1>4, <1>5, <1>6
      <3>2. files'[Half] \in Documents
        BY <1>2, <1>3
      <3>. QED BY <1>2, <3>1, <3>2, SameParts
    <2>3. DocumentsWhole'
      <3>1. \A x \in Places: x \notin torn' => files'[x] \in LeftWhole
        BY <1>2, <1>3, <2>1, <2>2 DEF SkillsInv, DocumentsWhole
      <3>. QED BY <1>3, <2>1, <3>1 DEF DocumentsWhole
    <2>4. LoadWhole'
      <3>1. ~load'.spoilt => Here # Half
        BY <1>1 DEF Spoil, SkillsInv, LoadWhole, Loads
      <3>2. load' = load \/ load' = [load EXCEPT !.spoilt = TRUE]
        BY <1>1 DEF Spoil
      <3>3. torn' \subseteq torn \cup {Half}
        BY <2>1
      <3>. QED BY <1>2, <1>3, <2>1, <3>1, <3>2, <3>3, ChangeSpoils DEF SkillsInv
    <2>5. WindowsInv'
      BY <1>1, <1>2, <2>1, RepliedKeeps DEF SkillsInv
    <2>. QED BY <2>3, <2>4, <2>5 DEF SkillsInv
  <1>7. CASE writing.left # {f}
    <2>1. writing' = [writing EXCEPT !.left = writing.left \ {f}] /\ UNCHANGED <<torn, net>>
      BY <1>7 DEF ChangeFile
    <2>2. CASE writing'.window = writing.window /\ writing'.skill = writing.skill
               /\ writing'.doc = writing.doc /\ writing'.left = writing.left \ {f} /\ ~Free'
               /\ writing' \in [window: Windows, skill: Skills, doc: Documents, left: SUBSET Parts]
      <3>1. Half' = Half
        BY <2>2 DEF Half
      <3>2. \A x \in Places: x \notin torn' /\ x # Half' => files'[x] \in LeftWhole
        BY <1>1, <1>3, <2>1, <3>1 DEF SkillsInv, DocumentsWhole
      <3>3. \A g \in Parts \ writing'.left: files'[Half'][g] = writing'.doc[g]
        BY <1>4, <1>5, <2>2, <3>1
      <3>4. DocumentsWhole'
        BY <1>1, <1>3, <2>2, <3>2, <3>3 DEF SkillsInv, DocumentsWhole
      <3>5. LoadWhole'
        <4>1. ~load'.spoilt => Here # Half
          BY <1>1 DEF Spoil, SkillsInv, LoadWhole, Loads
        <4>2. load' = load \/ load' = [load EXCEPT !.spoilt = TRUE]
          BY <1>1 DEF Spoil
        <4>. QED BY <1>2, <1>3, <2>1, <3>1, <4>1, <4>2, ChangeSpoils DEF SkillsInv
      <3>6. WindowsInv'
        BY <1>1, <2>1 DEF SkillsInv, WindowsInv, SkillTypes, DialogAgrees, CanSave, Underway,
            page, dialog
      <3>. QED BY <3>4, <3>5, <3>6 DEF SkillsInv
    <2>3. writing'.window = writing.window /\ writing'.skill = writing.skill
          /\ writing'.doc = writing.doc /\ writing'.left = writing.left \ {f} /\ ~Free'
          /\ writing' \in [window: Windows, skill: Skills, doc: Documents, left: SUBSET Parts]
      <3>1. writing \in [window: Windows, skill: Skills, doc: Documents, left: SUBSET Parts]
        BY <1>1 DEF SkillsInv, DocumentsWhole
      <3>2. writing'.window = writing.window /\ writing'.skill = writing.skill
            /\ writing'.doc = writing.doc /\ writing'.left = writing.left \ {f}
            /\ writing' \in [window: Windows, skill: Skills, doc: Documents, left: SUBSET Parts]
        BY <2>1, <3>1
      <3>3. writing'.skill # Idle.skill
        BY <1>1, <3>1, <3>2, SkillsAssumption DEF Idle, SkillsAssumption
      <3>. QED BY <3>2, <3>3 DEF Free
    <2>. QED BY <2>2, <2>3
  <1>. QED BY <1>6, <1>7

(* A handler fails: what it leaves in pieces is known.                     *)
LEMMA BreakOffKeeps ==
    ASSUME SkillsInv, BreakOff
    PROVE  SkillsInv'
  <1>1. /\ ~Free /\ writing' = Idle /\ Free' /\ Replied("error") /\ UNCHANGED <<files, load, page>>
        /\ torn' = IF files[Half] \in LeftWhole THEN torn ELSE torn \cup {Half}
    BY DEF BreakOff, Free
  <1>2. Half \in Places /\ writing.window \in Windows
    BY <1>1, HalfIsAPlace
  <1>3. WindowsInv'
    BY <1>1, <1>2, RepliedKeeps DEF SkillsInv
  <1>4. DocumentsWhole'
    <2>1. \A x \in Places: x \notin torn' => files'[x] \in LeftWhole
      BY <1>1 DEF SkillsInv, DocumentsWhole
    <2>. QED BY <1>1, <2>1 DEF SkillsInv, DocumentsWhole
  <1>5. LoadWhole'
    <2>1. ~load'.spoilt /\ load.at # "done" => Here # Half
      BY <1>1 DEF SkillsInv, LoadWhole
    <2>2. torn' \subseteq torn \cup {Half}
      BY <1>1
    <2>. QED BY <1>1, <1>2, <2>1, <2>2, ChangeSpoils DEF SkillsInv
  <1>. QED BY <1>3, <1>4, <1>5 DEF SkillsInv

-----------------------------------------------------------------------------
(* The windows' steps.                                                     *)

(* A step of a window that leaves the server alone: what is typed and what *)
(* is under way stays what it has to be, and the other windows rest.       *)
LEMMA WindowKeeps ==
    ASSUME SkillsInv, NEW w \in Windows, UNCHANGED server,
           DOMAIN net' = Windows, net'[w] \subseteq Messages,
           \A n \in net'[w]:
              n.op # "create" \/ n.at \in {"begun", "ok"} => n.skill \in Skills,
           editor' \in [Windows -> Skills \cup {NoSkill}],
           source' \in [Windows -> Skills \cup {NoSkill}],
           fields' \in [Windows -> Documents],
           \A v \in Windows \ {w}:
              /\ net'[v] = net[v] /\ editor'[v] = editor[v] /\ source'[v] = source[v]
              /\ (v \in form') <=> (v \in form)
              /\ (v \in loading') <=> (v \in loading)
              /\ (v \in failed') <=> (v \in failed)
              /\ (v \in crossed') <=> (v \in crossed),
           DialogAgrees(w)'
    PROVE  SkillsInv'
  <1>1. SkillTypes'
    BY DEF SkillsInv, WindowsInv, SkillTypes, server
  <1>2. DocumentsWhole' /\ LoadWhole'
    BY DEF SkillsInv, DocumentsWhole, LoadWhole, Free, Half, Here, FileHere, InRoot, server
  <1>3. \A v \in Windows \ {w}: DialogAgrees(v)'
    BY DEF SkillsInv, WindowsInv, DialogAgrees, CanSave, Underway
  <1>. QED BY <1>1, <1>2, <1>3 DEF SkillsInv, WindowsInv

(* What a window sends.                                                    *)
LEMMA RequestsAreMessages ==
    ASSUME NEW op \in {"create", "read", "save", "delete"}, NEW s \in Skills \cup {NoSkill},
           NEW d \in Documents
    PROVE  LET m == Message(op, s, d)
           IN /\ m \in Messages /\ m.op = op /\ m.skill = s /\ m.at = "sent" /\ m.live
  BY DEF Message, Messages

(* A dialog that closes takes the documents along that it waited for.      *)
LEMMA OrphansAreMessages ==
    ASSUME NEW ms \in SUBSET Messages, NEW op
    PROVE  /\ Orphaned(ms, op) \subseteq Messages
           /\ \A n \in Orphaned(ms, op):
                 n.op # "read" /\ \E k \in ms: n.op = k.op /\ n.skill = k.skill /\ n.at = k.at
           /\ \A k \in ms: k.op # "read" /\ k.op # op => k \in Orphaned(ms, op)
  <1>1. \A m \in Messages: LET o == [m EXCEPT !.live = FALSE]
                           IN o \in Messages /\ o.op = m.op /\ o.skill = m.skill /\ o.at = m.at
    BY DEF Messages
  <1>. QED BY <1>1 DEF Orphaned

(* Steps that do not touch the dialog, nor what it waits for.              *)
LEMMA AsideKeeps ==
    ASSUME SkillsInv, NEW w \in Windows, UNCHANGED <<server, editor, loading, failed, source, crossed>>,
           fields' \in [Windows -> Documents],
           \/ UNCHANGED form
           \/ editor[w] = NoSkill /\ form' \in {form \cup {w}, form \ {w}},
           DOMAIN net' = Windows, net'[w] \subseteq Messages,
           \A v \in Windows \ {w}: net'[v] = net[v],
           \A n \in net'[w]:
              n.op # "create" \/ n.at \in {"begun", "ok"} => n.skill \in Skills,
           \A n \in net'[w]: n.op = "read" => n \in net[w],
           \A k \in net[w]: k.op = "save" => k \in net'[w]
    PROVE  SkillsInv'
  <1>1. DialogAgrees(w)'
    BY DEF SkillsInv, WindowsInv, DialogAgrees, CanSave, Underway
  <1>. QED BY <1>1, WindowKeeps DEF SkillsInv, WindowsInv, SkillTypes

(* Steps that neither open a document nor write one.                       *)
LEMMA AsideStepsKeep ==
    ASSUME SkillsInv, NEW w \in Windows,
           \/ Listed(w) \/ NewSkill(w) \/ CloseForm(w)
           \/ \E spelling \in Spellings: Create(w, spelling)
           \/ \E s \in Skills: Delete(w, s)
           \/ \E d \in Typed[w]: Type(w, d)
           \/ \E m \in net[w]: Deleted(w, m)
    PROVE  SkillsInv'
  <1>1. /\ DOMAIN net = Windows /\ net[w] \subseteq Messages
        /\ fields \in [Windows -> Documents]
        /\ \A n \in net[w]: n.op # "create" \/ n.at \in {"begun", "ok"} => n.skill \in Skills
        /\ w \in form => editor[w] = NoSkill
    BY DEF SkillsInv, WindowsInv, SkillTypes, DialogAgrees
  <1>2. CASE Listed(w) \/ NewSkill(w)
    <2>1. UNCHANGED <<net, server, editor, fields, loading, failed, source, crossed>>
      BY <1>2 DEF Listed, NewSkill, dialog
    <2>2. UNCHANGED form \/ (editor[w] = NoSkill /\ form' = form \cup {w})
      BY <1>2 DEF Listed, NewSkill
    <2>. QED BY <1>1, <2>1, <2>2, AsideKeeps
  <1>3. CASE CloseForm(w)
    <2>1. /\ net' = [net EXCEPT ![w] = Orphaned(net[w], "create")]
          /\ form' = form \ {w} /\ w \in form
          /\ UNCHANGED <<server, editor, fields, loading, failed, source, crossed>>
      BY <1>3 DEF CloseForm, dialog
    <2>2. net'[w] = Orphaned(net[w], "create") /\ \A v \in Windows \ {w}: net'[v] = net[v]
      BY <1>1, <2>1
    <2>3. /\ net'[w] \subseteq Messages
          /\ \A n \in net'[w]:
                n.op # "read" /\ \E k \in net[w]: n.op = k.op /\ n.skill = k.skill /\ n.at = k.at
          /\ \A k \in net[w]: k.op = "save" => k \in net'[w]
      BY <1>1, <2>2, OrphansAreMessages
    <2>. QED BY <1>1, <2>1, <2>2, <2>3, AsideKeeps
  <1>4. ASSUME NEW m \in Messages, net' = [net EXCEPT ![w] = net[w] \cup {m}],
               m.at = "sent", m.op # "read", m.op # "create" => m.skill \in Skills,
               UNCHANGED <<server, form, dialog>>
        PROVE  SkillsInv'
    <2>1. net'[w] = net[w] \cup {m} /\ \A v \in Windows \ {w}: net'[v] = net[v]
      BY <1>1, <1>4
    <2>2. UNCHANGED <<server, form, editor, fields, loading, failed, source, crossed>>
      BY <1>4 DEF dialog
    <2>. QED BY <1>1, <1>4, <2>1, <2>2, AsideKeeps
  <1>5. ASSUME NEW spelling \in Spellings, Create(w, spelling) PROVE SkillsInv'
    <2> DEFINE m == Message("create", Normalized[spelling], Empty)
    <2>1. m \in Messages /\ m.op = "create" /\ m.at = "sent"
      BY SkillsAssumption, RequestsAreMessages, LeftDocuments DEF SkillsAssumption
    <2>2. net' = [net EXCEPT ![w] = net[w] \cup {m}] /\ UNCHANGED <<server, form, dialog>>
      BY <1>5 DEF Create, Send
    <2>. HIDE DEF m
    <2>. QED BY <2>1, <2>2, <1>4
  <1>6. ASSUME NEW s \in Skills, Delete(w, s) PROVE SkillsInv'
    <2> DEFINE m == Message("delete", s, Empty)
    <2>1. m \in Messages /\ m.op = "delete" /\ m.at = "sent" /\ m.skill = s
      BY RequestsAreMessages, LeftDocuments
    <2>2. net' = [net EXCEPT ![w] = net[w] \cup {m}] /\ UNCHANGED <<server, form, dialog>>
      BY <1>6 DEF Delete, Send
    <2>. HIDE DEF m
    <2>. QED BY <2>1, <2>2, <1>4
  <1>7. ASSUME NEW d \in Typed[w], Type(w, d) PROVE SkillsInv'
    <2>1. d \in Documents
      BY LeftDocuments
    <2>2. /\ UNCHANGED <<net, form, server, editor, loading, failed, source, crossed>>
          /\ fields' = [fields EXCEPT ![w] = d]
      BY <1>7 DEF Type
    <2>3. fields' \in [Windows -> Documents]
      BY <1>1, <2>1, <2>2
    <2>. QED BY <1>1, <2>2, <2>3, AsideKeeps
  <1>8. ASSUME NEW m \in net[w], Deleted(w, m) PROVE SkillsInv'
    <2>1. /\ net' = [net EXCEPT ![w] = net[w] \ {m}] /\ m.op = "delete"
          /\ UNCHANGED <<server, form, editor, fields, loading, failed, source, crossed>>
      BY <1>8 DEF Deleted, Reply, Rest, dialog
    <2>2. net'[w] = net[w] \ {m} /\ \A v \in Windows \ {w}: net'[v] = net[v]
      BY <1>1, <2>1
    <2>. QED BY <1>1, <2>1, <2>2, AsideKeeps
  <1>. QED BY <1>2, <1>3, <1>5, <1>6, <1>7, <1>8

(* A save is sent: its document is the one the dialog shows.               *)
LEMMA SaveKeeps ==
    ASSUME SkillsInv, NEW w \in Windows, Save(w)
    PROVE  SkillsInv'
  <1> DEFINE m == Message("save", editor[w], fields[w])
  <1>1. /\ DOMAIN net = Windows /\ net[w] \subseteq Messages /\ DialogAgrees(w)
        /\ \A n \in net[w]: n.op # "create" \/ n.at \in {"begun", "ok"} => n.skill \in Skills
        /\ editor[w] \in Skills /\ fields[w] \in Documents
    BY DEF SkillsInv, WindowsInv, SkillTypes, Save, CanSave
  <1>2. m \in Messages /\ m.op = "save" /\ m.at = "sent" /\ m.skill = editor[w] /\ m.live
    BY <1>1, RequestsAreMessages
  <1>3. /\ net' = [net EXCEPT ![w] = net[w] \cup {m}] /\ failed' = failed \ {w}
        /\ UNCHANGED <<server, form, editor, fields, loading, source, crossed>>
    BY DEF Save, Send
  <1>. HIDE DEF m
  <1>4. net'[w] = net[w] \cup {m} /\ \A v \in Windows \ {w}: net'[v] = net[v]
    BY <1>1, <1>3
  <1>5. Underway(w, "save")'
    BY <1>2, <1>4 DEF Underway
  <1>6. DialogAgrees(w)'
    BY <1>1, <1>2, <1>3, <1>4, <1>5 DEF DialogAgrees, CanSave
  <1>. QED BY <1>1, <1>2, <1>3, <1>4, <1>6, WindowKeeps DEF SkillsInv, WindowsInv, SkillTypes

(* A dialog that opens, or that goes to another skill, waits for it.       *)
LEMMA OpenKeeps ==
    ASSUME SkillsInv, NEW w \in Windows, NEW s \in Skills, NEW pending \in SUBSET net[w],
           Open(w, s, pending), \A m \in net[w] \ pending: m.op = "create",
           UNCHANGED server, form' \subseteq form, w \notin form', form \ {w} \subseteq form'
    PROVE  SkillsInv'
  <1> DEFINE read == Message("read", s, Empty)
  <1>1. /\ DOMAIN net = Windows /\ net[w] \subseteq Messages /\ DialogAgrees(w)
        /\ \A n \in net[w]: n.op # "create" \/ n.at \in {"begun", "ok"} => n.skill \in Skills
        /\ editor \in [Windows -> Skills \cup {NoSkill}]
        /\ source \in [Windows -> Skills \cup {NoSkill}] /\ fields \in [Windows -> Documents]
    BY DEF SkillsInv, WindowsInv, SkillTypes
  <1>2. read \in Messages /\ read.op = "read" /\ read.skill = s /\ read.at = "sent" /\ read.live
    BY RequestsAreMessages, LeftDocuments
  <1>3. editor' = [editor EXCEPT ![w] = s] /\ editor'[w] = s /\ s # NoSkill
    BY <1>1, SkillsAssumption DEF Open, SkillsAssumption
  <1>4. CASE editor[w] = s
    <2>1. /\ net' = [net EXCEPT ![w] = pending]
          /\ UNCHANGED <<loading, failed, fields, source, crossed>>
      BY <1>4 DEF Open
    <2>2. net'[w] = pending /\ DOMAIN net' = Windows /\ \A v \in Windows \ {w}: net'[v] = net[v]
      BY <1>1, <2>1
    <2>3. DialogAgrees(w)'
      BY <1>1, <1>3, <1>4, <2>1, <2>2 DEF DialogAgrees, CanSave, Underway
    <2>4. net'[w] \subseteq Messages
          /\ \A n \in net'[w]: n.op # "create" \/ n.at \in {"begun", "ok"} => n.skill \in Skills
      BY <1>1, <2>2
    <2>5. editor' \in [Windows -> Skills \cup {NoSkill}]
      BY <1>1, <1>3
    <2>. QED BY <1>1, <1>3, <2>1, <2>2, <2>3, <2>4, <2>5, WindowKeeps
  <1>5. CASE editor[w] # s
    <2>1. /\ net' = [net EXCEPT ![w] = pending \cup {read}]
          /\ loading' = loading \cup {w} /\ failed' = failed \ {w}
          /\ \/ UNCHANGED <<fields, source>>
             \/ /\ fields' = [fields EXCEPT ![w] = Empty]
                /\ source' = [source EXCEPT ![w] = NoSkill]
          /\ crossed' = IF Underway(w, "read") THEN crossed \cup {w} ELSE crossed
      BY <1>5 DEF Open
    <2>. HIDE DEF read
    <2>2. /\ net'[w] = pending \cup {read} /\ DOMAIN net' = Windows
          /\ \A v \in Windows \ {w}: net'[v] = net[v]
      BY <1>1, <2>1
    <2>3. \A m \in pending: m.op = "read" => m.live /\ w \in crossed'
      BY <1>1, <2>1 DEF DialogAgrees, Underway
    <2>4. DialogAgrees(w)'
      BY <1>2, <1>3, <2>1, <2>2, <2>3 DEF DialogAgrees, CanSave
    <2>5. /\ net'[w] \subseteq Messages
          /\ \A n \in net'[w]: n.op # "create" \/ n.at \in {"begun", "ok"} => n.skill \in Skills
      BY <1>1, <1>2, <2>2
    <2>6. /\ editor' \in [Windows -> Skills \cup {NoSkill}]
          /\ source' \in [Windows -> Skills \cup {NoSkill}]
          /\ fields' \in [Windows -> Documents]
          /\ \A v \in Windows \ {w}: editor'[v] = editor[v] /\ source'[v] = source[v]
      BY <1>1, <1>3, <2>1, LeftDocuments
    <2>7. \A v \in Windows \ {w}: /\ (v \in loading') <=> (v \in loading)
                                  /\ (v \in failed') <=> (v \in failed)
                                  /\ (v \in crossed') <=> (v \in crossed)
                                  /\ (v \in form') <=> (v \in form)
      BY <2>1
    <2>. QED BY <2>2, <2>4, <2>5, <2>6, <2>7, WindowKeeps
  <1>. QED BY <1>4, <1>5

(* A dialog that closes waits for nothing.                                 *)
LEMMA ClosedKeeps ==
    ASSUME SkillsInv, NEW w \in Windows, NEW pending \in SUBSET net[w],
           Closed(w, pending), UNCHANGED <<server, form>>
    PROVE  SkillsInv'
  <1>1. /\ DOMAIN net = Windows /\ net[w] \subseteq Messages
        /\ \A n \in net[w]: n.op # "create" \/ n.at \in {"begun", "ok"} => n.skill \in Skills
        /\ editor \in [Windows -> Skills \cup {NoSkill}]
        /\ source \in [Windows -> Skills \cup {NoSkill}] /\ fields \in [Windows -> Documents]
    BY DEF SkillsInv, WindowsInv, SkillTypes
  <1>2. /\ net' = [net EXCEPT ![w] = Orphaned(pending, "save")]
        /\ editor' = [editor EXCEPT ![w] = NoSkill]
        /\ fields' = [fields EXCEPT ![w] = Empty]
        /\ loading' = loading \ {w} /\ failed' = failed \ {w}
        /\ source' = [source EXCEPT ![w] = NoSkill] /\ crossed' = crossed \ {w}
    BY DEF Closed
  <1>3. /\ net'[w] = Orphaned(pending, "save") /\ DOMAIN net' = Windows
        /\ \A v \in Windows \ {w}: net'[v] = net[v]
    BY <1>1, <1>2
  <1>4. /\ Orphaned(pending, "save") \subseteq Messages
        /\ \A n \in Orphaned(pending, "save"):
              n.op # "read" /\ \E k \in pending: n.op = k.op /\ n.skill = k.skill /\ n.at = k.at
    BY <1>1, OrphansAreMessages
  <1>5. /\ editor' \in [Windows -> Skills \cup {NoSkill}] /\ editor'[w] = NoSkill
        /\ source' \in [Windows -> Skills \cup {NoSkill}]
        /\ fields' \in [Windows -> Documents]
        /\ \A v \in Windows \ {w}: editor'[v] = editor[v] /\ source'[v] = source[v]
    BY <1>1, <1>2, LeftDocuments
  <1>6. \A v \in Windows \ {w}: /\ (v \in loading') <=> (v \in loading)
                                /\ (v \in failed') <=> (v \in failed)
                                /\ (v \in crossed') <=> (v \in crossed)
    BY <1>2
  <1>7. w \notin crossed'
    BY <1>2
  <1>8. DialogAgrees(w)'
    BY <1>3, <1>4, <1>5, <1>7 DEF DialogAgrees, CanSave
  <1>9. /\ net'[w] \subseteq Messages
        /\ \A n \in net'[w]: n.op # "create" \/ n.at \in {"begun", "ok"} => n.skill \in Skills
    BY <1>1, <1>3, <1>4
  <1>. QED BY <1>3, <1>5, <1>6, <1>8, <1>9, WindowKeeps

(* A document comes: of the skill opened last, or two of them crossed.     *)
LEMMA ReadKeeps ==
    ASSUME SkillsInv, NEW w \in Windows, NEW m \in net[w], Read(w, m)
    PROVE  SkillsInv'
  <1>1. /\ DOMAIN net = Windows /\ net[w] \subseteq Messages /\ DialogAgrees(w)
        /\ \A n \in net[w]: n.op # "create" \/ n.at \in {"begun", "ok"} => n.skill \in Skills
        /\ editor \in [Windows -> Skills \cup {NoSkill}]
        /\ source \in [Windows -> Skills \cup {NoSkill}] /\ fields \in [Windows -> Documents]
    BY DEF SkillsInv, WindowsInv, SkillTypes
  <1>2. /\ m.op = "read" /\ net' = [net EXCEPT ![w] = net[w] \ {m}]
        /\ fields' = [fields EXCEPT ![w] = m.doc]
        /\ source' = [source EXCEPT ![w] = m.skill]
        /\ loading' = loading \ {w}
        /\ UNCHANGED <<server, form, editor, failed, crossed>>
    BY DEF Read, Reply, Rest
  <1>3. m.doc \in Documents /\ m.skill \in Skills \cup {NoSkill}
    BY <1>1 DEF Messages
  <1>4. net'[w] = net[w] \ {m} /\ DOMAIN net' = Windows /\ \A v \in Windows \ {w}: net'[v] = net[v]
    BY <1>1, <1>2
  <1>5. /\ source'[w] = m.skill /\ source' \in [Windows -> Skills \cup {NoSkill}]
        /\ fields' \in [Windows -> Documents]
        /\ \A v \in Windows \ {w}: source'[v] = source[v]
    BY <1>1, <1>2, <1>3
  <1>6. DialogAgrees(w)'
    BY <1>1, <1>2, <1>4, <1>5 DEF DialogAgrees, CanSave
  <1>7. \A v \in Windows \ {w}: (v \in loading') <=> (v \in loading)
    BY <1>2
  <1>. QED BY <1>1, <1>2, <1>4, <1>5, <1>6, <1>7, WindowKeeps

(* A request was refused, and the dialog says so.                          *)
LEMMA ComplainKeeps ==
    ASSUME SkillsInv, NEW w \in Windows, NEW m \in net[w], Complain(w, m)
    PROVE  SkillsInv'
  <1>1. /\ DOMAIN net = Windows /\ net[w] \subseteq Messages /\ DialogAgrees(w)
        /\ \A n \in net[w]: n.op # "create" \/ n.at \in {"begun", "ok"} => n.skill \in Skills
    BY DEF SkillsInv, WindowsInv, SkillTypes
  <1>2. /\ net' = [net EXCEPT ![w] = net[w] \ {m}]
        /\ \/ /\ m.op \in {"read", "save"} /\ failed' = failed \cup {w}
              /\ loading' = loading \/ loading' = loading \ {w}
           \/ ~(m.op \in {"read", "save"} /\ m.live) /\ UNCHANGED <<failed, loading>>
        /\ UNCHANGED <<server, form, editor, fields, source, crossed>>
    BY DEF Complain, Rest
  <1>3. net'[w] = net[w] \ {m} /\ DOMAIN net' = Windows /\ \A v \in Windows \ {w}: net'[v] = net[v]
    BY <1>1, <1>2
  <1>4. DialogAgrees(w)'
    BY <1>1, <1>2, <1>3 DEF DialogAgrees, CanSave, Underway
  <1>5. \A v \in Windows \ {w}: /\ (v \in loading') <=> (v \in loading)
                                /\ (v \in failed') <=> (v \in failed)
    BY <1>2
  <1>. QED BY <1>1, <1>2, <1>3, <1>4, <1>5, WindowKeeps DEF SkillsInv, WindowsInv, SkillTypes

(* Any step of a window.                                                   *)
LEMMA PageStepKeeps ==
    ASSUME SkillsInv, NEW w \in Windows, PageStep(w)
    PROVE  SkillsInv'
  <1>1. w \in form => editor[w] = NoSkill
    BY DEF SkillsInv, WindowsInv, DialogAgrees
  <1>2. ASSUME NEW s \in Skills, EditSkill(w, s) PROVE SkillsInv'
    <2>1. Open(w, s, net[w]) /\ UNCHANGED <<server, form>> /\ w \notin form
      BY <1>2 DEF EditSkill
    <2>. QED BY <2>1, OpenKeeps
  <1>3. CASE CloseEditor(w)
    BY <1>3, ClosedKeeps DEF CloseEditor
  <1>4. ASSUME NEW m \in net[w], Created(w, m) PROVE SkillsInv'
    <2>1. /\ m.op = "create" /\ m.at = "ok" /\ Open(w, m.skill, net[w] \ {m})
          /\ form' = form \ {w} /\ UNCHANGED server
      BY <1>4 DEF Created, Reply, Rest
    <2>2. m.skill \in Skills
      BY <2>1 DEF SkillsInv, WindowsInv, SkillTypes
    <2>. QED BY <2>1, <2>2, OpenKeeps
  <1>5. ASSUME NEW m \in net[w], Saved(w, m) PROVE SkillsInv'
    BY <1>5, ClosedKeeps DEF Saved, Rest
  <1>. QED BY <1>2, <1>3, <1>4, <1>5, AsideStepsKeep, SaveKeeps, ReadKeeps, ComplainKeeps DEF PageStep

-----------------------------------------------------------------------------
(* The theorems.                                                           *)

(* At first no window has a dialog, and nothing is being written or read.  *)
LEMMA SkillsInitially == SkillsInit => SkillsInv
  <1> SUFFICES ASSUME SkillsInit PROVE SkillsInv
    OBVIOUS
  <1>1. /\ Free /\ load = NoLoad /\ net = [w \in Windows |-> {}]
        /\ editor = [w \in Windows |-> NoSkill] /\ source = [w \in Windows |-> NoSkill]
        /\ fields = [w \in Windows |-> Empty] /\ crossed = {} /\ form = {}
    BY DEF SkillsInit, Free
  <1>2. files \in [Places -> ByHand]
    BY SkillsAssumption DEF SkillsInit, SkillsAssumption, Places
  <1>3. ByHand \subseteq LeftWhole /\ Empty \in Documents
    BY LeftDocuments DEF LeftWhole
  <1>4. SkillTypes
    BY <1>1, <1>3 DEF SkillTypes
  <1>5. DocumentsWhole
    BY <1>1, <1>2, <1>3, LeftDocuments DEF DocumentsWhole
  <1>6. ASSUME NEW w \in Windows PROVE DialogAgrees(w)
    BY <1>1 DEF DialogAgrees, CanSave
  <1>7. LoadWhole
    <2>1. /\ load.skill = NoSkill /\ load.root = 1 /\ load.at = "done" /\ load.prompt = NoFile
          /\ load.manifest = NoFile /\ load.spoilt = FALSE /\ load \in Loads
      <3>1. load = [skill |-> NoSkill, root |-> 1, at |-> "done", prompt |-> NoFile,
                    manifest |-> NoFile, spoilt |-> FALSE]
        BY <1>1 DEF NoLoad, At
      <3>2. NoFile \in Contents /\ 1 \in DOMAIN Roots
        BY LeftDocuments, ThreeRoots
      <3>. QED BY <3>1, <3>2 DEF Loads
    <2>2. Document(NoFile, NoFile) \in LeftWhole
      BY LeftDocuments DEF Nothing
    <2>. QED BY <2>1, <2>2 DEF LoadWhole
  <1>. QED BY <1>4, <1>5, <1>6, <1>7 DEF SkillsInv, WindowsInv

(* One step of anybody.                                                    *)
LEMMA SkillsStep ==
    ASSUME SkillsInv, [SkillsNext]_skillVars
    PROVE  SkillsInv'
  <1>1. CASE UNCHANGED skillVars
    <2>1. UNCHANGED <<files, writing, load, torn, net, form, editor, fields, loading, failed, source,
                      crossed>>
      BY <1>1 DEF skillVars, server, page, dialog
    <2>2. WindowsInv' /\ DocumentsWhole'
      BY <2>1 DEF SkillsInv, WindowsInv, SkillTypes, DocumentsWhole, Free, Half, DialogAgrees,
         CanSave, Underway
    <2>3. LoadWhole'
      BY <2>1 DEF SkillsInv, LoadWhole, Free, Half, Here, FileHere, InRoot
    <2>. QED BY <2>2, <2>3 DEF SkillsInv
  <1>2. CASE SkillsNext
    BY <1>2, StageKeeps, HandleKeeps, OpenFileKeeps, ChangeFileKeeps, BreakOffKeeps, PageStepKeeps
    DEF SkillsNext, ServerStep
  <1>. QED BY <1>1, <1>2

(* EditorHoldsItsSkill: the dialog never offers to save one skill's        *)
(* document under the name of another (SkillManager.tsx, SkillEditor).     *)
THEOREM EditorsHold == SkillsSpec => []EditorHoldsItsSkill
  <1>1. SkillsInv => EditorHoldsItsSkill
    BY DEF SkillsInv, WindowsInv, DialogAgrees, EditorHoldsItsSkill
  <1>. QED BY <1>1, SkillsInitially, SkillsStep, PTL DEF SkillsSpec

(* StagesLoadWhole: a stage never gets the prompt of one skill, or of an   *)
(* earlier one, with the tools of another, but when the document that it   *)
(* reads is being changed, or was left in pieces (loadSkillDefinition).    *)
THEOREM StagesGetWhole == SkillsSpec => []StagesLoadWhole
  <1>1. SkillsInv => StagesLoadWhole
    BY DEF SkillsInv, LoadWhole, StagesLoadWhole
  <1>. QED BY <1>1, SkillsInitially, SkillsStep, PTL DEF SkillsSpec

(* A handler changes what it was asked to, and then the request is not     *)
(* there any more as it was sent.                                          *)
LEMMA HandlersAreAsked ==
    ASSUME SkillsInv, NEW w \in Windows, NEW m \in net[w], Handle(w, m),
           NEW x \in DOMAIN files, files'[x] # files[x]
    PROVE  Asked(x)
  <1> DEFINE here == <<ScopeOf[w], m.skill>>
  <1>1. m \in Messages /\ m.at = "sent" /\ DOMAIN net = Windows
    BY DEF Handle, SkillsInv, WindowsInv, SkillTypes
  <1>2. ASSUME NEW d, OpenPrompt(w, m, d) PROVE x = here /\ m \notin net'[w]
    <2>1. x = here
      BY <1>2 DEF OpenPrompt
    <2>2. [m EXCEPT !.at = "begun"] # m
      BY <1>1, RepliesAreMessages
    <2>3. net'[w] = (net[w] \ {m}) \cup {[m EXCEPT !.at = "begun"]}
      BY <1>1, <1>2 DEF OpenPrompt, Begin, Answered
    <2>. QED BY <2>1, <2>2, <2>3
  <1>3. ASSUME x = here, m \notin net'[w],
               m.op = "save" \/ (m.op = "create" /\ files[x] = Nothing)
        PROVE  Asked(x)
    BY <1>1, <1>3 DEF Asked
  <1>4. CASE m.op = "create"
    <2>1. MayCreate(ScopeOf[w], m.skill) /\ OpenPrompt(w, m, Default)
      BY <1>4 DEF Handle
    <2>. QED BY <1>2, <1>3, <1>4, <2>1 DEF MayCreate
  <1>5. CASE m.op = "save"
    BY <1>2, <1>3, <1>5 DEF Handle
  <1>6. CASE m.op \in {"read", "delete"}
    BY <1>6 DEF Handle
  <1>. QED BY <1>1, <1>4, <1>5, <1>6 DEF Messages

(* OnlyAskedChanges: nothing is written but what somebody asked for; a     *)
(* namespace that is pruned has no other skill (routes.ts, deleteSkill).   *)
THEOREM AskedForChanges == SkillsSpec => OnlyAskedChanges
  <1>1. ASSUME SkillsInv, [SkillsNext]_skillVars
        PROVE  [\A x \in DOMAIN files: files'[x] # files[x] => Asked(x)]_files
    <2> SUFFICES ASSUME NEW x \in DOMAIN files, files'[x] # files[x], SkillsNext PROVE Asked(x)
      BY <1>1 DEF skillVars, server
    <2>1. x \in Places
      BY <1>1 DEF SkillsInv, DocumentsWhole
    <2>2. ASSUME NEW w \in Windows, NEW m \in net[w], Handle(w, m) PROVE Asked(x)
      BY <1>1, <2>2, HandlersAreAsked
    <2>3. ASSUME NEW f \in Parts, ChangeFile(f) PROVE Asked(x)
      <3>1. x = Half
        BY <1>1, <2>1, <2>3, OnlyHalfChanges
      <3>. QED BY <2>3, <3>1 DEF ChangeFile, Turn, Asked
    <2>4. ASSUME NEW f \in Parts, OpenFile(f) PROVE Asked(x)
      BY <2>4 DEF OpenFile, Turn, Asked
    <2>5. ASSUME NEW w \in Windows, PageStep(w) PROVE UNCHANGED files
      BY <2>5 DEF PageStep, Listed, NewSkill, CloseForm, CloseEditor, Save, Create, EditSkill,
           Delete, Type, Created, Read, Saved, Deleted, Complain, server
    <2>6. Stage \/ BreakOff => UNCHANGED files
      BY DEF Stage, BreakOff
    <2>. QED BY <2>2, <2>3, <2>4, <2>5, <2>6 DEF SkillsNext, ServerStep
  <1>. QED BY <1>1, SkillsInitially, SkillsStep, PTL DEF SkillsSpec, OnlyAskedChanges
===============================================================================
