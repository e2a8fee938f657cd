---------------------------- MODULE MCPipelineEditor ----------------------------
(* A small instance of PipelineEditor: a global pipeline written by hand, a *)
(* free file name in a project, another text that somebody may put there.  *)
EXTENDS PipelineEditor

First == <<"stage">>
Second == <<"stage", 2>>
Chain == Foreign(Document("sequential", <<Stage(First, {}, FALSE), Stage(Second, {First}, FALSE)>>))
Led == Foreign(Document("orchestrated", <<Stage(First, {}, TRUE), Stage(Second, {}, FALSE)>>))

MCPaths == {"a", "b"}
MCInProject == {"b"}
MCInitially == {[p \in MCPaths |-> IF p = "a" THEN text ELSE Absent]: text \in {Chain, Led}}
MCMeddleTexts == {Led}
MCBases == {First}

(* What the properties are silent about is not followed any further.        *)
Orderly == ~muddled
================================================================================
