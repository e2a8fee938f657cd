---------------------------- MODULE MCOrchestrator ----------------------------
(* One stage in a sandbox, one agent that is delegated to; what commands   *)
(* find by a link is package.json.                                         *)
EXTENDS Orchestrator

Uses(tool, path, text) == [tool |-> tool, path |-> path, text |-> text]

MCCalls == [a \in Agents |->
    IF a \in Boxed
    THEN {Uses("write_file", "main.ts", "new"), Uses("write_file", "package.json", "new"),
          Uses("run_command", "main.ts", "new")}
    ELSE {Uses("read_file", "main.ts", "old"), Uses("list_files", "main.ts", "old"),
          Uses("search_files", "main.ts", "old"), Uses("write_file", "main.ts", "new"),
          Uses("run_command", "main.ts", "new")}]
MCMaxCalls == [a \in Agents |-> 2]
MCEdits == {[path |-> "main.ts", text |-> t]: t \in {"absent"}}
MCInitially == {{"package.json", "main.ts"}}

(* Of the two calls of either agent and the change by others, four in all. *)
(* Once the orchestrator has concluded no delegate works, and a stage goes *)
(* on as it would have before: nothing new is seen after that.             *)
Bounded ==
    /\ calls["tests"] + calls["coder"] + edits <= 4
    /\ orchestrator \in {"thinking", "waiting"}
===============================================================================
