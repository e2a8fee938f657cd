-------------------------- MODULE MCPermissionCenter --------------------------
(* A harmless call and one that needs consent, about the same file.         *)
EXTENDS PermissionCenter

KCall(tool, subject) ==
    [tool |-> tool, subject |-> subject, outside |-> FALSE, destructive |-> FALSE, harmless |-> FALSE]

MCMode     == [c \in Callers |-> "confirm"]
MCCalls    == {KCall("read_file", "notes"), KCall("write_file", "notes")}
MCMaxCalls == [c \in Callers |-> 1]
MCGlobbed  == [p \in Patterns |-> {"notes"}]
=============================================================================
