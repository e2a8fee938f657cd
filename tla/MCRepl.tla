-------------------------------- MODULE MCRepl --------------------------------
(* One file that is called inside as it is registered, and one that is not. *)
EXTENDS Repl

MCTitle == [n \in Names |-> IF n = "review" THEN "Code review" ELSE n]
===============================================================================
