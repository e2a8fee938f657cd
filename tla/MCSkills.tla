------------------------------- MODULE MCSkills -------------------------------
(* Two windows on the skills of a project, in one of which a person types, *)
(* and a stage that asks for one of them.                                  *)
EXTENDS Skills

CONSTANTS lint, test

MCNamespace == [s \in Skills |-> "team"]
MCNormalized == [s \in Spellings |-> test]
MCByHand == {Nothing, Document("by hand", NoFile), Document("shared", "shared tools")}
MCTyped == [w \in Windows |->
    IF w = "w1" THEN {Document("typed", "typed tools")} ELSE {}]
MCInitialFiles == {
    [x \in Scopes \X Skills |->
        IF x = <<"project", lint>> THEN Document("by hand", NoFile)
        ELSE IF x = <<"global", lint>> THEN Document("shared", "shared tools") ELSE Nothing]}
MCMaxClicks == [w \in Windows |-> IF w = "w1" THEN 3 ELSE 1]
(* The two together click three times, a bound of the run.                 *)
ThreeClicks == clicks["w1"] + clicks["w2"] <= 3
MCScopeOf == [w \in Windows |-> "project"]
===============================================================================
