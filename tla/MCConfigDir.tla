------------------------------ MODULE MCConfigDir ------------------------------
(* A cloud provider whose URL is a template, and a local one.              *)
EXTENDS ConfigDir, TLC

MCCatalog == [id \in Ids |->
    IF id = "azure" THEN [required |-> {"key", "url"}, url |-> "", base |-> "template"]
                    ELSE [required |-> {"url"}, url |-> "local", base |-> "local"]]

MCEnvironment == [id \in Ids |-> IF id = "azure" THEN "k2" ELSE ""]

MCKnown == {[Nothing EXCEPT !["azure"] = [key |-> "k1", url |-> "own", checked |-> FALSE]]}

TwoTerminals == Permutations(Clients)
================================================================================
