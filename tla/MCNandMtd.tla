----------------------------- MODULE MCNandMtd -----------------------------
(* Two processors with the exported functions, or MTD, on a chip of two    *)
(* blocks of two pages; one chip with two planes whose name is asked the   *)
(* other way, one that must be opened to be unprotected.                   *)
EXTENDS NandMtd

MCKinds == {[bare |-> TRUE, gated |-> FALSE, planes |-> 2],
            [bare |-> FALSE, gated |-> TRUE, planes |-> 1]}

MCParties == {{"mtd"}, {"cpu0", "cpu1"}}

MCText == <<"a", "b", "c", "d", "e">>
=============================================================================
