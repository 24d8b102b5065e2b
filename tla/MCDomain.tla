------------------------------ MODULE MCDomain ------------------------------
(***************************************************************************)
(* Two assignments and two clients: each asks for a type of its own, both  *)
(* for the same one, or both for any.                                      *)
(***************************************************************************)
EXTENDS Domain

CONSTANTS c1, c2

OneEach == [c \in {c1, c2} |-> IF c = c1 THEN {1} ELSE {2}]
BothOne == [c \in {c1, c2} |-> {1}]
BothAny == [c \in {c1, c2} |-> {1, 2}]

MCDeployments == {OneEach, BothOne, BothAny}

MCMaxFaults == [w \in MCDeployments |-> IF w = BothOne THEN 2 ELSE 1]
=============================================================================
