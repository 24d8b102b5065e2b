--------------------------- MODULE MCAssetServer ---------------------------
(***************************************************************************)
(* Two contents, the second of which is what the first bakes to, so that a *)
(* bake and an upload share its file; a path that is baked and one that is *)
(* not.                                                                    *)
(***************************************************************************)
EXTENDS AssetServer

CONSTANTS h1, h2, p1, p2

MCBakedHash == [h \in {h1} |-> h2]
=============================================================================
