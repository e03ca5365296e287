--------------------------- MODULE MCLocalWebServer ---------------------------
(***************************************************************************)
(* More connections than slots, so that one is refused and a slot given    *)
(* back is taken again.                                                    *)
(***************************************************************************)
EXTENDS LocalWebServer, TLC

Symmetry == Permutations(Connections)
===============================================================================
