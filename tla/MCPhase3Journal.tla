--------------------------- MODULE MCPhase3Journal -----------------------------
(***************************************************************************)
(* The journal for TLC: one or two instances on one directory.             *)
(***************************************************************************)
EXTENDS Phase3Journal

CONSTANTS w1, w2

MCWriters == {w1, w2}
OneWriter == {w1}
Symmetry == Permutations(MCWriters)
===============================================================================
