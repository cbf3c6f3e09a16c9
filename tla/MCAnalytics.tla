----------------------------- MODULE MCAnalytics ------------------------------
(***************************************************************************)
(* Analytics with model values for clicks and codes.                       *)
(***************************************************************************)
EXTENDS Analytics, TLC

\* Neither a click nor a code is treated differently from another.
Symmetry == Permutations(Clicks) \cup Permutations(Codes)

=============================================================================
