----------------------------- MODULE MCLinkStore -----------------------------
(***************************************************************************)
(* Values of LinkStore's constants for TLC.                                *)
(***************************************************************************)
EXTENDS LinkStore, TLC

CONSTANTS u1, u2, lo, up, res, none

\* up is lo in capitals: no alias can be stored as up, a hashid can.
MCLower == [c \in Codes |-> IF c = up THEN lo ELSE c]

\* The hashid of the second link is a string that an alias can have taken.
MCEncode == [i \in 1..MaxId |-> IF i = 1 THEN up ELSE lo]

\* Requests and users are interchangeable, in runs of safety properties.
MCSymmetry == Permutations(Workers) \cup Permutations(Users)

=============================================================================
