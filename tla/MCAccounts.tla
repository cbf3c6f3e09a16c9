------------------------------ MODULE MCAccounts ------------------------------
(***************************************************************************)
(* Values of the constants of Accounts for TLC.                            *)
(***************************************************************************)
EXTENDS Accounts, TLC

CONSTANTS a, A, b, n, p, q, long, none

\* A is a in capitals, n is b after a no-break space: Go trims that, PostgreSQL does not.
MCClean == [e \in Emails |-> CASE e = A -> a [] e = n -> b [] OTHER -> e]
MCCitext == [e \in Emails |-> IF e = A THEN a ELSE e]

\* bcrypt sees no difference between long and p.
MCDigest == [x \in Passwords |-> IF x = long THEN p ELSE x]

MCSymmetry == Permutations(Workers)

=============================================================================
