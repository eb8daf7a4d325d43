----------------------------- MODULE MC_Security -----------------------------
(***************************************************************************)
(* Three files under two nested roots, as in the self-test, and a budget   *)
(* that the three of them exceed; two clicks or edits, two things that     *)
(* happen outside, and one call to the database that fails.                *)
(***************************************************************************)
EXTENDS Security

CONSTANTS a, b, suid, root, sub, c1, c2

MCCovers == [r \in Root |-> IF r = root THEN File ELSE {b}]

MCFields == {{}, {root}, {sub}}

Whole == [f \in File |-> c1]

MCDisks == {Whole, [Whole EXCEPT ![suid] = None]}

\* The engine answers what security_core expects of it.
ASSUME SecurityCore({root}, {sub}, Whole, b, c2)
=============================================================================
