------------------------------ MODULE MC_NetTab ------------------------------
(***************************************************************************)
(* Two applies of every form, whose fields can be empty, blank, right      *)
(* (with a space around it) or wrong, in every combination.                *)
(***************************************************************************)
EXTENDS NetTab

T(w, p) == [what |-> w, padded |-> p]

MCTexts == {T("empty", FALSE), T("empty", TRUE), T("address", TRUE), T("other", FALSE)}
MCTiles == {"odd"}

\* A configured machine, and one without an address.
MCPrefilled == {[ip |-> T("address", TRUE), prefix |-> 32,
                 gateway |-> T("address", TRUE), dns |-> T("empty", FALSE)],
                [ip |-> T("empty", FALSE), prefix |-> None,
                 gateway |-> T("empty", FALSE), dns |-> T("empty", FALSE)]}

\* A bound: after the first apply the form and the interface stay as they are.  The
\* workers have copies of their own.
FormStands == applies > 0 => form' = form /\ tile' = tile
=============================================================================
