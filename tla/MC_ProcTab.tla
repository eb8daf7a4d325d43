----------------------------- MODULE MC_ProcTab -----------------------------
(***************************************************************************)
(* Three pids, two applications, two sizes: a pair in one group and a      *)
(* process alone, of equal weight.  Exits are not bounded, so that every   *)
(* smaller table is reached, and a change makes three of one application.  *)
(***************************************************************************)
EXTENDS ProcTab

MCPid      == 1 .. 3
TwoPids    == 1 .. 2
MCName     == 1 .. 2
MCMem      == 1 .. 2
MCNoFilter == Pid \X MCName
MCNeedles  == {MCNoFilter, Pid \X {1}}
AllText    == {MCNoFilter}

Table(names, mems) == [p \in Pid |-> [name |-> names[p], mem |-> mems[p]]]
MCStarts == {Table(<<2, 1, 2>>, <<1, 2, 1>>)}
TwoAlone == {[p \in Pid |-> [name |-> p, mem |-> p]]}

\* A bound: after the first kill processes may end, but none starts or grows.
ChangesEnd == kills > 0 => changes' = changes
=============================================================================
