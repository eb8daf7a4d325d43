------------------------------ MODULE TwoStep ------------------------------
(***************************************************************************)
(* What a two-step confirm promises, whatever it guards: an action runs    *)
(* only after it was armed, at most once per arming, and what runs is      *)
(* what was armed.  The armed target never changes into another one.       *)
(***************************************************************************)
EXTENDS Naturals

CONSTANTS Target,   \* what may be armed
          None      \* nothing is

VARIABLES armed,     \* the armed target
          executed,  \* the target of the last execution
          count      \* how many executions there were

Init == armed = None /\ executed = None /\ count = 0

Arm == /\ armed = None
       /\ armed' \in Target
       /\ UNCHANGED <<executed, count>>

Disarm == /\ armed # None
          /\ armed' = None
          /\ UNCHANGED <<executed, count>>

Execute == /\ armed # None
           /\ armed' = None
           /\ executed' = armed
           /\ count' = count + 1

Next == Arm \/ Disarm \/ Execute

Spec == Init /\ [][Next]_<<armed, executed, count>>
=============================================================================
