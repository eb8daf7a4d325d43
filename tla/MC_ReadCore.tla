----------------------------- MODULE MC_ReadCore -----------------------------
(***************************************************************************)
(* What the window reads and converts, one subject at a time:              *)
(*   - "mask": a hand-edited /etc/net/ip_subnet, any bit may be flipped,   *)
(*     so every mask of Width bits is reached from the empty one,          *)
(*   - "size": a size that grows up to a word and past the last unit,      *)
(*   - "caps": two processes that open schemes while they are inspected.   *)
(***************************************************************************)
EXTENDS ReadCore, Caps

VARIABLE subject

CONSTANTS net, disk      \* model values: two schemes

MCPid    == 1 .. 2
MCScheme == {net, disk}

AnyInit ==
    /\ subject \in {"mask", "size", "caps"}
    /\ mask = [b \in Bits |-> FALSE]
    /\ size = 0
    /\ Init

FlipBit(b) ==
    /\ subject = "mask"
    /\ mask' = [mask EXCEPT ![b] = ~@]
    /\ UNCHANGED <<subject, size, vars>>

GrowSize ==
    /\ subject = "size"
    /\ size < Limit
    /\ size' = size + 1
    /\ UNCHANGED <<subject, mask, vars>>

Inspect == subject = "caps" /\ Next /\ UNCHANGED <<subject, mask, size>>

AnyNext == (\E b \in Bits : FlipBit(b)) \/ GrowSize \/ Inspect

AnySpec == AnyInit /\ [][AnyNext]_<<subject, mask, size, vars>>
=============================================================================
