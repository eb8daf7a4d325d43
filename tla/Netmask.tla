------------------------------ MODULE Netmask ------------------------------
(***************************************************************************)
(* The two conversions of src/netcore.rs between a prefix length and an    *)
(* IPv4 netmask.  A mask is a function from bit positions, 1 the most      *)
(* significant, to BOOLEAN; Width is 32 in the code and small in TLC.      *)
(***************************************************************************)
EXTENDS Naturals, FiniteSets

CONSTANTS Width,   \* bits of an address word (u32: 32)
          None     \* Rust's Option::None, and an absent or empty file

ASSUME WidthAssumption == Width \in Nat \ {0}

Bits          == 1 .. Width
Masks         == [Bits -> BOOLEAN]
PrefixLengths == 0 .. Width

ASSUME PrefixAssumption == None \notin PrefixLengths

\* u32::MAX << n.  A shift by the whole width does not clear the word: a
\* release build masks the shift amount (a debug build panics).
ShiftLeft(n) == [b \in Bits |-> b <= Width - (n % Width)]

\* prefix_to_netmask: p is any u8, cut to the width; 0 must not be shifted.
PrefixToNetmask(p) ==
    LET q == IF p < Width THEN p ELSE Width
    IN  IF q = 0 THEN [b \in Bits |-> FALSE] ELSE ShiftLeft(Width - q)

\* u32::leading_ones: the positions with no zero at or before them.
LeadingOnes(m) == Cardinality({n \in Bits : \A b \in 1 .. n : m[b]})

\* Mutant of NetmaskToPrefix: the ones-count is returned unchecked.
NetmaskToPrefixUnchecked(m) == LeadingOnes(m)

\* netmask_to_prefix: None unless the ones alone reconstruct the mask.
NetmaskToPrefix(m) ==
    LET ones      == LeadingOnes(m)
        canonical == IF ones = 0 THEN [b \in Bits |-> FALSE]
                                 ELSE ShiftLeft(Width - ones)
    IN  IF m = canonical THEN ones ELSE None
=============================================================================
