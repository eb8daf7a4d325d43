------------------------------ MODULE ReadCore ------------------------------
(***************************************************************************)
(* What the conversions of src/netcore.rs and src/sys.rs promise about any *)
(* netmask a file may hold and any size the kernel may report.             *)
(***************************************************************************)
EXTENDS Netmask, Sizes

CONSTANT BlockSizes      \* what a file system may have for the size of a block

ASSUME BlocksAssumption == BlockSizes \subseteq Nat

VARIABLES mask,    \* what /etc/net/ip_subnet holds
          size     \* bytes of a process, or blocks of a file system

\* No zero stands before a one: the textbook meaning of "contiguous".
Contiguous(m) == \A b, c \in Bits : b < c /\ m[c] => m[b]

\* The mask written for any u8 prefix is readable again, as the prefix cut to the
\* width: every address a mirror persists can be restored at boot.
WrittenMaskIsRead ==
    \A p \in 0 .. Width + 2 :
        mask = PrefixToNetmask(p) =>
            NetmaskToPrefix(mask) = IF p > Width THEN Width ELSE p

\* A mask converts to a prefix exactly when it is contiguous, the prefix is its
\* number of ones, and converting back gives the same mask, as it does the other way
\* round: what the edit form of the network tab and the boot-time reader rely on
\* (netcore.rs:115-142).
ConversionsAgree ==
    LET p == NetmaskToPrefix(mask) IN
    /\ (p # None) <=> Contiguous(mask)
    /\ p # None => /\ p = Cardinality({b \in Bits : mask[b]})
                   /\ PrefixToNetmask(p) = mask
    /\ WrittenMaskIsRead

\* The memory of a group, summed from parsed sizes and printed again, is right to
\* half a tenth of its unit, whatever the size, and printed sizes order the rows as
\* the bytes do, also across a change of unit (sys.rs:67-98, gui.rs:96-99).
SizesReadBack == ReadsBack(size) /\ KeepsOrder(size)

\* The storage tab adds up for every file system of this many blocks, whatever their
\* size, and the boot self-test finds it consistent (sys.rs:359-367, selftest.rs:67-73).
StorageAddsUp ==
    \A bsize \in BlockSizes, bavail \in 0 .. size : AddsUp(bsize, size, bavail)
=============================================================================
