------------------------------- MODULE Sizes -------------------------------
(***************************************************************************)
(* Arithmetic of sizes in src/sys.rs: parse_bytes and fmt_bytes behind the *)
(* memory columns, storage_from and the percentage behind the storage tab. *)
(* Words are bounded by Limit, 2^64 - 1 in the code; a kilobyte is K, 1024 *)
(* in the code.  The code divides floats by powers of two, which is exact, *)
(* so what it prints is the quotient rounded to one decimal place.         *)
(***************************************************************************)
EXTENDS Naturals

CONSTANTS K,       \* bytes in a kilobyte
          Limit    \* u64::MAX

ASSUME SizesAssumption == K \in Nat \ {0, 1} /\ Limit \in Nat

Word == 0 .. Limit

\* Units are B, KB, MB and GB.
Units == 0 .. 3

\* The multipliers of parse_bytes.
Mult(unit) == CASE unit = 0 -> 1
                [] unit = 1 -> K
                [] unit = 2 -> K * K
                [] unit = 3 -> K * K * K

\* A formatted size: a number of tenths and a unit, such as 12 and MB for "1.2 MB".
Texts == [tenths : Nat, unit : Units]

\* Saturating u64 arithmetic; a float cast to u64 saturates as well.
Saturated(n) == IF n > Limit THEN Limit ELSE n
Minus(a, b)  == IF a < b THEN 0 ELSE a - b

-----------------------------------------------------------------------------
\* parse_bytes: what is left of a byte is cut off.
ParseBytes(t) == Saturated((t.tenths * Mult(t.unit)) \div 10)

\* Divide by K while the value is K or more and a larger unit is left.
UnitOf(b) == CHOOSE i \in Units : /\ i = 3 \/ b < Mult(i + 1)
                                  /\ i = 0 \/ b >= Mult(i)

\* {:.1} prints the nearest tenth, and the even one of two that are as near.
RoundHalfEven(n, d) ==
    LET q == n \div d
        r == n % d
    IN  IF 2 * r > d \/ (2 * r = d /\ q % 2 = 1) THEN q + 1 ELSE q

\* Mutant of FmtBytes: the division drops the fraction.
FmtBytesTruncated(b) ==
    LET i == UnitOf(b) IN [tenths |-> 10 * (b \div Mult(i)), unit |-> i]

\* fmt_bytes: "512 B", or a number with one decimal.
FmtBytes(b) ==
    LET i == UnitOf(b) IN [tenths |-> RoundHalfEven(10 * b, Mult(i)), unit |-> i]

-----------------------------------------------------------------------------
\* Mutant of StorageFrom: multiplication wraps around.
StorageFromWrapping(bsize, blocks, bavail) ==
    LET total == (blocks * bsize) % (Limit + 1)
        free  == (bavail * bsize) % (Limit + 1)
    IN  [total |-> total, free |-> free, used |-> Minus(total, free)]

\* storage_from: block size, blocks of the file system, blocks available.
StorageFrom(bsize, blocks, bavail) ==
    LET total == Saturated(blocks * bsize)
        free  == Saturated(bavail * bsize)
    IN  [total |-> total, free |-> free, used |-> Minus(total, free)]

\* disk-pct of refresh; a file system of size 0 shows a dash and no number.
Percent(s) == (200 * s.used + s.total) \div (2 * s.total)

-----------------------------------------------------------------------------
(* Properties of one input. *)

\* What fmt_bytes prints reads back as the same number of bytes, give or take
\* half a tenth of its unit and the byte that is cut off (sys.rs:67-98): group
\* memory is summed from one and shown by the other.
ReadsBack(b) ==
    LET t == FmtBytes(b)
        c == ParseBytes(t)
        slack == Mult(t.unit) + 20
    IN  20 * b <= 20 * c + slack /\ 20 * c <= 20 * b + slack

\* A larger size never prints as a smaller one, also where the unit changes.
KeepsOrder(b) == ParseBytes(FmtBytes(b)) <= ParseBytes(FmtBytes(b + 1))

\* Free space never exceeds the total, as the self-test demands at boot
\* (selftest.rs:67-73), used and free add up to it, and the percentage is one,
\* also for a file system too large for a word.
AddsUp(bsize, blocks, bavail) ==
    LET s == StorageFrom(bsize, blocks, bavail) IN
    /\ s.free <= s.total
    /\ s.used + s.free = s.total
    /\ s.total > 0 => Percent(s) \in 0 .. 100
=============================================================================
