------------------------------- MODULE Codec --------------------------------
(***************************************************************************)
(* The integer codecs of the index files: LEB128 varints                   *)
(* (df-core/src/varint.rs) and the PFor-delta posting codec with its       *)
(* bit-plane frames and exceptions (df-core/src/turbopfor.rs).             *)
(*                                                                         *)
(* A buffer is a sequence of bytes; positions are the code's zero-based    *)
(* offsets, so that buf[pos] of the code is buf[pos + 1] here.  Integers   *)
(* stay below 2^30, the largest range TLC's own integers can shift in;     *)
(* the 32-bit width constants are the code's.                              *)
(***************************************************************************)
EXTENDS OptionValue, Integers, Sequences, SequencesExt, FiniteSets, FiniteSetsExt

CONSTANT Block   \* turbopfor's BLOCK: the number of deltas per frame

\* The position of an exception in its frame is stored in two bytes.
ASSUME BlockAssumption == Block \in Nat \ {0} /\ Block \div 256 < 256

\* v shifted right by n digits of base b, its n lowest digits, lowest first, and
\* the number that a sequence of digits stands for.
Shift(v, b, n)  == LET rest[i \in 0..n] == IF i = 0 THEN v ELSE rest[i - 1] \div b IN rest[n]
Digits(v, b, n) == [i \in 1..n |-> Shift(v, b, i - 1) % b]
Number(d, b) ==
    LET top[i \in 0..Len(d)] == IF i = 0 THEN 0 ELSE d[Len(d) + 1 - i] + b * top[i - 1]
    IN  top[Len(d)]

Slice(buf, at, n) == SubSeq(buf, at + 1, at + n)

\* to_le_bytes and from_le_bytes for an integer of n bytes.
LeBytes(v, n)      == Digits(v, 256, n)
FromLe(buf, at, n) == Number(Slice(buf, at, n), 256)

CeilDiv(a, b) == (a + b - 1) \div b

(***************************************************************************)
(* varint.rs                                                               *)
(***************************************************************************)
\* Seven bits per byte, the continuation bit on every byte but the last.
Septets(v) ==
    CHOOSE n \in 1..5 : Shift(v, 128, n - 1) < 128 /\ (n > 1 => Shift(v, 128, n - 1) > 0)

encode_u32(v) ==
    [i \in 1..Septets(v) |-> Digits(v, 128, 5)[i] + (IF i < Septets(v) THEN 128 ELSE 0)]

\* The value at pos and the position after it; NoValue on truncation and when
\* the fifth byte still asks for another.
decode_u32(buf, pos) ==
    LET n == SelectInSeq(Slice(buf, pos, Min({5, Len(buf) - pos})), LAMBDA b : b < 128)
    IN  IF n = 0 THEN [value |-> NoValue, pos |-> pos]
        ELSE [value |-> Number([i \in 1..n |-> buf[pos + i] % 128], 128),
              pos   |-> pos + n]

(***************************************************************************)
(* turbopfor.rs                                                            *)
(***************************************************************************)
Bit(v, p) == Shift(v, 2, p) % 2

\* Mutation: a value of b + 1 bits is taken to fit.
Exceptions_OneBitMore(vals, b) == {i \in 1..Len(vals) : b < 32 /\ Shift(vals[i], 2, b + 1) # 0}

\* The positions whose value does not fit in b bits.
Exceptions(vals, b) == {i \in 1..Len(vals) : b < 32 /\ Shift(vals[i], 2, b) # 0}

Cost(vals, b) == Len(vals) * b + Cardinality(Exceptions(vals, b)) * 32

\* The candidate widths: 1..max_bits, that is 1 and every width at which some
\* value still has a bit set, and 32.
Widths(vals) == {1, 32} \cup {b \in 2..31 : \E i \in 1..Len(vals) : Shift(vals[i], 2, b - 1) # 0}

\* The first cheapest of them.
BestWidth(vals) ==
    LET bs == Widths(vals)
    IN  CHOOSE b \in bs : \A c \in bs :
            \/ Cost(vals, b) < Cost(vals, c)
            \/ Cost(vals, b) = Cost(vals, c) /\ b <= c

\* n * b bits: bit p of value i (zero-based) at bit index p * n + i.
PackedFrame(vals, b) ==
    LET n == Len(vals)
        BitAt(k) == IF k < n * b THEN Bit(vals[(k % n) + 1], k \div n) ELSE 0
    IN  [j \in 1..CeilDiv(n * b, 8) |->
            Number([t \in 1..8 |-> BitAt(8 * (j - 1) + t - 1)], 2)]

\* The members of a finite set of integers in ascending order.
Ascending(S) ==
    [k \in 1..Cardinality(S) |-> CHOOSE i \in S : Cardinality({j \in S : j < i}) = k - 1]

encode_block(vals) ==
    LET b   == BestWidth(vals)
        exc == Ascending(Exceptions(vals, b))
    IN  <<b>> \o LeBytes(Len(exc), 2) \o PackedFrame(vals, b)
        \o FlattenSeq([k \in 1..Len(exc) |->
                          LeBytes(exc[k] - 1, 2) \o LeBytes(vals[exc[k]], 4)])

\* The n values of the block at pos, and the position after the block.
decode_block(buf, pos, n) ==
    LET b         == buf[pos + 1]
        exc_count == FromLe(buf, pos + 1, 2)
        frame     == pos + 3
        excs      == frame + CeilDiv(n * b, 8)
        FrameBit(k) == Bit(buf[frame + (k \div 8) + 1], k % 8)
        low(i)    == Number([p \in 1..b |-> FrameBit((p - 1) * n + i - 1)], 2)
        at(e)     == excs + 6 * (e - 1)
        patch(i)  == {e \in 1..exc_count : FromLe(buf, at(e), 2) = i - 1}
    IN  [vals |-> [i \in 1..n |-> IF patch(i) = {} THEN low(i)
                                  ELSE FromLe(buf, at(Max(patch(i))) + 2, 4)],
         pos  |-> excs + 6 * exc_count]

\* Version byte, the delta count, then one frame per Block deltas.
encode(deltas) ==
    <<1>> \o LeBytes(Len(deltas), 4)
    \o FlattenSeq([k \in 1..CeilDiv(Len(deltas), Block) |->
                      encode_block(SubSeq(deltas, Block * (k - 1) + 1,
                                          Min({Block * k, Len(deltas)})))])

\* What decode() has after one more block.
DecodeNext(buf, count, acc) ==
    LET blk == decode_block(buf, acc.pos, Min({Block, count - Len(acc.out)}))
    IN  [pos |-> blk.pos, out |-> acc.out \o blk.vals]

decode(buf, count) ==
    LET acc[k \in 0..CeilDiv(count, Block)] ==
            IF k = 0 THEN [pos |-> 5, out |-> <<>>] ELSE DecodeNext(buf, count, acc[k - 1])
    IN  acc[CeilDiv(count, Block)].out
=============================================================================
