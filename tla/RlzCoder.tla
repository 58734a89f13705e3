------------------------------ MODULE RlzCoder ------------------------------
(***************************************************************************)
(* The entropy coder of rlzpack.c: an adaptive binary range coder and the  *)
(* bits by which lengths, distances and literals are written.              *)
(*                                                                         *)
(* A byte has Bits bits (8 in the program), so that registers of four      *)
(* bytes and a carry fit the numbers TLC computes with.  A coder is a      *)
(* record of the fields of RLZ_Info that these functions use; the arrays   *)
(* of probabilities are one function of <<array, index>>, defined where it *)
(* differs from the value that the arrays are set to.                      *)
(***************************************************************************)
EXTENDS Integers, Sequences, SequencesExt

CONSTANT
    Bits   \* in a byte

BASE == 2^Bits

ASSUME BitsAssumption == Bits \in 3..8 /\ BASE \in Nat \ {0}

TOP == BASE^4        \* one more than what four bytes hold

Bit(num, k) == (num \div 2^k) % 2

-----------------------------------------------------------------------------
(* The coder.                                                              *)

(* Two bits of the mode tell what the arrays are set to.                   *)
ByteSet(mode) == (4 - ((mode \div 8) % 4)) * (BASE \div 8)

NewCoder(mode) ==
    [rangeOffset |-> 0, rangeSize |-> TOP - 1, nextOutputByte |-> 0,
     bytesToWrite |-> 0, writeLock |-> TRUE, out |-> <<>>,
     byteSet |-> ByteSet(mode), probs |-> <<>>]

Prob(c, ctx) == IF ctx \in DOMAIN c.probs THEN c.probs[ctx] ELSE c.byteSet

(* What writing a bit makes of its probability.                            *)
Adapted(p, bit) ==
    LET q == IF bit = 1 THEN (p + BASE - 1) % BASE ELSE p IN q - q \div 8

Adapt(c, ctx, bit) ==
    [x \in DOMAIN c.probs \cup {ctx} |->
        IF x = ctx THEN Adapted(Prob(c, ctx), bit) ELSE c.probs[x]]

WaitingNoCarry(c) ==                                           \* mutant
    [i \in 1..c.bytesToWrite + 1 |->
          IF i = 1 THEN c.nextOutputByte ELSE BASE - 1]

(* flush_output: the byte kept back and the 0xFF bytes waiting behind it   *)
(* are written with the carry added.  When the output is full the function *)
(* returns in the middle.                                                  *)
Waiting(c) ==
    LET carry == c.rangeOffset \div TOP
    IN [i \in 1..c.bytesToWrite + 1 |->
          ((IF i = 1 THEN c.nextOutputByte ELSE BASE - 1) + carry) % BASE]

Shift(c) ==
    [c EXCEPT !.bytesToWrite = @ + 1,
              !.rangeOffset = (@ * BASE) % TOP,
              !.rangeSize = (@ * BASE) % TOP]

FlushWithoutLimit(c, room) ==                                  \* mutant
    LET top == c.rangeOffset \div BASE^3
    IN IF top = BASE - 1 THEN Shift(c)
       ELSE Shift([c EXCEPT !.out = @ \o Waiting(c), !.nextOutputByte = top % BASE,
                            !.bytesToWrite = -1])

flush_output(c, room) ==
    LET top == c.rangeOffset \div BASE^3
        bytes == Waiting(c)
        taken == IF Len(bytes) <= room - Len(c.out) THEN Len(bytes)
                 ELSE room - Len(c.out)
        written == [c EXCEPT !.out = @ \o SubSeq(bytes, 1, taken),
                             !.nextOutputByte = top % BASE,
                             !.bytesToWrite = @ - taken]
    IN IF top = BASE - 1 THEN Shift(c)
       ELSE IF taken < Len(bytes) THEN written ELSE Shift(written)

write_output(c, room) ==
    LET lock == (c.rangeSize \div BASE^3) % BASE # 0
        d == [c EXCEPT !.writeLock = lock]
    IN IF lock THEN d ELSE flush_output(d, room)

write_bit(c, ctx, bit, room) ==
    LET pMid == (c.rangeSize \div BASE) * Prob(c, ctx)
        d == IF bit = 0 THEN [c EXCEPT !.rangeOffset = @ + pMid, !.rangeSize = @ - pMid]
             ELSE [c EXCEPT !.rangeSize = pMid]
    IN write_output([d EXCEPT !.probs = Adapt(c, ctx, bit)], room)

(* Bits without a probability, written at once.                            *)
WriteDirect(c, bits, room) ==
    LET halved(d, bit) ==
          LET half == d.rangeSize \div 2
          IN [d EXCEPT !.rangeSize = half,
                       !.rangeOffset = @ + IF bit = 0 THEN half ELSE 0]
    IN write_output(FoldLeft(halved, c, bits), room)

-----------------------------------------------------------------------------
(* What is to be written: items, each a bit with its context or a row of   *)
(* bits without.                                                           *)

Direct == <<>>

Item(array, index, bit) == [ctx |-> <<array, index>>, bits |-> <<bit>>]

WriteItems(c, items, room) ==
    FoldLeft(LAMBDA d, x : IF x.ctx = Direct THEN WriteDirect(d, x.bits, room)
                           ELSE write_bit(d, x.ctx, x.bits[1], room),
             c, items)

Down(from, to) == [i \in 1..from - to + 1 |-> from - i + 1]

(* Bits e to 0 of num: the first two share a context, the next ones have   *)
(* none, and the last three have one each.                                 *)
write_special(array, at, num, e) ==
    LET low == IF e < 3 THEN e ELSE 2
        head == IF e < 3 THEN <<>> ELSE Down(e, IF e = 3 THEN 3 ELSE e - 1)
        middle == Down(e - 2, 3)
        base == IF e < 3 THEN at ELSE at + 1
        bits(ks) == [i \in DOMAIN ks |-> Bit(num, ks[i])]
    IN [i \in DOMAIN head |-> Item(array, at, Bit(num, head[i]))]
       \o (IF middle = <<>> THEN <<>> ELSE << [ctx |-> Direct, bits |-> bits(middle)] >>)
       \o [i \in 1..low + 1 |-> Item(array, base + i - 1, Bit(num, low + 1 - i))]

(* The number of bits of n, as far as a byte has any.                      *)
BitLength(n) == CHOOSE k \in 0..20 : n < 2^k /\ \A j \in 0..k-1 : n >= 2^j

(* The length less 1: how many bits it has, then the bits but the first.   *)
write_match_len(len, var_C, inputpos) ==
    LET n == BitLength(len)
        flags == IF n = Bits THEN n ELSE n + 1
    IN [i \in 1..flags |-> Item("lenDesc", (i - 1) * 8 + var_C, IF i <= n THEN 1 ELSE 0)]
       \o IF n < 2 THEN <<>>
          ELSE write_special("matchlens",
                             ((var_C % 8) + (n - 2) * 8) * 4 + ((inputpos * 2^(n-2)) % 4),
                             len, n - 2)

(* A literal: its bits from the highest, in a context of those before.     *)
LiteralItems(byte, group) ==
    [k \in 1..Bits |->
        Item("literals", group * (BASE - 1) + (byte + BASE) \div 2^(Bits - k + 1) - 1,
             Bit(byte, Bits - k))]

(* A distance: the number of its bits as a tree of flags, then the bits    *)
(* but the first.                                                          *)
DistanceItems(searchBack, matchLen) ==
    LET d == searchBack + 1
        sbSignifBit == BitLength(d) - 1
        short == matchLen < 4
        depth == IF short THEN 3 ELSE 5
        tree == IF short THEN sbSignifBit ELSE sbSignifBit + 12
        node(k) == 2^(k - 1) + tree \div 2^(depth - k + 1)
        group == BitLength(matchLen - 1) - 1
    IN [k \in 1..depth |->
          Item(IF short THEN "distDescShort" ELSE "distDescLong",
               node(k) * 8 + group, Bit(tree, depth - k))]
       \o IF sbSignifBit = 0 THEN <<>>
          ELSE write_special("distances", (sbSignifBit - 1) * 32, d, sbSignifBit - 1)
=============================================================================
