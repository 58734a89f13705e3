---------------------------- MODULE RlzCompress ----------------------------
(***************************************************************************)
(* rlz_compress (general.c): one call of rlzcompress with the mode asked   *)
(* for, or three with modes 5, 6 and 7 into the same buffer, and a fourth  *)
(* if the best is not the last.  Then what must be true of what is packed, *)
(* said with a reader of the format that knows nothing of the packer.      *)
(***************************************************************************)
EXTENDS RlzPacker

VARIABLES
    asked,     \* a mode, or Every
    sizes,     \* what the calls for modes 5, 6 and 7 have returned
    answer     \* what rlz_compress returns, Running before it does

cvars == <<asked, sizes, answer>>
allvars == <<vars, cvars>>

Every == -1

CInit ==
    /\ Init
    /\ asked \in {mode} \cup (IF mode = 5 THEN {Every} ELSE {})
    /\ sizes = <<>> /\ answer = Running

Call(m) ==
    /\ mode' = m
    /\ inputpos' = 0 /\ coder' = NewCoder(m)
    /\ window' = [h \in DOMAIN window |-> Nowhere]
    /\ dictionary' = [p \in DOMAIN dictionary |-> Nowhere]
    /\ lastSearchBack' = 0 /\ var_C' = 0 /\ lastInputByte' = 0
    /\ result' = Running
    /\ items' = <<>> /\ tokens' = <<>>
    /\ UNCHANGED <<input, beyond>>

Packing == Next /\ UNCHANGED cvars

(* The size that is taken, as the mode that has it; 0 for none.            *)
Better(a, others) == a # Failed /\ \A b \in others : a < b \/ b # Failed

Best(s) ==
    IF Better(s[3], {s[1], s[2]}) THEN 7
    ELSE IF Better(s[2], {s[1]}) THEN 6
    ELSE IF s[1] # Failed THEN 5
    ELSE 0

Returned(n) == answer' = IF n = Failed THEN 0 ELSE n

ReturnOne ==
    /\ answer = Running /\ result # Running
    /\ asked # Every
    /\ Returned(result)
    /\ UNCHANGED <<vars, asked, sizes>>

NextMode ==
    /\ answer = Running /\ result # Running
    /\ asked = Every /\ Len(sizes) < 3
    /\ sizes' = Append(sizes, result)
    /\ IF mode < 7 THEN Call(mode + 1) ELSE UNCHANGED vars
    /\ UNCHANGED <<asked, answer>>

ReturnBest ==
    /\ answer = Running /\ result # Running
    /\ Len(sizes) = 3
    /\ IF mode = Best(sizes) \/ Best(sizes) = 0
       THEN /\ Returned(IF Best(sizes) = 0 THEN Failed ELSE result)
            /\ UNCHANGED vars
       ELSE Call(Best(sizes)) /\ UNCHANGED answer
    /\ UNCHANGED <<asked, sizes>>

CNext == Packing \/ ReturnOne \/ NextMode \/ ReturnBest

CSpec == CInit /\ [][CNext]_allvars
-----------------------------------------------------------------------------
(* A reader of the bits that were written, items put aside: how long, in   *)
(* ones and a zero, then a byte or the place of a match.                   *)

Flat(its) == FoldLeft(LAMBDA s, x : s \o x.bits, <<>>, its)

Number(b, at, n) == FoldLeft(LAMBDA v, i : 2 * v + b[at + i - 1], 0, [i \in 1..n |-> i])

OnesAt(b, at) == CHOOSE n \in 0..Bits :
                    /\ \A i \in 0..n-1 : b[at + i] = 1
                    /\ n = Bits \/ b[at + n] = 0

ReadToken(b, at) ==
    LET n == OnesAt(b, at)
        body == at + n + (IF n < Bits THEN 1 ELSE 0)
        less1 == IF n = 0 THEN 0 ELSE 2^(n-1) + Number(b, body, n - 1)
        tree == IF n = 0 THEN body ELSE body + n - 1
        depth == IF less1 < 3 THEN 3 ELSE 5
        s == Number(b, tree, depth) - (IF depth = 5 THEN 12 ELSE 0)
    IN IF n = 0
       THEN [len |-> 1, back |-> 0, byte |-> Number(b, body, Bits), next |-> body + Bits]
       ELSE IF less1 = BASE - 1
       THEN [len |-> 0, back |-> 0, byte |-> 0, next |-> tree]
       ELSE [len |-> less1 + 1, byte |-> 0, next |-> tree + depth + s,
             back |-> 2^s + Number(b, tree + depth, s) - 1]

(* As many tokens as the bits are; the mark of the end has length 0.       *)
ReadBits(b) ==
    LET from[k \in 0..Len(b), at \in 1..Len(b) + 1] ==
          IF at > Len(b) \/ k = 0 THEN <<>>
          ELSE LET t == ReadToken(b, at)
                   token == [len |-> t.len, back |-> t.back, byte |-> t.byte]
               IN <<token>> \o IF t.len = 0 THEN <<>> ELSE from[k - 1, t.next]
    IN from[Len(b), 1]

(* Byte by byte: what is copied may reach into what it makes.              *)
Copied(s, back, len) ==
    LET after[n \in 0..len] ==
          IF n = 0 THEN s
          ELSE LET r == after[n - 1] IN Append(r, r[Len(r) - back])
    IN after[len]

WithToken(s, t) ==
    IF t.len = 1 THEN Append(s, t.byte) ELSE Copied(s, t.back, t.len)

Expanded(ts) ==
    LET after[n \in 0..Len(ts)] ==
          IF n = 0 THEN <<>> ELSE WithToken(after[n - 1], ts[n])
    IN after[Len(ts)]

(* A range decoder: it is given the bytes after the first, follows the     *)
(* probabilities, and takes a bit to be 1 where the code is below the      *)
(* part of the range for 1.                                                *)
Word(bytes, beyondAll) ==
    FoldLeft(LAMBDA v, i : v * BASE + IF i <= Len(bytes) THEN bytes[i] ELSE beyondAll,
             0, <<2, 3, 4, 5>>)

DecodedBits(bytes, its, m, beyondAll) ==
    LET byte(i) == IF i <= Len(bytes) THEN bytes[i] ELSE beyondAll
        start == [code |-> Word(bytes, beyondAll), range |-> TOP - 1, at |-> 6,
                  byteSet |-> ByteSet(m), probs |-> <<>>, bits |-> <<>>]
        bit(d, part) ==
          IF d.code < part THEN [d EXCEPT !.range = part, !.bits = Append(@, 1)]
          ELSE [d EXCEPT !.range = @ - part, !.code = @ - part, !.bits = Append(@, 0)]
        halve(d, i) == LET h == d.range \div 2
                       IN [bit(d, h) EXCEPT !.range = h]
        adapt(d, ctx) == [d EXCEPT !.probs = Adapt(d, ctx, Last(d.bits))]
        normal(d) ==
          IF d.range \div BASE^3 # 0 THEN d
          ELSE [d EXCEPT !.range = @ * BASE, !.code = @ * BASE + byte(d.at), !.at = @ + 1]
        item(d, x) ==
          normal(IF x.ctx = Direct THEN FoldLeft(halve, d, x.bits)
                 ELSE adapt(bit(d, (d.range \div BASE) * Prob(d, x.ctx)), x.ctx))
    IN FoldLeft(item, start, its).bits

-----------------------------------------------------------------------------
(* What must be true.                                                      *)

Packed == result \in 0..Room - 1
Marker == [len |-> 0, back |-> 0, byte |-> 0]

(* Every part of the state has its type.                                   *)
RlzTypeOK ==
    /\ result \in {Running, Failed} \cup 0..Room
    /\ answer \in {Running} \cup 0..Room
    /\ Len(sizes) <= 3 /\ \A i \in DOMAIN sizes : sizes[i] \in {Failed} \cup 0..Room
    /\ inputpos \in 0..Len(input) /\ var_C \in 0..7
    /\ window \in [0..WindowSize - 1 -> {Nowhere} \cup 0..Len(input) - 1]
    /\ Len(coder.out) <= Room /\ coder.bytesToWrite \in -1..2 * Room + 5
    /\ \A i \in DOMAIN coder.out : coder.out[i] \in 0..BASE - 1
    /\ \A x \in DOMAIN coder.probs : coder.probs[x] \in 0..BASE - 1

(* What has been written as literals and matches stands for the input as   *)
(* far as it has been read, whichever shortcut of find_match chose them.   *)
TokensExpand == Expanded(tokens) = SubSeq(input, 1, inputpos)

(* The bits alone tell the tokens, and where they end: no length takes     *)
(* the form of the mark.                                                   *)
BitsReadBack ==
    ReadBits(Flat(items)) =
        tokens \o IF result \in {Running, Failed} THEN <<>> ELSE <<Marker>>

(* As long as no 1 was written where its probability had come down to 0.   *)
OnesHaveRoom(its, m) ==
    LET step(d, x) ==
          IF x.ctx = Direct \/ ~d.fine THEN d
          ELSE [d EXCEPT !.fine = x.bits[1] = 0 \/ Prob(d, x.ctx) > 0,
                         !.probs = Adapt(d, x.ctx, x.bits[1])]
    IN FoldLeft(step, [fine |-> TRUE, byteSet |-> ByteSet(m), probs |-> <<>>], its).fine

(* A range decoder gets the bits that were written from the bytes, whatever*)
(* follows them.                                                           *)
Decodable ==
    \A b \in {0, BASE - 1} : DecodedBits(coder.out, items, mode, b) = Flat(items)

(* What is returned as smaller than the input can be decoded, carries and  *)
(* waiting 0xFF bytes included; the byte that the mode takes the place of  *)
(* was 0 ("otherwise, first byte is guaranteed to be 0", rlzpack.c:317),   *)
(* and the length rlz_compress returns is that of what lies in the buffer  *)
(* and was packed with the mode chosen.  Not said of an output as long as  *)
(* the input, which may be cut off (see LengthOfData), nor of one with a 1 *)
(* that was written at probability 0, of which nothing is left.            *)
Decodes ==
    /\ coder.out # <<>> => coder.out[1] = 0
    /\ Packed /\ OnesHaveRoom(items, mode) => Decodable
    /\ answer > 0 => /\ answer = Len(coder.out)
                     /\ sizes # <<>> => answer = sizes[mode - 4]

(* What rlz_compress returns is the "length of compressed data"            *)
(* (rlzpack.c:321), even if it is the length of the whole buffer: what     *)
(* lies there can be decoded, but for a 1 written at probability 0.        *)
LengthOfData == answer > 0 /\ OnesHaveRoom(items, mode) => Decodable

(* Every chain begins behind the place that is being packed, and each link *)
(* leads further back: what find_match compares with is there to copy, and *)
(* its search ends.                                                        *)
ChainsFall ==
    /\ \A h \in DOMAIN window : window[h] < inputpos
    /\ \A p \in DOMAIN dictionary : dictionary[p] # Nowhere => dictionary[p] < p
=============================================================================
