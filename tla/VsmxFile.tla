------------------------------ MODULE VsmxFile ------------------------------
(***************************************************************************)
(* A VSMX script: groups of an instruction and a value, and three sections *)
(* of words that the values of some instructions are indices of.  The file *)
(* holds a section as characters with a 0 behind each word, and the number *)
(* of the words.                                                           *)
(*                                                                         *)
(* An instruction is the lowest byte of a group's id; b1 to b3 are the     *)
(* others.  Offsets and lengths count characters.                          *)
(***************************************************************************)
EXTENDS Integers, Sequences, SequencesExt

CONSTANT
    WordSize    \* one more than what a value can be

ASSUME WordSizeAssumption == WordSize \in Nat \ {0}

(* Instructions, by what their values are.                                 *)
BoolOps == {37}
NumberOps == {38, 45, 71}                            \* and unnamed variables
FloatOps == {39}
TextOps == {40, 70}
NameOps == {46}
PropOps == 47..51
FunctionOps == {42}
JumpOps == 57..59
CountOps == {60, 61, 62, 73}                         \* arguments, items
PlainOps == (1..21) \cup (24..32) \cup {34, 35, 36, 41, 43, 44, 52, 54, 56, 63, 69}

NumNames == 74                                       \* VSMX_NUM_DEC_OPS

Group(op, val) == [op |-> op, b1 |-> 0, b2 |-> 0, b3 |-> 0, val |-> val]

Bytes == 0..255
Groups == [op : Bytes, b1 : Bytes, b2 : Bytes, b3 : Bytes, val : 0..WordSize-1]

(* A field of VsmxMem for each section.                                    *)
SectionOf(op) ==
    IF op \in TextOps THEN "text" ELSE IF op \in NameOps THEN "names" ELSE "prop"
WordOps == TextOps \cup NameOps \cup PropOps

-----------------------------------------------------------------------------
(* readVSMX and writeVSMX.                                                 *)

IsFile(file) ==
    /\ file.code \in Seq(Groups)
    /\ \A section \in {file.text, file.prop, file.names} :
         section.chars \in Seq(Nat) /\ section.entries \in Nat

(* A character behind words: a 0 begins the next word.                     *)
Character(words, c) ==
    IF c = 0 THEN Append(words, <<>>)
    ELSE [words EXCEPT ![Len(words)] = Append(@, c)]

Parted(chars) ==
    LET upTo[n \in 0..Len(chars)] ==
          IF n = 0 THEN << <<>> >> ELSE Character(upTo[n - 1], chars[n])
    IN upTo[Len(chars)]

(* The words between the zeros; behind the last one none is needed.        *)
Words(chars) == Parted(IF Last(chars) = 0 THEN Front(chars) ELSE chars)

(* Neither of length and number without the other, and the number right.   *)
Readable(section) ==
    IF section.chars = <<>> THEN section.entries = 0
    ELSE section.entries = Len(Words(section.chars))

ReadSection(section) == IF section.chars = <<>> THEN <<>> ELSE Words(section.chars)

Versions == {"VSMX", "JSX"}

CanRead(file) ==
    /\ file.version \in Versions
    /\ Readable(file.text) /\ Readable(file.prop) /\ Readable(file.names)

ReadFile(file) ==
    [code |-> file.code, text |-> ReadSection(file.text),
     prop |-> ReadSection(file.prop), names |-> ReadSection(file.names)]

(* What VsmxAddText fills: words, where each begins, and how long all are. *)
NewPool == [words |-> <<>>, offs |-> <<>>, len |-> 0]

Has(pool, w) == \E k \in DOMAIN pool.words : pool.words[k] = w

AddedUnended(pool, w) ==                                       \* mutant
    IF Has(pool, w) THEN pool
    ELSE [words |-> Append(pool.words, w), offs |-> Append(pool.offs, pool.len),
          len |-> pool.len + Len(w)]

AddedInFront(pool, w) ==                                       \* mutant
    IF Has(pool, w) THEN pool
    ELSE [words |-> <<w>> \o pool.words, offs |-> Append(pool.offs, pool.len),
          len |-> pool.len + Len(w) + 1]

(* A word is stored once; the result is the word's number, from 0.         *)
VsmxAddText(pool, w) ==
    IF Has(pool, w) THEN pool
    ELSE [words |-> Append(pool.words, w), offs |-> Append(pool.offs, pool.len),
          len |-> pool.len + Len(w) + 1]

IndexOf(pool, w) ==
    IF Has(pool, w) THEN (CHOOSE k \in DOMAIN pool.words : pool.words[k] = w) - 1
    ELSE Len(pool.words)

(* Words with a 0 behind each.                                             *)
Ended(chars, word) == chars \o word \o <<0>>

Joined(words) ==
    LET upTo[n \in 0..Len(words)] ==
          IF n = 0 THEN <<>> ELSE Ended(upTo[n - 1], words[n])
    IN upTo[Len(words)]

SectionUncounted(pool) ==                                      \* mutant
    [chars |-> Joined(pool.words), entries |-> Len(pool.words) - 1]

(* As many characters as the words take.                                   *)
WriteSection(pool) ==
    [chars |-> SubSeq(Joined(pool.words), 1, pool.len),
     entries |-> Len(pool.words)]

WriteFile(mem) ==
    [version |-> "VSMX", code |-> mem.code, text |-> WriteSection(mem.text),
     prop |-> WriteSection(mem.prop), names |-> WriteSection(mem.names)]
=============================================================================
