--------------------------- MODULE VsmxRoundTrip ---------------------------
(***************************************************************************)
(* VsmxDecode and VsmxEncode one after the other: a script becomes lines   *)
(* of text and is made again from them, with the words numbered in the     *)
(* order in which they come up.                                            *)
(*                                                                         *)
(* A line is the instruction that its first word names and what follows:   *)
(* the numbers written there, or characters.                               *)
(***************************************************************************)
EXTENDS VsmxFile

CONSTANTS
    Files,       \* what a file may hold
    LineMax,     \* how many characters behind the instruction fit the buffer
    Spelled      \* pieces of words that read as an instruction, and the line that each is

ASSUME FilesAssumption == \A f \in Files : IsFile(f)
ASSUME LineMaxAssumption == LineMax \in Nat /\ LineMax >= 2

(* Such a piece names its instruction, and has behind it what that needs.  *)
(* One that has not, or a number (UNKNOWN_...) for the name, is left out.  *)
Spells(l) ==
    LET op == l.id.op IN
    /\ l \in [id : {Group(n, 0) : n \in 0..NumNames-1}, arg : Seq(Nat)]
    /\ op \in WordOps =>
         /\ Len(l.arg) <= LineMax
         /\ \A i \in 1..Len(l.arg) : l.arg[i] # 0 /\ (l.arg[i] = 10 => i = Len(l.arg))
    /\ op \in FunctionOps =>
         l.arg[1] \in Bytes /\ l.arg[2] \in Bytes /\ l.arg[3] \in 0..WordSize-1
    /\ op \notin WordOps \cup FunctionOps \cup PlainOps => l.arg[1] \in 0..WordSize-1

ASSUME SpelledAssumption == \A p \in DOMAIN Spelled : Spells(Spelled[p])

VARIABLES
    status, round,
    file, script,   \* what is read, and what it is in memory
    at,             \* how many groups, then how many lines are done
    lines,          \* the text
    made,           \* what VsmxEncode builds
    copy            \* the file written of it

vars == <<status, round, file, script, at, lines, made, copy>>

NoScript == [code |-> <<>>, text |-> <<>>, prop |-> <<>>, names |-> <<>>]
NewScript == [code |-> <<>>, text |-> NewPool, prop |-> NewPool, names |-> NewPool]

NL == 10
Quote == 34
Semicolon == 59
White == {9, 10, 13, 32}

Line(id, arg) == [id |-> id, arg |-> arg]

(* An id without the value.                                                *)
Id(g) == Group(g.op, 0)
WholeId(g) == [g EXCEPT !.val = 0]
NoInstruction == Group(-1, 0)

IdNumber(g) == g.op + 256 * (g.b1 + 256 * (g.b2 + 256 * g.b3))

(* What "%#g" leaves of a float: here the last digit is one too many.      *)
SixDigits(v) == v - (v % 10)

-----------------------------------------------------------------------------
(* VsmxDecode.                                                             *)

(* fgetws ends a line at the end of its buffer too.                        *)
Full(piece) == Len(piece) = LineMax \/ (piece # <<>> /\ Last(piece) = NL)

Further(pieces, c) ==
    IF Full(Last(pieces)) THEN Append(pieces, <<c>>)
    ELSE [pieces EXCEPT ![Len(pieces)] = Append(@, c)]

Pieces(chars) ==
    LET upTo[n \in 0..Len(chars)] ==
          IF n = 0 THEN << <<>> >> ELSE Further(upTo[n - 1], chars[n])
    IN upTo[Len(chars)]

(* What VsmxEncode takes a line for that does not begin with an id.        *)
PieceLine(piece) ==
    IF piece \in DOMAIN Spelled THEN Spelled[piece] ELSE Line(NoInstruction, piece)

WordLines(id, chars) ==
    LET ps == Pieces(chars)
    IN [i \in DOMAIN ps |-> IF i = 1 THEN Line(id, ps[i]) ELSE PieceLine(ps[i])]

(* An instruction without a name is written as its number, but one that is *)
(* just past the table as what lies there.                                 *)
UnknownId(g) ==
    IF g.op < NumNames THEN Id(g)
    ELSE IF g.op = NumNames THEN NoInstruction ELSE WholeId(g)

DecodedUnshifted(g, s) ==                                      \* mutant
    LET word == s[SectionOf(g.op)][g.val + 1]
    IN IF g.op \in TextOps THEN WordLines(Id(g), <<Quote>> \o word \o <<Quote>>)
       ELSE IF g.op \in NameOps \cup PropOps THEN WordLines(Id(g), word)
       ELSE << Line(Id(g), IF g.op \in FunctionOps THEN <<g.b1, g.b3, g.val>> ELSE <<g.val>>) >>

OtherLine(g) ==
    LET next == (g.val + 1) % WordSize
    IN CASE g.op \in BoolOps \cup NumberOps \cup CountOps -> Line(Id(g), <<g.val>>)
         [] g.op \in FloatOps -> Line(Id(g), <<SixDigits(g.val)>>)
         [] g.op \in JumpOps -> Line(Id(g), <<next>>)
         [] g.op \in FunctionOps -> Line(Id(g), <<g.b1, g.b3, next>>)
         [] g.op \in PlainOps -> Line(Id(g), <<>>)
         [] OTHER -> Line(UnknownId(g), <<IdNumber(g) % WordSize>>)

Decoded(g, s) ==
    LET word == s[SectionOf(g.op)][g.val + 1]
    IN IF g.op \in TextOps THEN WordLines(Id(g), <<Quote>> \o word \o <<Quote>>)
       ELSE IF g.op \in NameOps \cup PropOps THEN WordLines(Id(g), word)
       ELSE << OtherLine(g) >>

IndexValid(g, s) == g.op \in WordOps => g.val < Len(s[SectionOf(g.op)])

Init ==
    /\ status = "reading" /\ round = 1
    /\ file \in Files
    /\ script = NoScript
    /\ at = 0 /\ lines = <<>> /\ made = NewScript /\ copy = file

Read ==
    /\ status = "reading"
    /\ IF CanRead(file)
       THEN status' = "decoding" /\ script' = ReadFile(file)
       ELSE status' = "refused" /\ UNCHANGED script
    /\ UNCHANGED <<round, file, at, lines, made, copy>>

DecodeGroup ==
    /\ status = "decoding" /\ at < Len(script.code)
    /\ IndexValid(script.code[at + 1], script)
    /\ lines' = lines \o Decoded(script.code[at + 1], script)
    /\ at' = at + 1
    /\ UNCHANGED <<status, round, file, script, made, copy>>

(* The length of a name is asked for before its index is checked.          *)
DecodeFails ==
    /\ status = "decoding" /\ at < Len(script.code)
    /\ ~IndexValid(script.code[at + 1], script)
    /\ \/ status' = "failed"
       \/ script.code[at + 1].op \in NameOps /\ status' = "crashed"
    /\ UNCHANGED <<round, file, script, at, lines, made, copy>>

DecodeEnds ==
    /\ status = "decoding" /\ at = Len(script.code)
    /\ status' = "encoding" /\ at' = 0
    /\ UNCHANGED <<round, file, script, lines, made, copy>>

-----------------------------------------------------------------------------
(* VsmxEncode.                                                             *)

(* Without white space at the end, or spaces in front.                     *)
Trimmed(arg) ==
    LET last == CHOOSE n \in 0..Len(arg) :
                  /\ n = 0 \/ arg[n] \notin White
                  /\ \A i \in n+1..Len(arg) : arg[i] \in White
        first == CHOOSE n \in 1..last+1 :
                  /\ n = last + 1 \/ arg[n] # 32
                  /\ \A i \in 1..n-1 : arg[i] = 32
    IN SubSeq(arg, first, last)

Ignored(chars) ==
    \/ \A i \in DOMAIN chars : chars[i] \in White
    \/ \E i \in DOMAIN chars : /\ chars[i] = Semicolon
                              /\ \A j \in 1..i-1 : chars[j] \in White

Quoted(arg) == arg[1] = Quote /\ Last(arg) = Quote
Unquoted(arg) == IF Len(arg) = 1 THEN <<>> ELSE SubSeq(arg, 2, Len(arg) - 1)

line == lines[at + 1]
Encoding == status = "encoding" /\ at < Len(lines)

Appended(g) == made' = [made EXCEPT !.code = Append(@, g)]

EncodeNothing ==
    /\ Encoding
    /\ line.id = NoInstruction /\ Ignored(line.arg)
    /\ at' = at + 1
    /\ UNCHANGED <<status, round, file, script, lines, made, copy>>

(* The argument of a name is missing if it is empty, and used all the same.*)
EncodeFails ==
    /\ Encoding
    /\ \/ line.id = NoInstruction /\ ~Ignored(line.arg) /\ status' = "failed"
       \/ /\ line.id.op \in NameOps \cup PropOps /\ Trimmed(line.arg) = <<>>
          /\ status' = "crashed"
    /\ UNCHANGED <<round, file, script, at, lines, made, copy>>

EncodeWord ==
    /\ Encoding
    /\ line.id.op \in WordOps
    /\ LET arg == Trimmed(line.arg)
           word == IF line.id.op \in TextOps THEN Unquoted(arg) ELSE arg
           field == SectionOf(line.id.op)
       IN /\ arg # <<>>
          /\ line.id.op \in TextOps => Quoted(arg)
          /\ made' = [made EXCEPT
                        !.code = Append(@, Group(line.id.op, IndexOf(made[field], word))),
                        ![field] = VsmxAddText(@, word)]
    /\ at' = at + 1
    /\ UNCHANGED <<status, round, file, script, lines, copy>>

EncodeBadString ==
    /\ Encoding
    /\ line.id.op \in TextOps /\ ~Quoted(Trimmed(line.arg))
    /\ Appended(Group(line.id.op, 0))
    /\ at' = at + 1
    /\ UNCHANGED <<status, round, file, script, lines, copy>>

Less1(n) == (n + WordSize - 1) % WordSize

EncodeOther ==
    /\ Encoding
    /\ line.id # NoInstruction /\ line.id.op \notin WordOps
    /\ Appended(
         CASE line.id.op \in FunctionOps ->
                [line.id EXCEPT !.b1 = line.arg[1], !.b3 = line.arg[2],
                                !.val = Less1(line.arg[3])]
           [] line.id.op \in JumpOps -> [line.id EXCEPT !.val = Less1(line.arg[1])]
           [] line.id.op \in PlainOps -> line.id
           [] OTHER -> [line.id EXCEPT !.val = line.arg[1]])
    /\ at' = at + 1
    /\ UNCHANGED <<status, round, file, script, lines, copy>>

Write ==
    /\ status = "encoding" /\ at = Len(lines)
    /\ copy' = WriteFile(made)
    /\ status' = "written"
    /\ UNCHANGED <<round, file, script, at, lines, made>>

(* The same with what has been written.                                    *)
Again ==
    /\ status = "written" /\ round = 1
    /\ status' = "reading" /\ round' = 2
    /\ file' = copy
    /\ at' = 0 /\ lines' = <<>> /\ made' = NewScript
    /\ UNCHANGED <<script, copy>>

Next ==
    \/ Read \/ DecodeGroup \/ DecodeFails \/ DecodeEnds
    \/ EncodeNothing \/ EncodeFails \/ EncodeWord \/ EncodeBadString \/ EncodeOther
    \/ Write \/ Again

Spec == Init /\ [][Next]_vars

-----------------------------------------------------------------------------
(* What must be true.                                                      *)

(* What the text can carry: words within a line, floats of six digits, and *)
(* of an id no more than the instruction, except for functions.            *)
LastingWord(g, w) ==
    /\ NL \notin Range(w) /\ Len(w) + 2 <= LineMax
    /\ g.op \notin TextOps => w # <<>> /\ Trimmed(w) = w

KnownOps ==
    BoolOps \cup NumberOps \cup FloatOps \cup WordOps \cup FunctionOps
    \cup JumpOps \cup CountOps \cup PlainOps

Lasting(g, s) ==
    /\ g.op \in KnownOps
    /\ g.b2 = 0 /\ (g.op \notin FunctionOps => g.b1 = 0 /\ g.b3 = 0)
    /\ g.op \in FloatOps => SixDigits(g.val) = g.val
    /\ g.op \in PlainOps => g.val = 0
    /\ g.op \in WordOps => /\ IndexValid(g, s)
                          /\ LastingWord(g, s[SectionOf(g.op)][g.val + 1])

(* A group with the word in the place of its index.                        *)
Meaning(g, words) ==
    IF g.op \in WordOps
    THEN [group |-> Id(g), word |-> words[SectionOf(g.op)][g.val + 1]]
    ELSE [group |-> g, word |-> <<>>]

Program(code, words) == [i \in DOMAIN code |-> Meaning(code[i], words)]

MadeWords == [text |-> made.text.words, prop |-> made.prop.words, names |-> made.names.words]

(* A script that the text can carry comes back as the same program, line   *)
(* by line, however its words are numbered before and after.               *)
SameProgram ==
    (status # "reading" /\ \A i \in DOMAIN script.code : Lasting(script.code[i], script)) =>
        /\ status \notin {"failed", "crashed"}
        /\ status \in {"encoding", "written"} =>
             Program(made.code, MadeWords)
               = SubSeq(Program(script.code, script), 1, at)

(* Of each pool: no word is in it twice, and each lies where its offset    *)
(* says, the last one up to the length of all.                             *)
PoolExact(pool) ==
    /\ Len(pool.offs) = Len(pool.words)
    /\ IF pool.words = <<>> THEN pool.len = 0 ELSE pool.offs[1] = 0
    /\ \A j, k \in DOMAIN pool.words : pool.words[j] = pool.words[k] => j = k
    /\ \A k \in DOMAIN pool.words :
         (IF k = Len(pool.words) THEN pool.len ELSE pool.offs[k + 1])
           = pool.offs[k] + Len(pool.words[k]) + 1

PoolsExact == PoolExact(made.text) /\ PoolExact(made.prop) /\ PoolExact(made.names)

(* The index that a group was given goes on meaning the same word, however *)
(* many words are added after.                                             *)
IndicesHold ==
    [][status = "encoding" =>
         \A f \in {"text", "prop", "names"} : IsPrefix(made[f].words, made'[f].words)]_vars

(* What is written can be read, with the same words.                       *)
ReadsBack ==
    status = "written" =>
        /\ CanRead(copy)
        /\ ReadFile(copy) = [code |-> made.code, text |-> MadeWords.text,
                             prop |-> MadeWords.prop, names |-> MadeWords.names]

(* Whatever the first round lost, a second one changes nothing any more,   *)
(* but that the value of an instruction not known is again that of its id, *)
(* which has lost the upper bytes if the instruction has a name, and that  *)
(* a float has six digits, which one spelled by a piece of a word need not.*)
Settled(g) ==
    IF g.op \in FloatOps THEN [g EXCEPT !.val = SixDigits(g.val)]
    ELSE IF g.op \in KnownOps THEN g ELSE [g EXCEPT !.val = IdNumber(g) % WordSize]

SecondRoundSame ==
    status = "written" /\ round = 2 =>
        copy = [file EXCEPT !.code = [i \in DOMAIN file.code |-> Settled(file.code[i])]]
=============================================================================
