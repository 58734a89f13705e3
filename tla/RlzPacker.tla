----------------------------- MODULE RlzPacker -----------------------------
(***************************************************************************)
(* rlzcompress: bytes are written as literals or as matches with what lies *)
(* behind them, found through chains of positions of equal hash.  An       *)
(* action is one turn of the main loop, or what follows it.                *)
(*                                                                         *)
(* Positions count from 0.  The estimate by which mode 7 leaves out some   *)
(* matches is a floating-point sum; its outcome is a choice.               *)
(***************************************************************************)
EXTENDS RlzCoder, FiniteSets

CONSTANTS
    Inputs,           \* sequences of bytes
    Modes,            \* numbers below 32
    WindowSize,       \* RLZI_WINDOW_SIZE
    DictionarySize,   \* RLZI_DICTIONARY_SIZE; no input is longer
    Near, Nearer,     \* how far back a match of 3 may lie, and in mode 5
    Farthest          \* how far back a match of 3 to 6 may lie

ASSUME InputsAssumption ==
    /\ Modes \subseteq 0..31
    /\ WindowSize \in Nat \ {0} /\ DictionarySize \in Nat
    /\ Inputs \subseteq Seq(0..BASE - 1)
    /\ \A s \in Inputs : Len(s) \in 1..DictionarySize

VARIABLES
    input, beyond,    \* what is to be packed, and the byte in memory behind it
    mode,
    inputpos, coder,
    window, dictionary,
    lastSearchBack, var_C, lastInputByte,
    result,           \* what the function returns, Running before it does
    items, tokens     \* history: all that was written, and what it stands for

vars == <<input, beyond, mode, inputpos, coder, window, dictionary,
          lastSearchBack, var_C, lastInputByte, result, items, tokens>>

Running == -2
Failed == -1
Nowhere == -1        \* no position

Room == Len(input)
MaxBlockWhole == BASE                                          \* mutant
MaxBlock == BASE - 1

(* Bytes past the end are read in some places.                             *)
At(i) == IF i < Len(input) THEN input[i + 1] ELSE beyond

bytesLeft == Len(input) - inputpos
realMode == mode % 8

-----------------------------------------------------------------------------
(* find_match.                                                             *)

Found(len, back) == [len |-> len, back |-> back, final |-> FALSE]

(* Two bytes equal to those at distance d.                                 *)
TwoAt(d) ==
    /\ d < inputpos
    /\ At(inputpos - d - 1) = At(inputpos)
    /\ At(inputpos - d) = At(inputpos + 1)

(* A repetition at the last distance, or else at the shortest one up to 3. *)
ShortMatch(shortOnes) ==
    LET ds == {d \in (IF realMode = 7 THEN 1 ELSE 0)..3 : TwoAt(d)}
    IN IF TwoAt(lastSearchBack) THEN Found(2, lastSearchBack)
       ELSE IF (realMode # 7 \/ shortOnes) /\ ds # {}
       THEN Found(2, CHOOSE d \in ds : \A e \in ds : d <= e)
       ELSE Found(1, 0)

maxBlockSize == IF bytesLeft < MaxBlock THEN bytesLeft ELSE MaxBlock

ThreeMayBe(dist) == dist <= Near /\ (dist <= Nearer \/ realMode # 5)

Within(amt, dist) == amt \in DOMAIN Farthest => dist <= Farthest[amt]

(* Short matches must not lie far behind.                                  *)
Worth(amt, dist) ==
    amt >= 3 /\ (amt = 3 => ThreeMayBe(dist)) /\ Within(amt, dist)

Equal(a, b, n) == \A i \in 0..n-1 : At(a + i) = At(b + i)

(* As far as it matches beyond the bytes found to do.                      *)
MatchAmount(ref, len) ==
    CHOOSE n \in len..maxBlockSize :
      /\ \A i \in len..n-1 : At(ref + i) = At(inputpos + i)
      /\ n = maxBlockSize \/ At(ref + n) # At(inputpos + n)

(* Whether everything from here on is one byte.  One more than can be      *)
(* matched is looked at if all that matches is the longest block.          *)
OneByte(ref, amt) ==
    LET same(i) == At(inputpos + i) = At(ref)
    IN /\ \A i \in 0..maxBlockSize - 1 : same(i)
       /\ amt = maxBlockSize => ~same(maxBlockSize)

(* Then no more than is needed: distance 0 will do for the others.         *)
Shortened(amt, dist) ==
    LET stops == {i \in 3..amt-1 : (i = 3 => ThreeMayBe(dist)) /\ Within(i, dist)}
    IN IF amt <= 3 THEN 3
       ELSE IF stops = {} THEN amt
       ELSE CHOOSE i \in stops : \A j \in stops : i <= j

LongestBlock(ref) ==
    IF maxBlockSize # MaxBlock THEN maxBlockSize
    ELSE IF bytesLeft <= MaxBlock + 1 THEN MaxBlock - 2
    ELSE IF \E i \in MaxBlock..MaxBlock + 1 : At(ref + i) # At(inputpos + i)
    THEN MaxBlock - 2 ELSE MaxBlock

CandidateUnchecked(m, ref) ==                                  \* mutant
    LET amt == MatchAmount(ref, m.len + 1)
    IN IF m.final \/ m.len + 1 > maxBlockSize THEN m
       ELSE Found(amt, inputpos - ref - 1)

(* What is found becomes, by the position ref of the chain.                *)
Candidate(m, ref) ==
    LET amt == MatchAmount(ref, m.len + 1)
        dist == inputpos - ref - 1
        final(n) == [len |-> n, back |-> dist, final |-> TRUE]
    IN IF m.final \/ ~Equal(ref, inputpos, m.len + 1) THEN m
       ELSE IF ~Worth(amt, dist) THEN m
       ELSE IF dist # 0 /\ OneByte(ref, amt) THEN final(Shortened(amt, dist))
       ELSE IF amt = maxBlockSize THEN final(LongestBlock(ref))
       ELSE Found(amt, dist)

(* Three bytes to a place of the window.                                   *)
Hash(p) ==
    ((At(p) + At(p + 1) * BASE + At(p + 2) * BASE * BASE) * BASE) % WindowSize

OutOfBounds(p) == p < inputpos - DictionarySize - 1

(* What is found by following the chain from position p, as far as the     *)
(* dictionary goes.                                                        *)
Search(found, p) ==
    LET after[n \in 0..Len(input)] ==
          IF n = 0 THEN [match |-> found, backRef |-> p]
          ELSE LET s == after[n - 1]
               IN IF s.backRef = Nowhere \/ OutOfBounds(s.backRef) THEN s
                  ELSE [match   |-> Candidate(s.match, s.backRef),
                        backRef |-> dictionary[s.backRef]]
    IN after[Len(input)].match

(* With the last distance as it is set, unless the search ends early.      *)
find_match(shortOnes) ==
    LET short == ShortMatch(shortOnes)
        m == IF maxBlockSize < 3 THEN short
             ELSE Search(short, window[Hash(inputpos)])
    IN IF bytesLeft < 2
       THEN [len |-> 1, back |-> 0, last |-> lastSearchBack]
       ELSE [len |-> m.len, back |-> m.back,
             last |-> IF maxBlockSize >= 3 /\ ~m.final /\ m.len = 2 THEN m.back
                      ELSE lastSearchBack]

-----------------------------------------------------------------------------
(* The main loop.                                                          *)

Init ==
    /\ input \in Inputs /\ beyond \in {0, Last(input)} /\ mode \in Modes
    /\ inputpos = 0 /\ coder = NewCoder(mode)
    /\ window = [h \in 0..WindowSize - 1 |-> Nowhere]
    /\ dictionary = [p \in 0..DictionarySize |-> Nowhere]
    /\ lastSearchBack = 0 /\ var_C = 0 /\ lastInputByte = 0
    /\ result = Running
    /\ items = <<>> /\ tokens = <<>>

(* How many of the n positions just written go to the head of their        *)
(* chains: those with three more bytes behind them, or all if fewer than   *)
(* three are left (bytesLeft - 3 is unsigned).                             *)
Pushed(n) == IF bytesLeft < 3 \/ n < bytesLeft - 3 THEN n ELSE bytesLeft - 3

(* A position is linked to the one before it with the same hash, and the   *)
(* last one of each hash is the head.                                      *)
Link(h, before) ==
    IF before = {} THEN window[h] ELSE CHOOSE q \in before : \A r \in before : r <= q

PushUnlinked(n) ==                                             \* mutant
    LET new == inputpos..inputpos + Pushed(n) - 1
        of(h) == {q \in new : Hash(q) = h}
    IN /\ window' = [h \in DOMAIN window |-> Link(h, of(h))]
       /\ dictionary' = [p \in DOMAIN dictionary |->
                           IF p \in new THEN Link(Hash(p), of(Hash(p)))
                           ELSE dictionary[p]]

Push(n) ==
    LET new == inputpos..inputpos + Pushed(n) - 1
        of(h) == {q \in new : Hash(q) = h}
    IN /\ window' = [h \in DOMAIN window |-> Link(h, of(h))]
       /\ dictionary' = [p \in DOMAIN dictionary |->
                           IF p \in new THEN Link(Hash(p), {q \in of(Hash(p)) : q < p})
                           ELSE dictionary[p]]

(* n bytes have been written as the items new; -1 if the output is as long *)
(* as the input.                                                           *)
Advance(new, token, n) ==
    LET c == WriteItems(coder, new, Room)
    IN /\ coder' = c
       /\ items' = items \o new /\ tokens' = Append(tokens, token)
       /\ Push(n)
       /\ inputpos' = inputpos + n
       /\ lastInputByte' = At(inputpos + n - 1)
       /\ result' = IF Len(c.out) = Room THEN Failed ELSE Running
       /\ UNCHANGED <<input, beyond, mode>>

(* The group of contexts of a literal, by its place and the byte before.   *)
LiteralGroup ==
    ((((inputpos % 8) * BASE + lastInputByte) * 2^(8 - Bits)) \div 2^realMode) % 8

Literal ==
    /\ result = Running /\ inputpos < Len(input)
    /\ \E shortOnes \in BOOLEAN :
         LET m == find_match(shortOnes)
         IN /\ m.len < 2
            /\ lastSearchBack' = m.last
    /\ Advance(write_match_len(0, var_C, inputpos)
                 \o LiteralItems(At(inputpos), LiteralGroup),
               [len |-> 1, back |-> 0, byte |-> At(inputpos)], 1)
    /\ var_C' = IF var_C > 0 THEN var_C - 1 ELSE 0

Match ==
    /\ result = Running /\ inputpos < Len(input)
    /\ \E shortOnes \in BOOLEAN :
         LET m == find_match(shortOnes)
         IN /\ m.len \in Nat \ {0, 1}
            /\ lastSearchBack' = m.last
            /\ Advance(write_match_len(m.len - 1, var_C, inputpos)
                         \o DistanceItems(m.back, m.len),
                       [len |-> m.len, back |-> m.back, byte |-> 0], m.len)
            /\ var_C' = 7 - ((inputpos + m.len) % 2)

(* The mark of the end, and all that the coder holds back; the mode takes  *)
(* the place of the first byte.                                            *)
EndMark == write_match_len(BASE - 1, var_C, inputpos)

Flushed(c) ==
    FoldLeft(LAMBDA d, i : flush_output(d, Room), c,
             [i \in 1..(IF c.writeLock THEN 5 ELSE 4) |-> i])

Finish ==
    /\ result = Running /\ inputpos = Len(input)
    /\ coder' = Flushed(WriteItems(coder, EndMark, Room))
    /\ items' = items \o EndMark
    /\ result' = Len(coder'.out)
    /\ UNCHANGED <<input, beyond, mode, inputpos, window, dictionary,
                   lastSearchBack, var_C, lastInputByte, tokens>>

Next == Literal \/ Match \/ Finish

Spec == Init /\ [][Next]_vars
=============================================================================
