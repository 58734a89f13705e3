----------------------------- MODULE RlzProofs -----------------------------
(***************************************************************************)
(* For every input no longer than the dictionary, every mode and every     *)
(* size of the window, through all the passes of rlz_compress:             *)
(*                                                                         *)
(*   ChainsAlwaysFall   the chains of positions that find_match follows    *)
(*                      begin behind the place being packed and lead       *)
(*                      further back with every link (ChainsFall)          *)
(*   InputComesBack     what is written stands for the input as far as it  *)
(*                      has been read (TokensExpand)                       *)
(*                                                                         *)
(* ChainsFall is inductive with the types of what it speaks of and of the  *)
(* input, which the hashes are taken of.  It makes every position that is  *)
(* compared one that lies behind, so that whatever find_match returns is   *)
(* there to be copied (Copies), by whichever of its ways out; and a copy   *)
(* of that, byte by byte, is the input a little further.                   *)
(***************************************************************************)
EXTENDS RlzCompress, Recursions, SequenceTheorems, TLAPS

Byte == 0..BASE - 1
Position == Nat \cup {Nowhere}
Tokens == [len : Nat, back : Nat, byte : Byte]

ChainTypes ==
    /\ input \in Inputs /\ beyond \in Byte
    /\ inputpos \in 0..Len(input)
    /\ window \in [0..WindowSize - 1 -> Position]
    /\ dictionary \in [0..DictionarySize -> Position]
    /\ lastSearchBack \in Nat

(* The bytes that have been packed.                                        *)
Past == SubSeq(input, 1, inputpos)

(* f is what Expanded is made of, token by token.                          *)
Unpacks(f, ts) ==
    f = [n \in 0..Len(ts) |-> IF n = 0 THEN <<>> ELSE WithToken(f[n - 1], ts[n])]

ComesBack == tokens \in Seq(Tokens) /\ \E f : Unpacks(f, tokens) /\ f[Len(tokens)] = Past

IInv == ChainTypes /\ ChainsFall /\ ComesBack

-----------------------------------------------------------------------------
(* The input.                                                              *)

LEMMA InputFacts ==
    ASSUME ChainTypes
    PROVE  /\ input \in Seq(Byte) /\ Len(input) \in Nat /\ Len(input) <= DictionarySize
           /\ inputpos \in Nat /\ bytesLeft \in Nat
           /\ BASE \in Nat \ {0} /\ MaxBlock \in Nat
           /\ maxBlockSize \in Nat /\ maxBlockSize <= bytesLeft /\ maxBlockSize <= MaxBlock
  <1>1. input \in Seq(Byte) /\ Len(input) \in Nat /\ Len(input) <= DictionarySize
    BY InputsAssumption DEF ChainTypes, Byte
  <1>2. inputpos \in Nat /\ bytesLeft \in Nat
    BY <1>1 DEF ChainTypes, bytesLeft
  <1>3. BASE \in Nat \ {0}
    BY BitsAssumption
  <1>4. MaxBlock \in Nat
    BY <1>3 DEF MaxBlock
  <1> QED BY <1>1, <1>2, <1>3, <1>4 DEF maxBlockSize

LEMMA ByteAt ==
    ASSUME ChainTypes, NEW i \in Nat
    PROVE  At(i) \in Byte
  <1>1. input \in Seq(Byte) /\ Len(input) \in Nat
    BY InputFacts
  <1>2. CASE i < Len(input)
    <2>1. i + 1 \in 1..Len(input)
      BY <1>1, <1>2
    <2>2. input[i + 1] \in Byte
      BY <1>1, <2>1
    <2> QED BY <1>2, <2>2 DEF At
  <1>3. CASE ~(i < Len(input))
    BY <1>3 DEF At, ChainTypes
  <1> QED BY <1>2, <1>3

(* Three bytes have a place in the window.                                 *)
LEMMA HashInWindow ==
    ASSUME ChainTypes, NEW p \in Nat
    PROVE  Hash(p) \in 0..WindowSize - 1
  <1>1. \A i \in Nat : At(i) \in Int
    BY ByteAt, InputFacts DEF Byte
  <1>2. At(p) \in Int /\ At(p + 1) \in Int /\ At(p + 2) \in Int
    BY <1>1
  <1>3. BASE \in Int
    BY BitsAssumption
  <1> DEFINE sum == (At(p) + At(p + 1) * BASE + At(p + 2) * BASE * BASE) * BASE
  <1>4. sum \in Int
    BY <1>2, <1>3
  <1>5. \A n \in Int : n % WindowSize \in 0..WindowSize - 1
    BY InputsAssumption
  <1> QED BY <1>4, <1>5 DEF Hash

(* A link leads to one of the positions given, or to the head there was.   *)
LEMMA LinkFalls ==
    ASSUME ChainTypes, ChainsFall, NEW h \in 0..WindowSize - 1,
           NEW b \in Int, b >= inputpos,
           NEW before, before \subseteq Nat, \A q \in before : q < b
    PROVE  Link(h, before) \in Position /\ Link(h, before) < b
  <1>1. CASE before = {}
    <2>1. window[h] \in Position /\ window[h] < inputpos
      BY DEF ChainTypes, ChainsFall
    <2>2. inputpos \in Nat
      BY InputFacts
    <2> QED BY <1>1, <2>1, <2>2 DEF Link, Position, Nowhere
  <1>2. CASE before # {}
    <2>1. \E q \in before : \A r \in before : r <= q
      <3>1. before \subseteq Int /\ \A q \in before : q <= b
        OBVIOUS
      <3> QED BY <1>2, <3>1, LastExists
    <2>2. Link(h, before) \in before
      BY <1>2, <2>1 DEF Link
    <2> QED BY <2>2 DEF Position
  <1> QED BY <1>1, <1>2

(* What is pushed is behind the place that is packed next.                 *)
LEMMA PushFalls ==
    ASSUME ChainTypes, ChainsFall, NEW n \in Nat \ {0}, n <= bytesLeft,
           Push(n), inputpos' = inputpos + n,
           UNCHANGED <<input, beyond>>, lastSearchBack' \in Nat
    PROVE  ChainTypes' /\ ChainsFall'
  <1> DEFINE new == inputpos..inputpos + Pushed(n) - 1
             of(h) == {q \in new : Hash(q) = h}
  <1>0. Len(input) \in Nat /\ inputpos \in Nat /\ bytesLeft \in Nat
    BY InputFacts
  <1>1. Pushed(n) \in Int /\ Pushed(n) <= n
    BY <1>0 DEF Pushed
  <1>2. new \subseteq inputpos..inputpos + n - 1 /\ new \subseteq Nat
    BY <1>0, <1>1
  <1>3. /\ window' = [h \in DOMAIN window |-> Link(h, of(h))]
        /\ dictionary' = [p \in DOMAIN dictionary |->
                            IF p \in new THEN Link(Hash(p), {q \in of(Hash(p)) : q < p})
                            ELSE dictionary[p]]
    BY DEF Push
  <1>4. DOMAIN window = 0..WindowSize - 1 /\ DOMAIN dictionary = 0..DictionarySize
    BY DEF ChainTypes
  <1>5. \A h \in 0..WindowSize - 1 : Link(h, of(h)) \in Position /\ Link(h, of(h)) < inputpos + n
    <2> TAKE h \in 0..WindowSize - 1
    <2>1. of(h) \subseteq Nat /\ \A q \in of(h) : q < inputpos + n
      BY <1>0, <1>2
    <2>2. inputpos + n \in Int /\ inputpos + n >= inputpos
      BY <1>0
    <2> HIDE DEF of
    <2> QED BY <2>1, <2>2, LinkFalls
  <1>6. \A p \in new : LET link == Link(Hash(p), {q \in of(Hash(p)) : q < p})
                      IN link \in Position /\ link < p
    <2> TAKE p \in new
    <2>1. p \in Nat /\ p >= inputpos /\ Hash(p) \in 0..WindowSize - 1
      BY <1>0, <1>2, HashInWindow
    <2> DEFINE before == {q \in of(Hash(p)) : q < p}
    <2>2. before \subseteq Nat /\ \A q \in before : q < p
      BY <1>2
    <2> HIDE DEF before
    <2>3. p \in Int
      BY <2>1
    <2>4. Link(Hash(p), before) \in Position /\ Link(Hash(p), before) < p
      BY <2>1, <2>2, <2>3, LinkFalls
    <2> QED BY <2>4 DEF before
  <1> HIDE DEF new, of
  <1>7. ChainTypes'
    <2>1. inputpos' \in 0..Len(input)
      BY <1>0 DEF bytesLeft
    <2>2. window' \in [0..WindowSize - 1 -> Position]
      BY <1>3, <1>4, <1>5
    <2>3. dictionary' \in [0..DictionarySize -> Position]
      BY <1>3, <1>4, <1>6 DEF ChainTypes
    <2> QED BY <2>1, <2>2, <2>3 DEF ChainTypes
  <1>8. ChainsFall'
    <2>1. \A h \in DOMAIN window' : window'[h] < inputpos'
      BY <1>3, <1>4, <1>5
    <2>2. \A p \in DOMAIN dictionary' : dictionary'[p] # Nowhere => dictionary'[p] < p
      BY <1>3, <1>4, <1>6 DEF ChainsFall
    <2> QED BY <2>1, <2>2 DEF ChainsFall
  <1> QED BY <1>7, <1>8

-----------------------------------------------------------------------------
(* What find_match finds.                                                  *)

(* As many bytes, that far back, are the ones that come next.              *)
Copies(back, len) ==
    /\ back \in Nat /\ back < inputpos
    /\ len \in Int /\ len <= bytesLeft
    /\ Equal(inputpos - back - 1, inputpos, len)

Matches == [len : Int, back : Nat, final : BOOLEAN]

(* It can be copied, and there is room for more until the search is over.  *)
Fits(m) ==
    /\ m \in Matches
    /\ m.len >= 2 => Copies(m.back, m.len)
    /\ ~m.final => m.len \in Nat /\ m.len < maxBlockSize

(* A shorter part of what can be copied.                                   *)
LEMMA CopiesLess ==
    ASSUME ChainTypes, NEW back, NEW len, Copies(back, len), NEW n \in Int, n <= len
    PROVE  Copies(back, n)
  <1>1. \A i \in 0..n-1 : i \in 0..len-1
    BY DEF Copies
  <1>2. n <= bytesLeft
    BY InputFacts DEF Copies
  <1> QED BY <1>1, <1>2 DEF Copies, Equal

(* Two equal bytes at distance d.                                          *)
LEMMA TwoCopied ==
    ASSUME ChainTypes, bytesLeft >= 2, NEW d \in Nat, TwoAt(d)
    PROVE  Copies(d, 2)
  <1> DEFINE ref == inputpos - d - 1
  <1>1. inputpos \in Nat /\ bytesLeft \in Nat /\ d < inputpos
    BY InputFacts DEF TwoAt
  <1>2. ref + 0 = ref /\ ref + 1 = inputpos - d /\ inputpos + 0 = inputpos
    BY <1>1
  <1>3. At(ref + 0) = At(inputpos + 0) /\ At(ref + 1) = At(inputpos + 1)
    BY <1>2 DEF TwoAt
  <1>4. \A i \in 0..2-1 : i = 0 \/ i = 1
    OBVIOUS
  <1>5. Equal(ref, inputpos, 2)
    BY <1>3, <1>4 DEF Equal
  <1> QED BY <1>1, <1>5 DEF Copies

LEMMA ShortFits ==
    ASSUME ChainTypes, bytesLeft >= 2, NEW shortOnes \in BOOLEAN
    PROVE  LET m == ShortMatch(shortOnes)
           IN /\ m \in Matches /\ ~m.final /\ m.len \in {1, 2}
              /\ m.len = 2 => Copies(m.back, 2)
  <1> DEFINE m == ShortMatch(shortOnes)
             ds == {d \in (IF realMode = 7 THEN 1 ELSE 0)..3 : TwoAt(d)}
             least == CHOOSE d \in ds : \A e \in ds : d <= e
  <1>1. lastSearchBack \in Nat /\ ds \subseteq Nat
    BY DEF ChainTypes
  <1>2. Found(1, 0) \in Matches /\ \A d \in Nat : Found(2, d) \in Matches
    BY DEF Found, Matches
  <1>3. CASE TwoAt(lastSearchBack)
    <2>1. m = Found(2, lastSearchBack)
      BY <1>3 DEF ShortMatch
    <2>2. Copies(lastSearchBack, 2)
      BY <1>1, <1>3, TwoCopied
    <2> QED BY <1>1, <1>2, <2>1, <2>2 DEF Found
  <1>4. CASE ~TwoAt(lastSearchBack) /\ (realMode # 7 \/ shortOnes) /\ ds # {}
    <2>1. m = Found(2, least)
      BY <1>4 DEF ShortMatch
    <2>2. least \in ds
      <3> HIDE DEF ds
      <3> QED BY <1>1, <1>4, LeastExists
    <2>3. least \in Nat /\ TwoAt(least)
      BY <1>1, <2>2
    <2> HIDE DEF least, ds, m
    <2>4. Copies(least, 2)
      BY <2>3, TwoCopied
    <2>5. m \in Matches /\ ~m.final /\ m.len = 2 /\ m.back = least
      BY <1>2, <2>1, <2>3 DEF Found
    <2> QED BY <2>4, <2>5 DEF m
  <1>5. CASE ~TwoAt(lastSearchBack) /\ ~((realMode # 7 \/ shortOnes) /\ ds # {})
    <2>1. m = Found(1, 0)
      BY <1>5 DEF ShortMatch
    <2> HIDE DEF m
    <2>2. m \in Matches /\ ~m.final /\ m.len = 1
      BY <1>2, <2>1 DEF Found
    <2> QED BY <2>2 DEF m
  <1> QED BY <1>3, <1>4, <1>5

(* The longest that matches.                                               *)
LEMMA AmountMatches ==
    ASSUME ChainTypes, NEW ref \in Nat, NEW len \in Nat, len <= maxBlockSize,
           Equal(ref, inputpos, len)
    PROVE  /\ MatchAmount(ref, len) \in len..maxBlockSize
           /\ Equal(ref, inputpos, MatchAmount(ref, len))
  <1> DEFINE max == maxBlockSize
             Ends(n) == n = max \/ At(ref + n) # At(inputpos + n)
             Matched(n) == \A i \in len..n-1 : At(ref + i) = At(inputpos + i)
             S == {n \in len..max : Ends(n)}
             amt == MatchAmount(ref, len)
  <1>1. max \in Nat /\ len..max \subseteq Nat
    BY InputFacts
  <1>2. \E n \in len..max : Matched(n) /\ Ends(n)
    <2>1. S \subseteq Nat /\ max \in S
      BY <1>1
    <2>2. PICK n \in S : \A r \in S : n <= r
      <3> HIDE DEF S
      <3> QED BY <2>1, LeastExists
    <2>3. n \in len..max /\ Ends(n)
      BY <2>2
    <2>4. \A i \in len..n-1 : i \in len..max /\ ~(n <= i)
      BY <1>1, <2>3
    <2>5. \A i \in len..n-1 : ~Ends(i)
      BY <2>2, <2>4
    <2> QED BY <2>3, <2>5
  <1>3. amt = CHOOSE n \in len..max : Matched(n) /\ Ends(n)
    BY DEF MatchAmount
  <1> HIDE DEF Ends, Matched, max, amt
  <1>4. amt \in len..max /\ Matched(amt)
    BY <1>2, <1>3
  <1>5. \A i \in 0..amt-1 : i \in 0..len-1 \/ i \in len..amt-1
    BY <1>1, <1>4
  <1>6. \A i \in 0..amt-1 : At(ref + i) = At(inputpos + i)
    BY <1>4, <1>5 DEF Equal, Matched
  <1> QED BY <1>4, <1>6 DEF Equal, max, amt

LEMMA ShortenedLess ==
    ASSUME NEW amt \in Nat, amt >= 3, NEW dist
    PROVE  Shortened(amt, dist) \in Int /\ Shortened(amt, dist) <= amt
  <1> DEFINE stops == {i \in 3..amt-1 : (i = 3 => ThreeMayBe(dist)) /\ Within(i, dist)}
             least == CHOOSE i \in stops : \A j \in stops : i <= j
  <1>1. CASE amt <= 3 \/ stops = {}
    BY <1>1 DEF Shortened
  <1>2. CASE ~(amt <= 3) /\ stops # {}
    <2>1. stops \subseteq Nat /\ \A i \in stops : i <= amt
      OBVIOUS
    <2>2. Shortened(amt, dist) = least
      BY <1>2 DEF Shortened
    <2> HIDE DEF stops
    <2>3. least \in stops
      BY <1>2, <2>1, LeastExists
    <2> HIDE DEF least
    <2> QED BY <2>1, <2>2, <2>3
  <1> QED BY <1>1, <1>2

LEMMA LongestLess ==
    ASSUME ChainTypes, NEW ref
    PROVE  LongestBlock(ref) \in Int /\ LongestBlock(ref) <= maxBlockSize
  BY InputFacts DEF LongestBlock

(* What a position of the chain adds can be copied like what there was.    *)
LEMMA CandidateFits ==
    ASSUME ChainTypes, NEW m, Fits(m), NEW ref \in Nat, ref < inputpos
    PROVE  Fits(Candidate(m, ref))
  <1> DEFINE amt == MatchAmount(ref, m.len + 1)
             dist == inputpos - ref - 1
             final(n) == [len |-> n, back |-> dist, final |-> TRUE]
  <1>1. /\ inputpos \in Nat /\ bytesLeft \in Nat
        /\ maxBlockSize \in Nat /\ maxBlockSize <= bytesLeft
    BY InputFacts
  <1>2. dist \in Nat /\ dist < inputpos /\ inputpos - dist - 1 = ref
    BY <1>1
  <1>3. CASE m.final \/ ~Equal(ref, inputpos, m.len + 1) \/ ~Worth(amt, dist)
    BY <1>3 DEF Candidate
  <1>4. CASE ~(m.final \/ ~Equal(ref, inputpos, m.len + 1) \/ ~Worth(amt, dist))
    <2>1. m.len + 1 \in Nat /\ m.len + 1 <= maxBlockSize
      BY <1>1, <1>4 DEF Fits
    <2>2. amt \in m.len + 1..maxBlockSize /\ Equal(ref, inputpos, amt)
      BY <1>4, <2>1, AmountMatches
    <2>3. amt >= 3
      BY <1>4 DEF Worth
    <2>4. Candidate(m, ref) =
            IF dist # 0 /\ OneByte(ref, amt) THEN final(Shortened(amt, dist))
            ELSE IF amt = maxBlockSize THEN final(LongestBlock(ref))
            ELSE Found(amt, dist)
      BY <1>4 DEF Candidate
    <2> HIDE DEF amt, dist
    <2>5. amt \in Nat /\ amt <= maxBlockSize /\ amt <= bytesLeft
      BY <1>1, <2>1, <2>2
    <2>6. Copies(dist, amt)
      BY <1>2, <2>2, <2>5 DEF Copies
    <2>7. \A n \in Int : n <= amt => Fits(final(n))
      <3> TAKE n \in Int
      <3> HAVE n <= amt
      <3>1. Copies(dist, n)
        BY <2>6, CopiesLess
      <3> QED BY <1>2, <3>1 DEF Fits, Matches
    <2>8. Shortened(amt, dist) \in Int /\ Shortened(amt, dist) <= amt
      BY <2>3, <2>5, ShortenedLess
    <2>9. LongestBlock(ref) \in Int /\ LongestBlock(ref) <= maxBlockSize
      BY LongestLess
    <2>10. CASE dist # 0 /\ OneByte(ref, amt)
      BY <2>4, <2>7, <2>8, <2>10
    <2>11. CASE ~(dist # 0 /\ OneByte(ref, amt)) /\ amt = maxBlockSize
      BY <2>4, <2>7, <2>9, <2>11
    <2>12. CASE ~(dist # 0 /\ OneByte(ref, amt)) /\ amt # maxBlockSize
      <3>1. Candidate(m, ref) = Found(amt, dist)
        BY <2>4, <2>12
      <3>2. amt < maxBlockSize
        BY <1>1, <2>5, <2>12
      <3>3. Fits(Found(amt, dist))
        BY <1>2, <2>5, <2>6, <3>2 DEF Fits, Matches, Found
      <3> QED BY <3>1, <3>3
    <2> QED BY <2>10, <2>11, <2>12
  <1> QED BY <1>3, <1>4

(* And so can what the whole chain adds.                                   *)
LEMMA SearchFits ==
    ASSUME ChainTypes, ChainsFall, NEW found, Fits(found),
           NEW p \in Position, p < inputpos
    PROVE  Fits(Search(found, p))
  <1> DEFINE n == Len(input)
             step(s) == IF s.backRef = Nowhere \/ OutOfBounds(s.backRef) THEN s
                        ELSE [match   |-> Candidate(s.match, s.backRef),
                              backRef |-> dictionary[s.backRef]]
             s0 == [match |-> found, backRef |-> p]
             body(f) == [i \in 0..n |-> IF i = 0 THEN s0 ELSE step(f[i - 1])]
             t == CHOOSE f : f = body(f)
             S == {s \in [match : Matches, backRef : Position] :
                     Fits(s.match) /\ s.backRef < inputpos}
  <1>1. n \in Nat /\ inputpos \in Nat /\ n <= DictionarySize /\ inputpos <= n
    BY InputFacts DEF ChainTypes
  <1>2. Search(found, p) = t[n].match
    BY DEF Search
  <1>3. s0 \in S
    BY DEF Fits
  <1>4. \A s \in S : step(s) \in S
    <2> SUFFICES ASSUME NEW s \in S PROVE step(s) \in S
      OBVIOUS
    <2> DEFINE q == s.backRef
               new == [match |-> Candidate(s.match, q), backRef |-> dictionary[q]]
    <2>1. CASE q = Nowhere \/ OutOfBounds(q)
      BY <2>1
    <2>2. CASE ~(q = Nowhere \/ OutOfBounds(q))
      <3>1. q \in Nat /\ q < inputpos /\ Fits(s.match)
        BY <2>2 DEF Position
      <3>2. q \in 0..DictionarySize
        BY <1>1, <3>1, InputsAssumption
      <3>3. dictionary[q] \in Position /\ dictionary[q] < inputpos
        <4>1. dictionary[q] \in Position
          BY <3>2 DEF ChainTypes
        <4>2. dictionary[q] # Nowhere => dictionary[q] < q
          BY <3>2 DEF ChainTypes, ChainsFall
        <4> HIDE DEF q
        <4> QED BY <1>1, <3>1, <4>1, <4>2 DEF Position, Nowhere
      <3>4. Fits(Candidate(s.match, q))
        BY <3>1, CandidateFits
      <3>5. Candidate(s.match, q) \in Matches
        BY <3>4 DEF Fits
      <3> HIDE DEF q
      <3>6. new \in S
        BY <3>3, <3>4, <3>5
      <3> QED BY <2>2, <3>6 DEF q
    <2> QED BY <2>1, <2>2
  <1> HIDE DEF s0, step, S
  <1>5. PICK f : f \in [0..n -> S] /\ f = body(f)
    <2> DEFINE next == [i \in 1..n |-> [s \in S |-> step(s)]]
    <2>1. next \in StepFunctions(n, S)
      BY <1>4 DEF StepFunctions
    <2>2. \A i \in 1..n, s \in S : next[i][s] = step(s)
      OBVIOUS
    <2> HIDE DEF next, n
    <2>3. PICK f : Recursive(f, n, S, s0, next)
      BY <1>1, <1>3, <2>1, Recursion
    <2>4. f \in [0..n -> S] /\ f[0] = s0
      BY <2>3 DEF Recursive
    <2>5. \A i \in 1..n : f[i] = step(f[i-1])
      <3> SUFFICES ASSUME NEW i \in 1..n PROVE f[i] = step(f[i-1])
        OBVIOUS
      <3>1. f[i-1] \in S
        BY <1>1, <2>4
      <3> QED BY <2>2, <2>3, <3>1 DEF Recursive
    <2>6. f = body(f)
      BY <1>1, <2>4, <2>5
    <2> QED BY <2>4, <2>6
  <1>6. t = body(t)
    BY <1>5
  <1> HIDE DEF t, n
  <1>7. \A i \in 0..n : t[i] = f[i]
    <2>1. t[0] = f[0]
      BY <1>1, <1>5, <1>6
    <2>2. \A i \in 1..n : t[i] = step(t[i-1]) /\ f[i] = step(f[i-1])
      BY <1>1, <1>5, <1>6
    <2>3. GoTogether(n, t, f)
      BY <2>1, <2>2 DEF GoTogether
    <2> QED BY <1>1, <2>3, SameWay
  <1>8. t[n] \in S
    BY <1>1, <1>5, <1>7
  <1> QED BY <1>2, <1>8 DEF S

(* Whatever is returned is there to be copied.                             *)
LEMMA FoundCopies ==
    ASSUME ChainTypes, ChainsFall, NEW shortOnes \in BOOLEAN
    PROVE  LET m == find_match(shortOnes)
           IN /\ m.len \in Int /\ m.back \in Nat /\ m.last \in Nat
              /\ m.len >= 2 => Copies(m.back, m.len)
  <1> DEFINE short == ShortMatch(shortOnes)
             m == IF maxBlockSize < 3 THEN short
                  ELSE Search(short, window[Hash(inputpos)])
  <1>1. inputpos \in Nat /\ bytesLeft \in Nat /\ maxBlockSize \in Nat /\ lastSearchBack \in Nat
    BY InputFacts DEF ChainTypes
  <1>2. CASE bytesLeft < 2
    <2>1. find_match(shortOnes) = [len |-> 1, back |-> 0, last |-> lastSearchBack]
      BY <1>2 DEF find_match
    <2> QED BY <1>1, <2>1
  <1>3. CASE ~(bytesLeft < 2)
    <2>1. find_match(shortOnes) =
            [len |-> m.len, back |-> m.back,
             last |-> IF maxBlockSize >= 3 /\ ~m.final /\ m.len = 2 THEN m.back
                      ELSE lastSearchBack]
      BY <1>3 DEF find_match
    <2>2. bytesLeft >= 2
      BY <1>1, <1>3
    <2>3. /\ short \in Matches /\ ~short.final /\ short.len \in {1, 2}
          /\ short.len = 2 => Copies(short.back, 2)
      BY <2>2, ShortFits
    <2> HIDE DEF short
    <2>4. m \in Matches /\ (m.len >= 2 => Copies(m.back, m.len))
      <3>1. CASE maxBlockSize < 3
        BY <2>3, <3>1
      <3>2. CASE ~(maxBlockSize < 3)
        <4>1. Fits(short)
          BY <1>1, <2>3, <3>2 DEF Fits
        <4>2. window[Hash(inputpos)] \in Position /\ window[Hash(inputpos)] < inputpos
          BY <1>1, HashInWindow DEF ChainTypes, ChainsFall
        <4>3. Fits(Search(short, window[Hash(inputpos)]))
          BY <4>1, <4>2, SearchFits
        <4> QED BY <3>2, <4>3 DEF Fits
      <3> QED BY <3>1, <3>2
    <2> HIDE DEF m
    <2>5. m.len \in Int /\ m.back \in Nat
      BY <2>4 DEF Matches
    <2> QED BY <1>1, <2>1, <2>4, <2>5
  <1> QED BY <1>2, <1>3

-----------------------------------------------------------------------------
(* What the tokens stand for.                                              *)

(* What has been packed, and a byte more.                                  *)
LEMMA OneByteOn ==
    ASSUME ChainTypes, NEW k \in 0..Len(input)
    PROVE  LET s == SubSeq(input, 1, k)
           IN /\ s \in Seq(Byte) /\ Len(s) = k
              /\ \A i \in 1..k : s[i] = input[i]
              /\ k < Len(input) => SubSeq(input, 1, k + 1) = Append(s, At(k))
  <1> DEFINE s == SubSeq(input, 1, k)
             u == SubSeq(input, 1, k + 1)
  <1>1. input \in Seq(Byte) /\ Len(input) \in Nat /\ k \in Nat
    BY InputFacts
  <1>2. \A i \in 1..Len(input) : input[i] \in Byte
    BY <1>1
  <1>3. s \in Seq(Byte) /\ Len(s) = k /\ \A i \in 1..k : s[i] = input[i]
    <2>1. \A i \in 1..k : input[i] \in Byte
      BY <1>1, <1>2
    <2>2. /\ s \in Seq(Byte) /\ Len(s) = IF 1 <= k THEN k - 1 + 1 ELSE 0
          /\ \A i \in 1..k - 1 + 1 : s[i] = input[1 + i - 1]
      BY <1>1, <2>1, SubSeqProperties
    <2> HIDE DEF s
    <2>3. Len(s) = k
      BY <1>1, <2>2
    <2>4. \A i \in 1..k : i \in 1..k - 1 + 1 /\ 1 + i - 1 = i
      BY <1>1
    <2> QED BY <2>2, <2>3, <2>4
  <1>4. ASSUME k < Len(input) PROVE u = Append(s, At(k))
    <2>1. \A i \in 1..k+1 : input[i] \in Byte
      BY <1>1, <1>2, <1>4
    <2>2. /\ u \in Seq(Byte) /\ Len(u) = IF 1 <= k + 1 THEN k + 1 - 1 + 1 ELSE 0
          /\ \A i \in 1..k + 1 - 1 + 1 : u[i] = input[1 + i - 1]
      <3>1. k + 1 \in Int
        BY <1>1
      <3> QED BY <2>1, <3>1, SubSeqProperties
    <2> HIDE DEF s, u
    <2>3. Len(u) = k + 1
      BY <1>1, <2>2
    <2>4. \A i \in 1..k+1 : i \in 1..k + 1 - 1 + 1 /\ 1 + i - 1 = i
      BY <1>1
    <2>5. \A i \in 1..k+1 : u[i] = input[i]
      BY <2>2, <2>4
    <2> DEFINE v == Append(s, At(k))
    <2>6. At(k) = input[k + 1] /\ At(k) \in Byte
      BY <1>1, <1>4, ByteAt DEF At
    <2>7. /\ v \in Seq(Byte) /\ Len(v) = k + 1
          /\ \A i \in 1..k : v[i] = s[i]
          /\ v[k + 1] = At(k)
      BY <1>3, <2>6, AppendProperties
    <2> HIDE DEF v
    <2>8. \A i \in 1..k+1 : u[i] = v[i]
      <3>1. \A i \in 1..k : u[i] = v[i]
        BY <1>1, <1>3, <2>5, <2>7
      <3>2. u[k + 1] = v[k + 1]
        BY <1>1, <2>5, <2>6, <2>7
      <3>3. \A i \in 1..k+1 : i \in 1..k \/ i = k + 1
        BY <1>1
      <3> QED BY <3>1, <3>2, <3>3
    <2>9. u = v
      BY <2>2, <2>3, <2>7, <2>8, SeqEqual
    <2> QED BY <2>9 DEF v
  <1> QED BY <1>3, <1>4

(* A copy of what can be copied is the input a little further.             *)
LEMMA CopiedInput ==
    ASSUME ChainTypes, NEW back, NEW len \in Nat, Copies(back, len)
    PROVE  /\ Copied(Past, back, len) = SubSeq(input, 1, inputpos + len)
           /\ inputpos + len \in 0..Len(input)
  <1> DEFINE body(f) == [n \in 0..len |-> IF n = 0 THEN Past
                                          ELSE Append(f[n - 1], f[n - 1][Len(f[n - 1]) - back])]
             t == CHOOSE f : f = body(f)
             s(n) == SubSeq(input, 1, inputpos + n)
             f0 == [n \in 0..len |-> s(n)]
  <1>1. /\ inputpos \in Nat /\ Len(input) \in Nat /\ back \in Nat /\ back < inputpos
        /\ inputpos + len <= Len(input)
    BY InputFacts DEF Copies, bytesLeft
  <1>2. Copied(Past, back, len) = t[len]
    BY DEF Copied
  <1>3. ASSUME NEW n \in 1..len
        PROVE  s(n) = Append(s(n - 1), s(n - 1)[Len(s(n - 1)) - back])
    <2> DEFINE k == inputpos + n - 1
               r == s(n - 1)
               from == inputpos - back - 1
    <2>1. k \in 0..Len(input) /\ k < Len(input) /\ inputpos + (n - 1) = k /\ k + 1 = inputpos + n
      BY <1>1
    <2>2. r = SubSeq(input, 1, k) /\ s(n) = SubSeq(input, 1, k + 1)
      BY <2>1
    <2> HIDE DEF k, s, r
    <2>3. /\ Len(r) = k /\ \A i \in 1..k : r[i] = input[i]
          /\ s(n) = Append(r, At(k))
      BY <2>1, <2>2, OneByteOn
    <2>4. k - back \in 1..k /\ k - back = (from + (n - 1)) + 1
          /\ from + (n - 1) < Len(input) /\ k = inputpos + (n - 1) /\ n - 1 \in 0..len-1
      BY <1>1, <2>1
    <2>5. At(from + (n - 1)) = At(k)
      BY <2>4 DEF Copies, Equal
    <2>6. r[k - back] = At(k)
      BY <2>3, <2>4, <2>5 DEF At
    <2>7. s(n) = Append(r, r[Len(r) - back])
      BY <2>3, <2>6
    <2> QED BY <2>7 DEF r
  <1>4. s(0) = Past
    BY <1>1 DEF Past
  <1> HIDE DEF s
  <1>5. f0[0] = Past /\ \A n \in 1..len : f0[n] = s(n) /\ f0[n - 1] = s(n - 1)
    BY <1>1, <1>4
  <1>6. f0 = body(f0)
    <2>1. \A n \in 1..len :
            f0[n] = Append(f0[n - 1], f0[n - 1][Len(f0[n - 1]) - back])
      BY <1>3, <1>5
    <2> HIDE DEF s
    <2>2. \A n \in 0..len : n = 0 \/ n \in 1..len
      OBVIOUS
    <2>3. f0 = [n \in 0..len |-> f0[n]]
      OBVIOUS
    <2> HIDE DEF f0
    <2>4. \A n \in 0..len : f0[n] = IF n = 0 THEN Past
                              ELSE Append(f0[n - 1], f0[n - 1][Len(f0[n - 1]) - back])
      BY <1>5, <2>1, <2>2
    <2> QED BY <2>3, <2>4
  <1>7. t = body(t)
    BY <1>6
  <1> HIDE DEF t
  <1>8. \A n \in 0..len : t[n] = f0[n]
    <2>1. t[0] = Past
      BY <1>7
    <2>2. \A n \in 1..len : t[n] = Append(t[n - 1], t[n - 1][Len(t[n - 1]) - back])
      <3> SUFFICES ASSUME NEW n \in 1..len
                   PROVE  t[n] = Append(t[n - 1], t[n - 1][Len(t[n - 1]) - back])
        OBVIOUS
      <3>1. n \in 0..len /\ n # 0
        OBVIOUS
      <3>2. t[n] = body(t)[n]
        BY <1>7
      <3>3. body(t)[n] = Append(t[n - 1], t[n - 1][Len(t[n - 1]) - back])
        BY <3>1
      <3> QED BY <3>2, <3>3
    <2>3. \A n \in 1..len : t[n - 1] = f0[n - 1] => t[n] = f0[n]
      <3> SUFFICES ASSUME NEW n \in 1..len, t[n - 1] = f0[n - 1] PROVE t[n] = f0[n]
        OBVIOUS
      <3>1. t[n] = Append(s(n - 1), s(n - 1)[Len(s(n - 1)) - back])
        BY <1>5, <2>2
      <3> QED BY <1>3, <1>5, <3>1
    <2> HIDE DEF f0
    <2>4. GoTogether(len, t, f0)
      BY <1>5, <2>1, <2>3 DEF GoTogether
    <2> QED BY <2>4, SameWay
  <1>9. t[len] = s(len)
    BY <1>8
  <1> QED BY <1>1, <1>2, <1>9 DEF s

(* One token more.                                                         *)
LEMMA OneTokenOn ==
    ASSUME ComesBack, ChainTypes, NEW t \in Tokens, NEW s,
           s = WithToken(Past, t),
           tokens' = Append(tokens, t), UNCHANGED input,
           SubSeq(input, 1, inputpos') = s
    PROVE  ComesBack'
  <1> DEFINE n == Len(tokens)
             us == Append(tokens, t)
  <1>1. /\ tokens \in Seq(Tokens) /\ n \in Nat
        /\ us \in Seq(Tokens) /\ Len(us) = n + 1
        /\ \A i \in 1..n : us[i] = tokens[i]
        /\ us[n + 1] = t
    BY AppendProperties DEF ComesBack
  <1>2. PICK f : Unpacks(f, tokens) /\ f[n] = Past
    BY DEF ComesBack
  <1> DEFINE g == [i \in 0..n+1 |-> IF i = n + 1 THEN s ELSE f[i]]
  <1> HIDE DEF us, n
  <1>3. \A i \in 0..n : f[i] = IF i = 0 THEN <<>> ELSE WithToken(f[i - 1], tokens[i])
    BY <1>2 DEF Unpacks, n
  <1>4. g[n + 1] = s /\ \A i \in 0..n : g[i] = f[i]
    BY <1>1
  <1>5. g = [i \in 0..n+1 |-> g[i]]
    OBVIOUS
  <1> HIDE DEF g
  <1>6. \A i \in 0..n+1 : g[i] = IF i = 0 THEN <<>> ELSE WithToken(g[i - 1], us[i])
    <2> SUFFICES ASSUME NEW i \in 0..n+1
                 PROVE  g[i] = IF i = 0 THEN <<>> ELSE WithToken(g[i - 1], us[i])
      OBVIOUS
    <2>1. CASE i = 0
      <3>1. g[0] = f[0] /\ f[0] = <<>>
        BY <1>1, <1>3, <1>4
      <3> QED BY <2>1, <3>1
    <2>2. CASE i \in 1..n
      <3>1. g[i] = f[i] /\ g[i - 1] = f[i - 1] /\ us[i] = tokens[i] /\ i # 0
        BY <1>1, <1>4, <2>2
      <3>2. f[i] = WithToken(f[i - 1], tokens[i])
        BY <1>1, <1>3, <2>2
      <3> QED BY <3>1, <3>2
    <2>3. CASE i = n + 1
      <3>1. g[i] = s /\ g[i - 1] = Past /\ us[i] = t /\ i # 0
        BY <1>1, <1>2, <1>4, <2>3
      <3> QED BY <3>1
    <2> QED BY <1>1, <2>1, <2>2, <2>3
  <1>7. Unpacks(g, us)
    <2>1. g = [i \in 0..n+1 |-> IF i = 0 THEN <<>> ELSE WithToken(g[i - 1], us[i])]
      BY <1>5, <1>6
    <2> QED BY <1>1, <2>1 DEF Unpacks
  <1>8. tokens' = us /\ Past' = s
    BY DEF us, Past
  <1>9. g[Len(us)] = s
    BY <1>1, <1>4
  <1> QED BY <1>1, <1>7, <1>8, <1>9 DEF ComesBack

(* Nothing stands for nothing.                                             *)
LEMMA NoTokens ==
    /\ <<>> \in Seq(Tokens)
    /\ \E f : Unpacks(f, <<>>) /\ f[Len(<<>>)] = <<>>
    /\ \A s : SubSeq(s, 1, 0) = <<>>
  <1> DEFINE f == [n \in 0..0 |-> <<>>]
  <1>1. Len(<<>>) = 0
    OBVIOUS
  <1>2. Unpacks(f, <<>>)
    BY <1>1 DEF Unpacks
  <1>3. f[Len(<<>>)] = <<>>
    BY <1>1
  <1>4. \A s : SubSeq(s, 1, 0) = <<>>
    BY SubSeqEmpty
  <1> HIDE DEF f
  <1> QED BY <1>2, <1>3, <1>4

(* What the invariant says of tokens is TokensExpand.                      *)
LEMMA ComesBackExpands ==
    ASSUME ComesBack
    PROVE  TokensExpand
  <1> DEFINE n == Len(tokens)
             body(f) == [i \in 0..n |-> IF i = 0 THEN <<>> ELSE WithToken(f[i - 1], tokens[i])]
             t == CHOOSE f : f = body(f)
  <1>1. n \in Nat
    BY DEF ComesBack
  <1>2. Expanded(tokens) = t[n]
    BY DEF Expanded
  <1>3. PICK f : f = body(f) /\ f[n] = Past
    BY DEF ComesBack, Unpacks
  <1>4. t = body(t)
    BY <1>3
  <1> HIDE DEF t, n
  <1>5. \A i \in 0..n : t[i] = f[i]
    <2>1. t[0] = f[0]
      BY <1>1, <1>3, <1>4
    <2>2. \A i \in 1..n : /\ t[i] = WithToken(t[i-1], tokens[i])
                          /\ f[i] = WithToken(f[i-1], tokens[i])
      BY <1>1, <1>3, <1>4
    <2>3. GoTogether(n, t, f)
      BY <2>1, <2>2 DEF GoTogether
    <2> QED BY <1>1, <2>3, SameWay
  <1>6. t[n] = Past
    BY <1>1, <1>3, <1>5
  <1> QED BY <1>2, <1>6 DEF TokensExpand, Past

-----------------------------------------------------------------------------
LEMMA Initially ==
    ASSUME CInit
    PROVE  IInv
  <1>1. /\ input \in Inputs /\ beyond \in {0, Last(input)} /\ inputpos = 0
        /\ window = [h \in 0..WindowSize - 1 |-> Nowhere]
        /\ dictionary = [p \in 0..DictionarySize |-> Nowhere]
        /\ lastSearchBack = 0 /\ tokens = <<>>
    BY DEF CInit, Init
  <1>2. input \in Seq(Byte) /\ Len(input) \in Nat \ {0}
    BY <1>1, InputsAssumption DEF Byte
  <1>3. beyond \in Byte
    <2>1. 0 \in Byte
      BY BitsAssumption DEF Byte
    <2>2. input[Len(input)] \in Byte
      BY <1>2
    <2> QED BY <1>1, <2>1, <2>2 DEF Last
  <1>4. ChainTypes /\ ChainsFall
    BY <1>1, <1>2, <1>3 DEF ChainTypes, ChainsFall, Nowhere, Position
  <1>5. ComesBack
    BY <1>1, NoTokens DEF ComesBack, Past
  <1> QED BY <1>4, <1>5 DEF IInv

LEMMA Steps ==
    ASSUME IInv, [CNext]_allvars
    PROVE  IInv'
  <1>0. ChainTypes /\ ChainsFall /\ ComesBack
    BY DEF IInv
  <1>1. CASE Literal
    <2> DEFINE t == [len |-> 1, back |-> 0, byte |-> At(inputpos)]
    <2>1. PICK shortOnes \in BOOLEAN : lastSearchBack' = find_match(shortOnes).last
      BY <1>1 DEF Literal
    <2>2. /\ Push(1) /\ inputpos' = inputpos + 1 /\ UNCHANGED <<input, beyond>>
          /\ tokens' = Append(tokens, t) /\ inputpos < Len(input)
      BY <1>1 DEF Literal, Advance
    <2>3. lastSearchBack' \in Nat
      BY <1>0, <2>1, FoundCopies
    <2>4. inputpos \in Nat /\ Len(input) \in Nat /\ 1 <= bytesLeft
      BY <1>0, <2>2, InputFacts DEF bytesLeft
    <2>5. ChainTypes' /\ ChainsFall'
      BY <1>0, <2>2, <2>3, <2>4, PushFalls
    <2>6. t \in Tokens
      <3>1. At(inputpos) \in Byte
        BY <1>0, <2>4, ByteAt
      <3> QED BY <3>1 DEF Tokens
    <2>7. WithToken(Past, t) = Append(Past, At(inputpos))
      BY DEF WithToken
    <2>8. SubSeq(input, 1, inputpos') = Append(Past, At(inputpos))
      <3>1. inputpos \in 0..Len(input)
        BY <2>2, <2>4
      <3> QED BY <1>0, <2>2, <3>1, OneByteOn DEF Past
    <2> HIDE DEF t
    <2>9. ComesBack'
      BY <1>0, <2>2, <2>6, <2>7, <2>8, OneTokenOn
    <2> QED BY <2>5, <2>9 DEF IInv
  <1>2. CASE Match
    <2>1. PICK shortOnes \in BOOLEAN :
            LET m == find_match(shortOnes)
            IN /\ m.len \in Nat \ {0, 1} /\ lastSearchBack' = m.last
               /\ Push(m.len) /\ inputpos' = inputpos + m.len
               /\ tokens' = Append(tokens, [len |-> m.len, back |-> m.back, byte |-> 0])
               /\ UNCHANGED <<input, beyond>>
      BY <1>2 DEF Match, Advance
    <2> DEFINE m == find_match(shortOnes)
               t == [len |-> m.len, back |-> m.back, byte |-> 0]
    <2>2. /\ m.len \in Int /\ m.back \in Nat /\ m.last \in Nat
          /\ m.len >= 2 => Copies(m.back, m.len)
      BY <1>0, FoundCopies
    <2> HIDE DEF m
    <2>3. /\ m.len \in Nat \ {0, 1} /\ lastSearchBack' \in Nat
          /\ Push(m.len) /\ inputpos' = inputpos + m.len
          /\ tokens' = Append(tokens, t) /\ UNCHANGED <<input, beyond>>
      BY <2>1, <2>2 DEF m
    <2>4. Copies(m.back, m.len)
      BY <2>2, <2>3
    <2>5. m.len \in Nat \ {0} /\ m.len <= bytesLeft
      BY <2>3, <2>4 DEF Copies
    <2>6. ChainTypes' /\ ChainsFall'
      BY <1>0, <2>3, <2>5, PushFalls
    <2>7. t \in Tokens
      <3>1. 0 \in Byte
        BY BitsAssumption DEF Byte
      <3> QED BY <2>2, <2>3, <3>1 DEF Tokens
    <2>8. WithToken(Past, t) = Copied(Past, m.back, m.len)
      BY <2>3 DEF WithToken
    <2>9. Copied(Past, m.back, m.len) = SubSeq(input, 1, inputpos + m.len)
      BY <1>0, <2>4, <2>5, CopiedInput
    <2> HIDE DEF t
    <2>10. ComesBack'
      BY <1>0, <2>3, <2>7, <2>8, <2>9, OneTokenOn
    <2> QED BY <2>6, <2>10 DEF IInv
  <1>3. CASE UNCHANGED <<input, beyond, inputpos, window, dictionary, lastSearchBack, tokens>>
    BY <1>0, <1>3 DEF IInv, ChainTypes, ChainsFall, ComesBack, Past, Unpacks
  <1>4. CASE \E k : Call(k)
    <2>1. /\ inputpos' = 0 /\ UNCHANGED <<input, beyond>>
          /\ window' = [h \in DOMAIN window |-> Nowhere]
          /\ dictionary' = [p \in DOMAIN dictionary |-> Nowhere]
          /\ lastSearchBack' = 0 /\ tokens' = <<>>
      BY <1>4 DEF Call
    <2>2. 0 \in 0..Len(input)
      BY <1>0, InputFacts
    <2>3. ChainTypes' /\ ChainsFall'
      BY <1>0, <2>1, <2>2 DEF ChainTypes, ChainsFall, Nowhere, Position
    <2>4. ComesBack'
      BY <2>1, NoTokens DEF ComesBack, Past
    <2> QED BY <2>3, <2>4 DEF IInv
  <1> QED
    BY <1>1, <1>2, <1>3, <1>4
    DEF CNext, allvars, vars, Packing, Next, Finish, ReturnOne, NextMode, ReturnBest

(* Every search of find_match goes through earlier and earlier positions,  *)
(* and so ends (rlzpack.c:558).                                            *)
THEOREM ChainsAlwaysFall == CSpec => []ChainsFall
  <1>1. CInit => IInv
    BY Initially
  <1>2. IInv /\ [CNext]_allvars => IInv'
    BY Steps
  <1>3. IInv => ChainsFall
    BY DEF IInv
  <1> QED BY <1>1, <1>2, <1>3, PTL DEF CSpec

(* What rlzcompress writes as literals and matches stands for the input as *)
(* far as it has been read: no way out of find_match, however short it     *)
(* cuts a match, gives one that cannot be copied (rlzpack.c:153).          *)
THEOREM InputComesBack == CSpec => []TokensExpand
  <1>1. CInit => IInv
    BY Initially
  <1>2. IInv /\ [CNext]_allvars => IInv'
    BY Steps
  <1>3. IInv => TokensExpand
    BY ComesBackExpands DEF IInv
  <1> QED BY <1>1, <1>2, <1>3, PTL DEF CSpec
=============================================================================
