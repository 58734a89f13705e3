----------------------------- MODULE VsmxProofs -----------------------------
(***************************************************************************)
(* For every script, whatever words it has, and every size of the buffer:  *)
(*                                                                         *)
(*   PoolsAreExact, IndicesAlwaysHold   the pools that VsmxEncode fills    *)
(*   WrittenIsRead                      writeVSMX and readVSMX             *)
(*   ProgramKept                        what the text can carry comes back *)
(*   SecondRound                        what has been text stays as it is  *)
(*                                                                         *)
(* The first two need only that a pool is made of sequences (Shape), the   *)
(* third the types of all variables (TInv), the fourth that lines stand    *)
(* for groups (PInv), the last that what is made is canonical (CInv).      *)
(***************************************************************************)
EXTENDS VsmxRoundTrip, Recursions, SequenceTheorems, TLAPS

Shape(pool) ==
    /\ pool = [words |-> pool.words, offs |-> pool.offs, len |-> pool.len]
    /\ pool.words \in Seq(Range(pool.words))
    /\ pool.offs \in Seq(Range(pool.offs))

Good(pool) == Shape(pool) /\ PoolExact(pool)

Fields == {"text", "prop", "names"}

IInv ==
    /\ made = [code |-> made.code, text |-> made.text,
               prop |-> made.prop, names |-> made.names]
    /\ Good(made.text) /\ Good(made.prop) /\ Good(made.names)

-----------------------------------------------------------------------------
(* A sequence with one more is a sequence of what is then in it.           *)
LEMMA AppendShape ==
    ASSUME NEW s, s \in Seq(Range(s)), NEW e
    PROVE  /\ Append(s, e) \in Seq(Range(Append(s, e)))
           /\ Len(Append(s, e)) = Len(s) + 1
           /\ Len(s) \in Nat
           /\ \A i \in 1..Len(s) : Append(s, e)[i] = s[i]
           /\ Append(s, e)[Len(s) + 1] = e
  <1> DEFINE T == Range(s) \cup {e}
             t == Append(s, e)
  <1>1. s \in Seq(T) /\ e \in T
    OBVIOUS
  <1>2. /\ t \in Seq(T) /\ Len(t) = Len(s) + 1 /\ Len(s) \in Nat
        /\ \A i \in 1..Len(s) : t[i] = s[i]
        /\ t[Len(s) + 1] = e
    BY <1>1
  <1>3. \A i \in 1..Len(t) : t[i] \in Range(t)
    BY <1>2 DEF Range
  <1>4. t \in Seq(Range(t))
    BY <1>2, <1>3
  <1> QED BY <1>2, <1>4

(* Adding a word keeps a pool good, and all its words where they are.      *)
LEMMA AddKeepsGood ==
    ASSUME NEW pool, NEW w, Good(pool)
    PROVE  /\ Good(VsmxAddText(pool, w))
           /\ IsPrefix(pool.words, VsmxAddText(pool, w).words)
  <1> DEFINE new == VsmxAddText(pool, w)
  <1>1. CASE Has(pool, w)
    <2>1. new = pool
      BY <1>1 DEF VsmxAddText
    <2>2. IsPrefix(pool.words, pool.words)
      BY DEF IsPrefix, Good, Shape
    <2> QED BY <2>1, <2>2
  <1>2. CASE ~Has(pool, w)
    <2>1. /\ new.words = Append(pool.words, w)
          /\ new.offs = Append(pool.offs, pool.len)
          /\ new.len = pool.len + Len(w) + 1
          /\ new = [words |-> new.words, offs |-> new.offs, len |-> new.len]
      BY <1>2 DEF VsmxAddText
    <2> DEFINE n == Len(pool.words)
    <2>2. /\ new.words \in Seq(Range(new.words))
          /\ Len(new.words) = n + 1 /\ n \in Nat
          /\ \A i \in 1..n : new.words[i] = pool.words[i]
          /\ new.words[n + 1] = w
      BY <2>1, AppendShape DEF Good, Shape
    <2>3. /\ new.offs \in Seq(Range(new.offs))
          /\ Len(new.offs) = n + 1
          /\ \A i \in 1..n : new.offs[i] = pool.offs[i]
          /\ new.offs[n + 1] = pool.len
      BY <2>1, AppendShape DEF Good, Shape, PoolExact
    <2>4. Shape(new)
      BY <2>1, <2>2, <2>3 DEF Shape
    <2> HIDE DEF new
    <2>5. DOMAIN pool.words = 1..n /\ DOMAIN new.words = 1..n+1
      BY <2>2 DEF Good, Shape
    <2>6. \A j, k \in DOMAIN new.words : new.words[j] = new.words[k] => j = k
      <3>1. \A i \in 1..n : pool.words[i] # w
        BY <1>2, <2>5 DEF Has
      <3>2. \A j, k \in 1..n : pool.words[j] = pool.words[k] => j = k
        BY <2>5 DEF Good, PoolExact
      <3>3. \A j \in 1..n : new.words[j] # new.words[n + 1]
        BY <2>2, <3>1
      <3>4. \A j, k \in 1..n : new.words[j] = new.words[k] => j = k
        BY <2>2, <3>2
      <3>5. \A j \in 1..n+1 : j \in 1..n \/ j = n + 1
        BY <2>2
      <3> QED BY <2>5, <3>3, <3>4, <3>5
    <2>7. \A k \in DOMAIN new.words :
            (IF k = Len(new.words) THEN new.len ELSE new.offs[k + 1])
              = new.offs[k] + Len(new.words[k]) + 1
      <3> SUFFICES ASSUME NEW k \in 1..n+1
                   PROVE  (IF k = n + 1 THEN new.len ELSE new.offs[k + 1])
                            = new.offs[k] + Len(new.words[k]) + 1
        BY <2>2, <2>5
      <3>1. CASE k = n + 1
        BY <3>1, <2>1, <2>2, <2>3
      <3>2. CASE k # n + 1
        <4>1. k \in 1..n /\ new.offs[k] = pool.offs[k] /\ new.words[k] = pool.words[k]
          BY <3>2, <2>2, <2>3
        <4>2. new.offs[k + 1] = IF k = n THEN pool.len ELSE pool.offs[k + 1]
          BY <4>1, <2>2, <2>3
        <4>3. (IF k = n THEN pool.len ELSE pool.offs[k + 1])
                = pool.offs[k] + Len(pool.words[k]) + 1
          BY <4>1, <2>5 DEF Good, PoolExact
        <4> QED BY <3>2, <4>1, <4>2, <4>3
      <3> QED BY <3>1, <3>2
    <2>8. new.words # <<>> /\ new.offs[1] = 0
      <3>1. CASE n = 0
        BY <3>1, <2>2, <2>3 DEF Good, Shape, PoolExact
      <3>2. CASE n # 0
        <4>1. pool.words # <<>> /\ 1 \in 1..n
          BY <3>2, <2>2
        <4>2. pool.offs[1] = 0
          BY <4>1 DEF Good, PoolExact
        <4>3. new.words # <<>>
          BY <2>2
        <4> QED BY <4>1, <4>2, <4>3, <2>3
      <3> QED BY <3>1, <3>2
    <2>9. PoolExact(new)
      BY <2>2, <2>3, <2>6, <2>7, <2>8 DEF PoolExact
    <2>10. IsPrefix(pool.words, new.words)
      BY <2>2 DEF IsPrefix, Good, Shape
    <2> QED BY <2>4, <2>9, <2>10 DEF Good, new
  <1> QED BY <1>1, <1>2

LEMMA NewPoolGood == Good(NewPool)
  BY DEF Good, Shape, PoolExact, NewPool, Range

(* The fields of what is made, after a step of any kind.                   *)
LEMMA Steps ==
    ASSUME IInv, [Next]_vars
    PROVE  /\ IInv'
           /\ status = "encoding" =>
                \A f \in Fields : IsPrefix(made[f].words, made'[f].words)
  <1> DEFINE Kept == \A f \in Fields : IsPrefix(made[f].words, made'[f].words)
  <1>0. \A pool : Good(pool) => IsPrefix(pool.words, pool.words)
    BY DEF IsPrefix, Good, Shape
  <1>1. CASE made' = made
    BY <1>0, <1>1 DEF IInv, Fields
  <1>2. CASE \E g : made' = [made EXCEPT !.code = Append(@, g)]
    <2>1. /\ made'.text = made.text /\ made'.prop = made.prop /\ made'.names = made.names
          /\ made' = [code |-> made'.code, text |-> made'.text,
                      prop |-> made'.prop, names |-> made'.names]
      BY <1>2 DEF IInv
    <2> QED BY <1>0, <2>1 DEF IInv, Fields
  <1>3. CASE EncodeWord
    <2>1. PICK g, w : \E f \in Fields :
            made' = [made EXCEPT !.code = Append(@, g), ![f] = VsmxAddText(@, w)]
      BY <1>3 DEF EncodeWord, SectionOf, Fields
    <2>2. PICK f \in Fields :
            made' = [made EXCEPT !.code = Append(@, g), ![f] = VsmxAddText(@, w)]
      BY <2>1
    <2>3. /\ made'[f] = VsmxAddText(made[f], w)
          /\ \A h \in Fields \ {f} : made'[h] = made[h]
          /\ made' = [code |-> made'.code, text |-> made'.text,
                      prop |-> made'.prop, names |-> made'.names]
      BY <2>2 DEF IInv, Fields
    <2>4. \A h \in Fields : Good(made[h])
      BY DEF IInv, Fields
    <2>5. \A h \in Fields : Good(made'[h]) /\ IsPrefix(made[h].words, made'[h].words)
      BY <1>0, <2>3, <2>4, AddKeepsGood
    <2> QED BY <2>3, <2>5 DEF IInv, Fields
  <1>4. CASE Again
    <2>1. made' = NewScript /\ status # "encoding"
      BY <1>4 DEF Again
    <2> QED BY <2>1, NewPoolGood DEF IInv, NewScript
  <1> QED
    BY <1>1, <1>2, <1>3, <1>4
    DEF Next, vars, Read, DecodeGroup, DecodeFails, DecodeEnds, EncodeNothing,
        EncodeFails, EncodeBadString, EncodeOther, Appended, Write

(* In each pool a word lies once, behind the one before it, for every      *)
(* script (VsmxAddText).                                                   *)
THEOREM PoolsAreExact == Spec => []PoolsExact
  <1>1. Init => IInv
    BY NewPoolGood DEF Init, IInv, NewScript
  <1>2. IInv /\ [Next]_vars => IInv'
    BY Steps
  <1>3. IInv => PoolsExact
    BY DEF IInv, Good, PoolsExact
  <1> QED BY <1>1, <1>2, <1>3, PTL DEF Spec

(* No later word takes the index of an earlier one (VsmxAddText).          *)
THEOREM IndicesAlwaysHold == Spec => IndicesHold
  <1>1. Init => IInv
    BY NewPoolGood DEF Init, IInv, NewScript
  <1>2. IInv /\ [Next]_vars => IInv'
    BY Steps
  <1>3. IInv /\ [Next]_vars =>
          [status = "encoding" =>
             \A f \in {"text", "prop", "names"} : IsPrefix(made[f].words, made'[f].words)]_vars
    BY Steps DEF Fields
  <1> QED BY <1>1, <1>2, <1>3, PTL DEF Spec, IndicesHold

-----------------------------------------------------------------------------
(* Words put together and taken apart.                                     *)

Chars == Nat \ {0}
WordLists == Seq(Seq(Nat))
CharWords == Seq(Seq(Chars))

LEMMA CharWordLists == CharWords \subseteq WordLists /\ Seq(Chars) \subseteq Seq(Nat)
  <1>1. Seq(Chars) \subseteq Seq(Nat)
    BY DEF Chars
  <1>2. \A ws \in Seq(Seq(Chars)) : ws \in Seq(Seq(Nat))
    BY <1>1
  <1> QED BY <1>1, <1>2 DEF CharWords, WordLists

Rows == {ws \in CharWords : ws # <<>>}

LEMMA EndedType == \A u, w \in Seq(Nat) : Ended(u, w) \in Seq(Nat)
  BY DEF Ended

(* Joined goes from word to word.                                          *)
LEMMA JoinedUpTo ==
    ASSUME NEW ws \in WordLists
    PROVE  \E f : /\ f \in [0..Len(ws) -> Seq(Nat)]
                  /\ f[0] = <<>>
                  /\ \A i \in 1..Len(ws) : f[i] = Ended(f[i-1], ws[i])
                  /\ f[Len(ws)] = Joined(ws)
  <1> DEFINE n == Len(ws)
             body(f) == [i \in 0..n |-> IF i = 0 THEN <<>> ELSE Ended(f[i-1], ws[i])]
             t == CHOOSE f : f = body(f)
  <1>1. n \in Nat /\ \A i \in 1..n : ws[i] \in Seq(Nat)
    BY DEF WordLists
  <1>2. Joined(ws) = t[n]
    BY DEF Joined
  <1> HIDE DEF n
  <1>3. PICK f : /\ f \in [0..n -> Seq(Nat)] /\ f[0] = <<>>
                 /\ \A i \in 1..n : f[i] = Ended(f[i-1], ws[i])
    <2> DEFINE next == [i \in 1..n |-> [u \in Seq(Nat) |-> Ended(u, ws[i])]]
    <2>1. next \in StepFunctions(n, Seq(Nat)) /\ <<>> \in Seq(Nat)
      BY <1>1, EndedType DEF StepFunctions
    <2>2. \A i \in 1..n, u \in Seq(Nat) : next[i][u] = Ended(u, ws[i])
      OBVIOUS
    <2> HIDE DEF next
    <2>3. PICK f : Recursive(f, n, Seq(Nat), <<>>, next)
      BY <1>1, <2>1, Recursion
    <2>4. f \in [0..n -> Seq(Nat)] /\ f[0] = <<>>
      BY <2>3 DEF Recursive
    <2>5. \A i \in 1..n : f[i-1] \in Seq(Nat)
      BY <1>1, <2>4
    <2>6. \A i \in 1..n : f[i] = Ended(f[i-1], ws[i])
      BY <2>2, <2>3, <2>5 DEF Recursive
    <2> QED BY <2>4, <2>6
  <1>4. f = body(f)
    BY <1>1, <1>3
  <1>5. t = body(t)
    BY <1>4
  <1> HIDE DEF t
  <1>6. \A i \in 0..n : t[i] = f[i]
    <2>1. t[0] = f[0]
      BY <1>1, <1>3, <1>5
    <2>2. \A i \in 1..n : t[i] = Ended(t[i-1], ws[i])
      BY <1>1, <1>5
    <2>3. \A i \in 1..n : t[i-1] = f[i-1] => t[i] = f[i]
      BY <1>3, <2>2
    <2>4. n \in Nat /\ GoTogether(n, t, f)
      BY <1>1, <2>1, <2>3 DEF GoTogether
    <2> QED BY <2>4, SameWay
  <1>7. Joined(ws) = f[n]
    BY <1>1, <1>2, <1>6
  <1> QED BY <1>3, <1>7 DEF n

LEMMA JoinedAppend ==
    /\ Joined(<<>>) = <<>>
    /\ \A ws \in WordLists, w \in Seq(Nat) :
         Joined(Append(ws, w)) = Ended(Joined(ws), w)
    /\ \A ws \in WordLists : Joined(ws) \in Seq(Nat)
  <1>1. Joined(<<>>) = <<>>
    <2>1. <<>> \in WordLists /\ Len(<<>>) = 0
      BY DEF WordLists
    <2> QED BY <2>1, JoinedUpTo
  <1>2. ASSUME NEW ws \in WordLists PROVE Joined(ws) \in Seq(Nat)
    <2>1. Len(ws) \in 0..Len(ws)
      BY DEF WordLists
    <2> QED BY <2>1, JoinedUpTo
  <1>3. ASSUME NEW ws \in WordLists, NEW w \in Seq(Nat)
        PROVE  Joined(Append(ws, w)) = Ended(Joined(ws), w)
    <2> DEFINE n == Len(ws)
               vs == Append(ws, w)
    <2>1. /\ vs \in WordLists /\ Len(vs) = n + 1 /\ n \in Nat
          /\ \A i \in 1..n : vs[i] = ws[i]
          /\ vs[n + 1] = w
      BY DEF WordLists
    <2>2. PICK f : /\ f[0] = <<>> /\ f[n] = Joined(ws)
                   /\ \A i \in 1..n : f[i] = Ended(f[i-1], ws[i])
      BY JoinedUpTo
    <2>3. PICK g : /\ g[0] = <<>> /\ g[Len(vs)] = Joined(vs)
                   /\ \A i \in 1..Len(vs) : g[i] = Ended(g[i-1], vs[i])
      BY <2>1, JoinedUpTo
    <2> HIDE DEF vs, n
    <2>4. \A i \in 1..n : g[i] = Ended(g[i-1], ws[i])
      BY <2>1, <2>3
    <2>5. \A i \in 0..n : f[i] = g[i]
      <3>1. \A i \in 1..n : f[i-1] = g[i-1] => f[i] = g[i]
        BY <2>2, <2>4
      <3>2. f[0] = g[0] /\ n \in Nat
        BY <2>1, <2>2, <2>3
      <3>3. GoTogether(n, f, g)
        BY <3>1, <3>2 DEF GoTogether
      <3> QED BY <3>2, <3>3, SameWay
    <2>6. g[n + 1] = Ended(g[n], w)
      BY <2>1, <2>3
    <2> QED BY <2>1, <2>2, <2>3, <2>5, <2>6 DEF vs
  <1> QED BY <1>1, <1>2, <1>3

LEMMA CharacterType ==
    ASSUME NEW ws \in Rows, NEW c \in Nat
    PROVE  Character(ws, c) \in Rows
  <1>1. CASE c = 0
    <2>1. Character(ws, c) = Append(ws, <<>>)
      BY <1>1 DEF Character
    <2>2. ws \in Seq(Seq(Chars)) /\ <<>> \in Seq(Chars)
      BY DEF Rows, CharWords
    <2>3. Append(ws, <<>>) \in Seq(Seq(Chars)) /\ Len(Append(ws, <<>>)) # 0
      BY <2>2
    <2> QED BY <2>1, <2>3 DEF Rows, CharWords
  <1>2. CASE c # 0
    <2> DEFINE n == Len(ws)
               w == Append(ws[n], c)
               vs == [ws EXCEPT ![n] = w]
    <2>1. ws \in Seq(Seq(Chars)) /\ n \in Nat \ {0} /\ DOMAIN ws = 1..n
      BY DEF Rows, CharWords
    <2>2. w \in Seq(Chars)
      BY <1>2, <2>1 DEF Chars
    <2>3. Character(ws, c) = vs
      BY <1>2 DEF Character
    <2> HIDE DEF w, n
    <2>4. vs \in Seq(Seq(Chars)) /\ Len(vs) = n
      BY <2>1, <2>2 DEF n
    <2>5. vs # <<>>
      BY <2>1, <2>4
    <2> QED BY <2>3, <2>4, <2>5 DEF Rows, CharWords
  <1> QED BY <1>1, <1>2

LEMMA FirstRow == << <<>> >> \in Rows
  <1>1. <<>> \in Seq(Chars)
    OBVIOUS
  <1>2. << <<>> >> \in Seq(Seq(Chars)) /\ Len(<< <<>> >>) = 1
    BY <1>1
  <1> QED BY <1>2 DEF Rows, CharWords

LEMMA PartedUpTo ==
    ASSUME NEW s \in Seq(Nat)
    PROVE  \E f : /\ f \in [0..Len(s) -> Rows]
                  /\ f[0] = << <<>> >>
                  /\ \A i \in 1..Len(s) : f[i] = Character(f[i-1], s[i])
                  /\ f[Len(s)] = Parted(s)
  <1> DEFINE n == Len(s)
             body(f) == [i \in 0..n |-> IF i = 0 THEN << <<>> >> ELSE Character(f[i-1], s[i])]
             t == CHOOSE f : f = body(f)
  <1>1. n \in Nat /\ \A i \in 1..n : s[i] \in Nat
    OBVIOUS
  <1>2. Parted(s) = t[n]
    BY DEF Parted
  <1> HIDE DEF n
  <1>3. PICK f : /\ f \in [0..n -> Rows] /\ f[0] = << <<>> >>
                 /\ \A i \in 1..n : f[i] = Character(f[i-1], s[i])
    <2> DEFINE next == [i \in 1..n |-> [u \in Rows |-> Character(u, s[i])]]
    <2>1. next \in StepFunctions(n, Rows)
      BY <1>1, CharacterType DEF StepFunctions
    <2>2. \A i \in 1..n, u \in Rows : next[i][u] = Character(u, s[i])
      OBVIOUS
    <2> HIDE DEF next
    <2>3. PICK f : Recursive(f, n, Rows, << <<>> >>, next)
      BY <1>1, <2>1, FirstRow, Recursion
    <2>4. f \in [0..n -> Rows] /\ f[0] = << <<>> >>
      BY <2>3 DEF Recursive
    <2>5. \A i \in 1..n : f[i-1] \in Rows
      BY <1>1, <2>4
    <2>6. \A i \in 1..n : f[i] = Character(f[i-1], s[i])
      BY <2>2, <2>3, <2>5 DEF Recursive
    <2> QED BY <2>4, <2>6
  <1>4. f = body(f)
    <2>1. \A i \in 0..n : i = 0 \/ i \in 1..n
      BY <1>1
    <2>2. \A i \in 0..n : f[i] = body(f)[i]
      BY <1>3, <2>1
    <2>3. f = [i \in 0..n |-> f[i]]
      BY <1>3
    <2> QED BY <2>2, <2>3
  <1>5. t = body(t)
    BY <1>4
  <1> HIDE DEF t
  <1>6. \A i \in 0..n : t[i] = f[i]
    <2>1. n \in Nat /\ t[0] = f[0]
      BY <1>1, <1>3, <1>5
    <2>2. \A i \in 1..n : t[i] = Character(t[i-1], s[i])
      BY <1>1, <1>5
    <2>3. \A i \in 1..n : t[i-1] = f[i-1] => t[i] = f[i]
      BY <1>3, <2>2
    <2>4. n \in Nat /\ GoTogether(n, t, f)
      BY <2>1, <2>3 DEF GoTogether
    <2> QED BY <2>4, SameWay
  <1>7. Parted(s) = f[n]
    BY <1>1, <1>2, <1>6
  <1> QED BY <1>3, <1>7 DEF n

LEMMA PartedAppend ==
    /\ Parted(<<>>) = << <<>> >>
    /\ \A s \in Seq(Nat), c \in Nat :
         Parted(Append(s, c)) = Character(Parted(s), c)
    /\ \A s \in Seq(Nat) : Parted(s) \in Rows
  <1>1. Parted(<<>>) = << <<>> >>
    <2>1. <<>> \in Seq(Nat) /\ Len(<<>>) = 0
      OBVIOUS
    <2> QED BY <2>1, PartedUpTo
  <1>2. ASSUME NEW s \in Seq(Nat) PROVE Parted(s) \in Rows
    <2>1. Len(s) \in 0..Len(s)
      OBVIOUS
    <2> QED BY <2>1, PartedUpTo
  <1>3. ASSUME NEW s \in Seq(Nat), NEW c \in Nat
        PROVE  Parted(Append(s, c)) = Character(Parted(s), c)
    <2> DEFINE n == Len(s)
               r == Append(s, c)
    <2>1. /\ r \in Seq(Nat) /\ Len(r) = n + 1 /\ n \in Nat
          /\ \A i \in 1..n : r[i] = s[i]
          /\ r[n + 1] = c
      OBVIOUS
    <2>2. PICK f : /\ f[0] = << <<>> >> /\ f[n] = Parted(s)
                   /\ \A i \in 1..n : f[i] = Character(f[i-1], s[i])
      BY PartedUpTo
    <2>3. PICK g : /\ g[0] = << <<>> >> /\ g[Len(r)] = Parted(r)
                   /\ \A i \in 1..Len(r) : g[i] = Character(g[i-1], r[i])
      BY <2>1, PartedUpTo
    <2> HIDE DEF r, n
    <2>4. \A i \in 1..n : g[i] = Character(g[i-1], s[i])
      <3>1. \A i \in 1..n : i \in 1..Len(r)
        BY <2>1
      <3>2. \A i \in 1..Len(r) : g[i] = Character(g[i-1], r[i])
        BY <2>3
      <3> QED BY <2>1, <3>1, <3>2
    <2>5. \A i \in 0..n : f[i] = g[i]
      <3>1. \A i \in 1..n : f[i-1] = g[i-1] => f[i] = g[i]
        BY <2>2, <2>4
      <3>2. f[0] = g[0] /\ n \in Nat
        BY <2>1, <2>2, <2>3
      <3>3. GoTogether(n, f, g)
        BY <3>1, <3>2 DEF GoTogether
      <3> QED BY <3>2, <3>3, SameWay
    <2>6. g[n + 1] = Character(g[n], c)
      BY <2>1, <2>3
    <2> QED BY <2>1, <2>2, <2>3, <2>5, <2>6 DEF r
  <1> QED BY <1>1, <1>2, <1>3

-----------------------------------------------------------------------------
(* The lines that fgetws reads of what VsmxDecode has written.             *)

LinePieces ==
    {p \in Seq(Chars) : Len(p) <= LineMax /\ \A i \in 1..Len(p)-1 : p[i] # NL}
LineRows == {ps \in Seq(LinePieces) : ps # <<>>}

LEMMA FirstLine == << <<>> >> \in LineRows
  <1>1. <<>> \in Seq(Chars) /\ Len(<<>>) = 0
    OBVIOUS
  <1>2. <<>> \in LinePieces
    BY <1>1, LineMaxAssumption DEF LinePieces
  <1>3. << <<>> >> \in Seq(LinePieces) /\ Len(<< <<>> >>) = 1
    BY <1>2
  <1> QED BY <1>3 DEF LineRows

LEMMA FurtherType ==
    ASSUME NEW ps \in LineRows, NEW c \in Chars
    PROVE  Further(ps, c) \in LineRows
  <1> DEFINE n == Len(ps)
  <1>1. ps \in Seq(LinePieces) /\ n \in Nat \ {0} /\ DOMAIN ps = 1..n
    BY DEF LineRows
  <1>2. CASE Full(ps[n])
    <2>1. Further(ps, c) = Append(ps, <<c>>)
      BY <1>2 DEF Further, Last
    <2>2. <<c>> \in Seq(Chars) /\ Len(<<c>>) = 1
      OBVIOUS
    <2>3. <<c>> \in LinePieces
      BY <2>2, LineMaxAssumption DEF LinePieces
    <2>4. Append(ps, <<c>>) \in Seq(LinePieces) /\ Len(Append(ps, <<c>>)) # 0
      BY <1>1, <2>3
    <2> QED BY <2>1, <2>4 DEF LineRows
  <1>3. CASE ~Full(ps[n])
    <2> DEFINE p == Append(ps[n], c)
               qs == [ps EXCEPT ![n] = p]
    <2>1. Further(ps, c) = qs
      BY <1>3 DEF Further, Last
    <2>2. ps[n] \in LinePieces
      BY <1>1
    <2> DEFINE m == Len(ps[n])
    <2>3. /\ p \in Seq(Chars) /\ Len(p) = m + 1 /\ m \in Nat
          /\ \A i \in 1..m : p[i] = ps[n][i]
      BY <2>2 DEF LinePieces
    <2>4. m < LineMax
      BY <1>3, <2>2, LineMaxAssumption DEF Full, LinePieces
    <2>5. \A i \in 1..m : ps[n][i] # NL
      <3>1. \A i \in 1..m-1 : ps[n][i] # NL
        BY <2>2 DEF LinePieces
      <3>2. m # 0 => ps[n][m] # NL
        BY <1>3, <2>2 DEF Full, Last, LinePieces
      <3> QED BY <2>3, <3>1, <3>2
    <2>6. p \in LinePieces
      <3> HIDE DEF p
      <3>1. Len(p) <= LineMax
        BY <2>3, <2>4, LineMaxAssumption
      <3>2. \A i \in 1..Len(p)-1 : p[i] # NL
        BY <2>3, <2>5
      <3> QED BY <2>3, <3>1, <3>2 DEF LinePieces
    <2> HIDE DEF p, n
    <2>7. qs \in Seq(LinePieces) /\ Len(qs) = n
      BY <1>1, <2>6 DEF n
    <2>8. qs # <<>>
      BY <1>1, <2>7
    <2> QED BY <2>1, <2>7, <2>8 DEF LineRows
  <1> QED BY <1>2, <1>3

LEMMA PiecesUpTo ==
    ASSUME NEW s \in Seq(Chars)
    PROVE  \E f : /\ f \in [0..Len(s) -> LineRows]
                  /\ f[0] = << <<>> >>
                  /\ \A i \in 1..Len(s) : f[i] = Further(f[i-1], s[i])
                  /\ f[Len(s)] = Pieces(s)
  <1> DEFINE n == Len(s)
             body(f) == [i \in 0..n |-> IF i = 0 THEN << <<>> >> ELSE Further(f[i-1], s[i])]
             t == CHOOSE f : f = body(f)
  <1>1. n \in Nat /\ \A i \in 1..n : s[i] \in Chars
    OBVIOUS
  <1>2. Pieces(s) = t[n]
    BY DEF Pieces
  <1> HIDE DEF n
  <1>3. PICK f : /\ f \in [0..n -> LineRows] /\ f[0] = << <<>> >>
                 /\ \A i \in 1..n : f[i] = Further(f[i-1], s[i])
    <2> DEFINE next == [i \in 1..n |-> [u \in LineRows |-> Further(u, s[i])]]
    <2>1. next \in StepFunctions(n, LineRows)
      BY <1>1, FurtherType DEF StepFunctions
    <2>2. \A i \in 1..n, u \in LineRows : next[i][u] = Further(u, s[i])
      OBVIOUS
    <2> HIDE DEF next
    <2>3. PICK f : Recursive(f, n, LineRows, << <<>> >>, next)
      BY <1>1, <2>1, FirstLine, Recursion
    <2>4. f \in [0..n -> LineRows] /\ f[0] = << <<>> >>
      BY <2>3 DEF Recursive
    <2>5. \A i \in 1..n : f[i-1] \in LineRows
      BY <1>1, <2>4
    <2>6. \A i \in 1..n : f[i] = Further(f[i-1], s[i])
      BY <2>2, <2>3, <2>5 DEF Recursive
    <2> QED BY <2>4, <2>6
  <1>4. f = body(f)
    <2>1. \A i \in 0..n : i = 0 \/ i \in 1..n
      BY <1>1
    <2>2. \A i \in 0..n : f[i] = body(f)[i]
      BY <1>3, <2>1
    <2>3. f = [i \in 0..n |-> f[i]]
      BY <1>3
    <2> QED BY <2>2, <2>3
  <1>5. t = body(t)
    BY <1>4
  <1> HIDE DEF t
  <1>6. \A i \in 0..n : t[i] = f[i]
    <2>1. n \in Nat /\ t[0] = f[0]
      BY <1>1, <1>3, <1>5
    <2>2. \A i \in 1..n : t[i] = Further(t[i-1], s[i])
      BY <1>1, <1>5
    <2>3. \A i \in 1..n : t[i-1] = f[i-1] => t[i] = f[i]
      BY <1>3, <2>2
    <2>4. n \in Nat /\ GoTogether(n, t, f)
      BY <2>1, <2>3 DEF GoTogether
    <2> QED BY <2>4, SameWay
  <1>7. Pieces(s) = f[n]
    BY <1>1, <1>2, <1>6
  <1> QED BY <1>3, <1>7 DEF n

LEMMA PiecesAppend ==
    /\ Pieces(<<>>) = << <<>> >>
    /\ \A s \in Seq(Chars), c \in Chars :
         Pieces(Append(s, c)) = Further(Pieces(s), c)
    /\ \A s \in Seq(Chars) : Pieces(s) \in LineRows
  <1>1. Pieces(<<>>) = << <<>> >>
    <2>1. <<>> \in Seq(Chars) /\ Len(<<>>) = 0
      OBVIOUS
    <2> QED BY <2>1, PiecesUpTo
  <1>2. ASSUME NEW s \in Seq(Chars) PROVE Pieces(s) \in LineRows
    <2>1. Len(s) \in 0..Len(s)
      OBVIOUS
    <2> QED BY <2>1, PiecesUpTo
  <1>3. ASSUME NEW s \in Seq(Chars), NEW c \in Chars
        PROVE  Pieces(Append(s, c)) = Further(Pieces(s), c)
    <2> DEFINE n == Len(s)
               r == Append(s, c)
    <2>1. /\ r \in Seq(Chars) /\ Len(r) = n + 1 /\ n \in Nat
          /\ \A i \in 1..n : r[i] = s[i]
          /\ r[n + 1] = c
      OBVIOUS
    <2>2. PICK f : /\ f[0] = << <<>> >> /\ f[n] = Pieces(s)
                   /\ \A i \in 1..n : f[i] = Further(f[i-1], s[i])
      BY PiecesUpTo
    <2>3. PICK g : /\ g[0] = << <<>> >> /\ g[Len(r)] = Pieces(r)
                   /\ \A i \in 1..Len(r) : g[i] = Further(g[i-1], r[i])
      BY <2>1, PiecesUpTo
    <2> HIDE DEF r, n
    <2>4. \A i \in 1..n : g[i] = Further(g[i-1], s[i])
      <3>1. \A i \in 1..n : i \in 1..Len(r)
        BY <2>1
      <3>2. \A i \in 1..Len(r) : g[i] = Further(g[i-1], r[i])
        BY <2>3
      <3> QED BY <2>1, <3>1, <3>2
    <2>5. \A i \in 0..n : f[i] = g[i]
      <3>1. \A i \in 1..n : f[i-1] = g[i-1] => f[i] = g[i]
        BY <2>2, <2>4
      <3>2. f[0] = g[0] /\ n \in Nat
        BY <2>1, <2>2, <2>3
      <3>3. GoTogether(n, f, g)
        BY <3>1, <3>2 DEF GoTogether
      <3> QED BY <3>2, <3>3, SameWay
    <2>6. g[n + 1] = Further(g[n], c)
      BY <2>1, <2>3
    <2> QED BY <2>1, <2>2, <2>3, <2>5, <2>6 DEF r
  <1> QED BY <1>1, <1>2, <1>3

-----------------------------------------------------------------------------
(* Taken apart again, words are what they were.                            *)

(* A sequence begins with one less and what is behind that.                *)
LEMMA OneMore ==
    ASSUME NEW S, NEW s \in Seq(S), NEW i \in 1..Len(s)
    PROVE  /\ SubSeq(s, 1, i) = Append(SubSeq(s, 1, i-1), s[i])
           /\ SubSeq(s, 1, i-1) \in Seq(S) /\ s[i] \in S
           /\ SubSeq(s, 1, i) \in Seq(S)
           /\ Len(SubSeq(s, 1, i-1)) = i - 1
           /\ Len(SubSeq(s, 1, i)) = i
  <1>1. /\ SubSeq(s, 1, i-1) \in Seq(S) /\ SubSeq(s, 1, i) \in Seq(S)
        /\ Len(SubSeq(s, 1, i-1)) = i - 1 /\ Len(SubSeq(s, 1, i)) = i
        /\ \A k \in 1..i-1 : SubSeq(s, 1, i-1)[k] = s[k]
        /\ \A k \in 1..i : SubSeq(s, 1, i)[k] = s[k]
    OBVIOUS
  <1> DEFINE a == SubSeq(s, 1, i-1)
             b == SubSeq(s, 1, i)
  <1> HIDE DEF a, b
  <1>2. /\ Append(a, s[i]) \in Seq(S) /\ Len(Append(a, s[i])) = i
        /\ \A k \in 1..i-1 : Append(a, s[i])[k] = s[k]
        /\ Append(a, s[i])[i] = s[i]
    BY <1>1 DEF a
  <1>3. \A k \in 1..i : b[k] = Append(a, s[i])[k]
    BY <1>1, <1>2 DEF b
  <1>4. b = Append(a, s[i])
    BY <1>1, <1>2, <1>3, SeqEqual DEF b
  <1> QED BY <1>1, <1>4 DEF a, b

LEMMA AppendBehind ==
    ASSUME NEW S, NEW s \in Seq(S), NEW t \in Seq(S), NEW e \in S
    PROVE  /\ s \o t \in Seq(S)
           /\ s \o Append(t, e) = Append(s \o t, e)
  <1>1. <<e>> \in Seq(S) /\ s \o t \in Seq(S)
    OBVIOUS
  <1>2. Append(t, e) = t \o <<e>> /\ Append(s \o t, e) = (s \o t) \o <<e>>
    BY <1>1, AppendIsConcat
  <1>3. (s \o t) \o <<e>> = s \o (t \o <<e>>)
    BY <1>1, ConcatAssociative
  <1> QED BY <1>1, <1>2, <1>3

LEMMA NoneTaken == \A s : SubSeq(s, 1, 0) = <<>>
  BY SubSeqEmpty

LEMMA AllTaken == ASSUME NEW S, NEW s \in Seq(S) PROVE SubSeq(s, 1, Len(s)) = s
  BY SubSeqFull

Behind(ws, u) == [ws EXCEPT ![Len(ws)] = @ \o u]

LEMMA BehindOne ==
    ASSUME NEW ws \in Rows, NEW u \in Seq(Nat), NEW c \in Chars
    PROVE  Character(Behind(ws, u), c) = Behind(ws, Append(u, c))
  <1> DEFINE n == Len(ws)
             v == ws[n] \o u
             b == [ws EXCEPT ![n] = v]
  <1>1. ws \in Seq(Seq(Nat)) /\ n \in Nat \ {0} /\ DOMAIN ws = 1..n
    BY CharWordLists DEF Rows, WordLists
  <1>2. ws[n] \in Seq(Nat) /\ c \in Nat /\ c # 0
    BY <1>1 DEF Chars
  <1>3. v \in Seq(Nat)
    BY <1>2
  <1>4. ws[n] \o Append(u, c) = Append(v, c)
    <2> DEFINE w == ws[n]
    <2> HIDE DEF w
    <2>1. w \in Seq(Nat)
      BY <1>2 DEF w
    <2>2. w \o Append(u, c) = Append(w \o u, c)
      BY <1>2, <2>1, AppendBehind, SMTT(20)
    <2> QED BY <2>2 DEF w
  <1>5. Behind(ws, u) = b /\ Behind(ws, Append(u, c)) = [ws EXCEPT ![n] = Append(v, c)]
    BY <1>4 DEF Behind
  <1> HIDE DEF v, n
  <1>6. Len(b) = n /\ b[n] = v
    BY <1>1, <1>3 DEF n
  <1>7. Character(b, c) = [b EXCEPT ![n] = Append(v, c)]
    BY <1>2, <1>6 DEF Character
  <1>8. [b EXCEPT ![n] = Append(v, c)] = [ws EXCEPT ![n] = Append(v, c)]
    OBVIOUS
  <1> QED BY <1>5, <1>7, <1>8

LEMMA PartedWord ==
    ASSUME NEW s \in Seq(Nat), NEW w \in Seq(Chars)
    PROVE  Parted(s \o w) = Behind(Parted(s), w)
  <1> DEFINE ws == Parted(s)
             u(i) == SubSeq(w, 1, i)
             Holds(i) == Parted(s \o u(i)) = Behind(ws, u(i))
             T == {i \in 0..Len(w) : Holds(i)}
  <1>1. ws \in Rows /\ Len(w) \in Nat
    BY PartedAppend
  <1>2. 0 \in T
    <2>1. u(0) = <<>>
      BY NoneTaken
    <2>2. s \o <<>> = s
      OBVIOUS
    <2>3. Behind(ws, <<>>) = ws
      <3> DEFINE n == Len(ws)
      <3>1. ws \in Seq(Seq(Nat)) /\ n \in Nat \ {0} /\ DOMAIN ws = 1..n
        BY <1>1, CharWordLists DEF Rows, WordLists
      <3>2. ws[n] \in Seq(Nat)
        BY <3>1
      <3>3. ws[n] \o <<>> = ws[n]
        BY <3>2
      <3> HIDE DEF ws
      <3>4. [ws EXCEPT ![n] = ws[n]] = ws
        BY <3>1
      <3> QED BY <3>3, <3>4 DEF Behind
    <2>4. Holds(0)
      BY <2>1, <2>2, <2>3
    <2> HIDE DEF Holds
    <2> QED BY <1>1, <2>4
  <1>3. ASSUME NEW i \in 1..Len(w), i - 1 \in T PROVE i \in T
    <2>1. u(i) = Append(u(i-1), w[i]) /\ u(i-1) \in Seq(Chars) /\ w[i] \in Chars
      BY OneMore
    <2>2. u(i-1) \in Seq(Nat) /\ w[i] \in Nat
      BY <2>1, CharWordLists DEF Chars
    <2>3. Parted(s \o u(i-1)) = Behind(ws, u(i-1))
      BY <1>3
    <2> DEFINE v == u(i-1)
    <2> HIDE DEF v, ws
    <2>4. s \o v \in Seq(Nat) /\ s \o Append(v, w[i]) = Append(s \o v, w[i])
      BY <2>2, AppendBehind DEF v
    <2>5. Parted(s \o Append(v, w[i])) = Character(Parted(s \o v), w[i])
      BY <2>2, <2>4, PartedAppend
    <2>6. Parted(s \o Append(v, w[i])) = Behind(ws, Append(v, w[i]))
      BY <1>1, <2>1, <2>2, <2>3, <2>5, BehindOne DEF v
    <2>7. Holds(i)
      BY <2>1, <2>6 DEF v
    <2> HIDE DEF Holds
    <2> QED BY <1>1, <2>7
  <1>4. 0..Len(w) \subseteq T
    <2> HIDE DEF T
    <2> QED BY <1>1, <1>2, <1>3, UpTo
  <1>5. Len(w) \in T /\ u(Len(w)) = w
    BY <1>1, <1>4, AllTaken
  <1> QED BY <1>5

LEMMA JoinedStep ==
    ASSUME NEW vs \in CharWords, NEW w \in Seq(Chars)
    PROVE  LET x == Joined(vs) \o w
           IN /\ x \in Seq(Nat)
              /\ Joined(Append(vs, w)) = Append(x, 0)
              /\ Parted(Joined(vs)) = Append(vs, <<>>) =>
                   /\ Parted(x) = Append(vs, w)
                   /\ Parted(Append(x, 0)) = Append(Append(vs, w), <<>>)
  <1> DEFINE j == Joined(vs)
             x == j \o w
  <1>1. vs \in WordLists /\ w \in Seq(Nat)
    BY CharWordLists
  <1>2. j \in Seq(Nat)
    BY <1>1, JoinedAppend
  <1>3. Joined(Append(vs, w)) = Ended(j, w)
    BY <1>1, JoinedAppend
  <1> HIDE DEF j
  <1>4. x \in Seq(Nat) /\ Ended(j, w) = Append(x, 0)
    <2>1. x \in Seq(Nat) /\ 0 \in Nat
      BY <1>1, <1>2
    <2> QED BY <2>1, AppendIsConcat DEF Ended
  <1>5. ASSUME Parted(j) = Append(vs, <<>>)
        PROVE  /\ Parted(x) = Append(vs, w)
               /\ Parted(Append(x, 0)) = Append(Append(vs, w), <<>>)
    <2>1. Parted(x) = Behind(Append(vs, <<>>), w)
      BY <1>2, <1>5, PartedWord
    <2>2. Behind(Append(vs, <<>>), w) = Append(vs, w)
      <3> DEFINE n == Len(vs)
                 a == Append(vs, <<>>)
      <3>1. /\ a \in Seq(Seq(Nat)) /\ Len(a) = n + 1 /\ n \in Nat
            /\ a[n + 1] = <<>>
            /\ \A i \in 1..n : a[i] = vs[i]
        BY <1>1 DEF WordLists
      <3>2. <<>> \o w = w
        BY <1>1
      <3> HIDE DEF a, n
      <3>3. Behind(a, w) = [a EXCEPT ![n + 1] = w]
        BY <3>1, <3>2 DEF Behind
      <3> DEFINE b == [a EXCEPT ![n + 1] = w]
                 d == Append(vs, w)
      <3>4. /\ b \in Seq(Seq(Nat)) /\ Len(b) = n + 1
            /\ \A i \in 1..n : b[i] = vs[i]
            /\ b[n + 1] = w
        BY <1>1, <3>1
      <3>5. /\ d \in Seq(Seq(Nat)) /\ Len(d) = n + 1
            /\ \A i \in 1..n : d[i] = vs[i]
            /\ d[n + 1] = w
        BY <1>1 DEF WordLists, n
      <3> HIDE DEF b, d
      <3>6. \A i \in 1..Len(b) : b[i] = d[i]
        <4>1. n \in Nat
          BY <3>1
        <4>2. Len(b) = n + 1
          BY <3>4
        <4>3. \A i \in 1..n+1 : i \in 1..n \/ i = n + 1
          BY <4>1
        <4> QED BY <3>4, <3>5, <4>2, <4>3
      <3>7. b = d
        BY <3>4, <3>5, <3>6, SeqEqual
      <3> QED BY <3>3, <3>7 DEF a, b, d
    <2>3. Parted(Append(x, 0)) = Character(Parted(x), 0)
      BY <1>4, PartedAppend
    <2>4. \A us : Character(us, 0) = Append(us, <<>>)
      BY DEF Character
    <2> QED BY <2>1, <2>2, <2>3, <2>4
  <1> QED BY <1>3, <1>4, <1>5 DEF j

LEMMA PartedJoined ==
    ASSUME NEW ws \in CharWords
    PROVE  Parted(Joined(ws)) = Append(ws, <<>>)
  <1> DEFINE u(i) == SubSeq(ws, 1, i)
             Holds(i) == Parted(Joined(u(i))) = Append(u(i), <<>>)
             T == {i \in 0..Len(ws) : Holds(i)}
  <1>1. Len(ws) \in Nat
    BY DEF CharWords
  <1>2. 0 \in T
    <2>1. u(0) = <<>>
      BY NoneTaken
    <2>2. Append(<<>>, <<>>) = << <<>> >>
      BY DEF Append
    <2>3. Holds(0)
      BY <2>1, <2>2, JoinedAppend, PartedAppend
    <2> HIDE DEF Holds
    <2> QED BY <1>1, <2>3
  <1>3. ASSUME NEW i \in 1..Len(ws), i - 1 \in T PROVE i \in T
    <2>1. u(i) = Append(u(i-1), ws[i]) /\ u(i-1) \in CharWords /\ ws[i] \in Seq(Chars)
      BY OneMore DEF CharWords
    <2>2. Holds(i-1)
      BY <1>3
    <2> DEFINE v == u(i-1)
    <2>3. Parted(Joined(v)) = Append(v, <<>>)
      BY <2>2
    <2> HIDE DEF v
    <2>4. Parted(Append(Joined(v) \o ws[i], 0)) = Append(Append(v, ws[i]), <<>>)
      BY <2>1, <2>3, JoinedStep DEF v
    <2>5. Joined(Append(v, ws[i])) = Append(Joined(v) \o ws[i], 0)
      BY <2>1, JoinedStep DEF v
    <2>6. Holds(i)
      BY <2>1, <2>4, <2>5 DEF v
    <2> HIDE DEF Holds
    <2> QED BY <1>1, <2>6
  <1>4. 0..Len(ws) \subseteq T
    <2> HIDE DEF T
    <2> QED BY <1>1, <1>2, <1>3, UpTo
  <1>5. Len(ws) \in T
    BY <1>1, <1>4
  <1>6. u(Len(ws)) = ws
    BY AllTaken DEF CharWords
  <1> QED BY <1>5, <1>6

LEMMA WordsJoined ==
    ASSUME NEW ws \in CharWords, ws # <<>>
    PROVE  Joined(ws) # <<>> /\ Words(Joined(ws)) = ws
  <1> DEFINE n == Len(ws)
             vs == SubSeq(ws, 1, n-1)
             x == Joined(vs) \o ws[n]
  <1>1. n \in Nat \ {0} /\ n \in 1..Len(ws)
    BY DEF CharWords
  <1>2. ws = Append(vs, ws[n]) /\ vs \in CharWords /\ ws[n] \in Seq(Chars)
    BY <1>1, OneMore, AllTaken DEF CharWords
  <1>3. Parted(Joined(vs)) = Append(vs, <<>>)
    BY <1>2, PartedJoined
  <1>4. x \in Seq(Nat) /\ Joined(ws) = Append(x, 0) /\ Parted(x) = ws
    BY <1>2, <1>3, JoinedStep
  <1> HIDE DEF x
  <1> DEFINE y == Append(x, 0)
  <1>5. /\ y \in Seq(Nat) /\ Len(y) = Len(x) + 1 /\ Len(x) \in Nat
        /\ y[Len(x) + 1] = 0 /\ \A i \in 1..Len(x) : y[i] = x[i]
    BY <1>4
  <1>6. SubSeq(y, 1, Len(x)) = x
    <2>1. SubSeq(y, 1, Len(x)) \in Seq(Nat) /\ Len(SubSeq(y, 1, Len(x))) = Len(x)
      BY <1>5
    <2>2. \A i \in 1..Len(x) : SubSeq(y, 1, Len(x))[i] = x[i]
      BY <1>5
    <2> QED BY <1>4, <2>1, <2>2, SeqEqual
  <1> HIDE DEF y
  <1>7. Last(y) = 0 /\ Front(y) = x
    BY <1>5, <1>6 DEF Last, Front
  <1>8. y # <<>>
    BY <1>5
  <1> QED BY <1>4, <1>7, <1>8 DEF Words, y

(* The length of a pool is that of its words put together.                 *)
LEMMA PoolLength ==
    ASSUME NEW pool, Good(pool), pool.words \in CharWords
    PROVE  pool.len = Len(Joined(pool.words))
  <1> DEFINE ws == pool.words
             n == Len(ws)
             u(i) == SubSeq(ws, 1, i)
             up(i) == IF i = n THEN pool.len ELSE pool.offs[i + 1]
             Holds(i) == up(i) = Len(Joined(u(i)))
             T == {i \in 0..n : Holds(i)}
  <1>1. n \in Nat /\ ws \in Seq(Seq(Chars)) /\ DOMAIN ws = 1..n
    BY DEF CharWords
  <1>2. 0 \in T
    <2>1. u(0) = <<>> /\ Joined(<<>>) = <<>> /\ Len(<<>>) = 0
      BY NoneTaken, JoinedAppend
    <2>2. n = 0 <=> ws = <<>>
      BY <1>1
    <2>3. up(0) = 0
      BY <2>2 DEF Good, PoolExact
    <2>4. Holds(0)
      BY <2>1, <2>3
    <2> HIDE DEF Holds
    <2> QED BY <1>1, <2>4
  <1>3. ASSUME NEW i \in 1..n, i - 1 \in T PROVE i \in T
    <2> DEFINE v == u(i-1)
    <2>1. u(i) = Append(v, ws[i]) /\ v \in CharWords /\ ws[i] \in Seq(Chars)
      BY <1>1, OneMore DEF CharWords
    <2>2. i - 1 # n /\ (i - 1) + 1 = i
      BY <1>1
    <2>3. pool.offs[i] = Len(Joined(v))
      BY <1>3, <2>2
    <2>4. up(i) = pool.offs[i] + Len(ws[i]) + 1
      BY <1>1 DEF Good, PoolExact
    <2> HIDE DEF v, up, ws
    <2>5. /\ Joined(Append(v, ws[i])) = Append(Joined(v) \o ws[i], 0)
          /\ Joined(v) \o ws[i] \in Seq(Nat)
      BY <2>1, JoinedStep
    <2>6. Joined(v) \in Seq(Nat) /\ ws[i] \in Seq(Nat)
      BY <2>1, CharWordLists, JoinedAppend
    <2>7. Len(Append(Joined(v) \o ws[i], 0)) = Len(Joined(v)) + Len(ws[i]) + 1
      BY <2>5, <2>6
    <2>8. Holds(i)
      BY <2>1, <2>3, <2>4, <2>5, <2>7
    <2> HIDE DEF Holds
    <2> QED BY <1>1, <2>8
  <1>4. 0..n \subseteq T
    <2> HIDE DEF T
    <2> QED BY <1>1, <1>2, <1>3, UpTo
  <1>5. Holds(n)
    <2> HIDE DEF Holds
    <2> QED BY <1>1, <1>4
  <1>6. u(n) = ws
    BY <1>1, AllTaken
  <1> QED BY <1>5, <1>6

(* A section is read as the words it was written of.                       *)
ReadAs(section, ws) ==
    /\ section.chars \in Seq(Nat) /\ section.entries \in Nat
    /\ Readable(section)
    /\ ReadSection(section) = ws

LEMMA SectionBack ==
    ASSUME NEW pool, Good(pool), pool.words \in CharWords
    PROVE  ReadAs(WriteSection(pool), pool.words)
  <1> DEFINE ws == pool.words
             section == WriteSection(pool)
  <1>1. Joined(ws) \in Seq(Nat)
    BY CharWordLists, JoinedAppend
  <1>2. section.chars = Joined(ws) /\ section.entries = Len(ws)
    BY <1>1, PoolLength, AllTaken DEF WriteSection
  <1>3. Len(ws) \in Nat
    BY DEF CharWords
  <1>4. ws = <<>> => Joined(ws) = <<>> /\ Len(ws) = 0
    BY JoinedAppend
  <1>5. ws # <<>> => Joined(ws) # <<>> /\ Words(Joined(ws)) = ws
    BY WordsJoined
  <1> HIDE DEF section, ws
  <1>6. section.chars \in Seq(Nat) /\ section.entries \in Nat
    BY <1>1, <1>2, <1>3
  <1>7. Readable(section)
    BY <1>2, <1>4, <1>5 DEF Readable
  <1>8. ReadSection(section) = ws
    BY <1>2, <1>4, <1>5 DEF ReadSection
  <1>9. ReadAs(section, ws)
    BY <1>6, <1>7, <1>8 DEF ReadAs
  <1> QED BY <1>9 DEF section, ws

-----------------------------------------------------------------------------
(* White space taken away.                                                 *)

Trim(t) == t = <<>> \/ (t[1] # 32 /\ t[Len(t)] \notin White)

LEMMA TrimmedSame ==
    ASSUME NEW t \in Seq(Chars), Trim(t)
    PROVE  Trimmed(t) = t
  <1> DEFINE n == Len(t)
             Ends(k) == /\ k = 0 \/ t[k] \notin White
                        /\ \A i \in k+1..n : t[i] \in White
             last == CHOOSE k \in 0..n : Ends(k)
             Begins(k) == /\ k = last + 1 \/ t[k] # 32
                          /\ \A i \in 1..k-1 : t[i] = 32
             first == CHOOSE k \in 1..last+1 : Begins(k)
  <1>1. n \in Nat /\ (n = 0 <=> t = <<>>)
    OBVIOUS
  <1>2. last = n
    <2>1. Ends(n)
      BY <1>1 DEF Trim
    <2>2. \A k \in 0..n : Ends(k) => k = n
      <3> SUFFICES ASSUME NEW k \in 0..n, Ends(k), k # n PROVE FALSE
        OBVIOUS
      <3>1. n \in k+1..n /\ n # 0
        BY <1>1
      <3> QED BY <1>1, <3>1 DEF Trim
    <2> HIDE DEF Ends
    <2> QED BY <1>1, <2>1, <2>2
  <1>3. first = 1
    <2> HIDE DEF last
    <2>1. Begins(1)
      BY <1>1, <1>2 DEF Trim
    <2>2. \A k \in 1..last+1 : Begins(k) => k = 1
      <3> SUFFICES ASSUME NEW k \in 1..last+1, Begins(k), k # 1 PROVE FALSE
        OBVIOUS
      <3>1. 1 \in 1..k-1 /\ n # 0
        BY <1>1, <1>2
      <3> QED BY <1>1, <3>1 DEF Trim
    <2>3. 1 \in 1..last+1
      BY <1>1, <1>2
    <2> HIDE DEF Begins
    <2> QED BY <2>1, <2>2, <2>3
  <1>4. Trimmed(t) = SubSeq(t, first, last)
    BY DEF Trimmed
  <1> HIDE DEF first, last
  <1> QED BY <1>2, <1>3, <1>4, AllTaken

(* What is left of a line read: no line end, and nothing more to trim.     *)
LEMMA TrimmedPiece ==
    ASSUME NEW arg \in LinePieces
    PROVE  LET t == Trimmed(arg)
           IN /\ t \in Seq(Chars) /\ Len(t) <= LineMax
              /\ \A i \in 1..Len(t) : t[i] # NL
              /\ Trim(t)
  <1> DEFINE n == Len(arg)
             Ends(k) == /\ k = 0 \/ arg[k] \notin White
                        /\ \A i \in k+1..n : arg[i] \in White
             last == CHOOSE k \in 0..n : Ends(k)
             Begins(k) == /\ k = last + 1 \/ arg[k] # 32
                          /\ \A i \in 1..k-1 : arg[i] = 32
             first == CHOOSE k \in 1..last+1 : Begins(k)
             t == SubSeq(arg, first, last)
  <1>1. /\ arg \in Seq(Chars) /\ n \in Nat /\ n <= LineMax
        /\ \A i \in 1..n-1 : arg[i] # NL
    BY DEF LinePieces
  <1>2. last \in 0..n /\ Ends(last)
    <2> DEFINE S == {k \in 0..n : \A i \in k+1..n : arg[i] \in White}
    <2>1. n \in S /\ S \subseteq Nat
      BY <1>1
    <2>2. PICK k \in S : \A r \in S : k <= r
      <3> HIDE DEF S
      <3> QED BY <2>1, LeastExists
    <2>3. k \in 0..n /\ \A i \in k+1..n : arg[i] \in White
      OBVIOUS
    <2>4. k = 0 \/ arg[k] \notin White
      <3> SUFFICES ASSUME k # 0, arg[k] \in White PROVE FALSE
        OBVIOUS
      <3>1. k - 1 \in 0..n /\ ~(k <= k - 1)
        BY <1>1, <2>3
      <3>2. \A i \in (k-1)+1..n : i = k \/ i \in k+1..n
        BY <1>1, <2>3
      <3>3. k - 1 \in S
        BY <2>3, <3>1, <3>2
      <3> QED BY <2>2, <3>1, <3>3
    <2>5. Ends(k)
      BY <2>3, <2>4
    <2> HIDE DEF Ends
    <2> QED BY <2>3, <2>5
  <1>3. first \in 1..last+1 /\ Begins(first)
    <2> HIDE DEF last
    <2> DEFINE S == {k \in 1..last+1 : \A i \in 1..k-1 : arg[i] = 32}
    <2>1. 1 \in S /\ S \subseteq Int /\ \A q \in S : q <= last + 1
      BY <1>1, <1>2
    <2>2. PICK k \in S : \A r \in S : r <= k
      <3> HIDE DEF S
      <3>1. last + 1 \in Int
        BY <1>1, <1>2
      <3> QED BY <2>1, <3>1, LastExists
    <2>3. k \in 1..last+1 /\ \A i \in 1..k-1 : arg[i] = 32
      OBVIOUS
    <2>4. k = last + 1 \/ arg[k] # 32
      <3> SUFFICES ASSUME k # last + 1, arg[k] = 32 PROVE FALSE
        OBVIOUS
      <3>1. k + 1 \in 1..last+1 /\ ~(k + 1 <= k)
        BY <1>1, <1>2, <2>3
      <3>2. \A i \in 1..(k+1)-1 : i = k \/ i \in 1..k-1
        BY <1>1, <1>2, <2>3
      <3>3. k + 1 \in S
        BY <2>3, <3>1, <3>2
      <3> QED BY <2>2, <3>1, <3>3
    <2>5. Begins(k)
      BY <2>3, <2>4
    <2> HIDE DEF Begins
    <2> QED BY <2>3, <2>5
  <1>4. Trimmed(arg) = t
    BY DEF Trimmed
  <1>5. (last = 0 \/ arg[last] \notin White) /\ (first = last + 1 \/ arg[first] # 32)
    BY <1>2, <1>3
  <1> HIDE DEF first, last
  <1>6. /\ t \in Seq(Chars)
        /\ Len(t) = (last - first) + 1
        /\ \A i \in 1..Len(t) : t[i] = arg[(first - 1) + i] /\ (first - 1) + i \in 1..last
    <2>1. \A i \in first..last : arg[i] \in Chars
      BY <1>1, <1>2, <1>3
    <2>2. last \in Int /\ first \in Int /\ first <= last + 1 /\ 1 <= first
      BY <1>1, <1>2, <1>3
    <2>3. /\ t \in Seq(Chars)
          /\ Len(t) = IF first <= last THEN (last - first) + 1 ELSE 0
          /\ \A i \in 1..(last-first)+1 : t[i] = arg[first+i-1]
      BY <2>1, <2>2, SubSeqProperties
    <2> HIDE DEF t
    <2>4. Len(t) = (last - first) + 1
      BY <2>2, <2>3
    <2>5. \A i \in 1..Len(t) : t[i] = arg[(first - 1) + i] /\ (first - 1) + i \in 1..last
      BY <2>2, <2>3, <2>4
    <2> QED BY <2>3, <2>4, <2>5
  <1> HIDE DEF t
  <1>7. Len(t) <= LineMax
    BY <1>1, <1>2, <1>3, <1>6, LineMaxAssumption
  <1>8. ASSUME NEW i \in 1..Len(t) PROVE t[i] # NL
    <2> DEFINE k == (first - 1) + i
    <2>1. k \in 1..last /\ t[i] = arg[k] /\ last \in 1..n
      BY <1>1, <1>2, <1>6
    <2>2. CASE k = last
      BY <1>5, <2>1, <2>2 DEF White, NL
    <2>3. CASE k # last
      BY <1>1, <2>1, <2>3
    <2> QED BY <2>2, <2>3
  <1>9. Trim(t)
    <2> SUFFICES ASSUME t # <<>> PROVE t[1] # 32 /\ t[Len(t)] \notin White
      BY DEF Trim
    <2>1. Len(t) # 0
      BY <1>6
    <2>2. first <= last /\ last # 0 /\ first # last + 1
      BY <1>1, <1>2, <1>3, <1>6, <2>1
    <2>3. t[1] = arg[first] /\ t[Len(t)] = arg[last]
      BY <1>1, <1>2, <1>3, <1>6, <2>2
    <2> QED BY <1>5, <2>2, <2>3
  <1> QED BY <1>4, <1>6, <1>7, <1>8, <1>9

-----------------------------------------------------------------------------
(* What the variables hold.                                                *)

(* A group whose value is an index may have any.                           *)
Codes ==
    {g \in [op : Bytes, b1 : Bytes, b2 : Bytes, b3 : Bytes, val : Nat] :
        g.op \notin WordOps => g.val < WordSize}

Ids == [op : Bytes, b1 : Bytes, b2 : Bytes, b3 : Bytes, val : {0}] \cup {NoInstruction}

LineOK(l) ==
    /\ l.id.op \in WordOps => l.arg \in LinePieces
    /\ l.id.op \in FunctionOps =>
         l.arg[1] \in Bytes /\ l.arg[2] \in Bytes /\ l.arg[3] \in 0..WordSize-1
    /\ l.id.op \in Bytes \ (WordOps \cup FunctionOps \cup PlainOps) =>
         l.arg[1] \in 0..WordSize-1

TextLines == {l \in [id : Ids, arg : Seq(Nat)] : LineOK(l)}

FileOK(f) ==
    /\ f.code \in Seq(Codes)
    /\ \A h \in Fields : f[h].chars \in Seq(Nat) /\ f[h].entries \in Nat

ScriptOK(s) == s.code \in Seq(Codes) /\ \A f \in Fields : s[f] \in CharWords

MadeOK(m) == m.code \in Seq(Codes) /\ \A f \in Fields : m[f].words \in CharWords

TInv ==
    /\ FileOK(file) /\ ScriptOK(script) /\ MadeOK(made)
    /\ lines \in Seq(TextLines) /\ at \in Nat
    /\ status = "reading" => at = 0 /\ lines = <<>>
    /\ status \in {"reading", "decoding"} => made = NewScript
    /\ status = "decoding" => at <= Len(script.code)
    /\ status \in {"encoding", "written"} => at <= Len(lines)
    /\ status = "written" => copy = WriteFile(made)

LEMMA ReadType ==
    ASSUME NEW section, section.chars \in Seq(Nat)
    PROVE  ReadSection(section) \in CharWords
  <1> DEFINE cs == section.chars
  <1>1. <<>> \in CharWords
    BY DEF CharWords
  <1>2. CASE cs # <<>>
    <2>1. cs \in Seq(Nat) /\ SubSeq(cs, 1, Len(cs) - 1) \in Seq(Nat)
      <3>1. cs \in Seq(Nat)
        OBVIOUS
      <3> HIDE DEF cs
      <3> QED BY <3>1
    <2>2. Parted(cs) \in CharWords /\ Parted(Front(cs)) \in CharWords
      BY <2>1, PartedAppend DEF Front, Rows
    <2>3. Words(cs) \in CharWords
      BY <2>2 DEF Words
    <2> QED BY <1>2, <2>3 DEF ReadSection
  <1>3. CASE cs = <<>>
    BY <1>1, <1>3 DEF ReadSection
  <1> QED BY <1>2, <1>3

LEMMA SectionField == \A op : SectionOf(op) \in Fields
  BY DEF SectionOf, Fields

LEMMA WordThere ==
    ASSUME NEW g \in Codes, NEW s, ScriptOK(s), IndexValid(g, s), g.op \in WordOps
    PROVE  s[SectionOf(g.op)][g.val + 1] \in Seq(Chars)
  <1> DEFINE ws == s[SectionOf(g.op)]
  <1>1. ws \in Seq(Seq(Chars))
    BY SectionField DEF ScriptOK, CharWords
  <1>2. g.val \in Nat /\ g.val < Len(ws)
    BY DEF IndexValid, Codes
  <1> HIDE DEF ws
  <1>3. g.val + 1 \in 1..Len(ws)
    BY <1>1, <1>2
  <1>4. ws[g.val + 1] \in Seq(Chars)
    BY <1>1, <1>3
  <1> QED BY <1>4 DEF ws

Enquoted(w) == <<Quote>> \o w \o <<Quote>>

LEMMA EnquotedType ==
    ASSUME NEW w \in Seq(Chars)
    PROVE  /\ Enquoted(w) \in Seq(Chars) /\ Len(Enquoted(w)) = Len(w) + 2
           /\ Enquoted(w)[1] = Quote /\ Enquoted(w)[Len(w) + 2] = Quote
           /\ \A i \in 1..Len(w) : Enquoted(w)[i + 1] = w[i]
           /\ Len(w) \in Nat
  <1> DEFINE q == <<Quote>>
             a == q \o w
             b == a \o q
  <1>1. q \in Seq(Chars) /\ Len(q) = 1 /\ q[1] = Quote
    BY DEF Chars, Quote
  <1>2. Len(w) \in Nat
    OBVIOUS
  <1> HIDE DEF q
  <1>3. /\ a \in Seq(Chars) /\ Len(a) = Len(w) + 1
        /\ a[1] = Quote
        /\ \A i \in 1..Len(w) : a[i + 1] = w[i]
    <2>1. /\ a \in Seq(Chars) /\ Len(a) = Len(q) + Len(w)
          /\ \A i \in 1..Len(q)+Len(w) : a[i] = IF i <= Len(q) THEN q[i] ELSE w[i - Len(q)]
      BY <1>1, ConcatProperties
    <2> HIDE DEF a
    <2> QED BY <1>1, <1>2, <2>1
  <1> HIDE DEF a
  <1>4. /\ b \in Seq(Chars) /\ Len(b) = Len(w) + 2
        /\ \A i \in 1..Len(w)+1 : b[i] = a[i]
        /\ b[Len(w) + 2] = Quote
    <2>1. /\ b \in Seq(Chars) /\ Len(b) = Len(a) + 1
          /\ \A i \in 1..Len(a)+1 : b[i] = IF i <= Len(a) THEN a[i] ELSE q[i - Len(a)]
      BY <1>1, <1>3, ConcatProperties
    <2> HIDE DEF b
    <2>2. Len(b) = Len(w) + 2 /\ (Len(w) + 2) - Len(a) = 1
      BY <1>2, <1>3, <2>1
    <2>3. \A i \in 1..Len(w)+1 : b[i] = a[i]
      BY <1>2, <1>3, <2>1
    <2>4. b[Len(w) + 2] = Quote
      BY <1>1, <1>2, <1>3, <2>1, <2>2
    <2> QED BY <2>1, <2>2, <2>3, <2>4
  <1>5. b = Enquoted(w)
    BY DEF Enquoted, a, q
  <1> HIDE DEF b
  <1>6. b[1] = Quote
    BY <1>2, <1>3, <1>4
  <1>7. \A i \in 1..Len(w) : b[i + 1] = w[i]
    BY <1>2, <1>3, <1>4
  <1> QED BY <1>2, <1>4, <1>5, <1>6, <1>7

LEMMA Kinds ==
    /\ WordOps \subseteq Bytes /\ FunctionOps \subseteq Bytes
    /\ \A op \in WordOps : op \notin FunctionOps /\ op \notin PlainOps
    /\ NoInstruction.op \notin Bytes
    /\ WordOps = TextOps \cup NameOps \cup PropOps
    /\ \A op \in TextOps : op \notin NameOps \cup PropOps
  BY DEF WordOps, TextOps, NameOps, PropOps, FunctionOps, PlainOps, Bytes, NoInstruction, Group

LEMMA LineType ==
    ASSUME NEW id \in Ids, NEW arg \in Seq(Nat),
           id.op \in WordOps => arg \in LinePieces,
           id.op \in FunctionOps =>
             arg[1] \in Bytes /\ arg[2] \in Bytes /\ arg[3] \in 0..WordSize-1,
           id.op \in Bytes \ (WordOps \cup FunctionOps \cup PlainOps) =>
             arg[1] \in 0..WordSize-1
    PROVE  Line(id, arg) \in TextLines
  BY DEF Line, TextLines, LineOK

(* So is the line that a piece spells.                                     *)
LEMMA SpelledLine ==
    ASSUME NEW p \in DOMAIN Spelled
    PROVE  /\ Spelled[p] \in TextLines
           /\ \E op \in 0..NumNames-1 : Spelled[p].id = Group(op, 0)
  <1> DEFINE l == Spelled[p]
  <1>1. Spells(l)
    BY SpelledAssumption
  <1> HIDE DEF l
  <1>2. PICK op \in 0..NumNames-1 : l.id = Group(op, 0)
    BY <1>1 DEF Spells
  <1>3. op \in Bytes /\ l.id.op = op
    BY <1>2 DEF Group, Bytes, NumNames
  <1>4. l.id \in Ids
    BY <1>2, <1>3 DEF Group, Ids, Bytes
  <1>5. l.arg \in Seq(Nat) /\ l = Line(l.id, l.arg)
    BY <1>1 DEF Spells, Line
  <1>6. ASSUME op \in WordOps PROVE l.arg \in LinePieces
    <2>1. Len(l.arg) <= LineMax /\ Len(l.arg) \in Nat
          /\ \A i \in 1..Len(l.arg) : l.arg[i] # 0 /\ (l.arg[i] = 10 => i = Len(l.arg))
      BY <1>1, <1>3, <1>5, <1>6 DEF Spells
    <2>2. l.arg \in Seq(Chars)
      BY <1>5, <2>1 DEF Chars
    <2>3. \A i \in 1..Len(l.arg)-1 : l.arg[i] # NL
      BY <2>1 DEF NL
    <2> QED BY <2>1, <2>2, <2>3 DEF LinePieces
  <1>7. op \in FunctionOps =>
          l.arg[1] \in Bytes /\ l.arg[2] \in Bytes /\ l.arg[3] \in 0..WordSize-1
    BY <1>1, <1>3 DEF Spells
  <1>8. op \in Bytes \ (WordOps \cup FunctionOps \cup PlainOps) => l.arg[1] \in 0..WordSize-1
    BY <1>1, <1>3 DEF Spells
  <1>9. Line(l.id, l.arg) \in TextLines
    BY <1>3, <1>4, <1>5, <1>6, <1>7, <1>8, LineType
  <1> QED BY <1>2, <1>5, <1>9 DEF l

LEMMA PieceLineType ==
    ASSUME NEW p \in LinePieces
    PROVE  PieceLine(p) \in TextLines
  <1>1. CASE p \in DOMAIN Spelled
    BY <1>1, SpelledLine DEF PieceLine
  <1>2. CASE p \notin DOMAIN Spelled
    <2>1. p \in Seq(Nat) /\ NoInstruction \in Ids
      BY CharWordLists DEF LinePieces, Ids
    <2>2. NoInstruction.op \notin Bytes
      BY Kinds
    <2>3. NoInstruction.op \notin FunctionOps
      BY <2>2, Kinds
    <2>4. Line(NoInstruction, p) \in TextLines
      BY <2>1, <2>2, <2>3, LineType
    <2> QED BY <1>2, <2>4 DEF PieceLine
  <1> QED BY <1>1, <1>2

LEMMA PieceLines ==
    ASSUME NEW cs \in Seq(Chars), NEW id \in Ids, id.op \in WordOps
    PROVE  WordLines(id, cs) \in Seq(TextLines)
  <1> DEFINE ps == Pieces(cs)
             l(i) == IF i = 1 THEN Line(id, ps[i]) ELSE PieceLine(ps[i])
             ls == [i \in DOMAIN ps |-> l(i)]
  <1>1. ps \in Seq(LinePieces)
    BY PiecesAppend DEF LineRows
  <1>2. WordLines(id, cs) = ls
    BY DEF WordLines
  <1> HIDE DEF ps
  <1>3. ASSUME NEW i \in DOMAIN ps PROVE l(i) \in TextLines
    <2>1. ps[i] \in LinePieces
      BY <1>1
    <2>2. ps[i] \in Seq(Nat)
      BY <2>1, CharWordLists DEF LinePieces
    <2>3. id.op \notin FunctionOps
      BY Kinds
    <2>4. Line(id, ps[i]) \in TextLines
      BY <2>1, <2>2, <2>3, LineType
    <2> QED BY <2>1, <2>4, PieceLineType
  <1>4. ls \in Seq(TextLines)
    <2> HIDE DEF l
    <2>1. DOMAIN ps = 1..Len(ps) /\ Len(ps) \in Nat
      BY <1>1
    <2>2. ls \in [1..Len(ps) -> TextLines]
      BY <1>3, <2>1
    <2> HIDE DEF ls
    <2> QED BY <2>1, <2>2, SeqDef
  <1> QED BY <1>2, <1>4

(* The line of a group whose value is not an index.                        *)
Number(g) == IdNumber(g) % WordSize
Following(v) == (v + 1) % WordSize
ValueOps == BoolOps \cup NumberOps \cup CountOps

LEMMA KindsApart ==
    /\ \A op \in ValueOps : op \notin FloatOps \cup JumpOps \cup FunctionOps \cup PlainOps \cup WordOps
    /\ \A op \in FloatOps : op \notin JumpOps \cup FunctionOps \cup PlainOps \cup WordOps
    /\ \A op \in JumpOps : op \notin FunctionOps \cup PlainOps \cup WordOps
    /\ \A op \in FunctionOps : op \notin PlainOps \cup WordOps
    /\ \A op \in PlainOps : op \notin WordOps
  <1> USE DEF BoolOps, NumberOps, FloatOps, TextOps, NameOps, PropOps, FunctionOps, JumpOps,
              CountOps, PlainOps, WordOps, ValueOps
  <1>1. \A op \in ValueOps : op \notin FloatOps \cup JumpOps \cup FunctionOps \cup PlainOps \cup WordOps
    OBVIOUS
  <1>2. \A op \in FloatOps : op \notin JumpOps \cup FunctionOps \cup PlainOps \cup WordOps
    OBVIOUS
  <1>3. \A op \in JumpOps : op \notin FunctionOps \cup PlainOps \cup WordOps
    OBVIOUS
  <1>4. \A op \in FunctionOps : op \notin PlainOps \cup WordOps
    OBVIOUS
  <1>5. \A op \in PlainOps : op \notin WordOps
    OBVIOUS
  <1> QED BY <1>1, <1>2, <1>3, <1>4, <1>5

LEMMA Decodings ==
    ASSUME NEW g, NEW s
    PROVE  /\ g.op \in TextOps =>
                Decoded(g, s) = WordLines(Id(g), Enquoted(s[SectionOf(g.op)][g.val + 1]))
           /\ g.op \in NameOps \cup PropOps =>
                Decoded(g, s) = WordLines(Id(g), s[SectionOf(g.op)][g.val + 1])
           /\ g.op \in ValueOps => Decoded(g, s) = <<Line(Id(g), <<g.val>>)>>
           /\ g.op \in FloatOps => Decoded(g, s) = <<Line(Id(g), <<SixDigits(g.val)>>)>>
           /\ g.op \in JumpOps => Decoded(g, s) = <<Line(Id(g), <<Following(g.val)>>)>>
           /\ g.op \in FunctionOps =>
                Decoded(g, s) = <<Line(Id(g), <<g.b1, g.b3, Following(g.val)>>)>>
           /\ g.op \in PlainOps => Decoded(g, s) = <<Line(Id(g), <<>>)>>
           /\ g.op \notin KnownOps => Decoded(g, s) = <<Line(UnknownId(g), <<Number(g)>>)>>
  <1>1. /\ g.op \in TextOps =>
             Decoded(g, s) = WordLines(Id(g), Enquoted(s[SectionOf(g.op)][g.val + 1]))
        /\ g.op \in NameOps \cup PropOps =>
             Decoded(g, s) = WordLines(Id(g), s[SectionOf(g.op)][g.val + 1])
    BY Kinds DEF Decoded, Enquoted
  <1>2. g.op \notin WordOps => Decoded(g, s) = <<OtherLine(g)>>
    BY Kinds DEF Decoded
  <1>3. /\ g.op \in ValueOps => OtherLine(g) = Line(Id(g), <<g.val>>)
        /\ g.op \in FloatOps => OtherLine(g) = Line(Id(g), <<SixDigits(g.val)>>)
        /\ g.op \in JumpOps => OtherLine(g) = Line(Id(g), <<Following(g.val)>>)
        /\ g.op \in FunctionOps =>
             OtherLine(g) = Line(Id(g), <<g.b1, g.b3, Following(g.val)>>)
        /\ g.op \in PlainOps => OtherLine(g) = Line(Id(g), <<>>)
        /\ g.op \notin KnownOps => OtherLine(g) = Line(UnknownId(g), <<Number(g)>>)
    BY KindsApart DEF OtherLine, ValueOps, KnownOps, Following, Number
  <1> QED BY <1>1, <1>2, <1>3, KindsApart DEF KnownOps

(* The lines of a group.                                                   *)
LEMMA DecodedType ==
    ASSUME NEW g \in Codes, NEW s, ScriptOK(s), IndexValid(g, s)
    PROVE  Decoded(g, s) \in Seq(TextLines)
  <1> DEFINE word == s[SectionOf(g.op)][g.val + 1]
             next == (g.val + 1) % WordSize
             number == IdNumber(g) % WordSize
  <1>1. /\ g.op \in Bytes /\ g.b1 \in Bytes /\ g.b2 \in Bytes /\ g.b3 \in Bytes
        /\ g.val \in Nat /\ (g.op \notin WordOps => g.val < WordSize)
        /\ Id(g) = [op |-> g.op, b1 |-> 0, b2 |-> 0, b3 |-> 0, val |-> 0]
        /\ Id(g) \in Ids
    BY DEF Codes, Id, Group, Ids, Bytes
  <1>2. CASE g.op \in WordOps
    <2>1. word \in Seq(Chars)
      BY <1>2, WordThere
    <2> HIDE DEF word
    <2>2. WordLines(Id(g), word) \in Seq(TextLines) /\ WordLines(Id(g), Enquoted(word)) \in Seq(TextLines)
      BY <1>1, <1>2, <2>1, EnquotedType, PieceLines
    <2>3. CASE g.op \in TextOps
      BY <2>2, <2>3 DEF Decoded, Enquoted, word
    <2>4. CASE g.op \in NameOps \cup PropOps
      BY <2>2, <2>4, Kinds DEF Decoded, word
    <2> QED BY <1>2, <2>3, <2>4, Kinds
  <1>3. CASE g.op \notin WordOps
    <2> HIDE DEF word
    <2>1. WordSize \in Nat \ {0} /\ g.val \in 0..WordSize-1
      BY <1>1, <1>3, WordSizeAssumption
    <2> HIDE DEF next, number
    <2>2. next \in 0..WordSize-1 /\ number \in 0..WordSize-1
      <3>0. Bytes \subseteq Nat
        BY DEF Bytes
      <3>1. g.op \in Nat /\ g.b1 \in Nat /\ g.b2 \in Nat /\ g.b3 \in Nat /\ g.val + 1 \in Nat
        <4>1. g.val + 1 \in Nat
          BY <1>1
        <4> QED BY <1>1, <3>0, <4>1
      <3>2. \A a, b, c, d \in Nat : a + 256 * (b + 256 * (c + 256 * d)) \in Nat
        OBVIOUS
      <3>3. IdNumber(g) \in Nat
        BY <3>1, <3>2 DEF IdNumber
      <3> QED BY <2>1, <3>1, <3>3 DEF next, number
    <2>3. SixDigits(g.val) \in 0..WordSize-1
      BY <2>1 DEF SixDigits
    <2>4. UnknownId(g) \in Ids
      BY <1>1 DEF UnknownId, WholeId, Codes, Ids
    <2>5. \A l \in TextLines : <<l>> \in Seq(TextLines)
      OBVIOUS
    <2>6. ASSUME NEW v \in 0..WordSize-1, NEW id \in Ids,
                 id.op \notin WordOps, id.op \notin FunctionOps
          PROVE  Line(id, <<v>>) \in TextLines
      <3>1. <<v>> \in Seq(Nat) /\ <<v>>[1] = v
        BY <2>1
      <3> QED BY <2>6, <3>1, LineType
    <2>7. PICK l \in TextLines : Decoded(g, s) = <<l>>
      <3>1. CASE g.op \in ValueOps
        <4>1. Decoded(g, s) = <<Line(Id(g), <<g.val>>)>>
          BY <3>1, Decodings
        <4>2. g.op \notin FunctionOps
          BY <3>1 DEF ValueOps, BoolOps, NumberOps, CountOps, FunctionOps
        <4>3. Line(Id(g), <<g.val>>) \in TextLines
          BY <1>1, <1>3, <2>1, <2>6, <4>2
        <4> QED BY <4>1, <4>3
      <3>2. CASE g.op \in FloatOps
        <4>1. Decoded(g, s) = <<Line(Id(g), <<SixDigits(g.val)>>)>>
          BY <3>2, Decodings
        <4>2. g.op \notin FunctionOps
          BY <3>2 DEF FloatOps, FunctionOps
        <4>3. Line(Id(g), <<SixDigits(g.val)>>) \in TextLines
          BY <1>1, <1>3, <2>3, <2>6, <4>2
        <4> QED BY <4>1, <4>3
      <3>3. CASE g.op \in JumpOps
        <4>1. Decoded(g, s) = <<Line(Id(g), <<next>>)>>
          BY <3>3, Decodings DEF Following, next
        <4>2. g.op \notin FunctionOps
          BY <3>3 DEF JumpOps, FunctionOps
        <4>3. Line(Id(g), <<next>>) \in TextLines
          BY <1>1, <1>3, <2>2, <2>6, <4>2
        <4> QED BY <4>1, <4>3
      <3>4. CASE g.op \in FunctionOps
        <4> DEFINE arg == <<g.b1, g.b3, next>>
        <4>1. Decoded(g, s) = <<Line(Id(g), arg)>>
          BY <3>4, Decodings DEF Following, next
        <4>2. g.b1 \in Nat /\ g.b3 \in Nat /\ next \in Nat
          BY <1>1, <2>1, <2>2 DEF Bytes
        <4>3. /\ arg \in Seq(Nat)
              /\ arg[1] \in Bytes /\ arg[2] \in Bytes /\ arg[3] \in 0..WordSize-1
          BY <1>1, <2>2, <4>2
        <4> HIDE DEF arg
        <4>4. Id(g).op \in FunctionOps /\ Id(g).op \notin WordOps
          BY <1>1, <1>3, <3>4
        <4>5. Line(Id(g), arg) \in TextLines
          BY <1>1, <4>3, <4>4, LineType
        <4> QED BY <4>1, <4>5
      <3>5. CASE g.op \in PlainOps
        <4>1. Decoded(g, s) = <<Line(Id(g), <<>>)>>
          BY <3>5, Decodings
        <4>2. g.op \notin FunctionOps
          BY <3>5 DEF PlainOps, FunctionOps
        <4>3. <<>> \in Seq(Nat)
          OBVIOUS
        <4>4. Line(Id(g), <<>>) \in TextLines
          BY <1>1, <1>3, <3>5, <4>2, <4>3, LineType
        <4> QED BY <4>1, <4>4
      <3>6. CASE g.op \notin KnownOps
        <4>1. Decoded(g, s) = <<Line(UnknownId(g), <<number>>)>>
          BY <3>6, Decodings DEF Number, number
        <4>2. UnknownId(g).op = g.op \/ UnknownId(g).op \notin Bytes
          BY <1>1, Kinds DEF UnknownId, WholeId, Codes
        <4>3. UnknownId(g).op \notin WordOps /\ UnknownId(g).op \notin FunctionOps
          BY <1>3, <3>6, <4>2, Kinds DEF KnownOps
        <4>4. Line(UnknownId(g), <<number>>) \in TextLines
          BY <2>2, <2>4, <2>6, <4>3
        <4> QED BY <4>1, <4>4
      <3> QED BY <1>3, <3>1, <3>2, <3>3, <3>4, <3>5, <3>6 DEF KnownOps, ValueOps
    <2> QED BY <2>5, <2>7
  <1> QED BY <1>2, <1>3

(* A word put into a section.                                              *)
LEMMA AddType ==
    ASSUME NEW pool, pool.words \in CharWords, NEW w \in Seq(Chars)
    PROVE  /\ VsmxAddText(pool, w).words \in CharWords
           /\ IndexOf(pool, w) \in Nat
           /\ IndexOf(pool, w) < Len(VsmxAddText(pool, w).words)
           /\ VsmxAddText(pool, w).words[IndexOf(pool, w) + 1] = w
  <1> DEFINE ws == pool.words
             n == Len(ws)
  <1>1. ws \in Seq(Seq(Chars)) /\ n \in Nat /\ DOMAIN ws = 1..n
    BY DEF CharWords
  <1>2. CASE Has(pool, w)
    <2>1. VsmxAddText(pool, w) = pool
      BY <1>2 DEF VsmxAddText
    <2> DEFINE k == CHOOSE k \in DOMAIN ws : ws[k] = w
    <2>2. IndexOf(pool, w) = k - 1
      BY <1>2 DEF IndexOf
    <2>3. k \in 1..n /\ ws[k] = w
      BY <1>1, <1>2 DEF Has
    <2> HIDE DEF k, ws
    <2> QED BY <1>1, <2>1, <2>2, <2>3 DEF ws, CharWords
  <1>3. CASE ~Has(pool, w)
    <2>1. VsmxAddText(pool, w).words = Append(ws, w)
      BY <1>3 DEF VsmxAddText
    <2>2. IndexOf(pool, w) = n
      BY <1>3 DEF IndexOf
    <2> HIDE DEF n, ws
    <2>3. Append(ws, w) \in Seq(Seq(Chars)) /\ Len(Append(ws, w)) = n + 1 /\ Append(ws, w)[n + 1] = w
      BY <1>1 DEF n
    <2> QED BY <1>1, <2>1, <2>2, <2>3 DEF CharWords
  <1> QED BY <1>2, <1>3

LEMMA UnquotedType ==
    ASSUME NEW arg \in Seq(Chars)
    PROVE  Unquoted(arg) \in Seq(Chars)
  <1>1. CASE Len(arg) = 1
    BY <1>1 DEF Unquoted
  <1>2. CASE Len(arg) # 1
    <2>1. Len(arg) \in Nat /\ Unquoted(arg) = SubSeq(arg, 2, Len(arg) - 1)
      BY <1>2 DEF Unquoted
    <2>2. \A i \in 2..Len(arg)-1 : arg[i] \in Chars
      BY <2>1
    <2> QED BY <2>1, <2>2, SubSeqProperties
  <1> QED BY <1>1, <1>2

(* The word that EncodeWord takes from a line.                             *)
WordOf(l) ==
    IF l.id.op \in TextOps THEN Unquoted(Trimmed(l.arg)) ELSE Trimmed(l.arg)

LEMMA LineThere ==
    ASSUME TInv, Encoding
    PROVE  /\ line \in TextLines /\ at + 1 \in Nat /\ at + 1 <= Len(lines)
           /\ line.id \in Ids /\ line.arg \in Seq(Nat) /\ LineOK(line)
  <1>1. at \in Nat /\ at < Len(lines) /\ lines \in Seq(TextLines)
    BY DEF TInv, Encoding
  <1>2. at + 1 \in 1..Len(lines)
    BY <1>1
  <1>3. line \in TextLines
    BY <1>1, <1>2 DEF line
  <1> QED BY <1>1, <1>2, <1>3 DEF TextLines

LEMMA WordOfType ==
    ASSUME TInv, Encoding, line.id.op \in WordOps
    PROVE  WordOf(line) \in Seq(Chars)
  <1>1. line.arg \in LinePieces
    BY LineThere DEF LineOK
  <1>2. Trimmed(line.arg) \in Seq(Chars)
    BY <1>1, TrimmedPiece
  <1> QED BY <1>2, UnquotedType DEF WordOf

(* What EncodeWord and EncodeOther make, field by field.                   *)
LEMMA EncodeWordMade ==
    ASSUME IInv, EncodeWord
    PROVE  LET field == SectionOf(line.id.op)
               w == WordOf(line)
           IN /\ made'.code = Append(made.code, Group(line.id.op, IndexOf(made[field], w)))
              /\ made'[field] = VsmxAddText(made[field], w)
              /\ \A h \in Fields \ {field} : made'[h] = made[h]
              /\ field \in Fields /\ line.id.op \in WordOps
  <1> DEFINE field == SectionOf(line.id.op)
             w == WordOf(line)
             g == Group(line.id.op, IndexOf(made[field], w))
  <1>1. made' = [made EXCEPT !.code = Append(@, g), ![field] = VsmxAddText(@, w)]
    BY DEF EncodeWord, WordOf
  <1>2. field \in Fields /\ line.id.op \in WordOps
    BY SectionField DEF EncodeWord
  <1> HIDE DEF field, w, g
  <1>3. field \in {"text", "prop", "names"}
    BY <1>2 DEF Fields
  <1>4. made = [code |-> made.code, text |-> made.text, prop |-> made.prop, names |-> made.names]
    BY DEF IInv
  <1>5. /\ made'.code = Append(made.code, g)
        /\ made'[field] = VsmxAddText(made[field], w)
        /\ \A h \in Fields \ {field} : made'[h] = made[h]
    BY <1>1, <1>3, <1>4 DEF Fields
  <1> QED BY <1>2, <1>5 DEF field, w, g

OtherGroup(l) ==
    CASE l.id.op \in FunctionOps ->
           [l.id EXCEPT !.b1 = l.arg[1], !.b3 = l.arg[2], !.val = Less1(l.arg[3])]
      [] l.id.op \in JumpOps -> [l.id EXCEPT !.val = Less1(l.arg[1])]
      [] l.id.op \in PlainOps -> l.id
      [] OTHER -> [l.id EXCEPT !.val = l.arg[1]]

LEMMA AppendedMade ==
    ASSUME IInv, NEW g, Appended(g)
    PROVE  made'.code = Append(made.code, g) /\ \A h \in Fields : made'[h] = made[h]
  BY DEF Appended, IInv, Fields

LEMMA Less1Type == \A n \in 0..WordSize-1 : Less1(n) \in 0..WordSize-1
  <1> TAKE n \in 0..WordSize-1
  <1>1. WordSize \in Nat \ {0} /\ (n + WordSize) - 1 \in Nat
    BY WordSizeAssumption
  <1> QED BY <1>1 DEF Less1

LEMMA OtherGroupType ==
    ASSUME TInv, Encoding, line.id # NoInstruction, line.id.op \notin WordOps
    PROVE  OtherGroup(line) \in Codes
  <1> DEFINE id == line.id
             arg == line.arg
  <1>1. /\ id \in [op : Bytes, b1 : Bytes, b2 : Bytes, b3 : Bytes, val : {0}]
        /\ LineOK(line) /\ WordSize \in Nat \ {0}
    BY LineThere, WordSizeAssumption DEF Ids
  <1>2. \A v \in 0..WordSize-1 : [id EXCEPT !.val = v] \in Codes
    BY <1>1 DEF Codes
  <1>3. CASE id.op \in FunctionOps
    <2>1. OtherGroup(line) = [id EXCEPT !.b1 = arg[1], !.b3 = arg[2], !.val = Less1(arg[3])]
      BY <1>3, KindsApart DEF OtherGroup
    <2>2. arg[1] \in Bytes /\ arg[2] \in Bytes /\ Less1(arg[3]) \in 0..WordSize-1
      BY <1>1, <1>3, Less1Type DEF LineOK
    <2> DEFINE new == [op |-> id.op, b1 |-> arg[1], b2 |-> id.b2, b3 |-> arg[2],
                       val |-> Less1(arg[3])]
    <2>3. OtherGroup(line) = new
      BY <1>1, <2>1
    <2>4. /\ new.op = id.op /\ new.val = Less1(arg[3])
          /\ new \in [op : Bytes, b1 : Bytes, b2 : Bytes, b3 : Bytes, val : Nat]
      <3>1. id.op \in Bytes /\ id.b2 \in Bytes /\ Less1(arg[3]) \in Nat
        BY <1>1, <2>2
      <3> QED BY <2>2, <3>1
    <2>5. new.val < WordSize
      BY <1>1, <2>2, <2>4
    <2> HIDE DEF new
    <2> QED BY <2>3, <2>4, <2>5 DEF Codes
  <1>4. CASE id.op \in JumpOps
    <2>1. OtherGroup(line) = [id EXCEPT !.val = Less1(arg[1])]
      BY <1>4, KindsApart DEF OtherGroup
    <2>2. arg[1] \in 0..WordSize-1
      BY <1>1, <1>4, KindsApart DEF LineOK
    <2> QED BY <1>2, <2>1, <2>2, Less1Type
  <1>5. CASE id.op \in PlainOps
    <2>1. OtherGroup(line) = id
      BY <1>5, KindsApart DEF OtherGroup
    <2> HIDE DEF id
    <2> QED BY <1>1, <2>1 DEF Codes
  <1>6. CASE id.op \notin FunctionOps \cup JumpOps \cup PlainOps
    <2>1. OtherGroup(line) = [id EXCEPT !.val = arg[1]]
      BY <1>6 DEF OtherGroup
    <2>2. arg[1] \in 0..WordSize-1
      BY <1>1, <1>6 DEF LineOK
    <2> QED BY <1>2, <2>1, <2>2
  <1> QED BY <1>3, <1>4, <1>5, <1>6

LEMMA WordGroup == \A op \in WordOps, n \in Nat : Group(op, n) \in Codes
  <1> TAKE op \in WordOps, n \in Nat
  <1>1. op \in Bytes /\ 0 \in Bytes
    BY Kinds DEF Bytes
  <1>2. Group(op, n) \in [op : Bytes, b1 : Bytes, b2 : Bytes, b3 : Bytes, val : Nat]
    BY <1>1 DEF Group
  <1>3. Group(op, n).op = op
    BY DEF Group
  <1> QED BY <1>2, <1>3 DEF Codes

LEMMA EncodeOtherMade ==
    ASSUME IInv, EncodeOther
    PROVE  /\ made'.code = Append(made.code, OtherGroup(line))
           /\ \A h \in Fields : made'[h] = made[h]
           /\ line.id # NoInstruction /\ line.id.op \notin WordOps
  <1>1. Appended(OtherGroup(line))
    BY DEF EncodeOther, OtherGroup
  <1>2. line.id # NoInstruction /\ line.id.op \notin WordOps
    BY DEF EncodeOther
  <1> QED BY <1>1, <1>2, AppendedMade

LEMMA AppendCode ==
    ASSUME MadeOK(made), NEW g \in Codes, made'.code = Append(made.code, g),
           \A h \in Fields : made'[h].words \in CharWords
    PROVE  MadeOK(made')
  <1>1. made.code \in Seq(Codes)
    BY DEF MadeOK
  <1>2. Append(made.code, g) \in Seq(Codes)
    BY <1>1
  <1> QED BY <1>2 DEF MadeOK

LEMMA MadeType ==
    ASSUME IInv, TInv, [Next]_vars
    PROVE  MadeOK(made')
  <1>0. MadeOK(made)
    BY DEF TInv
  <1>1. CASE UNCHANGED made
    BY <1>0, <1>1
  <1>2. CASE EncodeWord
    <2> DEFINE field == SectionOf(line.id.op)
               w == WordOf(line)
               g == Group(line.id.op, IndexOf(made[field], w))
    <2>1. /\ made'.code = Append(made.code, g)
          /\ made'[field] = VsmxAddText(made[field], w)
          /\ \A h \in Fields \ {field} : made'[h] = made[h]
          /\ field \in Fields /\ line.id.op \in WordOps
      BY <1>2, EncodeWordMade
    <2>2. Encoding
      BY <1>2 DEF EncodeWord
    <2>3. w \in Seq(Chars)
      BY <2>1, <2>2, WordOfType
    <2>4. made[field].words \in CharWords
      BY <1>0, <2>1 DEF MadeOK
    <2> HIDE DEF w, field
    <2>5. made'[field].words \in CharWords /\ IndexOf(made[field], w) \in Nat
      BY <2>1, <2>3, <2>4, AddType
    <2>6. g \in Codes
      BY <2>1, <2>5, WordGroup
    <2>7. \A h \in Fields : made'[h].words \in CharWords
      BY <1>0, <2>1, <2>5 DEF MadeOK
    <2> HIDE DEF g
    <2> QED BY <1>0, <2>1, <2>6, <2>7, AppendCode
  <1>3. CASE EncodeBadString
    <2> DEFINE g == Group(line.id.op, 0)
    <2>1. Appended(g) /\ line.id.op \in WordOps
      BY <1>3 DEF EncodeBadString, WordOps
    <2>2. g \in Codes
      BY <2>1, WordGroup
    <2> HIDE DEF g
    <2>3. made'.code = Append(made.code, g) /\ \A h \in Fields : made'[h] = made[h]
      BY <2>1, AppendedMade
    <2>4. \A h \in Fields : made'[h].words \in CharWords
      BY <1>0, <2>3 DEF MadeOK
    <2> QED BY <1>0, <2>2, <2>3, <2>4, AppendCode
  <1>4. CASE EncodeOther
    <2>1. /\ made'.code = Append(made.code, OtherGroup(line))
          /\ \A h \in Fields : made'[h] = made[h]
          /\ line.id # NoInstruction /\ line.id.op \notin WordOps
      BY <1>4, EncodeOtherMade
    <2>2. OtherGroup(line) \in Codes
      BY <1>4, <2>1, OtherGroupType DEF EncodeOther
    <2>3. \A h \in Fields : made'[h].words \in CharWords
      BY <1>0, <2>1 DEF MadeOK
    <2> QED BY <1>0, <2>1, <2>2, <2>3, AppendCode
  <1>5. CASE Again
    <2>1. made' = NewScript
      BY <1>5 DEF Again
    <2>2. <<>> \in Seq(Codes) /\ <<>> \in CharWords
      BY DEF CharWords
    <2>3. MadeOK(NewScript)
      BY <2>2 DEF MadeOK, NewScript, NewPool, Fields
    <2> QED BY <2>1, <2>3
  <1> QED
    BY <1>1, <1>2, <1>3, <1>4, <1>5
    DEF Next, vars, Read, DecodeGroup, DecodeFails, DecodeEnds, EncodeNothing,
        EncodeFails, Write

(* What is written is a file again, and is read as what was made.          *)
LEMMA CopyBack ==
    ASSUME IInv, MadeOK(made)
    PROVE  LET f == WriteFile(made)
           IN /\ FileOK(f) /\ CanRead(f)
              /\ ReadFile(f) = [code |-> made.code, text |-> made.text.words,
                                prop |-> made.prop.words, names |-> made.names.words]
  <1> DEFINE f == WriteFile(made)
  <1>1. \A h \in Fields : Good(made[h]) /\ made[h].words \in CharWords
    BY DEF IInv, MadeOK, Fields
  <1>2. \A h \in Fields : ReadAs(WriteSection(made[h]), made[h].words)
    BY <1>1, SectionBack
  <1>3. /\ f.version = "VSMX" /\ f.code = made.code
        /\ f.text = WriteSection(made.text) /\ f.prop = WriteSection(made.prop)
        /\ f.names = WriteSection(made.names)
    BY DEF WriteFile
  <1> HIDE DEF f
  <1>4. /\ ReadAs(f.text, made.text.words) /\ ReadAs(f.prop, made.prop.words)
        /\ ReadAs(f.names, made.names.words)
    BY <1>2, <1>3 DEF Fields
  <1>5. FileOK(f)
    BY <1>3, <1>4 DEF FileOK, MadeOK, ReadAs, Fields
  <1>6. CanRead(f)
    BY <1>3, <1>4 DEF CanRead, Versions, ReadAs
  <1>7. ReadFile(f) = [code |-> made.code, text |-> made.text.words,
                       prop |-> made.prop.words, names |-> made.names.words]
    BY <1>3, <1>4 DEF ReadFile, ReadAs
  <1> QED BY <1>5, <1>6, <1>7 DEF f

(* Each variable keeps its type.                                           *)
LEMMA TypeStep ==
    ASSUME IInv, TInv, [Next]_vars
    PROVE  TInv'
  <1>1. MadeOK(made')
    BY MadeType
  <1>2. /\ FileOK(file) /\ ScriptOK(script) /\ MadeOK(made)
        /\ lines \in Seq(TextLines) /\ at \in Nat
    BY DEF TInv
  <1>3. <<>> \in Seq(TextLines) /\ Len(lines) \in Nat /\ Len(script.code) \in Nat
    BY <1>2 DEF ScriptOK
  <1>4. CASE Read
    <2>1. UNCHANGED <<file, at, lines, made>> /\ status = "reading"
      BY <1>4 DEF Read
    <2>2. ScriptOK(script')
      <3>1. CASE CanRead(file)
        <4>1. script' = ReadFile(file)
          BY <1>4, <3>1 DEF Read
        <4>2. \A h \in Fields : ReadSection(file[h]) \in CharWords
          BY <1>2, ReadType DEF FileOK
        <4> QED BY <1>2, <4>1, <4>2 DEF ScriptOK, ReadFile, FileOK, Fields
      <3>2. CASE ~CanRead(file)
        BY <1>2, <1>4, <3>2 DEF Read
      <3> QED BY <3>1, <3>2
    <2>3. status' = "decoding" \/ status' = "refused"
      BY <1>4 DEF Read
    <2>4. at = 0 /\ 0 <= Len(script'.code) /\ made = NewScript
      BY <2>1, <2>2 DEF ScriptOK, TInv
    <2> QED BY <1>1, <1>2, <2>1, <2>2, <2>3, <2>4 DEF TInv
  <1>5. CASE DecodeGroup
    <2> DEFINE g == script.code[at + 1]
    <2>1. /\ status = "decoding" /\ at < Len(script.code) /\ IndexValid(g, script)
          /\ lines' = lines \o Decoded(g, script) /\ at' = at + 1
          /\ UNCHANGED <<status, file, script, made>>
      BY <1>5 DEF DecodeGroup
    <2>2. g \in Codes
      BY <1>2, <2>1 DEF ScriptOK
    <2>3. Decoded(g, script) \in Seq(TextLines)
      BY <1>2, <2>1, <2>2, DecodedType
    <2> HIDE DEF g
    <2>4. lines' \in Seq(TextLines)
      BY <1>2, <2>1, <2>3
    <2>5. at' \in Nat /\ at' <= Len(script'.code)
      BY <1>2, <1>3, <2>1
    <2> QED BY <1>1, <1>2, <2>1, <2>4, <2>5 DEF TInv
  <1>6. CASE DecodeFails \/ EncodeFails
    <2>1. /\ UNCHANGED <<file, script, at, lines, made>>
          /\ status' \in {"failed", "crashed"}
      BY <1>6 DEF DecodeFails, EncodeFails
    <2> QED BY <1>1, <1>2, <2>1 DEF TInv
  <1>7. CASE DecodeEnds
    <2>1. /\ UNCHANGED <<file, script, lines, made>> /\ at' = 0 /\ status' = "encoding"
      BY <1>7 DEF DecodeEnds
    <2>2. 0 \in Nat /\ 0 <= Len(lines)
      BY <1>3
    <2> QED BY <1>1, <1>2, <2>1, <2>2 DEF TInv
  <1>8. CASE EncodeNothing \/ EncodeWord \/ EncodeBadString \/ EncodeOther
    <2>1. /\ UNCHANGED <<status, file, script, lines>> /\ at' = at + 1
          /\ status = "encoding" /\ at < Len(lines)
      BY <1>8 DEF EncodeNothing, EncodeWord, EncodeBadString, EncodeOther, Encoding
    <2>2. at' \in Nat /\ at' <= Len(lines)
      BY <1>2, <1>3, <2>1
    <2> QED BY <1>1, <1>2, <2>1, <2>2 DEF TInv
  <1>9. CASE Write
    <2>1. /\ UNCHANGED <<file, script, at, lines, made>>
          /\ status = "encoding" /\ status' = "written" /\ copy' = WriteFile(made)
      BY <1>9 DEF Write
    <2>2. copy' = WriteFile(made')
      BY <2>1
    <2> QED BY <1>1, <1>2, <2>1, <2>2 DEF TInv
  <1>10. CASE Again
    <2>1. /\ status = "written" /\ status' = "reading" /\ file' = copy
          /\ at' = 0 /\ lines' = <<>> /\ made' = NewScript /\ UNCHANGED script
      BY <1>10 DEF Again
    <2>2. FileOK(file')
      BY <1>2, <2>1, CopyBack DEF TInv
    <2> QED BY <1>1, <1>2, <1>3, <2>1, <2>2 DEF TInv
  <1>11. CASE UNCHANGED vars
    <2>1. UNCHANGED <<status, file, script, at, lines, made, copy>>
      BY <1>11 DEF vars
    <2>2. WriteFile(made)' = WriteFile(made')
      BY DEF WriteFile, WriteSection
    <2> QED BY <1>1, <1>2, <2>1, <2>2 DEF TInv
  <1> QED BY <1>4, <1>5, <1>6, <1>7, <1>8, <1>9, <1>10, <1>11 DEF Next

LEMMA InitTypes == Init => IInv /\ TInv
  <1> SUFFICES ASSUME Init PROVE IInv /\ TInv
    OBVIOUS
  <1>1. IInv
    BY NewPoolGood DEF Init, IInv, NewScript
  <1>2. FileOK(file)
    <2>1. IsFile(file)
      BY FilesAssumption DEF Init
    <2>2. Groups \subseteq Codes
      <3> SUFFICES ASSUME NEW g \in Groups PROVE g \in Codes
        OBVIOUS
      <3>1. WordSize \in Nat \ {0}
        BY WordSizeAssumption
      <3>2. /\ g \in [op : Bytes, b1 : Bytes, b2 : Bytes, b3 : Bytes, val : 0..WordSize-1]
            /\ g.val \in Nat /\ g.val < WordSize
        BY <3>1 DEF Groups
      <3>3. g \in [op : Bytes, b1 : Bytes, b2 : Bytes, b3 : Bytes, val : Nat]
        BY <3>2
      <3> QED BY <3>2, <3>3 DEF Codes
    <2>3. file.code \in Seq(Codes)
      BY <2>1, <2>2 DEF IsFile
    <2> QED BY <2>1, <2>3 DEF IsFile, FileOK, Fields
  <1>3. <<>> \in Seq(Codes) /\ <<>> \in CharWords /\ <<>> \in Seq(TextLines)
    BY DEF CharWords
  <1>4. ScriptOK(script) /\ MadeOK(made)
    BY <1>3 DEF Init, ScriptOK, MadeOK, NoScript, NewScript, NewPool, Fields
  <1>5. TInv
    BY <1>2, <1>3, <1>4 DEF Init, TInv
  <1> QED BY <1>1, <1>5

(* What writeVSMX writes is read by readVSMX, with the same words at the   *)
(* same numbers, whatever words there are.                                 *)
THEOREM WrittenIsRead == Spec => []ReadsBack
  <1>1. IInv /\ TInv /\ [Next]_vars => (IInv /\ TInv)'
    BY Steps, TypeStep
  <1>2. IInv /\ TInv => ReadsBack
    BY CopyBack DEF TInv, ReadsBack, MadeWords
  <1> QED BY InitTypes, <1>1, <1>2, PTL DEF Spec

-----------------------------------------------------------------------------
(* A program that the text can carry.                                      *)

(* A piece that is not too long and has no line end is one line.           *)
LEMMA PiecesWhole ==
    ASSUME NEW cs \in Seq(Chars), Len(cs) <= LineMax, \A i \in 1..Len(cs) : cs[i] # NL
    PROVE  Pieces(cs) = <<cs>>
  <1> DEFINE n == Len(cs)
             u(i) == SubSeq(cs, 1, i)
  <1>1. n \in Nat /\ LineMax \in Nat
    BY LineMaxAssumption
  <1>2. PICK f : /\ f[0] = << <<>> >> /\ f[n] = Pieces(cs)
                 /\ \A i \in 1..n : f[i] = Further(f[i-1], cs[i])
    BY PiecesUpTo
  <1> DEFINE Holds(i) == f[i] = <<u(i)>>
             T == {i \in 0..n : Holds(i)}
  <1>3. 0 \in T
    <2>1. u(0) = <<>>
      BY NoneTaken
    <2>2. f[0] = <<u(0)>>
      BY <1>2, <2>1
    <2>3. Holds(0) /\ 0 \in 0..n
      BY <1>1, <2>2
    <2> HIDE DEF Holds
    <2> QED BY <2>3
  <1>4. ASSUME NEW i \in 1..n, i - 1 \in T PROVE i \in T
    <2> DEFINE v == u(i-1)
               c == cs[i]
    <2>1. u(i) = Append(v, c) /\ v \in Seq(Chars) /\ c \in Chars /\ Len(v) = i - 1
      BY OneMore
    <2>2. \A k \in 1..Len(v) : v[k] = cs[k]
      BY <2>1
    <2>3. f[i] = Further(<<v>>, c)
      BY <1>2, <1>4
    <2>4. Len(v) < LineMax
      BY <1>1, <2>1
    <2>5. v # <<>> => v[Len(v)] # NL
      <3> SUFFICES ASSUME v # <<>> PROVE v[Len(v)] # NL
        OBVIOUS
      <3> HIDE DEF v, c
      <3>1. Len(v) \in 1..Len(v) /\ Len(v) \in 1..n
        BY <1>1, <2>1
      <3> QED BY <2>2, <3>1
    <2> HIDE DEF v, c
    <2>6. ~Full(v)
      BY <1>1, <2>1, <2>4, <2>5 DEF Full, Last
    <2>7. Further(<<v>>, c) = <<Append(v, c)>>
      <3>1. Last(<<v>>) = v /\ Len(<<v>>) = 1 /\ <<v>>[1] = v
        BY DEF Last
      <3>2. [<<v>> EXCEPT ![1] = Append(v, c)] = <<Append(v, c)>>
        OBVIOUS
      <3> QED BY <2>6, <3>1, <3>2 DEF Further
    <2>8. f[i] = <<u(i)>>
      BY <2>1, <2>3, <2>7
    <2> QED BY <1>1, <2>8
  <1>5. 0..n \subseteq T
    <2> HIDE DEF T, n
    <2> QED BY <1>1, <1>3, <1>4, UpTo
  <1>6. f[n] = <<u(n)>> /\ u(n) = cs
    BY <1>1, <1>5, AllTaken
  <1> QED BY <1>2, <1>6

LEMMA OneWordLine ==
    ASSUME NEW cs \in Seq(Chars), Len(cs) <= LineMax, \A i \in 1..Len(cs) : cs[i] # NL,
           NEW id
    PROVE  WordLines(id, cs) = <<Line(id, cs)>>
  <1>1. Pieces(cs) = <<cs>>
    BY PiecesWhole
  <1>2. DOMAIN <<cs>> = 1..1 /\ <<cs>>[1] = cs
    OBVIOUS
  <1> DEFINE l(i) == IF i = 1 THEN Line(id, <<cs>>[i]) ELSE PieceLine(<<cs>>[i])
  <1>3. WordLines(id, cs) = [i \in 1..1 |-> l(i)]
    BY <1>1, <1>2 DEF WordLines
  <1>4. \A i \in 1..1 : l(i) = Line(id, cs)
    BY <1>2
  <1>5. WordLines(id, cs) = [i \in 1..1 |-> Line(id, cs)]
    BY <1>3, <1>4
  <1>6. <<Line(id, cs)>> = [i \in 1..1 |-> Line(id, cs)]
    OBVIOUS
  <1> QED BY <1>5, <1>6

WordFor(g, s) == s[SectionOf(g.op)][g.val + 1]

(* A word that is one line, is trimmed already and is not missing.         *)
FitWord(op, w) ==
    /\ \A i \in 1..Len(w) : w[i] # NL
    /\ op \in TextOps => Len(w) + 2 <= LineMax
    /\ op \notin TextOps => Len(w) <= LineMax /\ w # <<>> /\ Trimmed(w) = w

(* A group that says no more than a line can, but for a value that has no  *)
(* meaning.  Scripts that last are so, and scripts that were text before.  *)
Bare(g) ==
    /\ g.op # NumNames
    /\ g.op < NumNames => g.b2 = 0 /\ (g.op \notin FunctionOps => g.b1 = 0 /\ g.b3 = 0)
    /\ g.op \in PlainOps => g.val = 0

Carried(g, s) ==
    /\ Bare(g)
    /\ g.op \in WordOps /\ IndexValid(g, s) => FitWord(g.op, WordFor(g, s))

(* The line stands for the group.                                          *)
Stands(l, g, s) ==
    /\ IndexValid(g, s)
    /\ l.id = IF g.op > NumNames THEN WholeId(g) ELSE Id(g)
    /\ g.op \in TextOps => l.arg = Enquoted(WordFor(g, s))
    /\ g.op \in NameOps \cup PropOps => l.arg = WordFor(g, s)
    /\ g.op \in ValueOps => l.arg[1] = g.val
    /\ g.op \in FloatOps => l.arg[1] = SixDigits(g.val)
    /\ g.op \in JumpOps => l.arg[1] = Following(g.val)
    /\ g.op \in FunctionOps => l.arg[1] = g.b1 /\ l.arg[2] = g.b3 /\ l.arg[3] = Following(g.val)
    /\ g.op \notin KnownOps => l.arg[1] = Number(g)

LEMMA KnownNames == \A op \in KnownOps : op \in Bytes /\ op < NumNames
  BY DEF KnownOps, BoolOps, NumberOps, FloatOps, WordOps, TextOps, NameOps, PropOps,
         FunctionOps, JumpOps, CountOps, PlainOps, Bytes, NumNames

LEMMA KnownKinds ==
    /\ KnownOps = ValueOps \cup FloatOps \cup WordOps \cup FunctionOps \cup JumpOps \cup PlainOps
    /\ WordOps \subseteq KnownOps
  BY DEF KnownOps, ValueOps

LEMMA LastingCarried ==
    ASSUME NEW g \in Codes, NEW s, ScriptOK(s), Lasting(g, s)
    PROVE  Carried(g, s) /\ IndexValid(g, s) /\ Settled(g) = g
  <1> DEFINE w == WordFor(g, s)
  <1>1. /\ g.op \in KnownOps /\ g.b2 = 0 /\ (g.op \notin FunctionOps => g.b1 = 0 /\ g.b3 = 0)
        /\ g.op \in FloatOps => SixDigits(g.val) = g.val
        /\ g.op \in PlainOps => g.val = 0
    BY DEF Lasting
  <1>2. g.op < NumNames /\ g.op # NumNames
    <2>1. g.op < NumNames /\ g.op \in Bytes
      BY <1>1, KnownNames
    <2> QED BY <2>1 DEF Bytes, NumNames
  <1>3. Bare(g)
    BY <1>1, <1>2 DEF Bare
  <1>4. IndexValid(g, s)
    BY DEF Lasting, IndexValid
  <1>5. ASSUME g.op \in WordOps PROVE FitWord(g.op, w)
    <2>1. LastingWord(g, w)
      BY <1>5 DEF Lasting, WordFor
    <2>2. w \in Seq(Chars)
      BY <1>4, <1>5, WordThere DEF WordFor
    <2> HIDE DEF w
    <2>3. \A i \in 1..Len(w) : w[i] \in Range(w)
      BY <2>2 DEF Range
    <2>4. Len(w) <= LineMax
      BY <2>1, <2>2, LineMaxAssumption DEF LastingWord
    <2> QED BY <2>1, <2>2, <2>3, <2>4 DEF LastingWord, FitWord
  <1>6. Settled(g) = g
    <2>1. CASE g.op \in FloatOps
      <3>1. Settled(g) = [g EXCEPT !.val = g.val]
        BY <1>1, <2>1 DEF Settled
      <3> QED BY <3>1 DEF Codes
    <2>2. CASE g.op \notin FloatOps
      BY <1>1, <2>2 DEF Settled
    <2> QED BY <2>1, <2>2
  <1> QED BY <1>3, <1>4, <1>5, <1>6 DEF Carried

(* A word that a group may carry, and what comes of it.                    *)
LEMMA CarriedWords ==
    ASSUME NEW g \in Codes, NEW s, ScriptOK(s), Carried(g, s), IndexValid(g, s),
           g.op \in WordOps
    PROVE  WordFor(g, s) \in Seq(Chars) /\ FitWord(g.op, WordFor(g, s))
  <1>1. FitWord(g.op, WordFor(g, s))
    BY DEF Carried
  <1>2. WordFor(g, s) \in Seq(Chars)
    BY WordThere DEF WordFor
  <1> QED BY <1>1, <1>2

LEMMA CarriedLine ==
    ASSUME NEW g \in Codes, NEW s, ScriptOK(s), Carried(g, s), IndexValid(g, s)
    PROVE  \E l : Decoded(g, s) = <<l>> /\ Stands(l, g, s)
  <1> DEFINE w == WordFor(g, s)
  <1>0. \A arg : Line(Id(g), arg).id = Id(g) /\ Line(Id(g), arg).arg = arg
    BY DEF Line
  <1>00. g.op \in KnownOps => ~(g.op > NumNames)
    BY KnownNames DEF Bytes, NumNames
  <1>1. CASE g.op \in TextOps
    <2>0. g.op \in KnownOps /\ ~(g.op > NumNames)
      BY <1>1, <1>00, KnownKinds, Kinds
    <2>1. w \in Seq(Chars) /\ Len(w) + 2 <= LineMax /\ \A i \in 1..Len(w) : w[i] # NL
      BY <1>1, CarriedWords, Kinds DEF FitWord
    <2>2. Decoded(g, s) = WordLines(Id(g), Enquoted(w))
      BY <1>1, Decodings DEF WordFor
    <2> HIDE DEF w
    <2> DEFINE e == Enquoted(w)
    <2>3. /\ e \in Seq(Chars) /\ Len(e) = Len(w) + 2 /\ Len(w) \in Nat
          /\ e[1] = Quote /\ e[Len(w) + 2] = Quote
          /\ \A i \in 1..Len(w) : e[i + 1] = w[i]
      BY <2>1, EnquotedType
    <2> HIDE DEF e
    <2>4. \A i \in 1..Len(e) : e[i] # NL
      <3> SUFFICES ASSUME NEW i \in 1..Len(e) PROVE e[i] # NL
        OBVIOUS
      <3>1. i = 1 \/ i = Len(w) + 2 \/ (i - 1 \in 1..Len(w) /\ (i - 1) + 1 = i)
        BY <2>3
      <3>2. Quote # NL
        BY DEF Quote, NL
      <3> QED BY <2>1, <2>3, <3>1, <3>2
    <2>5. WordLines(Id(g), e) = <<Line(Id(g), e)>>
      BY <2>1, <2>3, <2>4, OneWordLine
    <2>6. g.op \notin NameOps \cup PropOps /\ g.op \notin ValueOps \cup FloatOps
          /\ g.op \notin JumpOps /\ g.op \notin FunctionOps
      BY <1>1, Kinds, KindsApart
    <2>7. Stands(Line(Id(g), e), g, s)
      BY <1>0, <2>0, <2>6 DEF Stands, e, w
    <2> QED BY <2>2, <2>5, <2>7 DEF e
  <1>2. CASE g.op \in NameOps \cup PropOps
    <2>0. g.op \in KnownOps /\ ~(g.op > NumNames)
      BY <1>2, <1>00, KnownKinds, Kinds
    <2>1. w \in Seq(Chars) /\ Len(w) <= LineMax /\ \A i \in 1..Len(w) : w[i] # NL
      BY <1>2, CarriedWords, Kinds DEF FitWord
    <2>2. Decoded(g, s) = WordLines(Id(g), w)
      BY <1>2, Decodings DEF WordFor
    <2>3. g.op \notin TextOps /\ g.op \notin ValueOps \cup FloatOps
          /\ g.op \notin JumpOps /\ g.op \notin FunctionOps
      BY <1>2, Kinds, KindsApart
    <2>4. Stands(Line(Id(g), w), g, s)
      BY <1>0, <2>0, <2>3 DEF Stands
    <2> HIDE DEF w
    <2>6. WordLines(Id(g), w) = <<Line(Id(g), w)>>
      BY <2>1, OneWordLine
    <2> QED BY <2>2, <2>4, <2>6
  <1>3. CASE g.op \in ValueOps \cup FloatOps
    <2> DEFINE v == IF g.op \in FloatOps THEN SixDigits(g.val) ELSE g.val
    <2>0. g.op \in KnownOps /\ ~(g.op > NumNames)
      BY <1>3, <1>00, KnownKinds, Kinds
    <2>1. Decoded(g, s) = <<Line(Id(g), <<v>>)>>
      BY <1>3, Decodings
    <2>2. /\ g.op \notin WordOps /\ g.op \notin JumpOps /\ g.op \notin FunctionOps
          /\ g.op \in ValueOps => g.op \notin FloatOps
      BY <1>3, KindsApart
    <2>3. /\ g.op \in ValueOps => v = g.val
          /\ g.op \in FloatOps => v = SixDigits(g.val)
      BY <2>2
    <2> HIDE DEF v
    <2>4. Stands(Line(Id(g), <<v>>), g, s)
      BY <1>0, <2>0, <2>2, <2>3, Kinds DEF Stands
    <2> QED BY <2>1, <2>4
  <1>4. CASE g.op \in JumpOps
    <2>0. g.op \in KnownOps /\ ~(g.op > NumNames)
      BY <1>4, <1>00, KnownKinds, Kinds
    <2> DEFINE arg == <<Following(g.val)>>
    <2>1. Decoded(g, s) = <<Line(Id(g), arg)>>
      BY <1>4, Decodings
    <2>2. g.op \notin WordOps /\ g.op \notin ValueOps \cup FloatOps /\ g.op \notin FunctionOps
      BY <1>4, KindsApart
    <2>3. arg[1] = Following(g.val)
      OBVIOUS
    <2> HIDE DEF arg
    <2>4. Stands(Line(Id(g), arg), g, s)
      BY <1>0, <2>0, <2>2, <2>3, Kinds DEF Stands
    <2> QED BY <2>1, <2>4
  <1>5. CASE g.op \in FunctionOps
    <2>0. g.op \in KnownOps /\ ~(g.op > NumNames)
      BY <1>5, <1>00, KnownKinds, Kinds
    <2> DEFINE arg == <<g.b1, g.b3, Following(g.val)>>
    <2>1. Decoded(g, s) = <<Line(Id(g), arg)>>
      BY <1>5, Decodings
    <2>2. g.op \notin WordOps /\ g.op \notin ValueOps \cup FloatOps /\ g.op \notin JumpOps
      BY <1>5, KindsApart
    <2>3. arg[1] = g.b1 /\ arg[2] = g.b3 /\ arg[3] = Following(g.val)
      OBVIOUS
    <2> HIDE DEF arg
    <2>4. Stands(Line(Id(g), arg), g, s)
      BY <1>0, <2>0, <2>2, <2>3, Kinds DEF Stands
    <2> QED BY <2>1, <2>4
  <1>6. CASE g.op \in PlainOps
    <2>0. g.op \in KnownOps /\ ~(g.op > NumNames)
      BY <1>6, <1>00, KnownKinds, Kinds
    <2>1. Decoded(g, s) = <<Line(Id(g), <<>>)>>
      BY <1>6, Decodings
    <2>2. /\ g.op \notin WordOps /\ g.op \notin ValueOps \cup FloatOps
          /\ g.op \notin JumpOps /\ g.op \notin FunctionOps
      BY <1>6, KindsApart
    <2>3. Stands(Line(Id(g), <<>>), g, s)
      BY <1>0, <2>0, <2>2, Kinds DEF Stands
    <2> QED BY <2>1, <2>3
  <1>7. CASE g.op \notin KnownOps
    <2> DEFINE arg == <<Number(g)>>
    <2>1. Decoded(g, s) = <<Line(UnknownId(g), arg)>>
      BY <1>7, Decodings
    <2>2. g.op \notin WordOps /\ g.op \notin ValueOps \cup FloatOps
          /\ g.op \notin JumpOps /\ g.op \notin FunctionOps
      BY <1>7, KnownKinds
    <2>3. arg[1] = Number(g)
      OBVIOUS
    <2>4. UnknownId(g) = IF g.op > NumNames THEN WholeId(g) ELSE Id(g)
      <3>1. g.op \in Bytes /\ g.op # NumNames
        BY DEF Codes, Carried, Bare
      <3>2. g.op < NumNames \/ g.op > NumNames
        BY <3>1 DEF Bytes, NumNames
      <3>3. ~(g.op < NumNames /\ g.op > NumNames)
        BY <3>1 DEF Bytes, NumNames
      <3> QED BY <3>1, <3>2, <3>3 DEF UnknownId
    <2> DEFINE l == Line(UnknownId(g), arg)
    <2>5. l.id = UnknownId(g) /\ l.arg = arg
      BY DEF Line
    <2> HIDE DEF arg, l
    <2>6. Stands(l, g, s)
      BY <2>2, <2>3, <2>4, <2>5, Kinds DEF Stands
    <2> QED BY <2>1, <2>6 DEF l
  <1> QED BY <1>1, <1>2, <1>3, <1>4, <1>5, <1>6, <1>7, Kinds, KnownKinds

(* The words of what is made, and when a made group means what another of  *)
(* the script does: its index is one of a word there.                      *)
WordsIn(m) == [text |-> m.text.words, prop |-> m.prop.words, names |-> m.names.words]

Held(g, h, m, s) ==
    /\ Meaning(g, WordsIn(m)) = Meaning(h, s)
    /\ g.op \in WordOps => g.val < Len(m[SectionOf(g.op)].words)

LinesStand(ls, s, n) == Len(ls) = n /\ \A i \in 1..n : Stands(ls[i], s.code[i], s)

Kept(m, s, n) == Len(m.code) = n /\ \A i \in 1..n : Held(m.code[i], Settled(s.code[i]), m, s)

AllCarried(s) == \A i \in 1..Len(s.code) : Carried(s.code[i], s)

PInv ==
    status # "reading" /\ AllCarried(script) =>
        /\ status = "decoding" => LinesStand(lines, script, at)
        /\ status \in {"encoding", "written"} =>
             LinesStand(lines, script, Len(script.code)) /\ Kept(made, script, at)

LEMMA WordsInField == \A m, f : f \in Fields => WordsIn(m)[f] = m[f].words
  BY DEF WordsIn, Fields

(* Words behind those there are change no meaning.                         *)
LEMMA MeaningGrows ==
    ASSUME NEW m, MadeOK(m), NEW q, MadeOK(q),
           \A f \in Fields : IsPrefix(m[f].words, q[f].words),
           NEW g \in Codes, NEW h, NEW s, Held(g, h, m, s)
    PROVE  Held(g, h, q, s)
  <1>1. CASE g.op \notin WordOps
    BY <1>1 DEF Held, Meaning
  <1>2. CASE g.op \in WordOps
    <2> DEFINE f == SectionOf(g.op)
               a == m[f].words
               b == q[f].words
               k == g.val + 1
    <2>1. f \in Fields /\ a \in CharWords /\ b \in CharWords /\ IsPrefix(a, b)
      BY SectionField DEF MadeOK
    <2>2. WordsIn(m)[f] = a /\ WordsIn(q)[f] = b
      BY <2>1, WordsInField
    <2>3. g.val \in Nat /\ g.val < Len(a)
      BY <1>2 DEF Held, Codes
    <2>4. Meaning(g, WordsIn(m)) = [group |-> Id(g), word |-> a[k]]
          /\ Meaning(g, WordsIn(q)) = [group |-> Id(g), word |-> b[k]]
      BY <1>2, <2>2 DEF Meaning
    <2> HIDE DEF a, b, f
    <2>5. a \in Seq(Seq(Chars)) /\ b \in Seq(Seq(Chars))
      BY <2>1 DEF CharWords
    <2>6. /\ Len(a) \in Nat /\ Len(b) \in Nat /\ Len(a) <= Len(b)
          /\ SubSeq(a, 1, Len(a)) = SubSeq(b, 1, Len(a))
      BY <2>1, <2>5 DEF IsPrefix
    <2>7. k \in 1..Len(a)
      BY <2>3, <2>6
    <2>8. a[k] = SubSeq(a, 1, Len(a))[k] /\ b[k] = SubSeq(b, 1, Len(a))[k]
      <3> HIDE DEF k
      <3>1. \A i \in 1..Len(a) : a[i] \in Seq(Chars) /\ b[i] \in Seq(Chars)
        BY <2>5, <2>6
      <3>2. SubSeq(a, 1, Len(a))[k] = a[k]
        BY <2>6, <2>7, <3>1, SubSeqProperties
      <3>3. SubSeq(b, 1, Len(a))[k] = b[k]
        BY <2>6, <2>7, <3>1, SubSeqProperties
      <3> QED BY <3>2, <3>3
    <2>9. a[k] = b[k] /\ g.val < Len(b)
      BY <2>3, <2>6, <2>8
    <2> QED BY <1>2, <2>4, <2>9 DEF Held, a, b, f
  <1> QED BY <1>1, <1>2

(* One more group is made.                                                 *)
LEMMA KeptStep ==
    ASSUME NEW m, MadeOK(m), NEW q, MadeOK(q),
           \A f \in Fields : IsPrefix(m[f].words, q[f].words),
           NEW g \in Codes, q.code = Append(m.code, g),
           NEW s, NEW n \in Nat, Kept(m, s, n), Held(g, Settled(s.code[n + 1]), q, s)
    PROVE  Kept(q, s, n + 1)
  <1>1. m.code \in Seq(Codes) /\ Len(m.code) = n
    BY DEF MadeOK, Kept
  <1>2. /\ Len(q.code) = n + 1 /\ q.code[n + 1] = g
        /\ \A i \in 1..n : q.code[i] = m.code[i] /\ m.code[i] \in Codes
    BY <1>1
  <1>3. ASSUME NEW i \in 1..n PROVE Held(q.code[i], Settled(s.code[i]), q, s)
    <2>1. Held(m.code[i], Settled(s.code[i]), m, s)
      BY DEF Kept
    <2>2. Held(m.code[i], Settled(s.code[i]), q, s)
      BY <1>2, <2>1, MeaningGrows
    <2> QED BY <1>2, <2>2
  <1>4. ASSUME NEW i \in 1..n+1 PROVE Held(q.code[i], Settled(s.code[i]), q, s)
    <2>1. i \in 1..n \/ i = n + 1
      OBVIOUS
    <2> QED BY <1>2, <1>3, <2>1
  <1> QED BY <1>2, <1>4 DEF Kept

LEMMA StandsOp ==
    ASSUME NEW h \in Codes, NEW s, NEW l, Stands(l, h, s)
    PROVE  l.id.op = h.op
  <1>1. WholeId(h).op = h.op
    BY DEF WholeId, Codes
  <1>2. Id(h).op = h.op
    BY DEF Id, Group
  <1> QED BY <1>1, <1>2 DEF Stands

(* What is read of the line of a word, and of another.                     *)
LEMMA WordReadBack ==
    ASSUME NEW h \in Codes, NEW s, ScriptOK(s), Carried(h, s), h.op \in WordOps,
           NEW l, Stands(l, h, s)
    PROVE  /\ WordOf(l) = WordFor(h, s) /\ WordFor(h, s) \in Seq(Chars)
           /\ l.id.op = h.op
           /\ Trimmed(l.arg) # <<>>
           /\ h.op \in TextOps => Quoted(Trimmed(l.arg))
  <1> DEFINE w == WordFor(h, s)
  <1>1. l.id.op = h.op
    BY StandsOp
  <1>2. w \in Seq(Chars) /\ (h.op \notin TextOps => w # <<>> /\ Trimmed(w) = w)
    BY CarriedWords DEF Stands, FitWord
  <1>3. CASE h.op \in TextOps
    <2> DEFINE e == Enquoted(w)
    <2>1. l.arg = e
      BY <1>3 DEF Stands
    <2>2. /\ e \in Seq(Chars) /\ Len(e) = Len(w) + 2 /\ Len(w) \in Nat
          /\ e[1] = Quote /\ e[Len(w) + 2] = Quote
          /\ \A i \in 1..Len(w) : e[i + 1] = w[i]
      BY <1>2, EnquotedType
    <2> HIDE DEF e, w
    <2>3. Quote # 32 /\ Quote \notin White
      BY DEF Quote, White
    <2>4. Trim(e)
      BY <2>2, <2>3 DEF Trim
    <2>5. Trimmed(e) = e
      BY <2>2, <2>4, TrimmedSame
    <2>6. Last(e) = Quote /\ Quoted(e) /\ e # <<>>
      BY <2>2 DEF Quoted, Last
    <2>7. Unquoted(e) = SubSeq(e, 2, Len(w) + 1)
      BY <2>2 DEF Unquoted
    <2>8. /\ SubSeq(e, 2, Len(w) + 1) \in Seq(Chars)
          /\ Len(SubSeq(e, 2, Len(w) + 1)) = Len(w)
          /\ \A i \in 1..Len(w) : SubSeq(e, 2, Len(w) + 1)[i] = e[i + 1]
      <3>1. \A i \in 2..Len(w)+1 : e[i] \in Chars
        BY <2>2
      <3> QED BY <2>2, <3>1, SubSeqProperties
    <2>9. SubSeq(e, 2, Len(w) + 1) = w
      <3> DEFINE t == SubSeq(e, 2, Len(w) + 1)
      <3>1. t \in Seq(Chars) /\ Len(t) = Len(w) /\ \A i \in 1..Len(w) : t[i] = w[i]
        BY <2>2, <2>8
      <3> HIDE DEF t
      <3>2. t = w
        BY <1>2, <3>1, SeqEqual
      <3> QED BY <3>2 DEF t
    <2> QED BY <1>1, <1>2, <1>3, <2>1, <2>5, <2>6, <2>7, <2>9 DEF WordOf, w
  <1>4. CASE h.op \notin TextOps
    <2>1. l.arg = w
      BY <1>4, Kinds DEF Stands
    <2> HIDE DEF w
    <2>2. Trimmed(l.arg) = w /\ w # <<>>
      BY <1>2, <1>4, <2>1
    <2> QED BY <1>1, <1>2, <1>4, <2>2 DEF WordOf, w
  <1> QED BY <1>3, <1>4

LEMMA Less1Following == \A v \in 0..WordSize-1 : Less1(Following(v)) = v
  <1> TAKE v \in 0..WordSize-1
  <1>1. WordSize \in Nat \ {0} /\ v \in Nat
    BY WordSizeAssumption
  <1>2. CASE v = WordSize - 1
    <2>1. (v + 1) % WordSize = 0
      BY <1>1, <1>2
    <2>2. ((0 + WordSize) - 1) % WordSize = WordSize - 1
      BY <1>1
    <2> QED BY <1>1, <1>2, <2>1, <2>2 DEF Less1, Following
  <1>3. CASE v # WordSize - 1
    <2>1. (v + 1) % WordSize = v + 1
      BY <1>1, <1>3
    <2>2. (v + WordSize) % WordSize = v
      BY <1>1
    <2> QED BY <1>1, <2>1, <2>2 DEF Less1, Following
  <1> QED BY <1>2, <1>3

LEMMA OtherReadBack ==
    ASSUME NEW h \in Codes, NEW s, Carried(h, s), h.op \notin WordOps,
           NEW l, Stands(l, h, s)
    PROVE  OtherGroup(l) = Settled(h)
  <1>1. /\ h = [op |-> h.op, b1 |-> h.b1, b2 |-> h.b2, b3 |-> h.b3, val |-> h.val]
        /\ h.val \in 0..WordSize-1
    <2>1. h \in [op : Bytes, b1 : Bytes, b2 : Bytes, b3 : Bytes, val : Nat] /\ h.val < WordSize
      BY DEF Codes
    <2> QED BY <2>1, WordSizeAssumption
  <1>2. h.op \in KnownOps => l.id = [op |-> h.op, b1 |-> 0, b2 |-> 0, b3 |-> 0, val |-> 0]
    <2>1. h.op \in KnownOps => ~(h.op > NumNames)
      BY KnownNames DEF Bytes, NumNames
    <2> QED BY <2>1 DEF Stands, Id, Group
  <1>3. /\ h.op \in KnownOps => h.b2 = 0 /\ (h.op \notin FunctionOps => h.b1 = 0 /\ h.b3 = 0)
        /\ h.op \in PlainOps => h.val = 0
    BY KnownNames DEF Carried, Bare
  <1>4. l.id.op = h.op
    BY StandsOp
  <1>9. h.op \in KnownOps \ FloatOps => Settled(h) = h
    BY DEF Settled
  <1>5. CASE h.op \in FunctionOps
    <2>1. l.arg[1] = h.b1 /\ l.arg[2] = h.b3 /\ Less1(l.arg[3]) = h.val
      BY <1>1, <1>5, Less1Following DEF Stands
    <2>2. OtherGroup(l) = [l.id EXCEPT !.b1 = h.b1, !.b3 = h.b3, !.val = h.val]
      BY <1>4, <1>5, <2>1, KindsApart DEF OtherGroup
    <2>3. OtherGroup(l) = [op |-> h.op, b1 |-> h.b1, b2 |-> 0, b3 |-> h.b3, val |-> h.val]
      <3> DEFINE id == l.id
      <3>1. /\ id.op = h.op /\ id.b2 = 0
            /\ id \in [op : Bytes, b1 : Bytes, b2 : Bytes, b3 : Bytes, val : {0}]
        <4>1. h.op \in Bytes /\ 0 \in Bytes
          BY DEF Codes, Bytes
        <4> QED BY <1>2, <1>5, <4>1, KnownKinds
      <3>2. h.b1 \in Bytes /\ h.b3 \in Bytes /\ h.val \in Nat
        BY DEF Codes
      <3> HIDE DEF id
      <3>3. OtherGroup(l) = [id EXCEPT !.b1 = h.b1, !.b3 = h.b3, !.val = h.val]
        BY <2>2 DEF id
      <3> DEFINE new == [op |-> id.op, b1 |-> h.b1, b2 |-> id.b2, b3 |-> h.b3, val |-> h.val]
      <3>4. OtherGroup(l) = new
        BY <3>1, <3>2, <3>3
      <3> QED BY <3>1, <3>4
    <2> QED BY <1>1, <1>3, <1>5, <1>9, <2>3, KnownKinds, KindsApart
  <1>6. CASE h.op \in JumpOps
    <2>1. Less1(l.arg[1]) = h.val
      BY <1>1, <1>6, Less1Following DEF Stands
    <2>2. OtherGroup(l) = [l.id EXCEPT !.val = h.val] /\ h.op \notin FunctionOps
      BY <1>4, <1>6, <2>1, KindsApart DEF OtherGroup
    <2>3. h.b1 = 0 /\ h.b2 = 0 /\ h.b3 = 0
      BY <1>3, <1>6, <2>2, KnownKinds
    <2> QED BY <1>1, <1>2, <1>6, <1>9, <2>2, <2>3, KnownKinds, KindsApart
  <1>7. CASE h.op \in PlainOps
    <2>1. OtherGroup(l) = l.id /\ h.op \notin FunctionOps
      BY <1>4, <1>7, KindsApart DEF OtherGroup
    <2> QED BY <1>1, <1>2, <1>3, <1>7, <1>9, <2>1, KnownKinds, KindsApart
  <1>8. CASE h.op \in ValueOps \cup FloatOps
    <2> DEFINE v == IF h.op \in FloatOps THEN SixDigits(h.val) ELSE h.val
    <2>1. /\ h.op \notin FunctionOps \cup JumpOps \cup PlainOps /\ h.op \in KnownOps
          /\ h.op \in ValueOps => h.op \notin FloatOps
      BY <1>8, KindsApart, KnownKinds
    <2>2. l.arg[1] = v
      BY <1>8, <2>1 DEF Stands
    <2>3. Settled(h) = [h EXCEPT !.val = v]
      <3>1. CASE h.op \in FloatOps
        BY <3>1 DEF Settled
      <3>2. CASE h.op \notin FloatOps
        <4>1. Settled(h) = h /\ v = h.val
          BY <1>9, <2>1, <3>2
        <4> HIDE DEF v
        <4> QED BY <1>1, <4>1
      <3> QED BY <3>1, <3>2
    <2> HIDE DEF v
    <2>4. OtherGroup(l) = [l.id EXCEPT !.val = v]
      BY <1>4, <2>1, <2>2 DEF OtherGroup
    <2>5. h.b1 = 0 /\ h.b2 = 0 /\ h.b3 = 0
      BY <1>3, <2>1
    <2> QED BY <1>1, <1>2, <2>1, <2>3, <2>4, <2>5
  <1>10. CASE h.op \notin KnownOps
    <2> DEFINE v == Number(h)
    <2>1. l.arg[1] = v /\ h.op \notin FunctionOps \cup JumpOps \cup PlainOps
      BY <1>10, KnownKinds DEF Stands
    <2> HIDE DEF v
    <2>2. OtherGroup(l) = [l.id EXCEPT !.val = v]
      BY <1>4, <2>1 DEF OtherGroup
    <2>3. Settled(h) = [h EXCEPT !.val = v]
      BY <1>10, KnownKinds DEF Settled, v, Number
    <2>4. l.id = [h EXCEPT !.val = 0]
      <3>1. CASE h.op > NumNames
        BY <3>1 DEF Stands, WholeId
      <3>2. CASE ~(h.op > NumNames)
        <4>1. h.op < NumNames
          BY <3>2 DEF Carried, Bare, Codes, Bytes, NumNames
        <4>2. h.b1 = 0 /\ h.b2 = 0 /\ h.b3 = 0
          BY <1>10, <4>1, KnownKinds DEF Carried, Bare
        <4>3. l.id = [op |-> h.op, b1 |-> 0, b2 |-> 0, b3 |-> 0, val |-> 0]
          BY <3>2 DEF Stands, Id, Group
        <4> QED BY <1>1, <4>2, <4>3
      <3> QED BY <3>1, <3>2
    <2>5. [l.id EXCEPT !.val = v] = [h EXCEPT !.val = v]
      BY <1>1, <2>4
    <2> QED BY <2>2, <2>3, <2>5
  <1> QED BY <1>5, <1>6, <1>7, <1>8, <1>10, KnownKinds

LEMMA LineStanding ==
    ASSUME TInv, Encoding, LinesStand(lines, script, Len(script.code)), AllCarried(script)
    PROVE  LET h == script.code[at + 1]
           IN h \in Codes /\ Carried(h, script) /\ Stands(line, h, script) /\ ScriptOK(script)
  <1>1. ScriptOK(script) /\ at \in Nat /\ at < Len(lines) /\ Len(lines) = Len(script.code)
    BY DEF TInv, Encoding, LinesStand
  <1>2. script.code \in Seq(Codes)
    BY <1>1 DEF ScriptOK
  <1>3. at + 1 \in 1..Len(script.code)
    BY <1>1, <1>2
  <1> QED BY <1>1, <1>2, <1>3 DEF LinesStand, AllCarried, line

(* No line of such a program is ignored or refused.                        *)
LEMMA NoLineFails ==
    ASSUME TInv, Encoding, LinesStand(lines, script, Len(script.code)), AllCarried(script)
    PROVE  ~EncodeNothing /\ ~EncodeFails /\ ~EncodeBadString
  <1> DEFINE h == script.code[at + 1]
  <1>1. h \in Codes /\ Carried(h, script) /\ Stands(line, h, script) /\ ScriptOK(script)
    BY LineStanding
  <1> HIDE DEF h
  <1>2. line.id.op = h.op /\ h.op \in Bytes
    BY <1>1, StandsOp DEF Codes
  <1>3. line.id # NoInstruction
    BY <1>2, Kinds
  <1>4. ASSUME h.op \in WordOps
        PROVE  /\ Trimmed(line.arg) # <<>>
               /\ h.op \in TextOps => Quoted(Trimmed(line.arg))
    BY <1>1, <1>4, WordReadBack
  <1>5. ~EncodeNothing
    BY <1>3 DEF EncodeNothing
  <1>6. ~EncodeFails
    <2>1. line.id.op \in NameOps \cup PropOps => Trimmed(line.arg) # <<>>
      BY <1>2, <1>4, Kinds
    <2> QED BY <1>3, <2>1 DEF EncodeFails
  <1>7. ~EncodeBadString
    <2>1. line.id.op \in TextOps => Quoted(Trimmed(line.arg))
      BY <1>2, <1>4, Kinds
    <2> QED BY <2>1 DEF EncodeBadString
  <1> QED BY <1>5, <1>6, <1>7

(* One line is encoded.                                                    *)
LEMMA EncodeKeeps ==
    ASSUME IInv, TInv, Encoding, LinesStand(lines, script, Len(script.code)),
           AllCarried(script), Kept(made, script, at),
           MadeOK(made'), \A f \in Fields : IsPrefix(made[f].words, made'[f].words),
           EncodeWord \/ EncodeOther
    PROVE  Kept(made', script, at + 1)
  <1> DEFINE h == script.code[at + 1]
  <1>1. h \in Codes /\ Carried(h, script) /\ Stands(line, h, script) /\ ScriptOK(script)
    BY LineStanding
  <1>2. MadeOK(made) /\ at \in Nat
    BY DEF TInv
  <1>3. CASE EncodeWord
    <2> DEFINE f == SectionOf(line.id.op)
               w == WordOf(line)
               k == IndexOf(made[f], w)
               g == Group(line.id.op, k)
    <2>1. /\ made'.code = Append(made.code, g) /\ made'[f] = VsmxAddText(made[f], w)
          /\ f \in Fields /\ line.id.op \in WordOps
      BY <1>3, EncodeWordMade
    <2> HIDE DEF h
    <2>2. line.id.op = h.op
      BY <1>1, StandsOp
    <2>3. w = WordFor(h, script) /\ w \in Seq(Chars)
      BY <1>1, <2>1, <2>2, WordReadBack
    <2>4. k \in Nat /\ k < Len(made'[f].words) /\ made'[f].words[k + 1] = w
      <3>1. made[f].words \in CharWords
        BY <1>2, <2>1 DEF MadeOK
      <3> HIDE DEF w, f
      <3> QED BY <2>1, <2>3, <3>1, AddType
    <2> HIDE DEF w, k
    <2>5. g.op = line.id.op /\ g.val = k /\ Id(g) = Group(line.id.op, 0)
      BY DEF Group, Id
    <2>6. g \in Codes
      BY <2>1, <2>4, WordGroup
    <2> HIDE DEF g, f
    <2>7. SectionOf(g.op) = f /\ g.op \in WordOps /\ SectionOf(h.op) = f /\ h.op \in WordOps
          /\ Id(g) = Id(h)
      BY <2>1, <2>2, <2>5 DEF f, Id
    <2>8. WordsIn(made')[f] = made'[f].words
      BY <2>1, WordsInField
    <2>9. Meaning(g, WordsIn(made')) = [group |-> Id(g), word |-> w]
      BY <2>4, <2>5, <2>7, <2>8 DEF Meaning
    <2>10. Meaning(h, script) = [group |-> Id(h), word |-> w]
      BY <2>3, <2>7 DEF Meaning, WordFor
    <2>11. Settled(h) = h
      BY <2>7, KnownKinds, KindsApart DEF Settled
    <2>12. Held(g, Settled(h), made', script)
      BY <2>4, <2>5, <2>7, <2>9, <2>10, <2>11 DEF Held
    <2> QED BY <1>2, <2>1, <2>6, <2>12, KeptStep DEF h
  <1>4. CASE EncodeOther
    <2> DEFINE g == OtherGroup(line)
    <2>1. made'.code = Append(made.code, g) /\ line.id.op \notin WordOps
      BY <1>4, EncodeOtherMade
    <2> HIDE DEF h
    <2>2. line.id.op = h.op
      BY <1>1, StandsOp
    <2>3. g = Settled(h) /\ g \in Codes
      <3>1. g \in Codes
        BY <1>2, <2>1, <1>4, EncodeOtherMade, OtherGroupType
      <3> QED BY <1>1, <2>1, <2>2, <3>1, OtherReadBack
    <2>4. g.op \notin WordOps
      <3>1. Settled(h).op = h.op
        BY <1>1 DEF Settled, Codes
      <3> QED BY <2>1, <2>2, <2>3, <3>1
    <2>5. Held(g, Settled(h), made', script)
      BY <2>3, <2>4 DEF Held, Meaning
    <2> HIDE DEF g
    <2> QED BY <1>1, <1>2, <2>1, <2>3, <2>5, KeptStep DEF h
  <1> QED BY <1>3, <1>4

(* One group is decoded.                                                   *)
LEMMA DecodeKeeps ==
    ASSUME TInv, DecodeGroup, AllCarried(script), LinesStand(lines, script, at)
    PROVE  LinesStand(lines', script, at + 1)
  <1> DEFINE h == script.code[at + 1]
  <1>1. /\ lines' = lines \o Decoded(h, script) /\ at < Len(script.code) /\ at \in Nat
        /\ lines \in Seq(TextLines) /\ ScriptOK(script)
    BY DEF DecodeGroup, TInv
  <1>2. at + 1 \in 1..Len(script.code) /\ script.code \in Seq(Codes)
    BY <1>1 DEF ScriptOK
  <1>3. h \in Codes /\ Carried(h, script)
    BY <1>2 DEF AllCarried
  <1>4. Len(lines) = at /\ \A i \in 1..at : Stands(lines[i], script.code[i], script)
    BY DEF LinesStand
  <1>5. IndexValid(h, script)
    BY DEF DecodeGroup
  <1> HIDE DEF h
  <1>6. PICK l : Decoded(h, script) = <<l>> /\ Stands(l, h, script)
    BY <1>1, <1>3, <1>5, CarriedLine
  <1>7. <<l>> \in Seq(TextLines) /\ <<l>>[1] = l
    BY <1>1, <1>3, <1>5, <1>6, DecodedType
  <1>8. l \in TextLines
    <2>1. Len(<<l>>) = 1
      OBVIOUS
    <2> QED BY <1>7, <2>1
  <1>9. lines' = Append(lines, l)
    BY <1>1, <1>6, <1>8
  <1>10. /\ Len(lines') = at + 1 /\ lines'[at + 1] = l
         /\ \A i \in 1..at : lines'[i] = lines[i]
    BY <1>1, <1>4, <1>8, <1>9
  <1>11. ASSUME NEW i \in 1..at+1 PROVE Stands(lines'[i], script.code[i], script)
    <2>1. i \in 1..at \/ i = at + 1
      BY <1>1
    <2> QED BY <1>4, <1>6, <1>10, <2>1 DEF h
  <1> QED BY <1>10, <1>11 DEF LinesStand

LEMMA ProgramStep ==
    ASSUME IInv, TInv, PInv, [Next]_vars
    PROVE  PInv'
  <1> SUFFICES ASSUME status' # "reading", AllCarried(script)'
               PROVE  /\ status' = "decoding" => LinesStand(lines, script, at)'
                      /\ status' \in {"encoding", "written"} =>
                           LinesStand(lines, script, Len(script.code))' /\ Kept(made, script, at)'
    BY DEF PInv
  <1>1. /\ MadeOK(made') /\ at \in Nat
        /\ status = "encoding" => \A f \in Fields : IsPrefix(made[f].words, made'[f].words)
    BY MadeType, Steps DEF TInv
  <1>2. CASE Read
    <2>1. UNCHANGED <<at, lines>> /\ at = 0 /\ lines = <<>>
      BY <1>2 DEF Read, TInv
    <2>2. status' = "decoding" \/ status' = "refused"
      BY <1>2 DEF Read
    <2>3. LinesStand(lines, script, at)'
      BY <2>1 DEF LinesStand
    <2> QED BY <2>2, <2>3
  <1>3. ASSUME status # "reading", UNCHANGED script
        PROVE  /\ AllCarried(script)
               /\ status = "decoding" => LinesStand(lines, script, at)
               /\ status \in {"encoding", "written"} =>
                    LinesStand(lines, script, Len(script.code)) /\ Kept(made, script, at)
    <2>1. AllCarried(script)
      BY <1>3 DEF AllCarried
    <2> QED BY <1>3, <2>1 DEF PInv
  <1>4. CASE DecodeGroup
    <2>1. UNCHANGED <<status, script>> /\ status = "decoding" /\ at' = at + 1
      BY <1>4 DEF DecodeGroup
    <2>2. LinesStand(lines', script, at + 1)
      BY <1>3, <1>4, <2>1, DecodeKeeps
    <2>3. LinesStand(lines, script, at)'
      BY <2>1, <2>2 DEF LinesStand
    <2> QED BY <2>1, <2>3
  <1>5. CASE DecodeFails
    BY <1>5 DEF DecodeFails
  <1>6. CASE DecodeEnds
    <2>1. /\ UNCHANGED <<lines, script, made>> /\ status = "decoding"
          /\ at = Len(script.code) /\ at' = 0 /\ status' = "encoding" /\ made = NewScript
      BY <1>6 DEF DecodeEnds, TInv
    <2>2. LinesStand(lines, script, Len(script.code))
      BY <1>3, <2>1
    <2>3. LinesStand(lines, script, Len(script.code))'
      BY <2>1, <2>2 DEF LinesStand
    <2>4. Kept(made, script, at)'
      BY <2>1 DEF Kept, NewScript
    <2> QED BY <2>1, <2>3, <2>4
  <1>7. CASE EncodeNothing \/ EncodeFails \/ EncodeBadString
    <2>1. Encoding /\ UNCHANGED script
      BY <1>7 DEF EncodeNothing, EncodeFails, EncodeBadString
    <2>2. LinesStand(lines, script, Len(script.code)) /\ AllCarried(script)
      BY <1>3, <2>1 DEF Encoding
    <2> QED BY <1>7, <2>1, <2>2, NoLineFails
  <1>8. CASE EncodeWord \/ EncodeOther
    <2>1. Encoding /\ UNCHANGED <<status, script, lines>> /\ at' = at + 1
      BY <1>8 DEF EncodeWord, EncodeOther
    <2>2. /\ LinesStand(lines, script, Len(script.code)) /\ AllCarried(script)
          /\ Kept(made, script, at) /\ status = "encoding"
      BY <1>3, <2>1 DEF Encoding
    <2>3. Kept(made', script, at + 1)
      BY <1>1, <1>8, <2>1, <2>2, EncodeKeeps
    <2>4. LinesStand(lines, script, Len(script.code))'
      BY <2>1, <2>2 DEF LinesStand
    <2>5. Kept(made, script, at)'
      BY <2>1, <2>3 DEF Kept, Held, WordsIn
    <2> QED BY <2>1, <2>2, <2>4, <2>5
  <1>9. CASE Write
    <2>1. /\ UNCHANGED <<script, lines, made, at>> /\ status = "encoding" /\ status' = "written"
      BY <1>9 DEF Write
    <2>2. LinesStand(lines, script, Len(script.code)) /\ Kept(made, script, at)
      BY <1>3, <2>1
    <2>3. LinesStand(lines, script, Len(script.code))'
      BY <2>1, <2>2 DEF LinesStand
    <2>4. Kept(made, script, at)'
      BY <2>1, <2>2 DEF Kept, Held, WordsIn
    <2> QED BY <2>1, <2>3, <2>4
  <1>10. CASE Again
    BY <1>10 DEF Again
  <1>11. CASE UNCHANGED vars
    <2>1. UNCHANGED <<status, script, lines, made, at>>
      BY <1>11 DEF vars
    <2>2. LinesStand(lines, script, at) => LinesStand(lines, script, at)'
      BY <2>1 DEF LinesStand
    <2>3. LinesStand(lines, script, Len(script.code)) => LinesStand(lines, script, Len(script.code))'
      BY <2>1 DEF LinesStand
    <2>4. Kept(made, script, at) => Kept(made, script, at)'
      BY <2>1 DEF Kept, Held, WordsIn
    <2> QED BY <1>3, <2>1, <2>2, <2>3, <2>4
  <1> QED BY <1>2, <1>4, <1>5, <1>6, <1>7, <1>8, <1>9, <1>10, <1>11 DEF Next

(* What is kept so is the beginning of the same program.                   *)
LEMMA SameSoFar ==
    ASSUME NEW m, MadeOK(m), NEW s, ScriptOK(s), NEW n \in Nat, Kept(m, s, n), n <= Len(s.code),
           \A i \in 1..n : Settled(s.code[i]) = s.code[i]
    PROVE  Program(m.code, WordsIn(m)) = SubSeq(Program(s.code, s), 1, n)
  <1> DEFINE a == Program(m.code, WordsIn(m))
             b == Program(s.code, s)
             S == {a[i] : i \in 1..n} \cup {b[i] : i \in 1..Len(s.code)}
  <1>1. m.code \in Seq(Codes) /\ s.code \in Seq(Codes) /\ Len(m.code) = n
    BY DEF MadeOK, ScriptOK, Kept
  <1>2. a = [i \in 1..n |-> Meaning(m.code[i], WordsIn(m))]
        /\ b = [i \in 1..Len(s.code) |-> Meaning(s.code[i], s)]
    BY <1>1 DEF Program
  <1>3. \A i \in 1..n : Meaning(m.code[i], WordsIn(m)) = Meaning(s.code[i], s)
    BY DEF Kept, Held
  <1>4. Len(s.code) \in Nat
    BY <1>1
  <1>5. \A i \in 1..n : a[i] = b[i] /\ a[i] \in S /\ b[i] \in S
    BY <1>2, <1>3, <1>4
  <1>6. a \in [1..n -> S]
    BY <1>2, <1>5
  <1> HIDE DEF a, b, S
  <1>7. a \in Seq(S) /\ Len(a) = n
    BY <1>6
  <1>8. /\ SubSeq(b, 1, n) \in Seq(S) /\ Len(SubSeq(b, 1, n)) = n
        /\ \A i \in 1..n : SubSeq(b, 1, n)[i] = b[i]
    BY <1>5, SubSeqProperties
  <1>9. \A i \in 1..Len(a) : a[i] = SubSeq(b, 1, n)[i]
    BY <1>5, <1>7, <1>8
  <1>10. a = SubSeq(b, 1, n)
    BY <1>7, <1>8, <1>9, SeqEqual
  <1> QED BY <1>10 DEF a, b

(* Nothing fails on a script that lasts.                                   *)
AllLasting(s) == \A i \in 1..Len(s.code) : Lasting(s.code[i], s)

NoneFails == status # "reading" /\ AllLasting(script) => status \notin {"failed", "crashed"}

LEMMA AllLastingCarried ==
    ASSUME NEW s, ScriptOK(s), AllLasting(s)
    PROVE  /\ AllCarried(s)
           /\ \A i \in 1..Len(s.code) : IndexValid(s.code[i], s) /\ Settled(s.code[i]) = s.code[i]
  <1>1. ASSUME NEW i \in 1..Len(s.code)
        PROVE  Carried(s.code[i], s) /\ IndexValid(s.code[i], s) /\ Settled(s.code[i]) = s.code[i]
    <2>1. s.code[i] \in Codes
      BY DEF ScriptOK
    <2> QED BY <2>1, LastingCarried DEF AllLasting
  <1> QED BY <1>1 DEF AllCarried

LEMMA NoneFailsStep ==
    ASSUME TInv, PInv, NoneFails, [Next]_vars
    PROVE  NoneFails'
  <1> SUFFICES ASSUME status' # "reading", AllLasting(script)', status' \in {"failed", "crashed"}
               PROVE  FALSE
    BY DEF NoneFails
  <1>1. DecodeFails \/ EncodeFails \/ (UNCHANGED <<status, script>> /\ status # "reading")
    BY DEF Next, vars, Read, DecodeGroup, DecodeEnds, EncodeNothing, EncodeWord,
           EncodeBadString, EncodeOther, Write, Again
  <1>2. UNCHANGED script /\ status # "reading"
    BY <1>1 DEF DecodeFails, EncodeFails, Encoding
  <1>3. AllLasting(script) /\ ScriptOK(script) /\ at \in Nat
    BY <1>2 DEF AllLasting, TInv
  <1>4. status \notin {"failed", "crashed"}
    BY <1>2, <1>3 DEF NoneFails
  <1>5. CASE DecodeFails
    <2>1. at < Len(script.code) /\ ~IndexValid(script.code[at + 1], script)
      BY <1>5 DEF DecodeFails
    <2>2. script.code \in Seq(Codes)
      BY <1>3 DEF ScriptOK
    <2>3. at + 1 \in 1..Len(script.code)
      BY <1>3, <2>1, <2>2
    <2> QED BY <1>3, <2>1, <2>3, AllLastingCarried
  <1>6. CASE EncodeFails
    <2>1. Encoding
      BY <1>6 DEF EncodeFails
    <2>2. AllCarried(script)
      BY <1>3, AllLastingCarried
    <2>3. LinesStand(lines, script, Len(script.code))
      BY <1>2, <2>1, <2>2 DEF PInv, Encoding
    <2> QED BY <1>6, <2>1, <2>2, <2>3, NoLineFails
  <1> QED BY <1>1, <1>2, <1>4, <1>5, <1>6

(* A script that the text can carry comes back as the same program,        *)
(* whatever the script and however its words are numbered: VsmxDecode and  *)
(* VsmxEncode do not fail on it, and each line gives the group it is of.   *)
THEOREM ProgramKept == Spec => []SameProgram
  <1>1. Init => PInv /\ NoneFails
    BY DEF Init, PInv, NoneFails
  <1>2. IInv /\ TInv /\ PInv /\ NoneFails /\ [Next]_vars => (IInv /\ TInv /\ PInv /\ NoneFails)'
    BY Steps, TypeStep, ProgramStep, NoneFailsStep
  <1>3. ASSUME TInv, PInv, NoneFails PROVE SameProgram
    <2> SUFFICES ASSUME status # "reading",
                        \A i \in DOMAIN script.code : Lasting(script.code[i], script)
                 PROVE  /\ status \notin {"failed", "crashed"}
                        /\ status \in {"encoding", "written"} =>
                             Program(made.code, MadeWords) = SubSeq(Program(script.code, script), 1, at)
      BY DEF SameProgram
    <2>1. ScriptOK(script) /\ MadeOK(made) /\ at \in Nat
      BY <1>3 DEF TInv
    <2>2. AllLasting(script)
      BY <2>1 DEF AllLasting, ScriptOK
    <2>3. status \notin {"failed", "crashed"}
      BY <1>3, <2>2 DEF NoneFails
    <2>4. ASSUME status \in {"encoding", "written"}
          PROVE  Program(made.code, MadeWords) = SubSeq(Program(script.code, script), 1, at)
      <3>1. LinesStand(lines, script, Len(script.code)) /\ Kept(made, script, at)
        BY <1>3, <2>1, <2>2, <2>4, AllLastingCarried DEF PInv
      <3>2. at <= Len(script.code)
        BY <1>3, <2>4, <3>1 DEF TInv, LinesStand
      <3>3. MadeWords = WordsIn(made)
        BY DEF MadeWords, WordsIn
      <3>4. \A i \in 1..at : i \in 1..Len(script.code)
        BY <2>1, <3>2 DEF ScriptOK
      <3>5. \A i \in 1..at : Settled(script.code[i]) = script.code[i]
        BY <2>1, <2>2, <3>4, AllLastingCarried
      <3> QED BY <2>1, <3>1, <3>2, <3>3, <3>5, SameSoFar
    <2> QED BY <2>3, <2>4
  <1> QED BY InitTypes, <1>1, <1>2, <1>3, PTL DEF Spec

-----------------------------------------------------------------------------
(* A second round.  What has been made is canonical: its words fit lines,  *)
(* its groups are bare, no word is there twice, and the words are numbered *)
(* in the order in which the groups use them, each by some group.          *)
MadeScript(m) ==
    [code |-> m.code, text |-> m.text.words, prop |-> m.prop.words, names |-> m.names.words]

Fits(f, w) ==
    /\ \A i \in 1..Len(w) : w[i] # NL
    /\ f = "text" => Len(w) + 2 <= LineMax
    /\ f # "text" => Len(w) <= LineMax /\ w # <<>> /\ Trimmed(w) = w

WordsFit(s) == \A f \in Fields : \A k \in 1..Len(s[f]) : Fits(f, s[f][k])

CodeBare(s) == \A i \in 1..Len(s.code) : Bare(s.code[i])

Distinct(s) == \A f \in Fields : \A j, k \in 1..Len(s[f]) : s[f][j] = s[f][k] => j = k

Uses(g, f, k) == g.op \in WordOps /\ SectionOf(g.op) = f /\ g.val = k

UsedIn(code, f, k, n) == \E j \in 1..n : Uses(code[j], f, k)

Numbered(s) ==
    /\ \A i \in 1..Len(s.code), f \in Fields, k \in Nat :
         Uses(s.code[i], f, k + 1) => UsedIn(s.code, f, k, i - 1)
    /\ \A f \in Fields, k \in Nat : k < Len(s[f]) => UsedIn(s.code, f, k, Len(s.code))

LEMMA MadeScriptFields ==
    \A m : /\ MadeScript(m).code = m.code
           /\ \A f \in Fields : MadeScript(m)[f] = m[f].words
  BY DEF MadeScript, Fields

LEMMA SectionKinds ==
    \A op \in WordOps : SectionOf(op) = "text" <=> op \in TextOps
  <1> TAKE op \in WordOps
  <1>1. "names" # "text" /\ "prop" # "text"
    OBVIOUS
  <1> QED BY <1>1 DEF SectionOf

LEMMA CanonicalCarried ==
    ASSUME NEW s, ScriptOK(s), WordsFit(s), CodeBare(s)
    PROVE  AllCarried(s)
  <1> SUFFICES ASSUME NEW i \in 1..Len(s.code) PROVE Carried(s.code[i], s)
    BY DEF AllCarried
  <1> DEFINE g == s.code[i]
             f == SectionOf(g.op)
  <1>1. g \in Codes /\ Bare(g)
    BY DEF ScriptOK, CodeBare
  <1> HIDE DEF g
  <1>2. ASSUME g.op \in WordOps, IndexValid(g, s) PROVE FitWord(g.op, WordFor(g, s))
    <2>1. f \in Fields /\ s[f] \in CharWords
      BY SectionField DEF ScriptOK
    <2>2. g.val \in Nat /\ g.val < Len(s[f]) /\ Len(s[f]) \in Nat
      BY <1>1, <1>2, <2>1 DEF Codes, IndexValid, CharWords
    <2>3. g.val + 1 \in 1..Len(s[f])
      BY <2>2
    <2>4. Fits(f, s[f][g.val + 1])
      BY <2>1, <2>3 DEF WordsFit
    <2>5. f = "text" <=> g.op \in TextOps
      BY <1>2, SectionKinds
    <2> QED BY <2>4, <2>5 DEF Fits, FitWord, WordFor
  <1> QED BY <1>1, <1>2 DEF Carried, g

(* One more group, of a word that has a number or is given the next.       *)
LEMMA NumberedStep ==
    ASSUME NEW s, ScriptOK(s), NEW t, ScriptOK(t), NEW g \in Codes,
           t.code = Append(s.code, g), Numbered(s),
           \A f \in Fields, k \in Nat : Uses(g, f, k) => k <= Len(s[f]),
           \A f \in Fields, k \in Nat : k < Len(t[f]) => k < Len(s[f]) \/ Uses(g, f, k)
    PROVE  Numbered(t)
  <1> DEFINE n == Len(s.code)
             c == s.code
             d == t.code
  <1>1. c \in Seq(Codes) /\ n \in Nat
    BY DEF ScriptOK
  <1>2. Len(d) = n + 1 /\ d[n + 1] = g /\ \A i \in 1..n : d[i] = c[i]
    BY <1>1
  <1>3. ASSUME NEW f \in Fields, NEW k \in Nat, NEW j \in 0..n, UsedIn(c, f, k, j)
        PROVE  UsedIn(d, f, k, j) /\ UsedIn(d, f, k, n + 1)
    <2>1. PICK q \in 1..j : Uses(c[q], f, k)
      BY <1>3 DEF UsedIn
    <2>2. q \in 1..n /\ q \in 1..n+1
      BY <1>1
    <2>3. Uses(d[q], f, k)
      BY <1>2, <2>1, <2>2
    <2> QED BY <2>2, <2>3 DEF UsedIn
  <1>4. ASSUME NEW i \in 1..n+1, NEW f \in Fields, NEW k \in Nat, Uses(d[i], f, k + 1)
        PROVE  UsedIn(d, f, k, i - 1)
    <2>1. CASE i \in 1..n
      <3>1. Uses(c[i], f, k + 1)
        BY <1>2, <1>4, <2>1
      <3>2. UsedIn(c, f, k, i - 1)
        BY <2>1, <3>1 DEF Numbered
      <3>3. i - 1 \in 0..n
        BY <1>1, <2>1
      <3> QED BY <1>3, <3>2, <3>3
    <2>2. CASE i = n + 1
      <3>1. Uses(g, f, k + 1)
        BY <1>2, <1>4, <2>2
      <3>2. k + 1 \in Nat /\ k + 1 <= Len(s[f]) /\ Len(s[f]) \in Nat
        BY <3>1 DEF ScriptOK, CharWords
      <3>3. k < Len(s[f])
        BY <3>2
      <3>4. UsedIn(c, f, k, n)
        BY <3>3 DEF Numbered
      <3>5. n \in 0..n /\ i - 1 = n
        BY <1>1, <2>2
      <3> QED BY <1>3, <3>4, <3>5
    <2> QED BY <1>1, <2>1, <2>2
  <1>5. ASSUME NEW f \in Fields, NEW k \in Nat, k < Len(t[f])
        PROVE  UsedIn(d, f, k, n + 1)
    <2>1. k < Len(s[f]) \/ Uses(g, f, k)
      BY <1>5
    <2>2. CASE k < Len(s[f])
      <3>1. UsedIn(c, f, k, n) /\ n \in 0..n
        BY <1>1, <2>2 DEF Numbered
      <3> QED BY <1>3, <3>1
    <2>3. CASE Uses(g, f, k)
      <3>1. n + 1 \in 1..n+1 /\ Uses(d[n + 1], f, k)
        BY <1>1, <1>2, <2>3
      <3> HIDE DEF n, d
      <3> QED BY <3>1 DEF UsedIn
    <2> QED BY <2>1, <2>2, <2>3
  <1> QED BY <1>2, <1>4, <1>5 DEF Numbered

(* Lines are bare too.                                                     *)
BareLine(l) ==
    /\ l.id.op # NumNames
    /\ l.id.op < NumNames => l.id.b1 = 0 /\ l.id.b2 = 0 /\ l.id.b3 = 0

LinesBare(ls) == \A i \in 1..Len(ls) : BareLine(ls[i])

LEMMA IdBare ==
    ASSUME NEW id, NEW arg, id.op # NumNames,
           id.op < NumNames => id.b1 = 0 /\ id.b2 = 0 /\ id.b3 = 0
    PROVE  BareLine(Line(id, arg))
  BY DEF BareLine, Line

LEMMA WordLinesBare ==
    ASSUME NEW g \in Codes, g.op \in WordOps, NEW cs \in Seq(Chars)
    PROVE  LinesBare(WordLines(Id(g), cs))
  <1> DEFINE ps == Pieces(cs)
             ls == WordLines(Id(g), cs)
  <1>1. ps \in Seq(LinePieces)
    BY PiecesAppend DEF LineRows
  <1>2. ls = [i \in 1..Len(ps) |-> IF i = 1 THEN Line(Id(g), ps[i]) ELSE PieceLine(ps[i])]
        /\ Len(ps) \in Nat
    BY <1>1 DEF WordLines
  <1>3. Id(g).op = g.op /\ Id(g).b1 = 0 /\ Id(g).b2 = 0 /\ Id(g).b3 = 0
    BY DEF Id, Group
  <1>4. NoInstruction.op = -1 /\ NoInstruction.b1 = 0 /\ NoInstruction.b2 = 0
        /\ NoInstruction.b3 = 0
    BY DEF NoInstruction, Group
  <1>5. g.op < NumNames /\ g.op # NumNames
    <2>1. g.op \in Bytes /\ g.op < NumNames
      BY KnownKinds, KnownNames
    <2> QED BY <2>1 DEF Bytes, NumNames
  <1>6. -1 # NumNames
    BY DEF NumNames
  <1> HIDE DEF ps, ls
  <1>7. ASSUME NEW i \in 1..Len(ps) PROVE BareLine(ls[i])
    <2>1. CASE i = 1
      <3>1. ls[i] = Line(Id(g), ps[i])
        BY <1>2, <2>1
      <3> QED BY <1>3, <1>5, <3>1, IdBare
    <2>2. CASE i # 1
      <3>1. ls[i] = PieceLine(ps[i])
        BY <1>2, <2>2
      <3>2. CASE ps[i] \in DOMAIN Spelled
        <4>1. PICK op \in 0..NumNames-1 : Spelled[ps[i]].id = Group(op, 0)
          BY <3>2, SpelledLine
        <4>2. ls[i].id = Group(op, 0)
          BY <3>1, <3>2, <4>1 DEF PieceLine
        <4> QED BY <4>1, <4>2 DEF BareLine, Group, NumNames
      <3>3. CASE ps[i] \notin DOMAIN Spelled
        <4>1. ls[i] = Line(NoInstruction, ps[i])
          BY <3>1, <3>3 DEF PieceLine
        <4> QED BY <1>4, <1>6, <4>1, IdBare
      <3> QED BY <3>2, <3>3
    <2> QED BY <2>1, <2>2
  <1>8. Len(ls) = Len(ps)
    BY <1>2
  <1> QED BY <1>7, <1>8 DEF LinesBare, ls

LEMMA DecodedBare ==
    ASSUME NEW g \in Codes, NEW s, ScriptOK(s), IndexValid(g, s)
    PROVE  LinesBare(Decoded(g, s))
  <1> DEFINE w == WordFor(g, s)
  <1>1. CASE g.op \in WordOps
    <2>1. w \in Seq(Chars)
      BY <1>1, WordThere DEF WordFor
    <2>2. Enquoted(w) \in Seq(Chars)
      BY <2>1, EnquotedType
    <2>3. Decoded(g, s) = WordLines(Id(g), Enquoted(w)) \/ Decoded(g, s) = WordLines(Id(g), w)
      BY <1>1, Kinds, Decodings DEF WordFor
    <2> HIDE DEF w
    <2> QED BY <1>1, <2>1, <2>2, <2>3, WordLinesBare
  <1>2. ASSUME NEW l, Decoded(g, s) = <<l>>, BareLine(l) PROVE LinesBare(Decoded(g, s))
    <2>1. Len(<<l>>) = 1 /\ <<l>>[1] = l
      OBVIOUS
    <2> QED BY <1>2, <2>1 DEF LinesBare
  <1>3. Id(g).op = g.op /\ Id(g).b1 = 0 /\ Id(g).b2 = 0 /\ Id(g).b3 = 0
    BY DEF Id, Group
  <1>4. ASSUME NEW arg, g.op \in KnownOps PROVE BareLine(Line(Id(g), arg))
    <2>1. g.op # NumNames
      BY <1>4, KnownNames DEF Bytes, NumNames
    <2> QED BY <1>3, <1>4, <2>1, IdBare
  <1>5. CASE g.op \in ValueOps \cup FloatOps \cup JumpOps \cup FunctionOps \cup PlainOps
    <2>1. g.op \in KnownOps
      BY <1>5, KnownKinds
    <2>2. \E arg : Decoded(g, s) = <<Line(Id(g), arg)>>
      BY <1>5, Decodings
    <2> QED BY <1>2, <1>4, <2>1, <2>2
  <1>7. CASE g.op \notin KnownOps
    <2> DEFINE id == UnknownId(g)
               arg == <<Number(g)>>
    <2>1. Decoded(g, s) = <<Line(id, arg)>>
      BY <1>7, Decodings
    <2>2. g.op \in Bytes
      BY DEF Codes
    <2>3. \/ id = Id(g) /\ g.op < NumNames
          \/ id = NoInstruction
          \/ id = WholeId(g) /\ g.op > NumNames
      BY <2>2 DEF UnknownId, Bytes, NumNames
    <2>4. WholeId(g).op = g.op
      BY DEF WholeId, Codes
    <2>5. NoInstruction.op = -1 /\ NoInstruction.b1 = 0 /\ NoInstruction.b2 = 0
          /\ NoInstruction.b3 = 0
      BY DEF NoInstruction, Group
    <2>6. -1 # NumNames
      BY DEF NumNames
    <2> HIDE DEF id, arg
    <2>7. /\ id.op # NumNames
          /\ id.op < NumNames => id.b1 = 0 /\ id.b2 = 0 /\ id.b3 = 0
      BY <1>3, <2>2, <2>3, <2>4, <2>5, <2>6 DEF Bytes, NumNames
    <2>8. BareLine(Line(id, arg))
      BY <2>7, IdBare
    <2> QED BY <1>2, <2>1, <2>8
  <1> QED BY <1>1, <1>5, <1>7, KnownKinds

(* What is added fits.                                                     *)
LEMMA AddedFits ==
    ASSUME TInv, Encoding, line.id.op \in WordOps, Trimmed(line.arg) # <<>>,
           line.id.op \in TextOps => Quoted(Trimmed(line.arg))
    PROVE  Fits(SectionOf(line.id.op), WordOf(line))
  <1> DEFINE t == Trimmed(line.arg)
             op == line.id.op
             w == WordOf(line)
  <1>1. line.arg \in LinePieces /\ LineMax \in Nat /\ LineMax >= 2
    BY LineThere, LineMaxAssumption DEF LineOK
  <1>2. t \in Seq(Chars) /\ Len(t) <= LineMax /\ (\A i \in 1..Len(t) : t[i] # NL) /\ Trim(t)
    BY <1>1, TrimmedPiece
  <1>3. Trimmed(t) = t
    BY <1>2, TrimmedSame
  <1>4. SectionOf(op) = "text" <=> op \in TextOps
    BY SectionKinds
  <1>5. w = IF op \in TextOps THEN Unquoted(t) ELSE t
    BY DEF WordOf
  <1>6. t # <<>>
    OBVIOUS
  <1> HIDE DEF t, op, w
  <1>7. ASSUME op \notin TextOps PROVE Fits(SectionOf(op), w)
    BY <1>2, <1>3, <1>4, <1>5, <1>6, <1>7 DEF Fits
  <1>8. ASSUME op \in TextOps PROVE Fits(SectionOf(op), w)
    <2>1. Len(w) + 2 <= LineMax /\ \A i \in 1..Len(w) : w[i] # NL
      <3>1. CASE Len(t) = 1
        <4>1. w = <<>>
          BY <1>5, <1>8, <3>1 DEF Unquoted
        <4> QED BY <1>1, <4>1
      <3>2. CASE Len(t) # 1
        <4> DEFINE n == Len(t) - 1
        <4>1. n \in Nat /\ n >= 1 /\ Len(t) = n + 1
          <5> DEFINE m == Len(t)
          <5>1. m \in Nat /\ m # 0
            BY <1>2, <1>6, EmptySeq
          <5>2. m # 1
            BY <3>2
          <5> HIDE DEF m
          <5>3. m - 1 \in Nat /\ m - 1 >= 1 /\ m = (m - 1) + 1
            BY <5>1, <5>2
          <5> QED BY <5>3 DEF m
        <4>2. w = SubSeq(t, 2, n)
          BY <1>5, <1>8, <3>2 DEF Unquoted
        <4>3. \A i \in 2..n : t[i] \in Chars
          BY <1>2, <4>1
        <4> HIDE DEF n
        <4>4. /\ Len(SubSeq(t, 2, n)) = IF 2 <= n THEN n-2+1 ELSE 0
              /\ \A i \in 1..n-2+1 : SubSeq(t, 2, n)[i] = t[2+i-1]
          BY <4>1, <4>3, SubSeqProperties
        <4>5. Len(w) = n - 1
          BY <4>1, <4>2, <4>4
        <4>6. \A i \in 1..n-1 : w[i] = t[i+1] /\ i + 1 \in 1..Len(t)
          BY <4>1, <4>2, <4>4
        <4> QED BY <1>1, <1>2, <4>1, <4>5, <4>6
      <3> QED BY <3>1, <3>2
    <2> QED BY <1>4, <1>8, <2>1 DEF Fits
  <1>9. Fits(SectionOf(op), w)
    BY <1>7, <1>8
  <1> QED BY <1>9 DEF op, w

LEMMA Added ==
    ASSUME NEW pool, pool.words \in CharWords, NEW w \in Seq(Chars)
    PROVE  \/ /\ VsmxAddText(pool, w).words = pool.words
              /\ IndexOf(pool, w) < Len(pool.words)
           \/ /\ VsmxAddText(pool, w).words = Append(pool.words, w)
              /\ IndexOf(pool, w) = Len(pool.words)
  <1>1. CASE Has(pool, w)
    <2>1. VsmxAddText(pool, w) = pool
      BY <1>1 DEF VsmxAddText
    <2>2. IndexOf(pool, w) < Len(VsmxAddText(pool, w).words)
      BY AddType
    <2> QED BY <2>1, <2>2
  <1>2. CASE ~Has(pool, w)
    BY <1>2 DEF VsmxAddText, IndexOf
  <1> QED BY <1>1, <1>2

LEMMA WordGroupBare ==
    ASSUME NEW op \in WordOps, NEW n
    PROVE  Bare(Group(op, n))
  <1> DEFINE g == Group(op, n)
  <1>1. g.op = op /\ g.b1 = 0 /\ g.b2 = 0 /\ g.b3 = 0
    BY DEF Group
  <1>2. op # NumNames /\ op \notin PlainOps
    <2>1. op \in Bytes /\ op < NumNames
      BY KnownKinds, KnownNames
    <2> QED BY <2>1, KindsApart DEF Bytes, NumNames
  <1> HIDE DEF g
  <1>3. Bare(g)
    BY <1>1, <1>2 DEF Bare
  <1> QED BY <1>3 DEF g

LEMMA OtherBare ==
    ASSUME TInv, Encoding, LinesBare(lines), line.id # NoInstruction, line.id.op \notin WordOps
    PROVE  Bare(OtherGroup(line)) /\ OtherGroup(line).op = line.id.op
  <1> DEFINE l == line
             id == l.id
             g == OtherGroup(l)
  <1>1. /\ id \in [op : Bytes, b1 : Bytes, b2 : Bytes, b3 : Bytes, val : {0}]
        /\ at + 1 \in 1..Len(lines)
    <2>1. id \in Ids /\ id # NoInstruction
      BY LineThere
    <2>2. at \in Nat /\ at + 1 <= Len(lines) /\ Len(lines) \in Nat
      BY LineThere DEF TInv
    <2>3. at + 1 \in 1..Len(lines)
      BY <2>2
    <2> HIDE DEF id
    <2> QED BY <2>1, <2>3 DEF Ids
  <1>2. BareLine(l)
    BY <1>1 DEF LinesBare, line
  <1> HIDE DEF l
  <1>3. CASE id.op \in FunctionOps
    <2>1. g = [id EXCEPT !.b1 = l.arg[1], !.b3 = l.arg[2], !.val = Less1(l.arg[3])]
      BY <1>3, KindsApart DEF OtherGroup
    <2> HIDE DEF g
    <2>2. g.op = id.op /\ g.b2 = id.b2
      BY <1>1, <2>1
    <2>3. id.op \notin PlainOps
      BY <1>3, KindsApart
    <2>4. Bare(g)
      BY <1>2, <1>3, <2>2, <2>3 DEF Bare, BareLine
    <2> QED BY <2>2, <2>4 DEF g, l
  <1>4. CASE id.op \notin FunctionOps
    <2>1. PICK v : /\ g = [id EXCEPT !.val = v]
                   /\ id.op \in PlainOps => v = 0
      <3>1. CASE id.op \in JumpOps
        BY <1>4, <3>1, KindsApart DEF OtherGroup
      <3>2. CASE id.op \in PlainOps
        <4>1. g = id
          BY <1>4, <3>2, KindsApart DEF OtherGroup
        <4>2. id = [id EXCEPT !.val = 0]
          BY <1>1
        <4> HIDE DEF g
        <4> QED BY <4>1, <4>2
      <3>3. CASE id.op \notin JumpOps \cup PlainOps
        <4>1. g = [id EXCEPT !.val = l.arg[1]]
          BY <1>4, <3>3 DEF OtherGroup
        <4> HIDE DEF g
        <4> QED BY <3>3, <4>1
      <3> QED BY <3>1, <3>2, <3>3
    <2> HIDE DEF g
    <2>2. g.op = id.op /\ g.b1 = id.b1 /\ g.b2 = id.b2 /\ g.b3 = id.b3 /\ g.val = v
      BY <1>1, <2>1
    <2>3. Bare(g)
      BY <1>2, <2>1, <2>2 DEF Bare, BareLine
    <2> QED BY <2>2, <2>3 DEF g, l
  <1> QED BY <1>3, <1>4

(* All of what is made, and of the lines it is made of.                    *)
CInv ==
    /\ LinesBare(lines)
    /\ WordsFit(MadeScript(made)) /\ CodeBare(MadeScript(made)) /\ Numbered(MadeScript(made))

LEMMA MadeScriptType ==
    ASSUME NEW m, MadeOK(m)
    PROVE  ScriptOK(MadeScript(m))
  BY MadeScriptFields DEF MadeOK, ScriptOK

LEMMA CodeBareStep ==
    ASSUME NEW s, ScriptOK(s), NEW t, NEW g \in Codes, t.code = Append(s.code, g),
           CodeBare(s), Bare(g)
    PROVE  CodeBare(t)
  <1>1. s.code \in Seq(Codes)
    BY DEF ScriptOK
  <1>2. /\ Len(t.code) = Len(s.code) + 1 /\ t.code[Len(s.code) + 1] = g /\ Len(s.code) \in Nat
        /\ \A i \in 1..Len(s.code) : t.code[i] = s.code[i]
    BY <1>1
  <1>3. \A i \in 1..Len(t.code) : i \in 1..Len(s.code) \/ i = Len(s.code) + 1
    BY <1>2
  <1> QED BY <1>2, <1>3 DEF CodeBare

(* A group is made, and no word.                                           *)
LEMMA OnlyGroup ==
    ASSUME NEW s, ScriptOK(s), NEW t, ScriptOK(t), NEW g \in Codes, t.code = Append(s.code, g),
           \A f \in Fields : t[f] = s[f],
           WordsFit(s), CodeBare(s), Numbered(s), Bare(g), g.op \in WordOps => g.val = 0
    PROVE  WordsFit(t) /\ CodeBare(t) /\ Numbered(t)
  <1>1. WordsFit(t)
    BY DEF WordsFit
  <1>2. CodeBare(t)
    BY CodeBareStep
  <1>3. \A f \in Fields, k \in Nat : Uses(g, f, k) => k <= Len(s[f])
    <2> TAKE f \in Fields, k \in Nat
    <2>1. Len(s[f]) \in Nat
      BY DEF ScriptOK, CharWords
    <2> QED BY <2>1 DEF Uses
  <1>4. \A f \in Fields, k \in Nat : k < Len(t[f]) => k < Len(s[f]) \/ Uses(g, f, k)
    OBVIOUS
  <1>5. Numbered(t)
    BY <1>3, <1>4, NumberedStep
  <1> QED BY <1>1, <1>2, <1>5

LEMMA WordMadeCanonical ==
    ASSUME IInv, TInv, CInv, EncodeWord, MadeOK(made')
    PROVE  WordsFit(MadeScript(made')) /\ CodeBare(MadeScript(made')) /\ Numbered(MadeScript(made'))
  <1> DEFINE F == SectionOf(line.id.op)
             w == WordOf(line)
             k == IndexOf(made[F], w)
             g == Group(line.id.op, k)
             s == MadeScript(made)
             t == MadeScript(made')
  <1>1. /\ made'.code = Append(made.code, g) /\ made'[F] = VsmxAddText(made[F], w)
        /\ \A f \in Fields \ {F} : made'[f] = made[f]
        /\ F \in Fields /\ line.id.op \in WordOps
    BY EncodeWordMade
  <1>2. Encoding /\ MadeOK(made) /\ w \in Seq(Chars)
    BY <1>1, WordOfType DEF EncodeWord, TInv
  <1>3. Fits(F, w)
    BY <1>1, <1>2, AddedFits DEF EncodeWord
  <1>4. made[F].words \in CharWords
    BY <1>1, <1>2 DEF MadeOK
  <1>5. k \in Nat
    BY <1>2, <1>4, AddType
  <1>6. g \in Codes /\ Bare(g) /\ g.op = line.id.op /\ g.val = k
    BY <1>1, <1>5, WordGroup, WordGroupBare DEF Group
  <1>7. ScriptOK(s) /\ ScriptOK(t)
    BY <1>2, MadeScriptType
  <1>8. /\ s.code = made.code /\ t.code = made'.code
        /\ \A f \in Fields : s[f] = made[f].words /\ t[f] = made'[f].words
    BY MadeScriptFields
  <1>9. \/ t[F] = s[F] /\ k < Len(s[F])
        \/ t[F] = Append(s[F], w) /\ k = Len(s[F])
    <2>1. \/ /\ VsmxAddText(made[F], w).words = made[F].words
             /\ k < Len(made[F].words)
          \/ /\ VsmxAddText(made[F], w).words = Append(made[F].words, w)
             /\ k = Len(made[F].words)
      BY <1>2, <1>4, Added
    <2>2. s[F] = made[F].words /\ t[F] = made'[F].words
      BY <1>1, <1>8
    <2> HIDE DEF s, t, k, w, F
    <2> QED BY <1>1, <2>1, <2>2
  <1>10. \A f \in Fields \ {F} : t[f] = s[f]
    BY <1>1, <1>8
  <1>11. WordsFit(s) /\ CodeBare(s) /\ Numbered(s)
    BY DEF CInv
  <1>12. SectionOf(g.op) = F /\ g.op \in WordOps
    BY <1>1, <1>6
  <1>13. t.code = Append(s.code, g)
    BY <1>1, <1>8
  <1> HIDE DEF s, t, g, k, w, F
  <1>14. \A f \in Fields : s[f] \in Seq(Seq(Chars)) /\ Len(s[f]) \in Nat
    BY <1>7 DEF ScriptOK, CharWords
  <1>15. Len(Append(s[F], w)) = Len(s[F]) + 1 /\ Append(s[F], w)[Len(s[F]) + 1] = w
         /\ \A i \in 1..Len(s[F]) : Append(s[F], w)[i] = s[F][i]
    BY <1>1, <1>2, <1>14
  <1>16. WordsFit(t)
    <2> SUFFICES ASSUME NEW f \in Fields, NEW i \in 1..Len(t[f]) PROVE Fits(f, t[f][i])
      BY DEF WordsFit
    <2>1. CASE t[f] = s[f]
      BY <1>11, <2>1 DEF WordsFit
    <2>2. CASE f = F /\ t[F] = Append(s[F], w)
      <3>1. i \in 1..Len(s[F]) \/ i = Len(s[F]) + 1
        BY <1>1, <1>14, <1>15, <2>2
      <3>2. CASE i = Len(s[F]) + 1
        BY <1>3, <1>15, <2>2, <3>2
      <3>3. CASE i \in 1..Len(s[F])
        <4>1. Fits(F, s[F][i])
          BY <1>1, <1>11, <3>3 DEF WordsFit
        <4> QED BY <1>15, <2>2, <3>3, <4>1
      <3> QED BY <3>1, <3>2, <3>3
    <2> QED BY <1>9, <1>10, <2>1, <2>2
  <1>17. CodeBare(t)
    BY <1>6, <1>7, <1>11, <1>13, CodeBareStep
  <1>18. \A f \in Fields, q \in Nat : Uses(g, f, q) => q <= Len(s[f])
    <2> SUFFICES ASSUME NEW f \in Fields, NEW q \in Nat, Uses(g, f, q) PROVE q <= Len(s[f])
      OBVIOUS
    <2>1. f = F /\ q = k
      BY <1>6, <1>12 DEF Uses
    <2> QED BY <1>5, <1>9, <1>14, <2>1
  <1>19. \A f \in Fields, q \in Nat : q < Len(t[f]) => q < Len(s[f]) \/ Uses(g, f, q)
    <2> SUFFICES ASSUME NEW f \in Fields, NEW q \in Nat, q < Len(t[f]), ~(q < Len(s[f]))
                 PROVE  Uses(g, f, q)
      OBVIOUS
    <2>1. f = F /\ t[F] = Append(s[F], w) /\ k = Len(s[F])
      BY <1>9, <1>10
    <2>2. q = k
      BY <1>14, <1>15, <2>1
    <2> QED BY <1>6, <1>12, <2>1, <2>2 DEF Uses
  <1>20. Numbered(t)
    BY <1>6, <1>7, <1>11, <1>13, <1>18, <1>19, NumberedStep
  <1> QED BY <1>16, <1>17, <1>20 DEF t

LEMMA CanonicalStep ==
    ASSUME IInv, TInv, CInv, [Next]_vars
    PROVE  CInv'
  <1> DEFINE Canon(m) == WordsFit(MadeScript(m)) /\ CodeBare(MadeScript(m)) /\ Numbered(MadeScript(m))
  <1>0. MadeOK(made) /\ MadeOK(made') /\ Canon(made)
    BY MadeType DEF TInv, CInv
  <1>1. Canon(made')
    <2>1. CASE UNCHANGED made
      BY <1>0, <2>1
    <2>2. CASE EncodeWord
      BY <1>0, <2>2, WordMadeCanonical
    <2>3. ASSUME NEW g \in Codes, made'.code = Append(made.code, g),
                 \A f \in Fields : made'[f] = made[f], Bare(g), g.op \in WordOps => g.val = 0
          PROVE  Canon(made')
      <3> DEFINE s == MadeScript(made)
                 t == MadeScript(made')
      <3>1. ScriptOK(s) /\ ScriptOK(t)
        BY <1>0, MadeScriptType
      <3>2. t.code = Append(s.code, g) /\ \A f \in Fields : t[f] = s[f]
        BY <2>3, MadeScriptFields
      <3> HIDE DEF s, t
      <3>3. WordsFit(s) /\ CodeBare(s) /\ Numbered(s)
        BY <1>0 DEF s
      <3>4. WordsFit(t) /\ CodeBare(t) /\ Numbered(t)
        BY <2>3, <3>1, <3>2, <3>3, OnlyGroup
      <3> QED BY <3>4 DEF t
    <2>4. CASE EncodeBadString
      <3> DEFINE g == Group(line.id.op, 0)
      <3>1. Appended(g) /\ line.id.op \in TextOps
        BY <2>4 DEF EncodeBadString
      <3>2. g \in Codes /\ Bare(g) /\ g.val = 0
        BY <3>1, Kinds, WordGroup, WordGroupBare DEF Group
      <3> HIDE DEF g
      <3>3. made'.code = Append(made.code, g) /\ \A f \in Fields : made'[f] = made[f]
        BY <3>1, AppendedMade
      <3> QED BY <2>3, <3>2, <3>3
    <2>5. CASE EncodeOther
      <3> DEFINE g == OtherGroup(line)
      <3>1. /\ made'.code = Append(made.code, g) /\ \A f \in Fields : made'[f] = made[f]
            /\ line.id # NoInstruction /\ line.id.op \notin WordOps /\ Encoding
        BY <2>5, EncodeOtherMade DEF EncodeOther
      <3>2. g \in Codes /\ Bare(g) /\ g.op \notin WordOps
        BY <3>1, OtherGroupType, OtherBare DEF CInv
      <3> HIDE DEF g
      <3> QED BY <2>3, <3>1, <3>2
    <2>6. CASE Again
      <3> DEFINE t == MadeScript(NewScript)
      <3>1. t.code = <<>> /\ \A f \in Fields : t[f] = <<>>
        BY DEF MadeScript, NewScript, NewPool, Fields
      <3>2. Len(<<>>) = 0 /\ 1..0 = {}
        OBVIOUS
      <3> HIDE DEF t
      <3>3. WordsFit(t) /\ CodeBare(t)
        BY <3>1, <3>2 DEF WordsFit, CodeBare
      <3>4. Numbered(t)
        BY <3>1, <3>2 DEF Numbered
      <3>5. made' = NewScript
        BY <2>6 DEF Again
      <3> QED BY <3>3, <3>4, <3>5 DEF t
    <2> QED BY <2>1, <2>2, <2>4, <2>5, <2>6
        DEF Next, vars, Read, DecodeGroup, DecodeFails, DecodeEnds, EncodeNothing, EncodeFails, Write
  <1>2. LinesBare(lines')
    <2>1. CASE UNCHANGED lines
      BY <2>1 DEF CInv, LinesBare
    <2>2. CASE DecodeGroup
      <3> DEFINE g == script.code[at + 1]
                 d == Decoded(g, script)
      <3>1. /\ status = "decoding" /\ at < Len(script.code) /\ IndexValid(g, script)
            /\ lines' = lines \o d
        BY <2>2 DEF DecodeGroup
      <3>2. ScriptOK(script) /\ at \in Nat /\ lines \in Seq(TextLines) /\ script.code \in Seq(Codes)
        BY DEF TInv, ScriptOK
      <3>3. g \in Codes
        BY <3>1, <3>2
      <3>4. d \in Seq(TextLines) /\ LinesBare(d)
        BY <3>1, <3>2, <3>3, DecodedType, DecodedBare
      <3> HIDE DEF d
      <3>5. /\ Len(lines') = Len(lines) + Len(d) /\ Len(lines) \in Nat /\ Len(d) \in Nat
            /\ \A i \in 1..Len(lines) + Len(d) :
                 lines'[i] = IF i <= Len(lines) THEN lines[i] ELSE d[i - Len(lines)]
        BY <3>1, <3>2, <3>4, ConcatProperties
      <3>6. ASSUME NEW i \in 1..Len(lines) + Len(d) PROVE BareLine(lines'[i])
        <4>1. CASE i <= Len(lines)
          <5>1. i \in 1..Len(lines) /\ lines'[i] = lines[i]
            BY <3>5, <4>1
          <5> QED BY <5>1 DEF CInv, LinesBare
        <4>2. CASE ~(i <= Len(lines))
          <5>1. i - Len(lines) \in 1..Len(d) /\ lines'[i] = d[i - Len(lines)]
            BY <3>5, <4>2
          <5> QED BY <3>4, <5>1 DEF LinesBare
        <4> QED BY <4>1, <4>2
      <3> QED BY <3>5, <3>6 DEF LinesBare
    <2>3. CASE Again
      <3>1. lines' = <<>> /\ Len(<<>>) = 0 /\ 1..0 = {}
        BY <2>3 DEF Again
      <3> QED BY <3>1 DEF LinesBare
    <2> QED BY <2>1, <2>2, <2>3
        DEF Next, vars, Read, DecodeFails, DecodeEnds, EncodeNothing, EncodeFails,
            EncodeWord, EncodeBadString, EncodeOther, Write
  <1>3. CInv' <=> LinesBare(lines') /\ Canon(made')
    BY DEF CInv, LinesBare, WordsFit, CodeBare, Numbered, UsedIn, MadeScript
  <1> QED BY <1>1, <1>2, <1>3

(* The file of a script, whatever pools it is written from.                *)
Stored(ws) == [chars |-> Joined(ws), entries |-> Len(ws)]

FileOf(s) ==
    [version |-> "VSMX", code |-> s.code, text |-> Stored(s.text), prop |-> Stored(s.prop),
     names |-> Stored(s.names)]

LEMMA WrittenStored ==
    ASSUME IInv, MadeOK(made)
    PROVE  WriteFile(made) = FileOf(MadeScript(made))
  <1>1. ASSUME NEW pool, Good(pool), pool.words \in CharWords
        PROVE  WriteSection(pool) = Stored(pool.words)
    <2>1. pool.len = Len(Joined(pool.words))
      BY <1>1, PoolLength
    <2>2. Joined(pool.words) \in Seq(Nat)
      BY <1>1, JoinedAppend, CharWordLists
    <2>3. SubSeq(Joined(pool.words), 1, Len(Joined(pool.words))) = Joined(pool.words)
      BY <2>2, AllTaken
    <2> QED BY <2>1, <2>3 DEF WriteSection, Stored
  <1>2. /\ WriteSection(made.text) = Stored(made.text.words)
        /\ WriteSection(made.prop) = Stored(made.prop.words)
        /\ WriteSection(made.names) = Stored(made.names.words)
    BY <1>1 DEF IInv, MadeOK, Fields
  <1> QED BY <1>2 DEF WriteFile, FileOf, MadeScript

(* What is read in the second round.                                       *)
Canonical(s) == WordsFit(s) /\ CodeBare(s) /\ Numbered(s) /\ Distinct(s)

FromText(f) ==
    /\ CanRead(f) /\ ScriptOK(ReadFile(f)) /\ Canonical(ReadFile(f))
    /\ f = FileOf(ReadFile(f))

RInv ==
    /\ round \in {1, 2}
    /\ round = 2 => FromText(file) /\ (status # "reading" => script = ReadFile(file))
    /\ status = "written" => at = Len(lines)

LEMMA RoundStep ==
    ASSUME IInv, TInv, CInv, RInv, [Next]_vars
    PROVE  RInv'
  <1>1. ASSUME UNCHANGED <<round, file, script>>, status # "reading" \/ status' = "reading",
               status' = "written" => at' = Len(lines')
        PROVE  RInv'
    BY <1>1 DEF RInv
  <1>2. CASE Read
    <2>1. UNCHANGED <<round, file>> /\ status' \in {"decoding", "refused"}
      BY <1>2 DEF Read
    <2>2. ASSUME round = 2 PROVE script' = ReadFile(file)
      <3>1. CanRead(file)
        BY <2>2 DEF RInv, FromText
      <3> QED BY <1>2, <3>1 DEF Read
    <2> QED BY <2>1, <2>2 DEF RInv
  <1>3. CASE Again
    <2>1. status = "written" /\ round' = 2 /\ file' = copy /\ status' = "reading"
      BY <1>3 DEF Again
    <2>2. MadeOK(made) /\ copy = WriteFile(made)
      BY <2>1 DEF TInv
    <2> DEFINE s == MadeScript(made)
    <2>3. ReadFile(copy) = s /\ CanRead(copy)
      BY <2>2, CopyBack DEF MadeScript
    <2>4. ScriptOK(s) /\ copy = FileOf(s)
      BY <2>2, MadeScriptType, WrittenStored
    <2>5. Distinct(s)
      <3> SUFFICES ASSUME NEW f \in Fields, NEW j \in 1..Len(s[f]), NEW k \in 1..Len(s[f]),
                          s[f][j] = s[f][k]
                   PROVE  j = k
        BY DEF Distinct
      <3>1. s[f] = made[f].words
        BY MadeScriptFields
      <3>2. PoolExact(made[f]) /\ made[f].words \in CharWords
        BY <2>2 DEF IInv, Good, Fields, MadeOK
      <3>3. DOMAIN made[f].words = 1..Len(made[f].words)
        BY <3>2 DEF CharWords
      <3> HIDE DEF s
      <3> QED BY <3>1, <3>2, <3>3 DEF PoolExact
    <2> HIDE DEF s
    <2>6. Canonical(s)
      BY <2>5 DEF Canonical, CInv, s
    <2>7. FromText(copy)
      BY <2>3, <2>4, <2>6 DEF FromText
    <2> QED BY <2>1, <2>7 DEF RInv
  <1>4. CASE Write
    BY <1>1, <1>4 DEF Write
  <1>5. CASE DecodeGroup \/ DecodeFails \/ DecodeEnds
    BY <1>1, <1>5 DEF DecodeGroup, DecodeFails, DecodeEnds
  <1>6. CASE EncodeNothing \/ EncodeFails \/ EncodeWord \/ EncodeBadString \/ EncodeOther
    BY <1>1, <1>6 DEF EncodeNothing, EncodeFails, EncodeWord, EncodeBadString, EncodeOther, Encoding
  <1>7. CASE UNCHANGED vars
    <2>1. UNCHANGED <<status, round, file, script, at, lines>>
      BY <1>7 DEF vars
    <2> QED BY <2>1 DEF RInv
  <1> QED BY <1>2, <1>3, <1>4, <1>5, <1>6, <1>7 DEF Next

(* The words made in the second round so far begin those of the script,    *)
(* and the groups are its groups, settled.                                 *)
Begins(a, b) == Len(a) <= Len(b) /\ \A k \in 1..Len(a) : a[k] = b[k]

Follows(m, s) ==
    /\ \A f \in Fields : Begins(m[f].words, s[f])
    /\ \A i \in 1..Len(m.code) : m.code[i] = Settled(s.code[i])

FInv == round = 2 /\ status \in {"encoding", "written"} => Follows(made, script)

LEMMA SettledWord ==
    ASSUME NEW g, g.op \in WordOps
    PROVE  Settled(g) = g
  BY KnownKinds, KindsApart DEF Settled

(* A word of the script is at its number already, or is the next one.      *)
LEMMA NextWord ==
    ASSUME MadeOK(made), NEW s, ScriptOK(s), Canonical(s), Follows(made, s),
           NEW n \in Nat, n < Len(s.code), Kept(made, s, n),
           s.code[n + 1].op \in WordOps, IndexValid(s.code[n + 1], s), Good(made[SectionOf(s.code[n + 1].op)])
    PROVE  LET h == s.code[n + 1]
               F == SectionOf(h.op)
               w == WordFor(h, s)
           IN /\ IndexOf(made[F], w) = h.val
              /\ Begins(VsmxAddText(made[F], w).words, s[F])
  <1> DEFINE h == s.code[n + 1]
             F == SectionOf(h.op)
             w == WordFor(h, s)
             v == h.val
             a == made[F].words
             b == s[F]
             m == Len(a)
  <1>1. F \in Fields /\ a \in CharWords /\ b \in CharWords
    BY SectionField DEF MadeOK, ScriptOK
  <1>2. a \in Seq(Seq(Chars)) /\ b \in Seq(Seq(Chars)) /\ m \in Nat /\ Len(b) \in Nat
        /\ DOMAIN a = 1..m
    BY <1>1 DEF CharWords
  <1>3. n + 1 \in 1..Len(s.code) /\ h \in Codes
    <2>1. s.code \in Seq(Codes)
      BY DEF ScriptOK
    <2>2. n + 1 \in 1..Len(s.code)
      BY <2>1
    <2> QED BY <2>1, <2>2
  <1>4. v \in Nat /\ v < Len(b) /\ w = b[v + 1] /\ w \in Seq(Chars)
    <2>1. v \in Nat
      BY <1>3 DEF Codes
    <2>2. v < Len(b) /\ w = b[v + 1]
      BY DEF IndexValid, WordFor
    <2>3. w \in Seq(Chars)
      BY <1>3, WordThere DEF WordFor
    <2> QED BY <2>1, <2>2, <2>3
  <1>5. Begins(a, b)
    BY <1>1 DEF Follows
  <1>6. \A j, k \in 1..Len(b) : b[j] = b[k] => j = k
    BY <1>1 DEF Canonical, Distinct
  <1>7. \A j, k \in DOMAIN a : a[j] = a[k] => j = k
    BY DEF Good, PoolExact
  <1>8. v <= m
    <2>1. CASE v = 0
      BY <1>2, <2>1
    <2>2. CASE v # 0
      <3> DEFINE u == v - 1
      <3>1. u \in Nat /\ v = u + 1
        BY <1>4, <2>2
      <3>2. Uses(h, F, u + 1)
        BY <3>1 DEF Uses
      <3>3. UsedIn(s.code, F, u, (n + 1) - 1) /\ (n + 1) - 1 = n
        BY <1>1, <1>3, <3>1, <3>2 DEF Canonical, Numbered
      <3>4. PICK j \in 1..n : Uses(s.code[j], F, u)
        BY <3>3 DEF UsedIn
      <3>5. made.code[j] = Settled(s.code[j]) /\ Held(made.code[j], Settled(s.code[j]), made, s)
        BY <3>4 DEF Follows, Kept
      <3>6. made.code[j] = s.code[j]
        BY <3>4, <3>5, SettledWord DEF Uses
      <3> HIDE DEF u
      <3>7. u < m
        BY <3>4, <3>5, <3>6 DEF Uses, Held
      <3> QED BY <1>2, <3>1, <3>7
    <2> QED BY <2>1, <2>2
  <1> HIDE DEF h, F, w, v, a, b, m
  <1>9. VsmxAddText(made[F], w).words = IF Has(made[F], w) THEN a ELSE Append(a, w)
    BY DEF VsmxAddText, a
  <1>10. Has(made[F], w) <=> \E k \in DOMAIN a : a[k] = w
    BY DEF Has, a
  <1>11. IndexOf(made[F], w)
          = IF Has(made[F], w) THEN (CHOOSE k \in DOMAIN a : a[k] = w) - 1 ELSE m
    BY DEF IndexOf, a, m
  <1>12. CASE v < m
    <2>1. v + 1 \in 1..m /\ a[v + 1] = w
      BY <1>2, <1>4, <1>5, <1>12 DEF Begins, m
    <2>2. Has(made[F], w)
      <3>1. v + 1 \in DOMAIN a
        BY <1>2, <2>1
      <3> QED BY <1>10, <2>1, <3>1
    <2> DEFINE k == CHOOSE k \in DOMAIN a : a[k] = w
    <2>3. k \in DOMAIN a /\ a[k] = w
      BY <1>2, <2>1
    <2> HIDE DEF k
    <2>4. k = v + 1
      BY <1>2, <1>7, <2>1, <2>3
    <2>5. IndexOf(made[F], w) = k - 1
      BY <1>11, <2>2 DEF k
    <2>6. IndexOf(made[F], w) = v
      BY <1>4, <2>4, <2>5
    <2> QED BY <1>5, <1>9, <2>2, <2>6 DEF h, F, w, v, b
  <1>13. CASE v = m
    <2>1. ~Has(made[F], w)
      <3> SUFFICES ASSUME NEW k \in DOMAIN a, a[k] = w PROVE FALSE
        BY <1>10
      <3>1. k \in 1..m /\ b[k] = w
        BY <1>2, <1>5 DEF Begins, m
      <3>2. k \in 1..Len(b) /\ m + 1 \in 1..Len(b) /\ b[m + 1] = w
        BY <1>2, <1>4, <1>13, <3>1
      <3>3. k = m + 1
        BY <1>6, <3>1, <3>2
      <3> QED BY <1>2, <3>1, <3>3
    <2> DEFINE c == Append(a, w)
    <2>2. Len(c) = m + 1 /\ c[m + 1] = w /\ \A k \in 1..m : c[k] = a[k]
      BY <1>2, <1>4 DEF m
    <2> HIDE DEF c
    <2>3. \A k \in 1..Len(c) : c[k] = b[k]
      <3> SUFFICES ASSUME NEW k \in 1..m+1 PROVE c[k] = b[k]
        BY <2>2
      <3>1. k \in 1..m \/ k = m + 1
        BY <1>2
      <3> QED BY <1>4, <1>5, <1>13, <2>2, <3>1 DEF Begins, m
    <2>4. Begins(c, b)
      BY <1>2, <1>4, <1>13, <2>2, <2>3 DEF Begins
    <2>5. VsmxAddText(made[F], w).words = c /\ IndexOf(made[F], w) = v
      BY <1>9, <1>11, <1>13, <2>1 DEF c
    <2> QED BY <2>4, <2>5 DEF h, F, w, v, b
  <1> QED BY <1>2, <1>4, <1>8, <1>12, <1>13

LEMMA FollowsAppend ==
    ASSUME NEW m, MadeOK(m), NEW q, NEW g \in Codes, q.code = Append(m.code, g),
           NEW s, Follows(m, s), g = Settled(s.code[Len(m.code) + 1]),
           \A f \in Fields : Begins(q[f].words, s[f])
    PROVE  Follows(q, s)
  <1>1. m.code \in Seq(Codes)
    BY DEF MadeOK
  <1>2. /\ Len(q.code) = Len(m.code) + 1 /\ q.code[Len(m.code) + 1] = g /\ Len(m.code) \in Nat
        /\ \A i \in 1..Len(m.code) : q.code[i] = m.code[i]
    BY <1>1
  <1>3. \A i \in 1..Len(q.code) : i \in 1..Len(m.code) \/ i = Len(m.code) + 1
    BY <1>2
  <1>4. \A i \in 1..Len(q.code) : q.code[i] = Settled(s.code[i])
    BY <1>2, <1>3 DEF Follows
  <1> QED BY <1>4 DEF Follows

LEMMA FollowsEncode ==
    ASSUME IInv, TInv, Encoding, Canonical(script), AllCarried(script),
           LinesStand(lines, script, Len(script.code)), Kept(made, script, at),
           Follows(made, script), EncodeWord \/ EncodeOther
    PROVE  Follows(made', script)
  <1> DEFINE h == script.code[at + 1]
  <1>1. h \in Codes /\ Carried(h, script) /\ Stands(line, h, script) /\ ScriptOK(script)
    BY LineStanding
  <1>2. MadeOK(made) /\ at \in Nat /\ at = Len(made.code) /\ at < Len(script.code)
    BY DEF TInv, Kept, LinesStand, Encoding
  <1>3. line.id.op = h.op
    BY <1>1, StandsOp
  <1>4. CASE EncodeWord
    <2> DEFINE F == SectionOf(line.id.op)
               w == WordOf(line)
               g == Group(line.id.op, IndexOf(made[F], w))
    <2>1. /\ made'.code = Append(made.code, g) /\ made'[F] = VsmxAddText(made[F], w)
          /\ \A f \in Fields \ {F} : made'[f] = made[f]
          /\ F \in Fields /\ line.id.op \in WordOps
      BY <1>4, EncodeWordMade
    <2>2. Good(made[F])
      BY <2>1 DEF IInv, Fields
    <2>3. w = WordFor(h, script)
      BY <1>1, <1>3, <2>1, WordReadBack
    <2>4. F = SectionOf(h.op) /\ h.op \in WordOps /\ IndexValid(h, script)
      BY <1>1, <1>3, <2>1 DEF Stands
    <2>5. /\ IndexOf(made[F], w) = h.val
          /\ Begins(VsmxAddText(made[F], w).words, script[F])
      <3> HIDE DEF F, w
      <3>1. /\ IndexOf(made[SectionOf(h.op)], WordFor(h, script)) = h.val
            /\ Begins(VsmxAddText(made[SectionOf(h.op)], WordFor(h, script)).words,
                      script[SectionOf(h.op)])
        BY <1>1, <1>2, <2>2, <2>4, NextWord
      <3> HIDE DEF h
      <3> QED BY <2>3, <2>4, <3>1
    <2> HIDE DEF w
    <2>6. g = h /\ Settled(h) = h
      <3>1. g = [op |-> h.op, b1 |-> 0, b2 |-> 0, b3 |-> 0, val |-> h.val]
        BY <1>3, <2>5 DEF Group
      <3> HIDE DEF g
      <3>2. h = [op |-> h.op, b1 |-> h.b1, b2 |-> h.b2, b3 |-> h.b3, val |-> h.val]
        BY <1>1 DEF Codes
      <3>3. h.op < NumNames /\ h.op \notin FunctionOps
        BY <2>4, KnownKinds, KnownNames, KindsApart
      <3>4. h.b1 = 0 /\ h.b2 = 0 /\ h.b3 = 0
        BY <1>1, <3>3 DEF Carried, Bare
      <3> QED BY <2>4, <3>1, <3>2, <3>4, SettledWord
    <2> HIDE DEF g, F
    <2>7. \A f \in Fields : Begins(made'[f].words, script[f])
      <3> SUFFICES ASSUME NEW f \in Fields PROVE Begins(made'[f].words, script[f])
        OBVIOUS
      <3>1. f = F \/ made'[f] = made[f]
        BY <2>1
      <3> QED BY <2>1, <2>5, <3>1 DEF Follows
    <2>8. g = Settled(script.code[Len(made.code) + 1]) /\ g \in Codes
      BY <1>1, <1>2, <2>6
    <2> QED BY <1>2, <2>1, <2>7, <2>8, FollowsAppend
  <1>5. CASE EncodeOther
    <2> DEFINE g == OtherGroup(line)
    <2>1. /\ made'.code = Append(made.code, g) /\ \A f \in Fields : made'[f] = made[f]
          /\ line.id # NoInstruction /\ line.id.op \notin WordOps
      BY <1>5, EncodeOtherMade
    <2>2. g = Settled(h) /\ g \in Codes
      BY <1>1, <1>3, <2>1, OtherReadBack, OtherGroupType
    <2> HIDE DEF g
    <2>3. g = Settled(script.code[Len(made.code) + 1])
      BY <1>2, <2>2
    <2>4. \A f \in Fields : Begins(made'[f].words, script[f])
      BY <2>1 DEF Follows
    <2> QED BY <1>2, <2>1, <2>2, <2>3, <2>4, FollowsAppend
  <1> QED BY <1>4, <1>5

LEMMA SecondScript ==
    ASSUME RInv, round = 2, status # "reading"
    PROVE  /\ ScriptOK(script) /\ Canonical(script) /\ AllCarried(script)
           /\ file = FileOf(script)
  <1>1. ScriptOK(script) /\ Canonical(script) /\ file = FileOf(script)
    BY DEF RInv, FromText
  <1> QED BY <1>1, CanonicalCarried DEF Canonical

LEMMA FollowsStep ==
    ASSUME IInv, TInv, PInv, RInv, FInv, [Next]_vars
    PROVE  FInv'
  <1> SUFFICES ASSUME round' = 2, status' \in {"encoding", "written"}
               PROVE  Follows(made', script')
    BY DEF FInv, Follows
  <1>1. CASE DecodeEnds
    <2>1. made' = NewScript
      BY <1>1 DEF DecodeEnds, TInv
    <2>2. ScriptOK(script) /\ script' = script
      BY <1>1, SecondScript DEF DecodeEnds
    <2>3. NewScript.code = <<>> /\ \A f \in Fields : NewScript[f].words = <<>>
      BY DEF NewScript, NewPool, Fields
    <2>4. Len(<<>>) = 0 /\ 1..0 = {}
      OBVIOUS
    <2>5. \A f \in Fields : Len(script[f]) \in Nat
      BY <2>2 DEF ScriptOK, CharWords
    <2>6. \A f \in Fields : Begins(<<>>, script[f])
      BY <2>4, <2>5 DEF Begins
    <2> QED BY <2>1, <2>2, <2>3, <2>4, <2>6 DEF Follows
  <1>2. CASE EncodeNothing \/ EncodeBadString \/ EncodeWord \/ EncodeOther
    <2>1. Encoding /\ round = 2 /\ script' = script
      BY <1>2 DEF EncodeNothing, EncodeBadString, EncodeWord, EncodeOther
    <2>2. status = "encoding" /\ status # "reading"
      BY <2>1 DEF Encoding
    <2>3. Canonical(script) /\ AllCarried(script)
      BY <2>1, <2>2, SecondScript
    <2>4. LinesStand(lines, script, Len(script.code)) /\ Kept(made, script, at)
          /\ Follows(made, script)
      BY <2>1, <2>2, <2>3 DEF PInv, FInv
    <2>5. EncodeWord \/ EncodeOther
      BY <1>2, <2>1, <2>3, <2>4, NoLineFails
    <2>6. Follows(made', script)
      BY <2>1, <2>3, <2>4, <2>5, FollowsEncode
    <2> QED BY <2>1, <2>6
  <1>3. CASE Write \/ UNCHANGED vars
    <2>1. UNCHANGED <<round, script, made>> /\ status \in {"encoding", "written"}
      BY <1>3 DEF Write, vars
    <2> QED BY <2>1 DEF FInv
  <1>4. ~Read /\ ~DecodeGroup /\ ~DecodeFails /\ ~EncodeFails /\ ~Again
    BY DEF Read, DecodeGroup, DecodeFails, EncodeFails, Again
  <1> QED BY <1>1, <1>2, <1>3, <1>4 DEF Next

(* Every word of the script has been used, so all are made again.          *)
LEMMA AllMade ==
    ASSUME NEW m, MadeOK(m), NEW s, ScriptOK(s), Canonical(s), Follows(m, s),
           Kept(m, s, Len(s.code))
    PROVE  /\ \A f \in Fields : m[f].words = s[f]
           /\ m.code = [i \in DOMAIN s.code |-> Settled(s.code[i])]
  <1>1. ASSUME NEW f \in Fields PROVE m[f].words = s[f]
    <2> DEFINE a == m[f].words
               b == s[f]
    <2>1. a \in Seq(Seq(Chars)) /\ b \in Seq(Seq(Chars)) /\ Len(a) \in Nat /\ Len(b) \in Nat
      BY DEF MadeOK, ScriptOK, CharWords
    <2>2. Begins(a, b)
      BY DEF Follows
    <2>3. ASSUME Len(a) < Len(b) PROVE FALSE
      <3> DEFINE k == Len(a)
      <3>1. UsedIn(s.code, f, k, Len(s.code))
        BY <2>1, <2>3 DEF Canonical, Numbered
      <3> HIDE DEF k
      <3>2. PICK j \in 1..Len(s.code) : Uses(s.code[j], f, k)
        BY <3>1 DEF UsedIn
      <3>3. Held(m.code[j], Settled(s.code[j]), m, s) /\ Len(m.code) = Len(s.code)
        BY DEF Kept
      <3>4. m.code[j] = Settled(s.code[j])
        BY <3>3 DEF Follows
      <3>5. m.code[j] = s.code[j]
        BY <3>2, <3>4, SettledWord DEF Uses
      <3>6. k < Len(a)
        BY <3>2, <3>3, <3>5 DEF Uses, Held
      <3> QED BY <2>1, <3>6 DEF k
    <2> HIDE DEF a, b
    <2>4. Len(a) = Len(b) /\ \A i \in 1..Len(a) : a[i] = b[i]
      BY <2>1, <2>2, <2>3 DEF Begins
    <2>5. a = b
      BY <2>1, <2>4, SeqEqual
    <2> QED BY <2>5 DEF a, b
  <1>2. m.code \in Seq(Codes) /\ s.code \in Seq(Codes) /\ Len(m.code) = Len(s.code)
    BY DEF MadeOK, ScriptOK, Kept
  <1>3. /\ m.code = [i \in 1..Len(m.code) |-> m.code[i]] /\ DOMAIN s.code = 1..Len(s.code)
    BY <1>2
  <1>4. \A i \in 1..Len(m.code) : m.code[i] = Settled(s.code[i])
    BY DEF Follows
  <1>5. [i \in 1..Len(m.code) |-> m.code[i]] = [i \in 1..Len(m.code) |-> Settled(s.code[i])]
    BY <1>4
  <1> QED BY <1>1, <1>2, <1>3, <1>5

(* Decoded and encoded a second time a script stays as it is, whatever it  *)
(* was at first: the same words at the same numbers, and the same groups   *)
(* but for values that have no meaning (VsmxDecode, VsmxEncode).           *)
THEOREM SecondRound == Spec => []SecondRoundSame
  <1>1. Init => PInv /\ CInv /\ RInv /\ FInv
    <2> SUFFICES ASSUME Init PROVE PInv /\ CInv /\ RInv /\ FInv
      OBVIOUS
    <2>1. PInv /\ RInv /\ FInv
      BY DEF Init, PInv, RInv, FInv
    <2>2. Len(<<>>) = 0 /\ 1..0 = {}
      OBVIOUS
    <2> DEFINE t == MadeScript(NewScript)
    <2>3. t.code = <<>> /\ (\A f \in Fields : t[f] = <<>>) /\ lines = <<>> /\ made = NewScript
      BY DEF Init, MadeScript, NewScript, NewPool, Fields
    <2> HIDE DEF t
    <2>4. LinesBare(lines) /\ WordsFit(t) /\ CodeBare(t) /\ Numbered(t)
      BY <2>2, <2>3 DEF LinesBare, WordsFit, CodeBare, Numbered
    <2>5. CInv
      BY <2>3, <2>4 DEF CInv, t
    <2> QED BY <2>1, <2>5
  <1>2. IInv /\ TInv /\ PInv /\ CInv /\ RInv /\ FInv /\ [Next]_vars
          => (IInv /\ TInv /\ PInv /\ CInv /\ RInv /\ FInv)'
    BY Steps, TypeStep, ProgramStep, CanonicalStep, RoundStep, FollowsStep
  <1>3. ASSUME IInv, TInv, PInv, RInv, FInv PROVE SecondRoundSame
    <2> SUFFICES ASSUME status = "written", round = 2
                 PROVE  copy = [file EXCEPT !.code = [i \in DOMAIN file.code |-> Settled(file.code[i])]]
      BY DEF SecondRoundSame
    <2> DEFINE new == [i \in DOMAIN script.code |-> Settled(script.code[i])]
               t == MadeScript(made)
    <2>1. /\ ScriptOK(script) /\ Canonical(script) /\ AllCarried(script)
          /\ file = FileOf(script)
      BY <1>3, SecondScript
    <2>2. MadeOK(made) /\ copy = WriteFile(made) /\ at = Len(lines)
      BY <1>3 DEF TInv, RInv
    <2>3. LinesStand(lines, script, Len(script.code)) /\ Kept(made, script, at)
          /\ Follows(made, script)
      BY <1>3, <2>1 DEF PInv, FInv
    <2>4. at = Len(script.code)
      BY <2>2, <2>3 DEF LinesStand
    <2>5. (\A f \in Fields : made[f].words = script[f]) /\ made.code = new
      BY <2>1, <2>2, <2>3, <2>4, AllMade
    <2>6. copy = FileOf(t)
      BY <1>3, <2>2, WrittenStored
    <2>7. t.code = made.code /\ t.text = script.text /\ t.prop = script.prop /\ t.names = script.names
      BY <2>5, MadeScriptFields DEF Fields
    <2>8. file.code = script.code
      BY <2>1 DEF FileOf
    <2> HIDE DEF t, new
    <2>9. copy = [version |-> "VSMX", code |-> new, text |-> Stored(script.text),
                  prop |-> Stored(script.prop), names |-> Stored(script.names)]
      BY <2>5, <2>6, <2>7 DEF FileOf
    <2>10. [file EXCEPT !.code = new]
             = [version |-> "VSMX", code |-> new, text |-> Stored(script.text),
                prop |-> Stored(script.prop), names |-> Stored(script.names)]
      BY <2>1 DEF FileOf
    <2> QED BY <2>8, <2>9, <2>10 DEF new
  <1> QED BY InitTypes, <1>1, <1>2, <1>3, PTL DEF Spec
=============================================================================
