-------------------------- MODULE RcoWriterProofs --------------------------
(***************************************************************************)
(* For every archive and every result of the compressors: the variables of *)
(* write_rco have their types.  What later proofs need of the operators of *)
(* the model is shown on the way: of those that are defined by recursion,  *)
(* and of words put into a file.                                           *)
(*                                                                         *)
(* The second part, for every archive whose last entry is the last one     *)
(* that is patched: the tree write_rco writes links every entry to its     *)
(* parent and its siblings, a word that was written is changed only to be  *)
(* patched, and every reference holds the place of the entry it refers to. *)
(***************************************************************************)
EXTENDS RcoWriterProps, Recursions, SequenceTheorems, FiniteSetTheorems, TLAPS

-----------------------------------------------------------------------------
(* Words the texts before each one take.                                   *)
LEMMA TextUsedType ==
    ASSUME NEW a, IsArchive(a), NEW e \in EntriesOf(a)
    PROVE  LET used == TextUsed(a, e)
               t    == a.indexes[e]
           IN /\ Len(t) \in Nat
              /\ used \in [0..Len(t) -> Nat] /\ used[0] = 0
              /\ \A i \in 1..Len(t) : used[i] = used[i-1] + Words(t[i].length)
              /\ TextTotal(a, e) \in Nat
  <1> DEFINE t == a.indexes[e]
             n == Len(t)
             body(f) == [i \in 0..n |-> IF i = 0 THEN 0
                                       ELSE f[i-1] + Words(t[i].length)]
             used == TextUsed(a, e)
  <1>1. t \in Seq(TextIndex) /\ n \in Nat
    BY DEF IsArchive
  <1>2. \A i \in 1..n : Words(t[i].length) \in Nat
    <2> TAKE i \in 1..n
    <2>1. t[i] \in TextIndex
      BY <1>1
    <2>2. t[i].length \in Nat
      BY <2>1 DEF TextIndex
    <2> DEFINE len == t[i].length
    <2> HIDE DEF len
    <2>3. len \in Nat => Words(len) \in Nat
      BY DEF Words
    <2> QED BY <2>2, <2>3 DEF len
  <1> HIDE DEF t, n
  <1>3. \E f : f = body(f)
    <2> DEFINE next == [i \in 1..n |-> [k \in Nat |-> k + Words(t[i].length)]]
    <2>1. next \in StepFunctions(n, Nat) /\ 0 \in Nat
      BY <1>2 DEF StepFunctions
    <2>2. \A i \in 1..n, k \in Nat : next[i][k] = k + Words(t[i].length)
      OBVIOUS
    <2> HIDE DEF next
    <2>3. PICK f : Recursive(f, n, Nat, 0, next)
      BY <1>1, <2>1, Recursion
    <2>4. \A i \in 1..n : i - 1 \in 0..n
      BY <1>1
    <2>5. \A i \in 1..n : f[i] = f[i-1] + Words(t[i].length)
      BY <2>2, <2>3, <2>4 DEF Recursive
    <2>6. f = body(f)
      BY <1>1, <2>3, <2>5 DEF Recursive
    <2> QED BY <2>6
  <1>4. used = body(used)
    BY <1>3 DEF TextUsed, n, t
  <1> HIDE DEF used
  <1>5. used[0] = 0 /\ \A i \in 1..n : used[i] = used[i-1] + Words(t[i].length)
    BY <1>1, <1>4
  <1>6. 0..n \subseteq {i \in 0..n : used[i] \in Nat}
    <2> DEFINE T == {i \in 0..n : used[i] \in Nat}
    <2>1. 0 \in T
      BY <1>1, <1>5
    <2>2. ASSUME NEW i \in 1..n, i - 1 \in T PROVE i \in T
      BY <1>1, <1>2, <1>5, <2>2
    <2> HIDE DEF T
    <2>3. 0..n \subseteq T
      BY <1>1, <2>1, <2>2, UpTo
    <2> QED BY <2>3 DEF T
  <1>7. used \in [0..n -> Nat]
    BY <1>4, <1>6
  <1>8. TextTotal(a, e) = used[n]
    BY DEF TextTotal, used, n, t
  <1> QED BY <1>1, <1>5, <1>7, <1>8 DEF used, n, t

(* The table behind the singletons.                                        *)
LEMMA InsertedOnce ==
    ASSUME NEW t, NEW n, NEW item
    PROVE  (CHOOSE u \in {Inserted(v, n, item) : v \in {t}} : TRUE)
             = Inserted(t, n, item)
  <1>1. {Inserted(v, n, item) : v \in {t}} = {Inserted(t, n, item)}
    OBVIOUS
  <1> QED BY <1>1

(* A hash table of any content.                                            *)
LEMMA FilledType ==
    ASSUME NEW n \in Nat, NEW items, Len(items) \in Nat,
           \A i \in 1..Len(items) : items[i].at \in Int
    PROVE  LET m == Len(items)
           IN \E t \in [0..m -> [0..n-1 -> Int]] :
                /\ t[0] = EmptyTable(n)
                /\ \A i \in 1..m : t[i] = Inserted(t[i-1], n, items[i])
                /\ t[m] = Filled(items, n)
  <1> DEFINE m == Len(items)
             Tables == [0..n-1 -> Int]
             step(u, i) == CHOOSE w \in {Inserted(v, n, items[i]) : v \in {u}} : TRUE
             body(f) == [i \in 0..m |-> IF i = 0 THEN EmptyTable(n)
                                       ELSE step(f[i-1], i)]
             t == CHOOSE f : f = body(f)
  <1>1. m \in Nat
    OBVIOUS
  <1>s. \A u, i : step(u, i) = Inserted(u, n, items[i])
    BY InsertedOnce
  <1>2. EmptyTable(n) \in Tables
    BY DEF EmptyTable, Free
  <1>3. \A i \in 1..m, u \in Tables : Inserted(u, n, items[i]) \in Tables
    BY DEF Inserted
  <1>4. \E f : f = body(f)
    <2> DEFINE next == [i \in 1..m |-> [u \in Tables |-> Inserted(u, n, items[i])]]
    <2> HIDE DEF m, Tables, step
    <2>1. next \in StepFunctions(m, Tables)
      BY <1>3 DEF StepFunctions
    <2>2. \A i \in 1..m, u \in Tables : next[i][u] = Inserted(u, n, items[i])
      OBVIOUS
    <2> HIDE DEF next
    <2>3. PICK f : Recursive(f, m, Tables, EmptyTable(n), next)
      BY <1>1, <1>2, <2>1, Recursion
    <2>4. \A i \in 1..m : i - 1 \in 0..m
      BY <1>1
    <2>5. \A i \in 1..m : f[i] = Inserted(f[i-1], n, items[i])
      BY <2>2, <2>3, <2>4 DEF Recursive
    <2>6. \A i \in 1..m : f[i] = step(f[i-1], i)
      BY <1>s, <2>5
    <2>7. f = body(f)
      BY <1>1, <2>3, <2>6 DEF Recursive
    <2> QED BY <2>7
  <1>5. t = body(t)
    BY <1>4
  <1>6. Filled(items, n) = t[m]
    BY DEF Filled
  <1> HIDE DEF t, m, Tables, step
  <1>7. t[0] = EmptyTable(n) /\ \A i \in 1..m : t[i] = Inserted(t[i-1], n, items[i])
    <2>1. t[0] = EmptyTable(n) /\ \A i \in 1..m : t[i] = step(t[i-1], i)
      BY <1>1, <1>5
    <2> QED BY <1>s, <2>1
  <1>8. 0..m \subseteq {i \in 0..m : t[i] \in Tables}
    <2> DEFINE T == {i \in 0..m : t[i] \in Tables}
    <2>1. 0 \in T
      BY <1>1, <1>2, <1>7
    <2>2. ASSUME NEW i \in 1..m, i - 1 \in T PROVE i \in T
      <3>1. t[i-1] \in Tables /\ i \in 0..m
        BY <1>1, <2>2
      <3>2. t[i] \in Tables
        BY <1>3, <1>7, <3>1
      <3> QED BY <3>1, <3>2
    <2> HIDE DEF T
    <2>3. 0..m \subseteq T
      BY <1>1, <2>1, <2>2, UpTo
    <2> QED BY <2>3 DEF T
  <1>9. t \in [0..m -> Tables]
    BY <1>5, <1>8
  <1> QED BY <1>6, <1>7, <1>9 DEF m, Tables

-----------------------------------------------------------------------------
(* What is inserted into a table that has room is found.                   *)

(* Where the probe of a table that is not full stops.                      *)
LEMMA ProbeStops ==
    ASSUME NEW n \in Nat, NEW t \in [0..n-1 -> Int], NEW h \in 0..n-1,
           NEW s \in 0..n-1, t[s] = Free
    PROVE  \E k \in 0..n-1 :
              /\ ProbeSlot(t, n, h) = Around(n, h, k)
              /\ Around(n, h, k) \in 0..n-1
              /\ t[Around(n, h, k)] = Free /\ Taken(t, n, h, k)
  <1> DEFINE S == {k \in 0..n-1 : t[Around(n, h, k)] = Free}
             Stop(k) == t[Around(n, h, k)] = Free /\ Taken(t, n, h, k)
  <1>1. \A k \in 0..n-1 : Around(n, h, k) \in 0..n-1
    BY DEF Around
  <1>2. S # {}
    <2>1. CASE s >= h
      <3>1. s - h \in 0..n-1 /\ Around(n, h, s - h) = s
        BY <2>1 DEF Around
      <3> QED BY <3>1
    <2>2. CASE s < h
      <3>1. s - h + n \in 0..n-1 /\ Around(n, h, s - h + n) = s
        BY <2>2 DEF Around
      <3> QED BY <3>1
    <2> QED BY <2>1, <2>2
  <1>3. PICK k \in S : \A j \in S : k <= j
    <2>1. S \subseteq Nat
      OBVIOUS
    <2> HIDE DEF S
    <2> QED BY <1>2, <2>1, LeastExists
  <1>4. k \in 0..n-1 /\ Stop(k)
    <2>1. \A j \in 0..k-1 : j \in 0..n-1 /\ ~ (k <= j)
      OBVIOUS
    <2> QED BY <1>3, <2>1 DEF Taken
  <1> DEFINE c == CHOOSE j \in 0..n-1 : Stop(j)
  <1>5. c \in 0..n-1 /\ Stop(c)
    BY <1>4
  <1>6. ProbeSlot(t, n, h) = Around(n, h, c)
    BY DEF ProbeSlot
  <1> HIDE DEF c
  <1> QED BY <1>1, <1>5, <1>6

(* What was taken stays so when a free slot is filled.                     *)
LEMMA StaysTaken ==
    ASSUME NEW n \in Nat, NEW t, NEW u,
           \A r \in 0..n-1 : t[r] # Free => u[r] = t[r],
           NEW h \in 0..n-1, NEW k \in 0..n-1, Taken(t, n, h, k)
    PROVE  Taken(u, n, h, k)
  <1>1. \A j \in 0..n-1 : Around(n, h, j) \in 0..n-1
    BY DEF Around
  <1>2. \A j \in 0..k-1 : j \in 0..n-1
    OBVIOUS
  <1> QED BY <1>1, <1>2 DEF Taken

UsedSlots(t, n) == {s \in 0..n-1 : t[s] # Free}

IsItem(x) == x.at \in Int \ {Free} /\ x.named \in BOOLEAN /\ x.sum \in Nat

FoundIn(t, n, x) == x.named => Reachable(t, n, x.sum % n, x.at)

(* One more item: it is found, and those before it still are.              *)
LEMMA InsertedFound ==
    ASSUME NEW n \in Nat, NEW t \in [0..n-1 -> Int], NEW i \in 0..n-1,
           Cardinality(UsedSlots(t, n)) <= i, NEW x, IsItem(x)
    PROVE  LET u == Inserted(t, n, x)
           IN /\ u \in [0..n-1 -> Int]
              /\ Cardinality(UsedSlots(u, n)) <= i + 1
              /\ FoundIn(u, n, x)
              /\ \A y : IsItem(y) /\ FoundIn(t, n, y) => FoundIn(u, n, y)
  <1> DEFINE u == Inserted(t, n, x)
  <1>1. n \in Nat \ {0} /\ i \in Nat
    OBVIOUS
  <1>2. \A w : IsFiniteSet(UsedSlots(w, n)) /\ Cardinality(UsedSlots(w, n)) \in Nat
    <2> TAKE w
    <2>1. IsFiniteSet(0..n-1)
      BY <1>1, FS_Interval
    <2>2. UsedSlots(w, n) \subseteq 0..n-1
      BY DEF UsedSlots
    <2> QED BY <2>1, <2>2, FS_Subset, FS_CardinalityType
  <1>3. CASE ~ x.named
    <2>1. u = t
      BY <1>3 DEF Inserted
    <2> QED BY <1>1, <1>2, <1>3, <2>1 DEF FoundIn
  <1>4. CASE x.named
    <2> DEFINE h == x.sum % n
    <2>1. h \in 0..n-1
      BY <1>1 DEF IsItem
    <2> HIDE DEF h
    <2>2. PICK s \in 0..n-1 : t[s] = Free
      <3> SUFFICES ASSUME \A s \in 0..n-1 : t[s] # Free PROVE FALSE
        OBVIOUS
      <3>1. UsedSlots(t, n) = 0..n-1
        BY DEF UsedSlots
      <3>2. Cardinality(0..n-1) = n
        BY <1>1, FS_Interval
      <3> QED BY <1>1, <3>1, <3>2
    <2>3. PICK k \in 0..n-1 :
             /\ ProbeSlot(t, n, h) = Around(n, h, k)
             /\ Around(n, h, k) \in 0..n-1
             /\ t[Around(n, h, k)] = Free /\ Taken(t, n, h, k)
      BY <2>1, <2>2, ProbeStops
    <2>4. PICK r \in 0..n-1 : r = Around(n, h, k)
      BY <2>3
    <2>5. u = [t EXCEPT ![r] = x.at] /\ t[r] = Free /\ x.at \in Int /\ x.at # Free
      BY <1>4, <2>3, <2>4 DEF Inserted, IsItem, h
    <2> HIDE DEF u
    <2>6. u \in [0..n-1 -> Int]
      BY <2>5
    <2>k. \A q \in 0..n-1 : t[q] # Free => u[q] = t[q]
      BY <2>5
    <2>7. Cardinality(UsedSlots(u, n)) <= i + 1
      <3>1. UsedSlots(u, n) = UsedSlots(t, n) \cup {r} /\ r \notin UsedSlots(t, n)
        BY <2>5 DEF UsedSlots
      <3>2. Cardinality(UsedSlots(u, n)) = Cardinality(UsedSlots(t, n)) + 1
        BY <1>2, <3>1, FS_AddElement
      <3> QED BY <1>1, <1>2, <3>2
    <2>8. FoundIn(u, n, x)
      <3>1. Taken(u, n, h, k)
        BY <2>1, <2>3, <2>k, StaysTaken
      <3>2. u[Around(n, h, k)] = x.at
        BY <2>4, <2>5
      <3> QED BY <3>1, <3>2 DEF FoundIn, Reachable, h
    <2>9. ASSUME NEW y, IsItem(y), FoundIn(t, n, y), y.named
          PROVE  Reachable(u, n, y.sum % n, y.at)
      <3>1. PICK g \in 0..n-1 : g = y.sum % n /\ y.at # Free
        BY <1>1, <2>9 DEF IsItem
      <3>2. PICK j \in 0..n-1 : t[Around(n, g, j)] = y.at /\ Taken(t, n, g, j)
        BY <2>9, <3>1 DEF FoundIn, Reachable
      <3>3. Taken(u, n, g, j)
        BY <2>k, <3>2, StaysTaken
      <3>4. u[Around(n, g, j)] = y.at
        <4>1. Around(n, g, j) \in 0..n-1
          BY DEF Around
        <4> QED BY <2>k, <3>1, <3>2, <4>1
      <3> QED BY <3>1, <3>3, <3>4 DEF Reachable
    <2> QED BY <2>6, <2>7, <2>8, <2>9 DEF FoundIn, u
  <1> QED BY <1>3, <1>4

(* A table of at least as many slots as items: every one is found.         *)
LEMMA FilledFound ==
    ASSUME NEW n \in Nat, NEW items, Len(items) \in 0..n,
           \A i \in 1..Len(items) : IsItem(items[i])
    PROVE  \A i \in 1..Len(items) : FoundIn(Filled(items, n), n, items[i])
  <1> DEFINE m == Len(items)
  <1>1. m \in Nat /\ m <= n /\ \A i \in 1..m : items[i].at \in Int
    BY DEF IsItem
  <1>2. PICK t \in [0..m -> [0..n-1 -> Int]] :
           /\ t[0] = EmptyTable(n)
           /\ \A i \in 1..m : t[i] = Inserted(t[i-1], n, items[i])
           /\ t[m] = Filled(items, n)
    BY <1>1, FilledType
  <1> HIDE DEF m
  <1> DEFINE Good(i) == /\ Cardinality(UsedSlots(t[i], n)) <= i
                        /\ \A j \in 1..i : FoundIn(t[i], n, items[j])
             T == {i \in 0..m : Good(i)}
  <1>3. 0 \in T
    <2>1. UsedSlots(t[0], n) = {}
      BY <1>2 DEF UsedSlots, EmptyTable
    <2>2. Cardinality({}) = 0
      BY FS_EmptySet
    <2>3. 0 \in 0..m /\ Cardinality(UsedSlots(t[0], n)) <= 0
      BY <1>1, <2>1, <2>2
    <2>4. \A j \in 1..0 : FoundIn(t[0], n, items[j])
      OBVIOUS
    <2> QED BY <2>3, <2>4
  <1>4. ASSUME NEW i \in 1..m, i - 1 \in T
        PROVE  i \in T
    <2>1. /\ i - 1 \in 0..n-1 /\ i - 1 \in 0..m /\ i \in 0..m /\ i - 1 + 1 = i
          /\ \A j \in 1..i : j = i \/ j \in 1..i-1
          /\ \A j \in 1..i : j \in 1..m
      BY <1>1
    <2>2. t[i-1] \in [0..n-1 -> Int] /\ Good(i - 1)
      BY <1>4, <2>1
    <2>3. IsItem(items[i]) /\ \A j \in 1..i : IsItem(items[j])
      BY <2>1 DEF m
    <2>4. t[i] = Inserted(t[i-1], n, items[i])
      BY <1>2
    <2>5. /\ Cardinality(UsedSlots(t[i], n)) <= i - 1 + 1
          /\ FoundIn(t[i], n, items[i])
          /\ \A y : IsItem(y) /\ FoundIn(t[i-1], n, y) => FoundIn(t[i], n, y)
      BY <2>1, <2>2, <2>3, <2>4, InsertedFound
    <2>6. \A j \in 1..i : FoundIn(t[i], n, items[j])
      BY <2>1, <2>2, <2>3, <2>5
    <2> QED BY <2>1, <2>5, <2>6
  <1>5. m \in T
    <2> HIDE DEF T
    <2>1. 0..m \subseteq T
      BY <1>1, <1>3, <1>4, UpTo
    <2> QED BY <1>1, <2>1
  <1> QED BY <1>2, <1>5 DEF m

-----------------------------------------------------------------------------
(* Words put into a file.                                                  *)

LEMMA FunctionIsSeq ==
    ASSUME NEW S, NEW n \in Nat, NEW f \in [1..n -> S]
    PROVE  f \in Seq(S) /\ Len(f) = n
  OBVIOUS

LEMMA PutAtType ==
    ASSUME NEW s \in Seq(Int), NEW i \in Int, NEW ws \in Seq(Int)
    PROVE  PutAt(s, i, ws) \in Seq(Int)
  <1> DEFINE n == IF i + Len(ws) > Len(s) THEN i + Len(ws) ELSE Len(s)
             t == PutAt(s, i, ws)
  <1>1. n \in Nat
    OBVIOUS
  <1>2. t \in [1..n -> Int]
    BY DEF PutAt
  <1> HIDE DEF n, t
  <1>3. t \in Seq(Int)
    BY <1>1, <1>2, FunctionIsSeq
  <1> QED BY <1>3 DEF t

(* What lies there afterwards.                                             *)
LEMMA PutAtWords ==
    ASSUME NEW s \in Seq(Int), NEW i \in Nat, NEW ws \in Seq(Int)
    PROVE  /\ Len(PutAt(s, i, ws)) =
                IF i + Len(ws) > Len(s) THEN i + Len(ws) ELSE Len(s)
           /\ \A k \in 1..Len(s) :
                ~ (i < k /\ k <= i + Len(ws)) => PutAt(s, i, ws)[k] = s[k]
           /\ \A k \in 1..Len(ws) : PutAt(s, i, ws)[i + k] = ws[k]
  <1> DEFINE n == IF i + Len(ws) > Len(s) THEN i + Len(ws) ELSE Len(s)
             t == PutAt(s, i, ws)
  <1>1. n \in Nat /\ Len(ws) \in Nat /\ Len(s) \in Nat
    OBVIOUS
  <1>2. t \in [1..n -> Int]
    BY DEF PutAt
  <1>3. Len(t) = n
    BY <1>1, <1>2
  <1>4. \A k \in 1..Len(s) : ~ (i < k /\ k <= i + Len(ws)) => t[k] = s[k]
    BY <1>1 DEF PutAt
  <1>5. \A k \in 1..Len(ws) : t[i + k] = ws[k]
    <2> TAKE k \in 1..Len(ws)
    <2>1. i + k \in 1..n /\ i < i + k /\ i + k <= i + Len(ws) /\ i + k - i = k
      BY <1>1
    <2> QED BY <2>1 DEF PutAt
  <1> QED BY <1>3, <1>4, <1>5

-----------------------------------------------------------------------------
(* The sizes of the hash tables.                                           *)

LEMMA PrimeType ==
    ASSUME NEW a \in Archives, NEW m \in 0..a.n
    PROVE  FindLargerPrime(m) \in Nat /\ FindLargerPrime(m) >= m
  <1>1. a.n \in Nat
    BY ArchivesAssumption DEF IsArchive
  <1>2. CASE m <= 2
    BY <1>1, <1>2 DEF FindLargerPrime
  <1>3. CASE m > 2
    <2> DEFINE Fits(p) == p % 2 = 1 /\ IsPrime(p)
               S == {p \in m..2*m : Fits(p)}
    <2>1. S \subseteq Nat /\ S # {}
      <3>1. m \in 3..a.n
        BY <1>1, <1>3
      <3>2. \E p \in m..2*m : Fits(p)
        BY <3>1, PrimesAssumption
      <3> QED BY <3>1, <3>2
    <2>2. PICK p \in S : \A q \in S : p <= q
      <3> HIDE DEF S
      <3> QED BY <2>1, LeastExists
    <2>3. p \in m..2*m /\ Fits(p) /\ \A q \in m..p-1 : ~ Fits(q)
      <3>1. \A q \in m..p-1 : q \in m..2*m /\ ~ (p <= q)
        BY <1>1, <2>2
      <3> QED BY <2>2, <3>1
    <2>4. FindLargerPrime(m) \in m..2*m
      <3>1. \E r \in m..2*m : /\ r % 2 = 1 /\ IsPrime(r)
                            /\ \A q \in m..r-1 : q % 2 = 1 => ~ IsPrime(q)
        BY <2>3
      <3> HIDE DEF S
      <3> QED BY <1>1, <1>3, <3>1 DEF FindLargerPrime
    <2> QED BY <1>1, <2>4
  <1> QED BY <1>1, <1>2, <1>3

(* An entry and what is below it.                                          *)
LEMMA PreorderType ==
    ASSUME rco \in Archives, NEW e \in E
    PROVE  \E last \in e..rco.n :
              /\ Within(rco, e, last)
              /\ \A f \in E : Within(rco, e, f) <=> f \in e..last
              /\ Preorder(e) = [i \in 1..last - e + 1 |-> e + i - 1]
  <1>1. /\ rco.n \in Nat
        /\ rco.parent \in [E -> E \cup {Nil}] /\ E = 1..rco.n
        /\ \A f \in E : rco.parent[f] \in Int
    BY ArchivesAssumption DEF IsArchive, IsTree, E, EntriesOf, Nil
  <1> DEFINE S == {f \in E : Within(rco, e, f)}
             IsLast(f) == Within(rco, e, f) /\ (f = rco.n \/ ~ Within(rco, e, f + 1))
  <1>2. e \in S
    BY <1>1 DEF Within
  <1>3. PICK m \in S : \A f \in S : f <= m
    <2>1. S \subseteq Int /\ (\A f \in S : f <= rco.n) /\ S # {} /\ rco.n \in Int
      BY <1>1, <1>2
    <2> HIDE DEF S
    <2> QED BY <2>1, LastExists, Zenon
  <1>4. m \in e..rco.n /\ IsLast(m)
    <2>1. m \in e..rco.n
      BY <1>1, <1>2, <1>3
    <2>2. m # rco.n => m + 1 \in E /\ ~ (m + 1 <= m)
      BY <1>1, <2>1
    <2> QED BY <1>3, <2>1, <2>2
  <1> DEFINE last == CHOOSE f \in e..rco.n : IsLast(f)
  <1>5. last \in e..rco.n /\ IsLast(last)
    BY <1>4
  <1>6. Preorder(e) = [i \in 1..last - e + 1 |-> e + i - 1]
    BY DEF Preorder
  <1> HIDE DEF last
  <1>7. \A f \in E : Within(rco, e, f) <=> f \in e..last
    <2> TAKE f \in E
    <2>1. f \in e..last => Within(rco, e, f)
      BY <1>1, <1>5 DEF Within
    <2>2. ASSUME Within(rco, e, f), f > last PROVE FALSE
      <3>1. last # rco.n /\ last + 1 \in e..f
        BY <1>1, <1>5, <2>2
      <3>2. Within(rco, e, last + 1)
        BY <1>1, <2>2, <3>1 DEF Within
      <3> QED BY <1>5, <3>1, <3>2
    <2>3. Within(rco, e, f) => e <= f
      BY DEF Within
    <2> QED BY <1>1, <1>5, <2>1, <2>2, <2>3
  <1> QED BY <1>5, <1>6, <1>7

-----------------------------------------------------------------------------
(* The types.                                                              *)

Frames == [e : E, at : Nat, parent : Int, prev : Int, last : BOOLEAN,
           left : Seq(E), ret : Int]

Headers == [version : Nat, compression : Compressions, table : [Kinds -> Int],
            ptrs : [Kinds -> Int], lptrs : [Kinds -> Nat],
            data : [Kinds -> Int], ldata : [Kinds -> Nat],
            label : Nat, llabel : Nat, event : Nat, levent : Nat]

(* What TypeOK lacks to be inductive: the types of the header, of the      *)
(* calls of write_entry and of what the loop of each phase visits.         *)
TypeInv ==
    /\ pc \in Phases /\ rco \in Archives /\ opts \in Options
    /\ todo \in IF pc = "hash" THEN Seq(Kinds) ELSE Seq(E)
    /\ src \in [len : [E -> Nat], compr : [E -> Compressions], addr : [E -> Nat]]
    /\ tmp \in Seq(Int) /\ file \in Seq(Int) /\ tables \in Seq(Int)
    /\ fileHeader \in Headers \cup {<<>>}
    /\ pos \in Nat /\ longest \in Nat
    /\ offset \in [E -> Nat]
    /\ stack \in Seq(Frames)
    /\ size \in [Kinds -> Nat]
    /\ header \in Headers

LEMMA ArchiveType ==
    ASSUME rco \in Archives
    PROVE  /\ IsArchive(rco) /\ IsTree(rco)
           /\ rco.n \in Nat \ {0} /\ E = 1..rco.n /\ 1 \in E
           /\ rco.id \in [E -> Kinds] /\ rco.type \in [E -> Nat]
           /\ rco.label \in [E -> Int]
           /\ rco.kids \in [E -> Seq(E)]
           /\ rco.attrs \in [E -> Seq(AttrWord)]
           /\ rco.lang \in [E -> Nat] /\ rco.indexes \in [E -> Seq(TextIndex)]
           /\ rco.channels \in [E -> Seq(Nat \X Int)]
           /\ rco.format \in [E -> Nat] /\ rco.compression \in [E -> Compressions]
           /\ rco.srcLen \in [E -> Nat] /\ rco.srcLenUnpacked \in [E -> Nat]
           /\ rco.readable \in [E -> BOOLEAN]
           /\ rco.tbl \in [Kinds -> E \cup {Nil}]
           /\ rco.verId \in Nat /\ rco.labelsLen \in Nat /\ rco.eventsLen \in Nat
  <1>1. IsArchive(rco)
    BY ArchivesAssumption
  <1>2. IsTree(rco) /\ rco.n \in Nat \ {0} /\ E = 1..rco.n /\ 1 \in E
    BY <1>1 DEF IsArchive, E, EntriesOf
  <1>3. rco.kids \in [E -> Seq(E)]
    BY <1>2 DEF IsTree, E
  <1> QED BY <1>1, <1>2, <1>3 DEF IsArchive, E

LEMMA EntryType ==
    ASSUME rco \in Archives, NEW e \in E
    PROVE  /\ e \in Nat \ {0} /\ e <= rco.n
           /\ rco.id[e] \in Kinds /\ rco.id[e] \in Nat /\ rco.type[e] \in Nat
           /\ rco.label[e] \in Int
           /\ rco.kids[e] \in Seq(E) /\ Len(rco.kids[e]) \in Nat
           /\ rco.attrs[e] \in Seq(AttrWord) /\ Len(rco.attrs[e]) \in Nat
           /\ rco.lang[e] \in Nat
           /\ rco.indexes[e] \in Seq(TextIndex) /\ Len(rco.indexes[e]) \in Nat
           /\ rco.channels[e] \in Seq(Nat \X Int) /\ Len(rco.channels[e]) \in Nat
           /\ rco.format[e] \in Nat /\ rco.compression[e] \in Compressions
           /\ rco.srcLen[e] \in Nat /\ rco.srcLenUnpacked[e] \in Nat
  <1>1. e \in Nat \ {0} /\ e <= rco.n
    BY ArchiveType, SMTT(30)
  <1>2. rco.id[e] \in Kinds /\ rco.id[e] \in Nat
    <2>1. rco.id[e] \in Kinds
      BY ArchiveType
    <2> QED BY <2>1 DEF Kinds, MAIN, ANIM
  <1>3. rco.kids[e] \in Seq(E) /\ rco.attrs[e] \in Seq(AttrWord)
        /\ rco.indexes[e] \in Seq(TextIndex) /\ rco.channels[e] \in Seq(Nat \X Int)
    BY ArchiveType
  <1>4. \A S, s : s \in Seq(S) => Len(s) \in Nat
    OBVIOUS
  <1>5. /\ Len(rco.kids[e]) \in Nat /\ Len(rco.attrs[e]) \in Nat
        /\ Len(rco.indexes[e]) \in Nat /\ Len(rco.channels[e]) \in Nat
    BY <1>3, <1>4
  <1> QED BY <1>1, <1>2, <1>3, <1>5, ArchiveType

LEMMA WordsType == \A n \in Nat : Words(n) \in Nat
  BY DEF Words

LEMMA DataType ==
    ASSUME NEW owner \in Nat, NEW n \in Nat
    PROVE  Data(owner, n) \in Seq(Int) /\ Len(Data(owner, n)) = n
  <1>1. Data(owner, n) \in [1..n -> Int]
    BY DEF Data, DataWord
  <1> QED BY <1>1, FunctionIsSeq

LEMMA ChildrenType ==
    ASSUME rco \in Archives, NEW e \in E \cup {Nil}
    PROVE  Children(e) \in Seq(E)
  BY ArchiveType DEF Children, Nil

LEMMA TableType ==
    ASSUME rco \in Archives, NEW k \in Kinds
    PROVE  Table(k) \in E \cup {Nil}
  BY ArchiveType DEF Table

LEMMA KindNames ==
    {MAIN, VSMX, TEXT, IMG, MODEL, SOUND, FONT, OBJ, ANIM} \subseteq Kinds
  BY DEF MAIN, VSMX, TEXT, IMG, MODEL, SOUND, FONT, OBJ, ANIM, Kinds

(* What a phase begins with.                                               *)
LEMMA WorkType ==
    ASSUME rco \in Archives, NEW p
    PROVE  Work(p) \in IF p = "hash" THEN Seq(Kinds) ELSE Seq(E)
  <1>1. \A k \in Kinds : Children(Table(k)) \in Seq(E)
    BY TableType, ChildrenType
  <1>2. <<IMG, MODEL, SOUND, OBJ, ANIM>> \in Seq(Kinds)
    BY KindNames
  <1>3. /\ Children(Table(IMG)) \in Seq(E) /\ Children(Table(SOUND)) \in Seq(E)
        /\ Children(Table(MODEL)) \in Seq(E) /\ Children(Table(OBJ)) \in Seq(E)
        /\ Children(Table(ANIM)) \in Seq(E) /\ Children(Table(TEXT)) \in Seq(E)
        /\ <<>> \in Seq(E)
    BY <1>1, KindNames
  <1>4. CASE p = "hash"
    BY <1>2, <1>4 DEF Work
  <1>5. CASE p # "hash"
    BY <1>3, <1>5 DEF Work
  <1> QED BY <1>4, <1>5

-----------------------------------------------------------------------------
(* The words of an entry.                                                  *)

LEMMA HeaderWordsType ==
    ASSUME TypeInv, NEW e \in E, NEW at \in Int, NEW parent \in Int,
           NEW prev \in Int, NEW nxt \in Int
    PROVE  /\ EntryHeader(e, at, parent, prev, nxt) \in Seq(Int)
           /\ Len(EntryHeader(e, at, parent, prev, nxt)) = EntryWords
  <1>1. /\ rco.id[e] \in Int /\ rco.type[e] \in Int /\ rco.label[e] \in Int
        /\ Len(rco.kids[e]) \in Int /\ Len(rco.attrs[e]) \in Int
    BY EntryType DEF TypeInv
  <1>2. EntrySize(e) \in Int /\ PrevWord(e, prev) \in Int
    BY <1>1 DEF EntrySize, PrevWord, EntryWords
  <1> QED BY <1>1, <1>2 DEF EntryHeader, EntryWords

LEMMA TextExtraType ==
    ASSUME TypeInv, NEW e \in E
    PROVE  /\ TextExtra(e) \in Seq(Int)
           /\ Len(TextExtra(e)) = TextEntryWords + TextIndexWords * Len(rco.indexes[e])
  <1> DEFINE t == rco.indexes[e]
             n == TextIndexWords * Len(t)
             at(w) == (w - 1) \div TextIndexWords + 1
             word(w) == CASE w % 3 = 1 -> t[at(w)].label
                          [] w % 3 = 2 -> t[at(w)].length
                          [] OTHER     -> TextOffset(e, at(w))
             body == [w \in 1..n |-> word(w)]
  <1>1. t \in Seq(TextIndex) /\ Len(t) \in Nat /\ rco.lang[e] \in Int
    BY EntryType DEF TypeInv
  <1>2. \A w \in 1..n : at(w) \in 1..Len(t)
    BY <1>1 DEF TextIndexWords
  <1>3. \A i \in 1..Len(t) : t[i].label \in Int /\ t[i].length \in Int
    <2> TAKE i \in 1..Len(t)
    <2>1. t[i] \in TextIndex
      BY <1>1
    <2> QED BY <2>1 DEF TextIndex
  <1>4. \A i \in 1..Len(t) : TextOffset(e, i) \in Int
    <2> TAKE i \in 1..Len(t)
    <2>1. TextUsed(rco, e)[i-1] \in Nat
      <3>1. i - 1 \in 0..Len(t)
        BY <1>1
      <3>2. TextUsed(rco, e) \in [0..Len(t) -> Nat]
        BY ArchiveType, TextUsedType DEF TypeInv, E
      <3> QED BY <3>1, <3>2
    <2>2. size[TEXT] \in Nat
      BY KindNames DEF TypeInv
    <2> QED BY <2>1, <2>2 DEF TextOffset, NULL_PTR
  <1>5. body \in [1..n -> Int] /\ n \in Nat
    <2>1. ASSUME NEW w \in 1..n PROVE word(w) \in Int
      <3>1. at(w) \in 1..Len(t)
        BY <1>2
      <3> HIDE DEF at
      <3> QED BY <1>3, <1>4, <3>1
    <2>2. n \in Nat
      BY <1>1 DEF TextIndexWords
    <2> HIDE DEF word, n
    <2> QED BY <2>1, <2>2
  <1>6. TextExtra(e) = <<rco.lang[e], Len(t)>> \o body
    BY DEF TextExtra
  <1> HIDE DEF body, n
  <1>7. body \in Seq(Int) /\ Len(body) = n
    BY <1>5, FunctionIsSeq
  <1> QED BY <1>1, <1>5, <1>6, <1>7 DEF TextEntryWords, n

LEMMA ResourceExtraType ==
    ASSUME TypeInv, NEW e \in E
    PROVE  ResourceExtra(e) \in Seq(Int)
  <1>1. /\ rco.format[e] \in Int /\ src.compr[e] \in Int /\ src.len[e] \in Int
        /\ size[rco.id[e]] \in Int /\ rco.srcLenUnpacked[e] \in Int
    <2>1. src.compr[e] \in Compressions /\ src.len[e] \in Nat /\ rco \in Archives
          /\ size \in [Kinds -> Nat]
      BY DEF TypeInv
    <2>2. rco.id[e] \in Kinds /\ rco.format[e] \in Nat /\ rco.srcLenUnpacked[e] \in Nat
      BY <2>1, EntryType
    <2>3. size[rco.id[e]] \in Nat
      BY <2>1, <2>2
    <2>4. src.compr[e] \in Int
      BY <2>1 DEF Compressions, NONE, RLZ
    <2> QED BY <2>1, <2>2, <2>3, <2>4
  <1> QED BY <1>1 DEF ResourceExtra

LEMMA SoundExtraType ==
    ASSUME TypeInv, NEW e \in E
    PROVE  SoundExtra(e) \in Seq(Int)
  <1> DEFINE ch == rco.channels[e]
             n  == IF Len(ch) < 2 THEN 2 ELSE Len(ch)
             at(w) == (w + 1) \div 2
             word(w) == IF at(w) > Len(ch) THEN IF w % 2 = 1 THEN 0 ELSE NULL_PTR
                        ELSE IF w % 2 = 1 THEN ch[at(w)][1]
                        ELSE ch[at(w)][2] + size[SOUND]
             body == [w \in 1..2*n |-> word(w)]
  <1>0. size[SOUND] \in Nat
    BY KindNames DEF TypeInv
  <1>1. /\ ch \in Seq(Nat \X Int) /\ Len(ch) \in Nat
        /\ rco.format[e] \in Int /\ rco.srcLenUnpacked[e] \in Int
        /\ size[SOUND] \in Int
    <2>1. rco \in Archives
      BY DEF TypeInv
    <2> QED BY <1>0, <2>1, EntryType
  <1>2. \A c \in 1..Len(ch) : ch[c][1] \in Int /\ ch[c][2] \in Int
    <2> TAKE c \in 1..Len(ch)
    <2>1. ch[c] \in Nat \X Int
      BY <1>1
    <2> QED BY <2>1
  <1>3. \A w \in 1..2*n : at(w) > Len(ch) \/ at(w) \in 1..Len(ch)
    BY <1>1
  <1>4. body \in [1..2*n -> Int] /\ 2*n \in Nat
    <2>1. ASSUME NEW w \in 1..2*n PROVE word(w) \in Int
      <3>1. at(w) > Len(ch) \/ at(w) \in 1..Len(ch)
        BY <1>3
      <3> HIDE DEF at, ch
      <3>2. CASE at(w) > Len(ch)
        BY <3>2 DEF NULL_PTR
      <3>3. CASE ~ (at(w) > Len(ch))
        <4>1. at(w) \in 1..Len(ch)
          BY <3>1, <3>3
        <4>2. ch[at(w)][1] \in Int /\ ch[at(w)][2] \in Int /\ size[SOUND] \in Int
          BY <1>1, <1>2, <4>1
        <4>3. ch[at(w)][1] \in Int /\ ch[at(w)][2] + size[SOUND] \in Int
          BY <4>2
        <4> QED BY <3>3, <4>3
      <3> QED BY <3>2, <3>3
    <2>2. 2*n \in Nat
      BY <1>1
    <2> HIDE DEF word, n
    <2> QED BY <2>1, <2>2
  <1>5. SoundExtra(e)
          = <<rco.format[e] + 65536 * Len(ch), rco.srcLenUnpacked[e], size[SOUND]>>
            \o body
    BY DEF SoundExtra
  <1> HIDE DEF body, n
  <1>6. body \in Seq(Int)
    BY <1>4, FunctionIsSeq
  <1>7. <<rco.format[e] + 65536 * Len(ch), rco.srcLenUnpacked[e], size[SOUND]>>
          \in Seq(Int)
    BY <1>1
  <1> QED BY <1>5, <1>6, <1>7

LEMMA PlaceholdersType ==
    ASSUME TypeInv, NEW e \in E
    PROVE  /\ Placeholders(e) \in Seq(Int)
           /\ Len(Placeholders(e)) = Len(rco.attrs[e])
  <1>1. Len(rco.attrs[e]) \in Nat
    BY EntryType DEF TypeInv
  <1>2. Placeholders(e) \in [1..Len(rco.attrs[e]) -> Int]
    BY <1>1 DEF Placeholders
  <1> QED BY <1>1, <1>2, FunctionIsSeq

LEMMA ExtraType ==
    ASSUME TypeInv, NEW e \in E
    PROVE  Extra(e) \in Seq(Int)
  <1>1. e \in Nat /\ rco.srcLenUnpacked[e] \in Nat /\ rco.format[e] \in Int
    BY EntryType DEF TypeInv
  <1>2. VsmxExtra(e) \in Seq(Int)
    <2>1. Data(e, Words(rco.srcLenUnpacked[e])) \in Seq(Int)
      BY <1>1, WordsType, DataType
    <2>2. <<0, rco.srcLenUnpacked[e]>> \in Seq(Int) /\ <<>> \in Seq(Int)
      BY <1>1
    <2> QED BY <2>1, <2>2 DEF VsmxExtra
  <1>3. <<rco.format[e], 0, 0>> \in Seq(Int)
    BY <1>1
  <1> QED
    BY <1>2, <1>3, TextExtraType, ResourceExtraType, SoundExtraType, PlaceholdersType
    DEF Extra

LEMMA DataWordsType ==
    ASSUME TypeInv, NEW e \in E
    PROVE  DataWords(e) \in Nat
  <1>1. TextTotal(rco, e) \in Nat
    BY ArchiveType, TextUsedType DEF TypeInv, E
  <1>2. Words(src.len[e]) \in Nat /\ Words(rco.srcLenUnpacked[e]) \in Nat
    BY ArchiveType, WordsType DEF TypeInv
  <1> QED BY <1>1, <1>2 DEF DataWords

-----------------------------------------------------------------------------
(* What is written to.                                                     *)

LEMMA WriteAtType ==
    ASSUME TypeInv, NEW at \in Int, NEW ws \in Seq(Int), WriteAt(at, ws)
    PROVE  file' \in Seq(Int) /\ tables' \in Seq(Int)
  BY PutAtType DEF TypeInv, WriteAt, HeaderWords

LEMMA FwriteType ==
    ASSUME TypeInv, NEW ws \in Seq(Int), Fwrite(ws)
    PROVE  file' \in Seq(Int) /\ tables' \in Seq(Int) /\ pos' \in Nat
  <1>1. pos \in Int /\ WriteAt(pos, ws)
    BY DEF TypeInv, Fwrite
  <1> QED BY <1>1, WriteAtType DEF TypeInv, Fwrite

LEMMA FilePosType ==
    ASSUME TypeInv
    PROVE  FilePos \in Nat
  BY DEF TypeInv, FilePos, HeaderWords

LEMMA FileWriteType ==
    ASSUME TypeInv, NEW ws \in Seq(Int), FileWrite(ws)
    PROVE  file' \in Seq(Int) /\ tables' \in Seq(Int) /\ pos' \in Nat
  BY PutAtType, FilePosType DEF TypeInv, FileWrite, HeaderWords

(* What the later phases do to the stream and the file.                    *)
Appends ==
    \/ \E ws \in Seq(Int) : Fwrite(ws) \/ FileWrite(ws)
    \/ UNCHANGED <<file, tables, pos>>

LEMMA AppendsType ==
    ASSUME TypeInv, Appends
    PROVE  file' \in Seq(Int) /\ tables' \in Seq(Int) /\ pos' \in Nat
  <1>1. CASE UNCHANGED <<file, tables, pos>>
    BY <1>1 DEF TypeInv
  <1>2. ASSUME NEW ws \in Seq(Int), Fwrite(ws) \/ FileWrite(ws)
        PROVE  file' \in Seq(Int) /\ tables' \in Seq(Int) /\ pos' \in Nat
    BY <1>2, FwriteType, FileWriteType
  <1> QED BY <1>1, <1>2 DEF Appends

(* What remains of a loop's work.                                          *)
LEMMA TailType ==
    ASSUME NEW S, NEW s \in Seq(S), s # <<>>
    PROVE  Head(s) \in S /\ Tail(s) \in Seq(S)
  OBVIOUS

LEMMA ShortType ==
    ASSUME NEW S, NEW s \in Seq(S), NEW x \in S, NEW y \in S
    PROVE  <<x>> \in Seq(S) /\ <<x>> \o s \in Seq(S) /\ <<x, y>> \o s \in Seq(S)
  <1>1. <<x>> \in Seq(S) /\ <<x, y>> \in Seq(S)
    OBVIOUS
  <1> QED BY <1>1, ConcatProperties

LEMMA RemoveType ==
    ASSUME NEW S, NEW s \in Seq(S), NEW i \in DOMAIN s
    PROVE  RemoveAt(s, i) \in Seq(S)
  <1>1. SubSeq(s, 1, i - 1) \in Seq(S) /\ SubSeq(s, i + 1, Len(s)) \in Seq(S)
    OBVIOUS
  <1> QED BY <1>1 DEF RemoveAt

-----------------------------------------------------------------------------
(* Every step keeps the types.                                             *)

LEMMA InitType == Init => TypeInv
  <1> SUFFICES ASSUME Init PROVE TypeInv
    OBVIOUS
  <1>1. rco \in Archives /\ opts \in Options
    BY DEF Init
  <1>2. BlankHeader(rco, opts) \in Headers
    <2>1. opts.packHeader \in Compressions
      BY <1>1, OptionsAssumption DEF IsOptions
    <2> QED BY <1>1, <2>1, ArchiveType
            DEF BlankHeader, Headers, Kinds, HeaderWords, NULL_PTR
  <1>3. src \in [len : [E -> Nat], compr : [E -> Compressions], addr : [E -> Nat]]
    BY <1>1, ArchiveType DEF Init, E
  <1> QED BY <1>1, <1>2, <1>3 DEF Init, TypeInv, Phases, E

(* A header with a field changed.                                          *)
LEMMA HeaderType ==
    ASSUME NEW h \in Headers
    PROVE  /\ \A f \in [Kinds -> Int] :
                /\ [h EXCEPT !.table = f] \in Headers
                /\ [h EXCEPT !.ptrs = f] \in Headers
                /\ [h EXCEPT !.data = f] \in Headers
           /\ \A f \in [Kinds -> Nat] :
                /\ [h EXCEPT !.lptrs = f] \in Headers
                /\ [h EXCEPT !.ldata = f] \in Headers
           /\ \A k \in Kinds, n \in Nat :
                /\ [h EXCEPT !.lptrs[k] = n] \in Headers
                /\ [h EXCEPT !.ldata[k] = n] \in Headers
           /\ \A k \in Kinds, v \in Int : [h EXCEPT !.ptrs[k] = v] \in Headers
           /\ \A k \in Kinds, v \in Int : [h EXCEPT !.data[k] = v] \in Headers
           /\ \A n \in Nat : /\ [h EXCEPT !.label = n] \in Headers
                            /\ [h EXCEPT !.event = n] \in Headers
                            /\ [h EXCEPT !.levent = n] \in Headers
  <1>1. ASSUME NEW f \in [Kinds -> Int]
        PROVE  /\ [h EXCEPT !.table = f] \in Headers
               /\ [h EXCEPT !.ptrs = f] \in Headers
               /\ [h EXCEPT !.data = f] \in Headers
    BY DEF Headers
  <1>2. ASSUME NEW f \in [Kinds -> Nat]
        PROVE  /\ [h EXCEPT !.lptrs = f] \in Headers
               /\ [h EXCEPT !.ldata = f] \in Headers
    BY DEF Headers
  <1>3. ASSUME NEW k \in Kinds, NEW n \in Nat
        PROVE  /\ [h.lptrs EXCEPT ![k] = n] \in [Kinds -> Nat]
               /\ [h.ldata EXCEPT ![k] = n] \in [Kinds -> Nat]
    BY DEF Headers
  <1>4. ASSUME NEW k \in Kinds, NEW v \in Int
        PROVE  /\ [h.ptrs EXCEPT ![k] = v] \in [Kinds -> Int]
               /\ [h.data EXCEPT ![k] = v] \in [Kinds -> Int]
    BY DEF Headers
  <1>5. ASSUME NEW k \in Kinds, NEW n \in Nat
        PROVE  /\ [h EXCEPT !.lptrs[k] = n] \in Headers
               /\ [h EXCEPT !.ldata[k] = n] \in Headers
    BY <1>2, <1>3
  <1>6. ASSUME NEW k \in Kinds, NEW v \in Int
        PROVE  /\ [h EXCEPT !.ptrs[k] = v] \in Headers
               /\ [h EXCEPT !.data[k] = v] \in Headers
    BY <1>1, <1>4
  <1>7. ASSUME NEW n \in Nat
        PROVE  /\ [h EXCEPT !.label = n] \in Headers
               /\ [h EXCEPT !.event = n] \in Headers
               /\ [h EXCEPT !.levent = n] \in Headers
    BY DEF Headers
  <1> QED BY <1>1, <1>2, <1>5, <1>6, <1>7

LEMMA PackedLensType ==
    ASSUME rco \in Archives, NEW e \in E, NEW c
    PROVE  PackedLensOf(e, c) \subseteq Nat
  <1>1. rco.srcLenUnpacked[e] \in Nat /\ PackedLens \subseteq Nat
    BY EntryType, PackedLensAssumption
  <1> QED BY <1>1 DEF PackedLensOf

LEMMA StageType ==
    ASSUME TypeInv, NEW k \in Kinds, pc # "hash", StageCompressed(k)
    PROVE  TypeInv'
  <1> DEFINE e == Head(todo)
  <1>1. e \in E /\ Tail(todo) \in Seq(E)
    BY TailType DEF TypeInv, StageCompressed
  <1>2. Chosen(e) \in Compressions
    <2>1. /\ opts.packModel \in Compressions \cup {-1}
          /\ opts.packImg \in Compressions \cup {-1}
          /\ opts.packImgCompr \in Compressions \cup {-1}
      BY OptionsAssumption DEF TypeInv, IsOptions
    <2> QED BY <1>1, <2>1, EntryType DEF TypeInv, Chosen
  <1>3. PackedLensOf(e, Chosen(e)) \subseteq Nat
    BY <1>1, PackedLensType DEF TypeInv
  <1>4. PICK len \in Nat :
          /\ src' = [len |-> [src.len EXCEPT ![e] = len],
                     compr |-> [src.compr EXCEPT ![e] = Chosen(e)],
                     addr |-> [src.addr EXCEPT ![e] = header.ldata[k]]]
          /\ tmp' \in {tmp, tmp \o Data(e, Words(len))}
          /\ header' = [header EXCEPT !.ldata[k] = @ + Words(len)]
    <2>1. src.len[e] \in Nat
      BY <1>1 DEF TypeInv
    <2> QED BY <1>3, <2>1 DEF StageCompressed
  <1>5. Words(len) \in Nat /\ header.ldata[k] \in Nat
    BY WordsType DEF TypeInv, Headers
  <1>6. src' \in [len : [E -> Nat], compr : [E -> Compressions], addr : [E -> Nat]]
    BY <1>1, <1>2, <1>4, <1>5 DEF TypeInv
  <1>7. tmp' \in Seq(Int)
    <2>1. Data(e, Words(len)) \in Seq(Int)
      BY <1>1, <1>5, DataType, EntryType DEF TypeInv
    <2>2. tmp \in Seq(Int)
      BY DEF TypeInv
    <2>3. tmp \o Data(e, Words(len)) \in Seq(Int)
      BY <2>1, <2>2
    <2> QED BY <1>4, <2>2, <2>3
  <1>8. header' \in Headers
    <2> DEFINE w == header.ldata[k] + Words(len)
    <2>1. header \in Headers /\ w \in Nat
      BY <1>5 DEF TypeInv
    <2>2. header' = [header EXCEPT !.ldata[k] = w]
      BY <1>4
    <2> HIDE DEF w
    <2>3. [header EXCEPT !.ldata[k] = w] \in Headers
      BY <2>1, HeaderType
    <2> QED BY <2>2, <2>3
  <1> QED BY <1>1, <1>6, <1>7, <1>8 DEF TypeInv, StageCompressed, E, Frames

LEMMA StageSoundType == ASSUME TypeInv, StageSound PROVE TypeInv'
  <1> DEFINE e == Head(todo)
  <1>1. e \in E /\ Tail(todo) \in Seq(E)
    BY TailType DEF TypeInv, StageSound
  <1>2. PackedLensOf(e, NONE) \subseteq Nat
    BY <1>1, PackedLensType DEF TypeInv
  <1>3. \/ tmp' = tmp /\ header' = header
        \/ \E len \in Nat :
             /\ tmp' = tmp \o Data(e, Words(len))
             /\ header' = [header EXCEPT !.ldata[SOUND] = @ + Words(len)]
    BY <1>2 DEF StageSound
  <1>4. tmp' \in Seq(Int) /\ header' \in Headers
    <2>1. CASE tmp' = tmp /\ header' = header
      BY <2>1 DEF TypeInv
    <2>2. ASSUME NEW len \in Nat, tmp' = tmp \o Data(e, Words(len)),
                 header' = [header EXCEPT !.ldata[SOUND] = @ + Words(len)]
          PROVE  tmp' \in Seq(Int) /\ header' \in Headers
      <3>1. Words(len) \in Nat /\ header.ldata[SOUND] \in Nat
        BY WordsType, KindNames DEF TypeInv, Headers
      <3>2. Data(e, Words(len)) \in Seq(Int)
        BY <1>1, <3>1, DataType, EntryType DEF TypeInv
      <3>3. header \in Headers /\ header.ldata[SOUND] + Words(len) \in Nat
        BY <3>1 DEF TypeInv
      <3>4. tmp \in Seq(Int)
        BY DEF TypeInv
      <3>5. tmp \o Data(e, Words(len)) \in Seq(Int)
        BY <3>2, <3>4
      <3>6. header' \in Headers
        BY <2>2, <3>3, HeaderType, KindNames
      <3> QED BY <2>2, <3>5, <3>6
    <2> QED BY <1>3, <2>1, <2>2
  <1> QED BY <1>1, <1>4 DEF TypeInv, StageSound, E, Frames

(* The rest has its types when it is unchanged; a phase begins with its    *)
(* work.                                                                   *)
LEMMA GotoType ==
    ASSUME rco \in Archives, NEW p \in Phases, Goto(p)
    PROVE  /\ pc' \in Phases
           /\ todo' \in IF pc' = "hash" THEN Seq(Kinds) ELSE Seq(E)
  BY WorkType DEF Goto

LEMMA FallthroughType ==
    ASSUME TypeInv, NEW p, NEW q \in Phases, Fallthrough(p, q)
    PROVE  TypeInv'
  <1>1. rco \in Archives /\ Goto(q)
    BY DEF TypeInv, Fallthrough
  <1> QED BY <1>1, GotoType DEF TypeInv, Fallthrough, E, Frames

LEMMA OpenType == ASSUME TypeInv, Open \/ OpenFails PROVE TypeInv'
  <1>1. PICK p \in Phases : Goto(p)
    BY DEF Open, OpenFails, Phases
  <1>2. rco \in Archives
    BY DEF TypeInv
  <1>3. pc' \in Phases /\ todo' \in IF pc' = "hash" THEN Seq(Kinds) ELSE Seq(E)
    BY <1>1, <1>2, GotoType
  <1> QED BY <1>3 DEF TypeInv, Open, OpenFails, E, Frames

LEMMA PlaceholderType == ASSUME TypeInv, WritePlaceholderHeader PROVE TypeInv'
  <1>1. Goto("entries") /\ "entries" \in Phases /\ rco \in Archives
    BY DEF WritePlaceholderHeader, Phases, TypeInv
  <1>2. pc' \in Phases /\ todo' \in IF pc' = "hash" THEN Seq(Kinds) ELSE Seq(E)
    BY <1>1, GotoType
  <1>3. pos' \in Nat
    BY DEF WritePlaceholderHeader, HeaderWords
  <1> QED BY <1>2, <1>3 DEF TypeInv, WritePlaceholderHeader, E, Frames

(* write_entry.                                                            *)
LEMMA EnterType ==
    ASSUME TypeInv, NEW e \in E, NEW parent \in Int, NEW prev \in Int,
           Enter(e, parent, prev), stack' \in Seq(Frames)
    PROVE  TypeInv'
  <1>1. pos \in Nat /\ rco \in Archives
    BY DEF TypeInv
  <1>2. EntryHeader(e, pos, parent, prev, 0) \o Extra(e) \in Seq(Int)
    BY <1>1, HeaderWordsType, ExtraType
  <1>3. file' \in Seq(Int) /\ tables' \in Seq(Int) /\ pos' \in Nat
    BY <1>2, FwriteType DEF Enter
  <1>4. offset' \in [E -> Nat]
    BY <1>1 DEF TypeInv, Enter
  <1>5. DataWords(e) \in Nat /\ rco.id[e] \in Kinds
    BY <1>1, DataWordsType, EntryType
  <1>6. size' \in [Kinds -> Nat]
    <2>0. size \in [Kinds -> Nat]
      BY DEF TypeInv
    <2>1. size \in [Kinds -> Nat] /\ size[rco.id[e]] + DataWords(e) \in Nat
      BY <1>5, <2>0
    <2>2. size' = [size EXCEPT ![rco.id[e]] = size[rco.id[e]] + DataWords(e)]
      BY DEF Enter
    <2> QED BY <1>5, <2>1, <2>2
  <1>7. longest' \in Nat
    BY <1>5 DEF TypeInv, Enter
  <1> QED BY <1>3, <1>4, <1>6, <1>7 DEF TypeInv, Enter, E, Frames

LEMMA FrameType ==
    ASSUME TypeInv, NEW e \in E, NEW parent \in Int, NEW prev \in Int,
           NEW last \in BOOLEAN
    PROVE  Frame(e, parent, prev, last) \in Frames
  BY EntryType DEF TypeInv, Frame, Frames

LEMMA WriteMainType == ASSUME TypeInv, WriteMain PROVE TypeInv'
  <1>1. 1 \in E /\ HeaderWords \in Int /\ 0 \in Int
    BY ArchiveType DEF TypeInv, HeaderWords
  <1>2. Enter(1, HeaderWords, 0) /\ stack' = <<Frame(1, HeaderWords, 0, TRUE)>>
    BY DEF WriteMain, Main
  <1>3. Frame(1, HeaderWords, 0, TRUE) \in Frames
    BY <1>1, FrameType
  <1>4. stack' \in Seq(Frames)
    <2>1. stack \in Seq(Frames)
      BY DEF TypeInv
    <2> QED BY <1>2, <1>3, <2>1, ShortType
  <1> QED BY <1>1, <1>2, <1>4, EnterType

LEMMA TopType ==
    ASSUME TypeInv, stack # <<>>
    PROVE  /\ stack[1] \in Frames /\ Tail(stack) \in Seq(Frames)
           /\ stack[1].e \in E /\ stack[1].at \in Nat /\ stack[1].parent \in Int
           /\ stack[1].prev \in Int /\ stack[1].last \in BOOLEAN
           /\ stack[1].left \in Seq(E) /\ stack[1].ret \in Int
  <1>1. stack[1] \in Frames /\ Tail(stack) \in Seq(Frames)
    BY DEF TypeInv
  <1> QED BY <1>1 DEF Frames

LEMMA WriteChildType == ASSUME TypeInv, WriteChild PROVE TypeInv'
  <1> DEFINE f == stack[1]
             c == Head(f.left)
             new == Frame(c, f.at, f.ret, Tail(f.left) = <<>>)
             old == [f EXCEPT !.left = Tail(@)]
  <1>1. /\ stack # <<>> /\ f.left # <<>> /\ Enter(c, f.at, f.ret)
        /\ stack' = <<new, old>> \o Tail(stack)
    BY DEF WriteChild
  <1>2. c \in E /\ Tail(f.left) \in Seq(E)
    BY <1>1, TopType
  <1>3. new \in Frames
    <2>1. (Tail(f.left) = <<>>) \in BOOLEAN
      OBVIOUS
    <2>2. f.at \in Int /\ f.ret \in Int
      BY <1>1, TopType
    <2> QED BY <1>2, <2>1, <2>2, FrameType
  <1>4. old \in Frames
    BY <1>1, <1>2, TopType DEF Frames
  <1>5. stack' \in Seq(Frames)
    <2> HIDE DEF new, old
    <2>1. Tail(stack) \in Seq(Frames)
      BY <1>1, TopType
    <2> QED BY <1>1, <1>3, <1>4, <2>1, ShortType
  <1>6. f.at \in Int /\ f.ret \in Int
    BY <1>1, TopType
  <1> QED BY <1>1, <1>2, <1>5, <1>6, EnterType

LEMMA FinishEntryType == ASSUME TypeInv, FinishEntry PROVE TypeInv'
  <1> DEFINE f == stack[1]
             rest == Tail(stack)
  <1>1. stack # <<>> /\ pc = "entries" /\ rco \in Archives /\ pos \in Nat
    BY DEF FinishEntry, TypeInv
  <1>2. NextOffset(f) \in Int
    BY <1>1, TopType DEF NextOffset
  <1>3. file' \in Seq(Int) /\ tables' \in Seq(Int)
    <2>1. CASE f.last
      BY <2>1 DEF FinishEntry, TypeInv
    <2>2. CASE ~ f.last
      <3>1. EntryHeader(f.e, f.at, f.parent, f.prev, NextOffset(f)) \in Seq(Int)
        BY <1>1, <1>2, TopType, HeaderWordsType
      <3> QED BY <1>1, <2>2, <3>1, TopType, WriteAtType DEF FinishEntry
    <2> QED BY <2>1, <2>2
  <1>4. /\ stack' \in Seq(Frames) /\ pc' \in Phases
        /\ todo' \in IF pc' = "hash" THEN Seq(Kinds) ELSE Seq(E)
    <2>1. CASE rest = <<>>
      <3>1. stack' = <<>> /\ Goto("fixObj") /\ "fixObj" \in Phases
        BY <2>1 DEF FinishEntry, Phases
      <3> QED BY <1>1, <3>1, GotoType
    <2>2. CASE rest # <<>>
      <3>1. stack' = <<[rest[1] EXCEPT !.ret = NextOffset(f)]>> \o Tail(rest)
            /\ UNCHANGED <<pc, todo>>
        BY <2>2 DEF FinishEntry
      <3>2. rest[1] \in Frames /\ Tail(rest) \in Seq(Frames)
        BY <1>1, <2>2, TopType
      <3>3. [rest[1] EXCEPT !.ret = NextOffset(f)] \in Frames
        BY <1>2, <3>2 DEF Frames
      <3>4. stack' \in Seq(Frames)
        BY <3>1, <3>2, <3>3, ShortType
      <3> QED BY <3>1, <3>4 DEF TypeInv
    <2> QED BY <2>1, <2>2
  <1> QED BY <1>3, <1>4 DEF TypeInv, FinishEntry, E, Frames

(* What is written behind the entries.                                     *)
LEMMA AttrWordType ==
    ASSUME rco \in Archives, NEW e \in E, NEW w \in DOMAIN rco.attrs[e]
    PROVE  /\ rco.attrs[e][w].ent \in BOOLEAN /\ rco.attrs[e][w].v \in Int
           /\ rco.attrs[e][w].ent => rco.attrs[e][w].v \in E \cup {Nil}
  <1>1. rco.attrs[e] \in Seq(AttrWord)
    BY EntryType
  <1>2. rco.attrs[e][w] \in AttrWord
    BY <1>1
  <1>3. rco.attrs[e][w].ent => rco.attrs[e][w].v \in E \cup {Nil}
    BY ArchivesAssumption DEF IsArchive, E
  <1> QED BY <1>2, <1>3 DEF AttrWord

LEMMA FixedWordsType ==
    ASSUME TypeInv, NEW e \in E, NEW unset \in [Dangling(e) -> Garbage]
    PROVE  /\ FixedWords(e, unset) \in Seq(Int)
           /\ Len(FixedWords(e, unset)) = Len(rco.attrs[e])
  <1> DEFINE n == Len(rco.attrs[e])
             word(w) == IF ~ rco.attrs[e][w].ent THEN rco.attrs[e][w].v
                        ELSE IF rco.attrs[e][w].v = Nil THEN unset[w]
                        ELSE offset[rco.attrs[e][w].v]
  <1>1. rco \in Archives /\ n \in Nat /\ DOMAIN rco.attrs[e] = 1..n
    BY EntryType DEF TypeInv
  <1>2. ASSUME NEW w \in 1..n PROVE word(w) \in Int
    <2>1. /\ rco.attrs[e][w].v \in Int
          /\ rco.attrs[e][w].ent => rco.attrs[e][w].v \in E \cup {Nil}
      BY <1>1, AttrWordType
    <2>2. CASE ~ rco.attrs[e][w].ent
      BY <2>1, <2>2
    <2>3. CASE rco.attrs[e][w].ent /\ rco.attrs[e][w].v = Nil
      <3>1. w \in Dangling(e)
        BY <1>1, <2>3 DEF Dangling
      <3>2. unset[w] \in Int
        BY <3>1, GarbageAssumption
      <3> QED BY <2>3, <3>2
    <2>4. CASE rco.attrs[e][w].ent /\ rco.attrs[e][w].v # Nil
      <3>1. offset[rco.attrs[e][w].v] \in Nat
        BY <2>1, <2>4 DEF TypeInv
      <3> QED BY <2>4, <3>1
    <2> QED BY <2>2, <2>3, <2>4
  <1>3. FixedWords(e, unset) = [w \in 1..n |-> word(w)]
    BY <1>1 DEF FixedWords
  <1> HIDE DEF word, n
  <1>4. FixedWords(e, unset) \in [1..n -> Int]
    BY <1>2, <1>3
  <1> QED BY <1>1, <1>4, FunctionIsSeq, SMTT(30) DEF n

LEMMA FixEntryType == ASSUME TypeInv, FixEntry PROVE TypeInv'
  <1> DEFINE e == Head(todo)
  <1>1. pc # "hash" /\ todo # <<>> /\ todo \in Seq(E) /\ rco \in Archives
    BY DEF FixEntry, TypeInv
  <1>2. e \in E /\ Tail(todo) \in Seq(E)
    BY <1>1, TailType
  <1>3. offset[e] \in Nat /\ AttrsAt(e) \in Nat
    BY <1>2 DEF TypeInv, AttrsAt, EntryWords
  <1>4. PICK unset \in [Dangling(e) -> Garbage] :
          WriteAt(AttrsAt(e), FixedWords(e, unset))
    BY DEF FixEntry
  <1>5. file' \in Seq(Int) /\ tables' \in Seq(Int)
    BY <1>2, <1>3, <1>4, FixedWordsType, WriteAtType
  <1>6. pos' \in Nat
    <2>1. Len(rco.attrs[e]) \in Nat
      BY <1>1, <1>2, EntryType
    <2>2. pos' = AttrsAt(e) + Len(rco.attrs[e])
      BY DEF FixEntry
    <2> QED BY <1>3, <2>1, <2>2
  <1>7. todo' \in Seq(E)
    <2>1. Children(e) \in Seq(E)
      BY <1>1, <1>2, ChildrenType
    <2>2. todo' = Children(e) \o Tail(todo)
      BY DEF FixEntry
    <2> QED BY <1>2, <2>1, <2>2, ConcatProperties
  <1> QED BY <1>1, <1>5, <1>6, <1>7 DEF TypeInv, FixEntry, E, Frames

LEMMA HashTextType == ASSUME TypeInv, HashText PROVE TypeInv'
  <1>1. Goto("hashLang") /\ "hashLang" \in Phases /\ rco \in Archives
    BY DEF HashText, Phases, TypeInv
  <1>2. pc' \in Phases /\ todo' \in IF pc' = "hash" THEN Seq(Kinds) ELSE Seq(E)
    BY <1>1, GotoType
  <1>3. header' \in Headers
    <2>1. header \in Headers /\ pos \in Int
      BY DEF TypeInv
    <2>2. [header EXCEPT !.ptrs[TEXT] = pos] \in Headers
      BY <2>1, HeaderType, KindNames
    <2> QED BY <2>1, <2>2 DEF HashText
  <1> QED BY <1>2, <1>3 DEF TypeInv, HashText, E, Frames

LEMMA SlotsType ==
    ASSUME NEW n \in Nat, NEW items, Len(items) \in Nat,
           \A i \in 1..Len(items) : items[i].at \in Int
    PROVE  /\ SlotWords(Filled(items, n), n) \in Seq(Int)
           /\ Len(SlotWords(Filled(items, n), n)) = n
  <1>1. Filled(items, n) \in [0..n-1 -> Int]
    <2> DEFINE m == Len(items)
    <2>1. PICK t \in [0..m -> [0..n-1 -> Int]] : t[m] = Filled(items, n)
      BY FilledType
    <2> QED BY <2>1
  <1>2. SlotWords(Filled(items, n), n) \in [1..n -> Int]
    BY <1>1 DEF SlotWords
  <1> QED BY <1>2, FunctionIsSeq

LEMMA TextItemsType ==
    ASSUME TypeInv, NEW e \in E
    PROVE  /\ Len(TextItems(e)) = Len(rco.indexes[e])
           /\ \A i \in 1..Len(TextItems(e)) : TextItems(e)[i].at \in Int
  <1> DEFINE n == Len(rco.indexes[e])
             at(i) == offset[e] + EntryWords + TextEntryWords + TextIndexWords * (i - 1)
             item(i) == Item(rco.indexes[e][i].label, at(i))
  <1>1. n \in Nat /\ DOMAIN rco.indexes[e] = 1..n /\ offset[e] \in Nat
    BY EntryType DEF TypeInv
  <1>2. TextItems(e) = [i \in 1..n |-> item(i)]
    BY <1>1 DEF TextItems
  <1>3. \A i \in 1..n : at(i) \in Int
    BY <1>1 DEF EntryWords, TextEntryWords, TextIndexWords
  <1>4. \A i \in 1..n : item(i).at \in Int
    BY <1>3 DEF Item
  <1> HIDE DEF item, n
  <1>5. Len(TextItems(e)) = n
    <2>1. TextItems(e) \in [1..n -> {item(i) : i \in 1..n}]
      BY <1>2
    <2> QED BY <1>1, <2>1, FunctionIsSeq
  <1> QED BY <1>2, <1>4, <1>5 DEF n

LEMMA EntryItemsType ==
    ASSUME TypeInv, NEW es \in Seq(E)
    PROVE  /\ Len(EntryItems(es)) = Len(es)
           /\ \A i \in 1..Len(EntryItems(es)) : EntryItems(es)[i].at \in Int
  <1> DEFINE n == Len(es)
             item(i) == Item(rco.label[es[i]], offset[es[i]])
  <1>1. n \in Nat /\ DOMAIN es = 1..n
    OBVIOUS
  <1>2. EntryItems(es) = [i \in 1..n |-> item(i)]
    BY <1>1 DEF EntryItems
  <1>3. \A i \in 1..n : offset[es[i]] \in Int
    <2> TAKE i \in 1..n
    <2>1. es[i] \in E
      OBVIOUS
    <2> QED BY <2>1 DEF TypeInv
  <1>4. \A i \in 1..n : item(i).at \in Int
    BY <1>3 DEF Item
  <1> HIDE DEF item, n
  <1>5. Len(EntryItems(es)) = n
    <2>1. EntryItems(es) \in [1..n -> {item(i) : i \in 1..n}]
      BY <1>2
    <2> QED BY <1>1, <2>1, FunctionIsSeq
  <1> QED BY <1>2, <1>4, <1>5 DEF n

(* Subentries are in the order of their numbers: no more than there are.   *)
LEMMA KidsType ==
    ASSUME rco \in Archives, NEW e \in E
    PROVE  Len(rco.kids[e]) \in 0..rco.n
  <1> DEFINE kids == rco.kids[e]
             n == Len(kids)
             T == {i \in 0..n : i > 0 => i <= kids[i]}
  <1>1. kids \in Seq(E) /\ n \in Nat /\ E = 1..rco.n /\ rco.n \in Nat
    BY ArchiveType, EntryType
  <1>2. \A i, j \in 1..n : i < j => kids[i] < kids[j]
    <2>1. IsTree(rco) /\ DOMAIN kids = 1..n
      BY <1>1, ArchiveType
    <2> QED BY <2>1 DEF IsTree, E
  <1>3. \A i \in 1..n : kids[i] \in Nat \ {0} /\ kids[i] <= rco.n
    <2> HIDE DEF kids
    <2> TAKE i \in 1..n
    <2>1. kids[i] \in E
      BY <1>1, ElementOfSeq DEF n
    <2> QED BY <1>1, <2>1
  <1> HIDE DEF n, kids
  <1>4. 0 \in T
    BY <1>1
  <1>5. ASSUME NEW i \in 1..n, i - 1 \in T PROVE i \in T
    <2>1. CASE i = 1
      <3>1. kids[i] \in Nat \ {0}
        BY <1>3
      <3> QED BY <1>1, <2>1, <3>1
    <2>2. CASE i > 1
      <3>1. i - 1 \in 1..n /\ i - 1 < i /\ i - 1 <= kids[i-1]
        BY <1>1, <1>5, <2>2
      <3>2. kids[i-1] < kids[i] /\ kids[i-1] \in Nat /\ kids[i] \in Nat
        BY <1>2, <1>3, <3>1
      <3> QED BY <1>1, <3>1, <3>2
    <2> QED BY <1>1, <2>1, <2>2
  <1>6. 0..n \subseteq T
    <2> HIDE DEF T
    <2> QED BY <1>1, <1>4, <1>5, UpTo
  <1>7. CASE n > 0
    <2>1. n \in T /\ n \in 1..n
      BY <1>1, <1>6, <1>7
    <2> QED BY <1>1, <1>3, <2>1 DEF n, kids
  <1> QED BY <1>1, <1>7 DEF n, kids

(* What is hashed of a table.                                              *)
LEMMA HashedType ==
    ASSUME rco \in Archives, NEW k \in Kinds, Table(k) # Nil
    PROVE  /\ Hashed(k) \in Seq(E) /\ Len(Hashed(k)) \in 0..rco.n
           /\ HashSize(k) \in Nat /\ HashSize(k) >= Len(Hashed(k))
  <1>1. Table(k) \in E /\ E = 1..rco.n /\ rco.n \in Nat
    BY ArchiveType, TableType
  <1>2. Hashed(k) \in Seq(E) /\ Len(Hashed(k)) \in 0..rco.n
    <2>1. CASE k = OBJ
      <3> DEFINE e == Table(OBJ)
      <3>1. PICK last \in e..rco.n :
                Preorder(e) = [i \in 1..last - e + 1 |-> e + i - 1]
        BY <1>1, <2>1, PreorderType
      <3>2. last - e + 1 \in Nat /\ last - e + 1 \in 1..rco.n /\ e \in Int
        BY <1>1, <2>1
      <3>3. \A i \in 1..last - e + 1 : e + i - 1 \in E
        BY <1>1, <2>1
      <3> HIDE DEF e
      <3>4. Preorder(e) \in [1..last - e + 1 -> E]
        BY <3>1, <3>3
      <3>5. Preorder(e) \in Seq(E) /\ Len(Preorder(e)) = last - e + 1
        BY <3>2, <3>4, FunctionIsSeq
      <3>6. Preorder(e) # <<>>
        BY <3>2, <3>5
      <3>7. Tail(Preorder(e)) \in Seq(E) /\ Len(Tail(Preorder(e))) = last - e
        <4>1. \A s \in Seq(E) : s # <<>> => Tail(s) \in Seq(E)
                                           /\ Len(Tail(s)) = Len(s) - 1
          OBVIOUS
        <4> QED BY <3>2, <3>5, <3>6, <4>1
      <3> QED BY <1>1, <2>1, <3>2, <3>7 DEF Hashed, e
    <2>2. CASE k # OBJ
      <3>1. Hashed(k) = rco.kids[Table(k)]
        BY <1>1, <2>2 DEF Hashed, Children
      <3> QED BY <1>1, <3>1, KidsType, EntryType
    <2> QED BY <2>1, <2>2
  <1> QED BY <1>2, PrimeType DEF HashSize

LEMMA HashLangAppends == ASSUME TypeInv, HashLang PROVE Appends
  <1>1. PICK i \in DOMAIN todo :
          LET e == todo[i]
              n == Len(rco.indexes[e])
          IN Fwrite(SlotWords(Filled(TextItems(e), n), n))
    BY DEF HashLang
  <1> DEFINE e == todo[i]
             n == Len(rco.indexes[e])
             ws == SlotWords(Filled(TextItems(e), n), n)
  <1>2. rco \in Archives /\ e \in E
    BY DEF HashLang, TypeInv
  <1>3. n \in Nat
    BY <1>2, EntryType
  <1>4. ws \in Seq(Int)
    <2>1. /\ Len(TextItems(e)) = n
          /\ \A j \in 1..Len(TextItems(e)) : TextItems(e)[j].at \in Int
      BY <1>2, TextItemsType
    <2> HIDE DEF n, e
    <2> QED BY <1>3, <2>1, SlotsType DEF ws
  <1>5. Fwrite(ws)
    BY <1>1
  <1> HIDE DEF ws
  <1> QED BY <1>4, <1>5 DEF Appends

LEMMA HashLangType == ASSUME TypeInv, HashLang PROVE TypeInv'
  <1>1. PICK i \in DOMAIN todo :
          /\ header' = [header EXCEPT !.lptrs[TEXT] = @ + Len(rco.indexes[todo[i]])]
          /\ todo' = RemoveAt(todo, i)
    BY DEF HashLang
  <1> DEFINE n == Len(rco.indexes[todo[i]])
  <1>2. pc # "hash" /\ pc' = pc /\ todo \in Seq(E) /\ rco \in Archives
        /\ todo[i] \in E
    BY DEF HashLang, TypeInv
  <1>3. n \in Nat
    BY <1>2, EntryType
  <1>5. file' \in Seq(Int) /\ tables' \in Seq(Int) /\ pos' \in Nat
    BY HashLangAppends, AppendsType
  <1>6. todo' \in Seq(E)
    BY <1>1, <1>2, RemoveType
  <1>7. header' \in Headers
    <2>1. header \in Headers /\ header.lptrs[TEXT] \in Nat
      BY KindNames DEF TypeInv, Headers
    <2>2. header' = [header EXCEPT !.lptrs[TEXT] = @ + n]
      BY <1>1
    <2> HIDE DEF n
    <2>3. header.lptrs[TEXT] + n \in Nat /\ TEXT \in Kinds
      BY <1>3, <2>1, KindNames
    <2> QED BY <2>1, <2>2, <2>3, HeaderType
  <1> QED BY <1>2, <1>5, <1>6, <1>7 DEF TypeInv, HashLang, E, Frames

LEMMA HashTreeAppends == ASSUME TypeInv, HashTree PROVE Appends
  <1> DEFINE k == Head(todo)
             n == HashSize(k)
             ws == SlotWords(Filled(EntryItems(Hashed(k)), n), n)
  <1>1. todo # <<>> /\ todo \in Seq(Kinds) /\ rco \in Archives
    BY DEF HashTree, TypeInv
  <1>2. k \in Kinds
    BY <1>1, TailType
  <1>3. CASE Table(k) = Nil
    BY <1>3 DEF HashTree, Appends
  <1>4. CASE Table(k) # Nil
    <2>1. Fwrite(ws)
      BY <1>4 DEF HashTree
    <2>2. Hashed(k) \in Seq(E) /\ n \in Nat
      BY <1>1, <1>2, <1>4, HashedType
    <2>3. ws \in Seq(Int)
      <3> DEFINE items == EntryItems(Hashed(k))
      <3>1. Len(items) \in Nat /\ \A j \in 1..Len(items) : items[j].at \in Int
        BY <2>2, EntryItemsType
      <3> HIDE DEF n, items
      <3>2. SlotWords(Filled(items, n), n) \in Seq(Int)
        BY <2>2, <3>1, SlotsType
      <3> QED BY <3>2 DEF items
    <2> HIDE DEF ws
    <2> QED BY <2>1, <2>3 DEF Appends
  <1> QED BY <1>3, <1>4

LEMMA HashTreeType == ASSUME TypeInv, HashTree PROVE TypeInv'
  <1> DEFINE k == Head(todo)
             n == HashSize(k)
  <1>1. pc = "hash" /\ pc' = pc /\ todo \in Seq(Kinds) /\ rco \in Archives
    BY DEF HashTree, TypeInv
  <1>2. k \in Kinds /\ Tail(todo) \in Seq(Kinds) /\ todo' = Tail(todo)
    BY <1>1, TailType DEF HashTree
  <1>3. header' \in Headers
    <2>1. CASE Table(k) = Nil
      BY <2>1 DEF HashTree, TypeInv
    <2>2. CASE Table(k) # Nil
      <3>1. header' = [header EXCEPT !.ptrs[k] = pos, !.lptrs[k] = n]
        BY <2>2 DEF HashTree
      <3>2. n \in Nat
        BY <1>1, <1>2, <2>2, HashedType
      <3>3. header \in Headers /\ pos \in Int
        BY DEF TypeInv
      <3> HIDE DEF n, k
      <3>4. [header EXCEPT !.ptrs[k] = pos] \in Headers
        BY <1>2, <3>3, HeaderType
      <3>5. header' = [[header EXCEPT !.ptrs[k] = pos] EXCEPT !.lptrs[k] = n]
        BY <3>1, <3>3 DEF Headers
      <3> QED BY <1>2, <3>2, <3>4, <3>5, HeaderType
    <2> QED BY <2>1, <2>2
  <1>4. file' \in Seq(Int) /\ tables' \in Seq(Int) /\ pos' \in Nat
    BY HashTreeAppends, AppendsType
  <1> QED BY <1>1, <1>2, <1>3, <1>4 DEF TypeInv, HashTree, E, Frames

LEMMA BeginTextType == ASSUME TypeInv, BeginText PROVE TypeInv'
  <1>1. Goto("textBody") /\ "textBody" \in Phases /\ rco \in Archives
    BY DEF BeginText, Phases, TypeInv
  <1>2. pc' \in Phases /\ todo' \in IF pc' = "hash" THEN Seq(Kinds) ELSE Seq(E)
    BY <1>1, GotoType
  <1>3. header' \in Headers
    <2>1. header \in Headers /\ pos \in Int /\ size[TEXT] \in Nat
      BY KindNames DEF TypeInv
    <2>2. [header EXCEPT !.data[TEXT] = pos] \in Headers
      BY <2>1, HeaderType, KindNames
    <2>3. [[header EXCEPT !.data[TEXT] = pos] EXCEPT !.ldata[TEXT] = size[TEXT]]
            \in Headers
      BY <2>1, <2>2, HeaderType, KindNames
    <2> QED BY <2>1, <2>3 DEF BeginText, Headers
  <1> QED BY <1>2, <1>3 DEF TypeInv, BeginText, E, Frames

LEMMA WriteTextAppends == ASSUME TypeInv, WriteText PROVE Appends
  <1> DEFINE e == Head(todo)
             ws == IF rco.readable[e] THEN Data(e, TextTotal(rco, e)) ELSE <<>>
  <1>1. todo \in Seq(E) /\ todo # <<>> /\ rco \in Archives
    BY DEF WriteText, TypeInv
  <1>2. e \in E /\ e \in Nat
    BY <1>1, TailType, EntryType
  <1>3. ws \in Seq(Int)
    <2>1. TextTotal(rco, e) \in Nat
      BY <1>1, <1>2, ArchiveType, TextUsedType DEF E
    <2> DEFINE total == TextTotal(rco, e)
    <2> HIDE DEF total, e
    <2>2. Data(e, total) \in Seq(Int)
      BY <1>2, <2>1, DataType DEF total
    <2>3. <<>> \in Seq(Int)
      OBVIOUS
    <2> QED BY <2>2, <2>3 DEF total
  <1>4. Fwrite(ws)
    BY DEF WriteText
  <1> HIDE DEF ws
  <1> QED BY <1>3, <1>4 DEF Appends

LEMMA WriteTextType == ASSUME TypeInv, WriteText PROVE TypeInv'
  <1>1. pc # "hash" /\ pc' = pc /\ todo \in Seq(E) /\ todo # <<>>
    BY DEF WriteText, TypeInv
  <1>2. Tail(todo) \in Seq(E)
    BY <1>1, TailType
  <1>3. file' \in Seq(Int) /\ tables' \in Seq(Int) /\ pos' \in Nat
    BY WriteTextAppends, AppendsType
  <1> QED BY <1>1, <1>2, <1>3 DEF TypeInv, WriteText, E, Frames

LEMMA LabelsAppends == ASSUME TypeInv, WriteLabelsEvents PROVE Appends
  <1> DEFINE blank == rco.eventsLen = 0 /\ (Table(OBJ) # Nil \/ Table(ANIM) # Nil)
             ws == Data(LabelOwner, rco.labelsLen)
                     \o (IF blank THEN <<0>> ELSE Data(EventOwner, rco.eventsLen))
  <1>1. rco \in Archives /\ Fwrite(ws)
    BY DEF WriteLabelsEvents, TypeInv
  <1>2. /\ rco.labelsLen \in Nat /\ rco.eventsLen \in Nat
        /\ LabelOwner \in Nat /\ EventOwner \in Nat
    BY <1>1, ArchiveType DEF LabelOwner, EventOwner
  <1>3. ws \in Seq(Int)
    <2>1. /\ Data(LabelOwner, rco.labelsLen) \in Seq(Int)
          /\ Data(EventOwner, rco.eventsLen) \in Seq(Int)
      BY <1>2, DataType
    <2> QED BY <2>1
  <1> HIDE DEF ws
  <1> QED BY <1>1, <1>3 DEF Appends

LEMMA LabelsType == ASSUME TypeInv, WriteLabelsEvents PROVE TypeInv'
  <1> DEFINE blank == rco.eventsLen = 0 /\ (Table(OBJ) # Nil \/ Table(ANIM) # Nil)
             text == IF header.ldata[TEXT] # 0 THEN header.data[TEXT]
                     ELSE IF Buffered THEN NULL_PTR ELSE pos
  <1>1. Goto("flush") /\ "flush" \in Phases /\ rco \in Archives
    BY DEF WriteLabelsEvents, Phases, TypeInv
  <1>2. pc' \in Phases /\ todo' \in IF pc' = "hash" THEN Seq(Kinds) ELSE Seq(E)
    BY <1>1, GotoType
  <1>3. rco.labelsLen \in Nat
    BY <1>1, ArchiveType
  <1> DEFINE levent == IF blank THEN 1 ELSE header.levent
             h1 == [header EXCEPT !.label = pos]
             h2 == [h1 EXCEPT !.event = pos + rco.labelsLen]
             h3 == [h2 EXCEPT !.levent = levent]
  <1>5. header' = [h3 EXCEPT !.data[TEXT] = text]
    BY DEF WriteLabelsEvents, Headers, TypeInv
  <1>6. header' \in Headers
    <2>1. header \in Headers /\ pos \in Nat /\ pos + rco.labelsLen \in Nat
      BY <1>3 DEF TypeInv
    <2>2. text \in Int
      BY <2>1, KindNames DEF Headers, NULL_PTR
    <2>3. levent \in Nat
      BY <2>1 DEF Headers
    <2> HIDE DEF text, levent
    <2>4. h1 \in Headers
      BY <2>1, HeaderType
    <2> HIDE DEF h1
    <2>5. h2 \in Headers
      BY <2>1, <2>4, HeaderType
    <2> HIDE DEF h2
    <2>6. h3 \in Headers
      BY <2>3, <2>5, HeaderType
    <2> HIDE DEF h3
    <2> QED BY <1>5, <2>2, <2>6, HeaderType, KindNames
  <1>7. file' \in Seq(Int) /\ tables' \in Seq(Int) /\ pos' \in Nat
    BY LabelsAppends, AppendsType
  <1> QED BY <1>2, <1>6, <1>7 DEF TypeInv, WriteLabelsEvents, E, Frames

LEMMA FlushAppends == ASSUME TypeInv, Flush PROVE Appends
  <1>1. CASE Buffered
    <2>1. PICK len \in PackedLens :
            FileWrite(<<len, Len(tables), longest>> \o Data(0, Words(len)))
      BY <1>1 DEF Flush
    <2>2. len \in Nat /\ Words(len) \in Nat
      BY PackedLensAssumption, WordsType
    <2>3. Data(0, Words(len)) \in Seq(Int)
      BY <2>2, DataType
    <2>4. <<len, Len(tables), longest>> \in Seq(Int)
      BY <2>2 DEF TypeInv
    <2>5. <<len, Len(tables), longest>> \o Data(0, Words(len)) \in Seq(Int)
      BY <2>3, <2>4, ConcatProperties
    <2> QED BY <2>1, <2>5 DEF Appends
  <1>2. CASE ~ Buffered
    BY <1>2 DEF Flush, Appends
  <1> QED BY <1>1, <1>2

LEMMA FlushType == ASSUME TypeInv, Flush PROVE TypeInv'
  <1>1. Goto("packText") /\ "packText" \in Phases /\ rco \in Archives
    BY DEF Flush, Phases, TypeInv
  <1>2. pc' \in Phases /\ todo' \in IF pc' = "hash" THEN Seq(Kinds) ELSE Seq(E)
    BY <1>1, GotoType
  <1>3. file' \in Seq(Int) /\ tables' \in Seq(Int) /\ pos' \in Nat
    BY FlushAppends, AppendsType
  <1> QED BY <1>2, <1>3 DEF TypeInv, Flush, E, Frames

LEMMA BeginPackTextType == ASSUME TypeInv, BeginPackText PROVE TypeInv'
  <1>1. Goto("packTextBody") /\ "packTextBody" \in Phases /\ rco \in Archives
    BY DEF BeginPackText, Phases, TypeInv
  <1>2. pc' \in Phases /\ todo' \in IF pc' = "hash" THEN Seq(Kinds) ELSE Seq(E)
    BY <1>1, GotoType
  <1>3. header' \in Headers
    <2>1. header \in Headers /\ FilePos \in Int
      BY FilePosType DEF TypeInv
    <2>2. [header EXCEPT !.data[TEXT] = FilePos] \in Headers
      BY <2>1, HeaderType, KindNames
    <2>3. [[header EXCEPT !.data[TEXT] = FilePos] EXCEPT !.ldata[TEXT] = 0] \in Headers
      BY <2>2, HeaderType, KindNames
    <2> QED BY <2>1, <2>3 DEF BeginPackText, Headers
  <1> QED BY <1>2, <1>3 DEF TypeInv, BeginPackText, E, Frames

LEMMA TextBlockType ==
    ASSUME TypeInv, NEW e \in E, NEW len \in Nat, NEW last
    PROVE  /\ TextBlock(e, len, last) \in Seq(Int)
           /\ BlockWords(len) \in Nat
           /\ Len(TextBlock(e, len, last)) = BlockWords(len)
  <1>1. /\ rco \in Archives /\ e \in Nat /\ rco.lang[e] \in Nat
        /\ TextTotal(rco, e) \in Nat
    BY ArchiveType, EntryType, TextUsedType DEF TypeInv, E
  <1>2. /\ Words(len) \in Nat /\ Data(e, Words(len)) \in Seq(Int)
        /\ Len(Data(e, Words(len))) = Words(len)
    BY <1>1, WordsType, DataType
  <1> DEFINE next == IF last THEN 0 ELSE BlockWords(len)
             info == <<rco.lang[e] + 65536, next, len, TextTotal(rco, e)>>
  <1>3. BlockWords(len) \in Nat /\ next \in Int
    BY <1>2 DEF BlockWords, TextComprWords
  <1> HIDE DEF next
  <1>4. info \in Seq(Int) /\ Len(info) = 4
    BY <1>1, <1>3
  <1> HIDE DEF info
  <1> DEFINE d == Data(e, Words(len))
             w == Words(len)
             b == TextBlock(e, len, last)
  <1>5. d \in Seq(Int) /\ Len(d) = w /\ w \in Nat
    BY <1>2
  <1>6. len # 0 => b = info \o d /\ BlockWords(len) = 4 + w
    BY DEF TextBlock, info, next, BlockWords, TextComprWords
  <1>7. len = 0 => b = <<>> /\ BlockWords(len) = 0
    BY DEF TextBlock, BlockWords
  <1> HIDE DEF d, w, b
  <1>8. info \o d \in Seq(Int) /\ Len(info \o d) = Len(info) + Len(d)
    BY <1>4, <1>5, ConcatProperties
  <1>9. b \in Seq(Int) /\ Len(b) = BlockWords(len)
    <2>1. CASE len = 0
      BY <1>7, <2>1
    <2>2. CASE len # 0
      BY <1>4, <1>5, <1>6, <1>8, <2>2
    <2> QED BY <2>1, <2>2
  <1> QED BY <1>3, <1>9 DEF b

(* The block of a language that PackText writes.                           *)
Packs(len) ==
    /\ FileWrite(TextBlock(Head(todo), len, Tail(todo) = <<>>))
    /\ header' = [header EXCEPT !.ldata[TEXT] = @ + BlockWords(len)]

LEMMA PackStep ==
    ASSUME TypeInv, PackText
    PROVE  /\ \E len \in Nat : Packs(len)
           /\ Head(todo) \in E /\ todo \in Seq(E) /\ todo # <<>>
           /\ pc = "packTextBody" /\ pc' = pc /\ todo' = Tail(todo)
  <1>1. todo \in Seq(E) /\ todo # <<>> /\ pc = "packTextBody"
        /\ pc' = pc /\ todo' = Tail(todo)
    BY DEF PackText, TypeInv
  <1>2. \E len \in IF rco.readable[Head(todo)] THEN PackedLens ELSE {0} : Packs(len)
    BY DEF PackText, Packs
  <1>3. \A len \in IF rco.readable[Head(todo)] THEN PackedLens ELSE {0} : len \in Nat
    BY PackedLensAssumption
  <1> QED BY <1>1, <1>2, <1>3, TailType

LEMMA PackTextAppends == ASSUME TypeInv, PackText PROVE Appends
  <1>1. PICK len \in Nat : Packs(len)
    BY PackStep
  <1>2. TextBlock(Head(todo), len, Tail(todo) = <<>>) \in Seq(Int)
    BY PackStep, TextBlockType
  <1> QED BY <1>1, <1>2 DEF Appends, Packs

LEMMA PackTextType == ASSUME TypeInv, PackText PROVE TypeInv'
  <1>1. pc # "hash" /\ pc' = pc /\ todo \in Seq(E) /\ todo # <<>>
    BY PackStep
  <1>2. Tail(todo) \in Seq(E)
    BY <1>1, TailType
  <1>3. PICK len \in Nat : Packs(len)
    BY PackStep
  <1>4. BlockWords(len) \in Nat
    BY PackStep, TextBlockType
  <1>5. header' \in Headers
    <2>1. header \in Headers /\ header.ldata[TEXT] \in Nat
      BY KindNames DEF TypeInv, Headers
    <2>2. header.ldata[TEXT] + BlockWords(len) \in Nat
      BY <1>4, <2>1
    <2>3. [header EXCEPT !.ldata[TEXT] = header.ldata[TEXT] + BlockWords(len)] \in Headers
      BY <2>1, <2>2, HeaderType, KindNames
    <2> QED BY <1>3, <2>3 DEF Packs
  <1>6. file' \in Seq(Int) /\ tables' \in Seq(Int) /\ pos' \in Nat
    BY PackTextAppends, AppendsType
  <1>7. /\ todo' = Tail(todo)
        /\ UNCHANGED <<pc, rco, opts, src, tmp, fileHeader, offset, stack, size,
                       longest>>
    BY DEF PackText
  <1> QED BY <1>1, <1>2, <1>5, <1>6, <1>7 DEF TypeInv, E, Frames

LEMMA CopyFile ==
    ASSUME TypeInv, CopyResources
    PROVE  \E ws \in Seq(Int) : FileWrite(ws)
  <1> DEFINE len == header.ldata[IMG] + header.ldata[SOUND] + header.ldata[MODEL]
             ws(g) == [i \in 1..len |-> IF i <= Len(tmp) THEN tmp[i] ELSE g]
  <1>1. PICK g \in Int : FileWrite(ws(g))
    <2>1. PICK g \in IF Len(tmp) < len THEN Garbage ELSE {0} : FileWrite(ws(g))
      BY DEF CopyResources
    <2>2. g \in Int
      BY GarbageAssumption
    <2> QED BY <2>1, <2>2
  <1>2. ws(g) \in Seq(Int)
    <2>1. header.ldata[IMG] \in Nat /\ header.ldata[SOUND] \in Nat
          /\ header.ldata[MODEL] \in Nat
      BY KindNames DEF TypeInv, Headers
    <2>2. len \in Nat
      BY <2>1
    <2>3. len \in Nat /\ tmp \in Seq(Int)
      BY <2>2 DEF TypeInv
    <2> HIDE DEF len
    <2>4. ws(g) \in [1..len -> Int]
      BY <2>3
    <2> HIDE DEF ws
    <2> QED BY <2>3, <2>4, FunctionIsSeq
  <1> HIDE DEF ws
  <1> QED BY <1>1, <1>2

LEMMA CopyAppends == ASSUME TypeInv, CopyResources PROVE Appends
  BY CopyFile DEF Appends

LEMMA CopyType == ASSUME TypeInv, CopyResources PROVE TypeInv'
  <1>1. Goto("header") /\ "header" \in Phases /\ rco \in Archives
    BY DEF CopyResources, Phases, TypeInv
  <1>2. pc' \in Phases /\ todo' \in IF pc' = "hash" THEN Seq(Kinds) ELSE Seq(E)
    BY <1>1, GotoType
  <1>3. /\ header.ldata[IMG] \in Nat /\ header.ldata[SOUND] \in Nat
        /\ header.ldata[MODEL] \in Nat /\ header \in Headers /\ FilePos \in Nat
        /\ header.data \in [Kinds -> Int]
    BY KindNames, FilePosType DEF TypeInv, Headers
  <1>4. PICK f \in [Kinds -> Int] : header' = [header EXCEPT !.data = f]
    <2> DEFINE has(k) == HasSubentries(rco, Table(k))
               before == [k \in {IMG, SOUND, MODEL} |->
                            CASE k = IMG -> 0
                              [] k = SOUND -> header.ldata[IMG]
                              [] k = MODEL -> header.ldata[IMG] + header.ldata[SOUND]]
               f == [k \in Kinds |-> IF k \in {IMG, SOUND, MODEL} /\ has(k)
                                     THEN FilePos + before[k] ELSE header.data[k]]
    <2>1. \A k \in {IMG, SOUND, MODEL} : before[k] \in Nat
      BY <1>3 DEF IMG, SOUND, MODEL
    <2>2. header' = [header EXCEPT !.data = f]
      BY <1>3 DEF CopyResources, Headers
    <2> HIDE DEF before
    <2>3. f \in [Kinds -> Int]
      BY <1>3, <2>1
    <2> QED BY <2>2, <2>3
  <1>5. header' \in Headers
    <2>1. header \in Headers
      BY DEF TypeInv
    <2>2. [header EXCEPT !.data = f] \in Headers
      BY <2>1, HeaderType
    <2> QED BY <1>4, <2>2
  <1>8. file' \in Seq(Int) /\ tables' \in Seq(Int) /\ pos' \in Nat
    BY CopyAppends, AppendsType
  <1> QED BY <1>2, <1>5, <1>8 DEF TypeInv, CopyResources, E, Frames

LEMMA FixHeaderType == ASSUME TypeInv, FixHeader PROVE TypeInv'
  <1>1. Goto("done") /\ "done" \in Phases /\ rco \in Archives
    BY DEF FixHeader, Phases, TypeInv
  <1>2. pc' \in Phases /\ todo' \in IF pc' = "hash" THEN Seq(Kinds) ELSE Seq(E)
    BY <1>1, GotoType
  <1>3. header' \in Headers /\ fileHeader' = header'
    <2> DEFINE f == [k \in Kinds |-> IF k # MAIN /\ Table(k) # Nil
                                     THEN offset[Table(k)] ELSE header.table[k]]
    <2>1. header \in Headers /\ header.table \in [Kinds -> Int]
      BY DEF TypeInv, Headers
    <2>2. \A k \in Kinds : Table(k) # Nil => offset[Table(k)] \in Int
      BY <1>1, TableType DEF TypeInv
    <2>3. f \in [Kinds -> Int]
      BY <2>1, <2>2
    <2>4. header' = [header EXCEPT !.table = f] /\ fileHeader' = header'
      BY <2>1 DEF FixHeader, Headers
    <2> HIDE DEF f
    <2> QED BY <2>1, <2>3, <2>4, HeaderType
  <1> QED BY <1>2, <1>3 DEF TypeInv, FixHeader, E, Frames

-----------------------------------------------------------------------------
LEMMA NextType == ASSUME TypeInv, Next PROVE TypeInv'
  <1>1. CASE Open \/ OpenFails
    BY <1>1, OpenType
  <1>2. CASE StageImage \/ StageModel
    BY <1>2, StageType, KindNames DEF StageImage, StageModel
  <1>3. CASE StageSound
    BY <1>3, StageSoundType
  <1>4. CASE WritePlaceholderHeader
    BY <1>4, PlaceholderType
  <1>5. CASE WriteMain \/ WriteChild \/ FinishEntry
    BY <1>5, WriteMainType, WriteChildType, FinishEntryType
  <1>6. CASE FixEntry
    BY <1>6, FixEntryType
  <1>7. CASE HashText \/ HashLang \/ HashTree
    BY <1>7, HashTextType, HashLangType, HashTreeType
  <1>8. CASE BeginText \/ WriteText \/ WriteLabelsEvents
    BY <1>8, BeginTextType, WriteTextType, LabelsType
  <1>9. CASE Flush \/ BeginPackText \/ PackText
    BY <1>9, FlushType, BeginPackTextType, PackTextType
  <1>10. CASE CopyResources \/ FixHeader
    BY <1>10, CopyType, FixHeaderType
  <1>11. CASE EndLoop
    <2>1. {"sound", "model", "placeholder", "fixAnim", "hashText", "hash", "text",
           "labels", "resources"} \subseteq Phases
      BY DEF Phases
    <2> QED BY <1>11, <2>1, FallthroughType DEF EndLoop
  <1> QED
    BY <1>1, <1>2, <1>3, <1>4, <1>5, <1>6, <1>7, <1>8, <1>9, <1>10, <1>11 DEF Next

(* In every state write_rco goes through, for every archive and whatever   *)
(* the compressors return, its variables have the types TypeInv gives:     *)
(* only entries are visited, no offset or length is negative, and what is  *)
(* in the buffers are words.                                               *)
THEOREM TypesKept == Spec => []TypeInv
  <1>1. TypeInv /\ [Next]_vars => TypeInv'
    <2>1. TypeInv /\ UNCHANGED vars => TypeInv'
      BY DEF TypeInv, vars, E, Frames
    <2> QED BY <2>1, NextType
  <1> QED BY <1>1, InitType, PTL DEF Spec

(* The type invariant the runs check.                                      *)
THEOREM TypeCorrect == Spec => []TypeOK
  <1>1. TypeInv => TypeOK
    <2> SUFFICES ASSUME TypeInv PROVE TypeOK
      OBVIOUS
    <2>1. todo \in Seq(Nat)
      <3>1. Kinds \subseteq Nat
        BY DEF Kinds, MAIN, ANIM
      <3>2. E \subseteq Nat
        <4>1. rco \in Archives
          BY DEF TypeInv
        <4>2. E = 1..rco.n
          BY <4>1, ArchiveType
        <4> QED BY <4>2
      <3>3. ASSUME NEW S, S \subseteq Nat, todo \in Seq(S) PROVE todo \in Seq(Nat)
        <4>1. todo \in [1..Len(todo) -> S] /\ Len(todo) \in Nat
          BY <3>3
        <4>2. todo \in [1..Len(todo) -> Nat]
          BY <3>3, <4>1
        <4> QED BY <4>1, <4>2, FunctionIsSeq
      <3>4. todo \in Seq(Kinds) \/ todo \in Seq(E)
        BY DEF TypeInv
      <3> QED BY <3>1, <3>2, <3>3, <3>4
    <2>2. fileHeader # <<>> => DOMAIN fileHeader = DOMAIN header
      BY DEF TypeInv, Headers
    <2>3. \A i \in DOMAIN stack : stack[i].e \in E /\ stack[i].left \in Seq(E)
      <3> TAKE i \in DOMAIN stack
      <3>1. stack[i] \in Frames
        BY DEF TypeInv
      <3> QED BY <3>1 DEF Frames
    <2> QED BY <2>1, <2>2, <2>3 DEF TypeInv, TypeOK, Headers
  <1> QED BY <1>1, TypesKept, PTL

-----------------------------------------------------------------------------
(* The archives.                                                           *)

(* rco_write_fix_refs leaves the position of the output where it patched   *)
(* last, and what follows is written there.  That is the end of the output *)
(* when the last entry of the document is patched, and patched last: the   *)
(* animations are the last tree or, when there are none, the objects are.  *)
EndsWith(k) ==
    /\ Within(rco, Table(k), rco.n)
    /\ rco.id[rco.n] \in {OBJ, ANIM} /\ rco.type[rco.n] # 0

PatchedLast ==
    IF HasSubentries(rco, Table(ANIM)) THEN EndsWith(ANIM)
    ELSE HasSubentries(rco, Table(OBJ)) => EndsWith(OBJ)

(* rco_write_fix_refs is called for the subentries of two tables only.     *)
RefsInTables ==
    \A e \in E : rco.attrs[e] # <<>> =>
       LET t == Table(rco.id[e])
       IN t # Nil /\ t # e /\ Within(rco, t, e)

-----------------------------------------------------------------------------
(* The tree as it is written.                                              *)

N == rco.n

(* The place of an entry among its siblings.                               *)
Siblings(c) == rco.kids[rco.parent[c]]
Place(c) == CHOOSE i \in DOMAIN Siblings(c) : Siblings(c)[i] = c
LastSibling(c) == c = Main \/ Place(c) = Len(Siblings(c))

(* The fields that link c to its parent and to its neighbours while the    *)
(* entries up to m are written: nextEntryOffset is filled in when          *)
(* write_entry returns, and leads to where the next entry is written.      *)
ParentAt(c) == IF c = Main THEN HeaderWords ELSE offset[rco.parent[c]]

PrevDistance(c) ==
    IF c = Main \/ Place(c) = 1 THEN 0
    ELSE offset[c] - offset[Siblings(c)[Place(c) - 1]]

OnStack(c) == \E j \in DOMAIN stack : stack[j].e = c

NextDistance(c, m) ==
    IF LastSibling(c) \/ OnStack(c) THEN 0
    ELSE LET next == Siblings(c)[Place(c) + 1]
         IN (IF next <= m THEN offset[next] ELSE pos) - offset[c]

HeaderOf(c, m) ==
    EntryHeader(c, offset[c], ParentAt(c), PrevDistance(c), NextDistance(c, m))

Linked(m) ==
    \A c \in 1..m : \A k \in 1..EntryWords : Field(c, k) = HeaderOf(c, m)[k]

(* Entries lie one behind the other, with their attributes.                *)
Room(e) == EntryWords + Len(rco.attrs[e])

Placed(m) ==
    /\ \A e \in 1..m : offset[e] >= HeaderWords /\ offset[e] + Room(e) <= StreamEnd
    /\ \A e, g \in 1..m : e < g => offset[e] + Room(e) <= offset[g]

Patchable(e) == rco.id[e] \in {OBJ, ANIM} /\ rco.type[e] # 0

AtEnd(m) == m > 0 /\ Patchable(m) => offset[m] + Room(m) = StreamEnd

(* The call j of write_entry has written d subentries of its entry, and    *)
(* the caller of another call is inside the last of them.                  *)
Call(m, j, d) ==
    LET f    == stack[j]
        kids == rco.kids[f.e]
    IN /\ f.e \in 1..m /\ f.at = offset[f.e] /\ f.parent = ParentAt(f.e)
       /\ f.prev = PrevDistance(f.e) /\ f.last = LastSibling(f.e)
       /\ Len(f.left) = Len(kids) - d
       /\ \A i \in 1..Len(f.left) : f.left[i] = kids[d + i]
       /\ \A i \in 1..Len(kids) : kids[i] <= m <=> i <= d
       /\ j > 1 => d > 0 /\ kids[d] = stack[j-1].e
       /\ j = 1 /\ f.left # <<>> =>
             f.ret = IF d = 0 THEN 0 ELSE pos - offset[kids[d]]
       /\ j = Len(stack) <=> f.e = Main
       /\ j < Len(stack) => stack[j+1].e = rco.parent[f.e]

Calls(m) ==
    /\ \A j \in DOMAIN stack : \E d \in 0..Len(rco.kids[stack[j].e]) : Call(m, j, d)
    /\ \A i, j \in DOMAIN stack : i < j => stack[j].e < stack[i].e
    /\ \A e \in E : e > m /\ e # Main /\ rco.parent[e] <= m => OnStack(rco.parent[e])
    /\ m = 0 <=> stack = <<>>

Early == {"open", "image", "sound", "model", "placeholder"}
Fixing == {"fixObj", "fixAnim"}

(* All entries are written, and no call of write_entry is left.            *)
Whole == stack = <<>> /\ Placed(N) /\ Linked(N)

(* The last entry to visit is the last of the document or above it.        *)
EndsAtEnd ==
    pc = "fixAnim" \/ ~ HasSubentries(rco, Table(ANIM)) =>
       IF todo = <<>> THEN pos = StreamEnd
       ELSE Within(rco, todo[Len(todo)], N) /\ Patchable(N)

TreeInv ==
    /\ pc \in Early => Stream = <<>> /\ stack = <<>>
    /\ pc = "entries" =>
          /\ pos = StreamEnd
          /\ \E m \in 0..N : Placed(m) /\ Linked(m) /\ AtEnd(m) /\ Calls(m)
    /\ TreeWritten => Whole
    /\ pc \in Fixing => AtEnd(N) /\ EndsAtEnd
    /\ TreeWritten /\ pc \notin Fixing => pos = StreamEnd

(* The references of e are in the file.                                    *)
Resolved(e) ==
    \A w \in DOMAIN rco.attrs[e] :
       LET word == rco.attrs[e][w]
           v    == Word(offset[e] + EntryWords + w - 1)
       IN IF ~ word.ent THEN v = word.v ELSE word.v # Nil => v = offset[word.v]

(* What is still to be patched.                                            *)
ToVisit(e) ==
    pc \in Fixing /\
    \/ \E i \in DOMAIN todo : Within(rco, todo[i], e)
    \/ pc = "fixObj" /\ rco.id[e] = ANIM

RefsInv == TreeWritten => \A e \in E : Resolved(e) \/ ToVisit(e)

-----------------------------------------------------------------------------
(* The entries, parents before their subentries.                           *)

LEMMA ParentType ==
    ASSUME rco \in Archives
    PROVE  /\ N \in Nat \ {0} /\ E = 1..N /\ Main = 1 /\ Main \in E
           /\ rco.parent[Main] = 0
           /\ \A e \in E : rco.parent[e] \in Nat
           /\ \A e \in E : e # Main => rco.parent[e] \in E /\ rco.parent[e] < e
           /\ \A e \in E : \A f \in rco.parent[e]+1..e-1 :
                 rco.parent[f] >= rco.parent[e]
  <1>1. /\ IsTree(rco) /\ N \in Nat \ {0} /\ E = 1..N /\ E = EntriesOf(rco)
        /\ Main = 1 /\ Main \in E
    BY ArchiveType DEF N, E, Main
  <1>2. \A e \in E : IF e = 1 THEN rco.parent[e] = Nil ELSE rco.parent[e] \in 1..e-1
    BY <1>1 DEF IsTree
  <1>3. \A e \in E : \A f \in rco.parent[e]+1..e-1 : rco.parent[f] >= rco.parent[e]
    BY <1>1 DEF IsTree
  <1>4. rco.parent[Main] = 0
    BY <1>1, <1>2 DEF Nil
  <1>5. \A e \in E : e # Main => rco.parent[e] \in E /\ rco.parent[e] < e
    BY <1>1, <1>2
  <1> QED BY <1>1, <1>3, <1>4, <1>5

LEMMA KidType ==
    ASSUME rco \in Archives, NEW e \in E, NEW i \in 1..Len(rco.kids[e])
    PROVE  LET c == rco.kids[e][i]
           IN /\ c \in E /\ c # Main /\ rco.parent[c] = e /\ e < c
              /\ Siblings(c) = rco.kids[e] /\ Place(c) = i
              /\ \A j \in 1..Len(rco.kids[e]) : i < j => c < rco.kids[e][j]
              /\ \A j \in 1..Len(rco.kids[e]) : j < i => rco.kids[e][j] < c
  <1> DEFINE kids == rco.kids[e]
             c == kids[i]
  <1>1. kids \in Seq(E) /\ Len(kids) \in Nat /\ DOMAIN kids = 1..Len(kids)
    BY EntryType
  <1>2. c \in E
    BY <1>1
  <1>3. IsTree(rco) /\ E = EntriesOf(rco)
    BY ArchiveType DEF E
  <1>4. rco.parent[c] = e
    BY <1>1, <1>3 DEF IsTree
  <1>5. \A j, k \in 1..Len(kids) : j < k => kids[j] < kids[k]
    BY <1>1, <1>3 DEF IsTree
  <1>6. c # Main /\ e < c
    BY <1>2, <1>4, ParentType
  <1>7. Siblings(c) = kids
    BY <1>4 DEF Siblings
  <1>8. Place(c) = i
    <2>1. \A j \in 1..Len(kids) : kids[j] \in Int
      <3> TAKE j \in 1..Len(kids)
      <3>1. kids[j] \in E
        BY <1>1
      <3> QED BY <3>1, ParentType
    <2>2. \A j \in 1..Len(kids) : kids[j] = c => j = i
      <3> SUFFICES ASSUME NEW j \in 1..Len(kids), kids[j] = c, j # i PROVE FALSE
        OBVIOUS
      <3>1. j < i \/ i < j
        BY <1>1
      <3>2. kids[j] < kids[i] \/ kids[i] < kids[j]
        BY <1>5, <3>1
      <3> HIDE DEF kids
      <3> QED BY <2>1, <3>2
    <2>3. Place(c) = CHOOSE j \in 1..Len(kids) : kids[j] = c
      BY <1>1, <1>7 DEF Place
    <2> QED BY <2>2, <2>3
  <1> QED BY <1>2, <1>4, <1>5, <1>6, <1>7, <1>8

LEMMA PlaceType ==
    ASSUME rco \in Archives, NEW c \in E, c # Main
    PROVE  /\ rco.parent[c] \in E /\ Siblings(c) = rco.kids[rco.parent[c]]
           /\ Place(c) \in 1..Len(Siblings(c)) /\ Siblings(c)[Place(c)] = c
  <1> DEFINE p == rco.parent[c]
  <1>1. p \in E
    BY ParentType
  <1>2. \E i \in DOMAIN rco.kids[p] : rco.kids[p][i] = c
    <2>1. IsTree(rco) /\ c \in 2..rco.n
      BY ArchiveType DEF Main
    <2> QED BY <2>1 DEF IsTree
  <1>3. DOMAIN rco.kids[p] = 1..Len(rco.kids[p])
    BY <1>1, EntryType
  <1> QED BY <1>1, <1>2, <1>3 DEF Siblings, Place

(* Below an entry, the last entry is below its last subentry.              *)
LEMMA LastKid ==
    ASSUME rco \in Archives, NEW e \in E, Within(rco, e, N), rco.kids[e] # <<>>
    PROVE  Within(rco, rco.kids[e][Len(rco.kids[e])], N)
  <1> DEFINE kids == rco.kids[e]
             l == kids[Len(kids)]
  <1>1. kids \in Seq(E) /\ Len(kids) \in 1..Len(kids) /\ Len(kids) \in Nat
    <2>1. kids \in Seq(E) /\ kids # <<>>
      BY EntryType
    <2> QED BY <2>1
  <1>2. l \in E /\ rco.parent[l] = e /\ e < l
    BY <1>1, KidType
  <1>3. ASSUME NEW f \in l+1..N, rco.parent[f] < l PROVE FALSE
    <2>1. f \in E /\ f # Main /\ f \in e+1..N
      BY <1>2, ParentType
    <2> DEFINE p == rco.parent[f]
    <2>2. p >= e /\ p \in E
      BY <2>1, ParentType DEF Within
    <2>3. CASE p = e
      <3>1. Place(f) \in 1..Len(kids) /\ kids[Place(f)] = f
        BY <2>1, <2>3, PlaceType
      <3>2. Place(f) = Len(kids) \/ Place(f) < Len(kids)
        BY <1>1, <3>1
      <3>3. Place(f) < Len(kids) => f < l
        BY <1>1, <3>1, KidType
      <3>4. f # l /\ ~ (f < l)
        BY <1>2, ParentType
      <3> QED BY <3>1, <3>2, <3>3, <3>4
    <2>4. CASE p > e
      <3>1. l \in p+1..f-1
        BY <1>2, <1>3, <2>2, ParentType, SMTT(30)
      <3>2. rco.parent[l] >= p
        BY <2>1, <3>1, ParentType
      <3> QED BY <1>2, <2>2, <2>4, <3>2, ParentType
    <2> QED BY <2>2, <2>3, <2>4, ParentType
  <1>4. \A f \in l+1..N : rco.parent[f] >= l
    <2> TAKE f \in l+1..N
    <2>1. f \in E /\ rco.parent[f] \in Nat /\ l \in Nat
      BY <1>2, ParentType
    <2>2. ~ (rco.parent[f] < l)
      BY <1>3
    <2> HIDE DEF l
    <2> QED BY <2>1, <2>2
  <1>5. l <= N
    BY <1>2, ParentType
  <1> HIDE DEF l
  <1>6. Within(rco, l, N)
    BY <1>4, <1>5 DEF Within
  <1> QED BY <1>6 DEF l

(* An entry without subentries that the last entry lies below is the last. *)
LEMMA LastLeaf ==
    ASSUME rco \in Archives, NEW e \in E, Within(rco, e, N), rco.kids[e] = <<>>
    PROVE  e = N
  <1> SUFFICES ASSUME e # N PROVE FALSE
    OBVIOUS
  <1>1. e + 1 \in E /\ e + 1 # Main /\ e + 1 \in e+1..N
    BY ParentType
  <1>2. rco.parent[e+1] = e
    <2>1. rco.parent[e+1] >= e /\ rco.parent[e+1] < e + 1 /\ rco.parent[e+1] \in Nat
      BY <1>1, ParentType DEF Within
    <2> QED BY <2>1, ParentType
  <1>3. Place(e+1) \in 1..Len(rco.kids[e])
    BY <1>1, <1>2, PlaceType
  <1> QED BY <1>3

(* What lies below an entry lies below one of its subentries, or is one.   *)
LEMMA BelowKid ==
    ASSUME rco \in Archives, NEW e \in E, NEW f \in E, Within(rco, e, f), f # e
    PROVE  \E i \in 1..Len(rco.kids[e]) : Within(rco, rco.kids[e][i], f)
  <1> DEFINE kids == rco.kids[e]
             S == {i \in 1..Len(kids) : kids[i] <= f}
  <1>1. e < f /\ Len(kids) \in Nat
    BY EntryType, ParentType DEF Within
  <1>2. \E i \in S : TRUE
    <2>1. e + 1 \in E /\ e + 1 # Main /\ e + 1 \in e+1..f /\ e + 1 <= f
      BY <1>1, ParentType
    <2>2. rco.parent[e+1] = e
      <3>1. rco.parent[e+1] >= e /\ rco.parent[e+1] < e + 1 /\ rco.parent[e+1] \in Nat
        BY <2>1, ParentType DEF Within
      <3> QED BY <3>1, ParentType
    <2>3. Place(e+1) \in 1..Len(kids) /\ kids[Place(e+1)] = e + 1
      BY <2>1, <2>2, PlaceType
    <2> QED BY <2>1, <2>3
  <1>3. PICK i \in S : \A j \in S : j <= i
    <2>1. S \subseteq Int /\ S # {} /\ (\A j \in S : j <= Len(kids)) /\ Len(kids) \in Int
      BY <1>1, <1>2
    <2> HIDE DEF S, kids
    <2> QED BY <2>1, LastExists, Zenon
  <1> DEFINE c == kids[i]
  <1>4. c \in E /\ rco.parent[c] = e /\ e < c /\ c <= f /\ i \in 1..Len(kids)
    <2>1. i \in 1..Len(rco.kids[e]) /\ c = rco.kids[e][i] /\ c <= f
      BY <1>3
    <2> HIDE DEF c
    <2>2. c \in E /\ rco.parent[c] = e /\ e < c
      BY <2>1, KidType
    <2> QED BY <2>1, <2>2
  <1>5. ASSUME NEW g \in c+1..f, rco.parent[g] < c PROVE FALSE
    <2>1. g \in E /\ g # Main /\ g \in e+1..f
      BY <1>4, ParentType
    <2> DEFINE p == rco.parent[g]
    <2>2. p >= e /\ p \in E
      BY <2>1, ParentType DEF Within
    <2>3. CASE p = e
      <3>1. Place(g) \in 1..Len(kids) /\ kids[Place(g)] = g
        BY <2>1, <2>3, PlaceType
      <3>2. Place(g) \in S
        BY <1>4, <2>1, <3>1, ParentType
      <3>3. Place(g) = i \/ Place(g) < i
        BY <1>3, <1>4, <3>1, <3>2
      <3>4. Place(g) < i => g < c
        BY <1>4, <3>1, KidType
      <3>5. g # c /\ ~ (g < c)
        BY <1>4, ParentType
      <3> QED BY <3>1, <3>3, <3>4, <3>5
    <2>4. CASE p > e
      <3>1. c \in p+1..g-1
        <4>1. c \in Nat /\ p \in Nat
          BY <1>4, <2>2, ParentType
        <4>2. p < c
          BY <1>5
        <4> HIDE DEF c, p
        <4> QED BY <4>1, <4>2
      <3>2. rco.parent[c] >= p
        BY <2>1, <3>1, ParentType
      <3>3. e \in Nat /\ p \in Nat /\ rco.parent[c] = e
        BY <1>4, <2>2, ParentType
      <3> HIDE DEF c, p
      <3> QED BY <2>4, <3>2, <3>3
    <2> QED BY <2>2, <2>3, <2>4, ParentType
  <1>6. \A g \in c+1..f : rco.parent[g] >= c
    <2> TAKE g \in c+1..f
    <2> DEFINE p == rco.parent[g]
    <2>1. g \in E /\ p \in Nat /\ c \in Nat
      <3>1. N \in Nat /\ E = 1..N /\ f \in E /\ c \in E
        BY <1>4, ParentType DEF Within
      <3>2. g \in E /\ c \in Nat
        <4> HIDE DEF c
        <4> QED BY <3>1
      <3> QED BY <3>2, ParentType
    <2>2. ~ (p < c)
      BY <1>5
    <2> HIDE DEF c, p
    <2>3. p >= c
      BY <2>1, <2>2
    <2> QED BY <2>3 DEF p
  <1>7. Within(rco, c, f)
    <2>1. c <= f
      BY <1>4
    <2> HIDE DEF c
    <2> QED BY <1>6, <2>1 DEF Within
  <1> QED BY <1>4, <1>7

-----------------------------------------------------------------------------
(* The words of the stream.                                                *)

(* The word of a stream s at position p.                                   *)
WordAt(s, p) == s[p - HeaderWords + 1]

EndOf(s) == HeaderWords + Len(s)

(* The words of s before its end, but not those from lo to hi, are those   *)
(* of t.                                                                   *)
KeptBut(s, t, lo, hi) ==
    \A p \in HeaderWords..EndOf(s)-1 : ~ (lo <= p /\ p < hi) => WordAt(t, p) = WordAt(s, p)

(* The words ws are in t from position p on.                               *)
LiesAt(t, p, ws) == \A k \in 1..Len(ws) : WordAt(t, p + k - 1) = ws[k]

LEMMA PutAtStream ==
    ASSUME NEW s \in Seq(Int), NEW at \in Int, NEW ws \in Seq(Int),
           at >= HeaderWords
    PROVE  LET t == PutAt(s, at - HeaderWords, ws)
           IN /\ EndOf(t) = IF at + Len(ws) > EndOf(s) THEN at + Len(ws)
                            ELSE EndOf(s)
              /\ KeptBut(s, t, at, at + Len(ws))
              /\ LiesAt(t, at, ws)
  <1> DEFINE i == at - HeaderWords
             t == PutAt(s, i, ws)
  <1>1. i \in Nat /\ Len(s) \in Nat /\ Len(ws) \in Nat
    BY DEF HeaderWords
  <1> HIDE DEF t
  <1>2. /\ Len(t) = IF i + Len(ws) > Len(s) THEN i + Len(ws) ELSE Len(s)
        /\ \A k \in 1..Len(s) : ~ (i < k /\ k <= i + Len(ws)) => t[k] = s[k]
        /\ \A k \in 1..Len(ws) : t[i + k] = ws[k]
    BY <1>1, PutAtWords DEF t
  <1>3. EndOf(t) = IF at + Len(ws) > EndOf(s) THEN at + Len(ws) ELSE EndOf(s)
    BY <1>1, <1>2 DEF EndOf, HeaderWords
  <1>4. KeptBut(s, t, at, at + Len(ws))
    <2>1. ASSUME NEW p \in HeaderWords..EndOf(s)-1, ~ (at <= p /\ p < at + Len(ws))
          PROVE  WordAt(t, p) = WordAt(s, p)
      <3> DEFINE k == p - HeaderWords + 1
      <3>1. k \in 1..Len(s) /\ ~ (i < k /\ k <= i + Len(ws))
        BY <1>1, <2>1 DEF EndOf, HeaderWords
      <3>2. t[k] = s[k]
        BY <1>2, <3>1
      <3> QED BY <3>2 DEF WordAt
    <2> QED BY <2>1 DEF KeptBut
  <1>5. LiesAt(t, at, ws)
    <2>1. ASSUME NEW k \in 1..Len(ws) PROVE WordAt(t, at + k - 1) = ws[k]
      <3> DEFINE q == at + k - 1
      <3>1. WordAt(t, q) = t[q - HeaderWords + 1]
        BY DEF WordAt
      <3>2. q - HeaderWords + 1 = i + k
        BY <1>1 DEF HeaderWords
      <3> HIDE DEF i, q
      <3>3. WordAt(t, q) = ws[k]
        BY <1>2, <3>1, <3>2
      <3> QED BY <3>3 DEF q
    <2> QED BY <2>1 DEF LiesAt
  <1> QED BY <1>3, <1>4, <1>5 DEF t

LEMMA StreamType ==
    ASSUME TypeInv
    PROVE  /\ Stream \in Seq(Int) /\ StreamEnd = EndOf(Stream) /\ StreamEnd \in Nat
           /\ Len(Stream) \in Nat
  <1>1. Stream \in Seq(Int)
    BY DEF TypeInv, Stream
  <1> QED BY <1>1 DEF StreamEnd, EndOf, HeaderWords

LEMMA WriteAtStream ==
    ASSUME TypeInv, NEW at \in Int, NEW ws \in Seq(Int), at >= HeaderWords,
           WriteAt(at, ws), opts' = opts
    PROVE  /\ StreamEnd' = IF at + Len(ws) > StreamEnd THEN at + Len(ws)
                           ELSE StreamEnd
           /\ KeptBut(Stream, Stream', at, at + Len(ws))
           /\ LiesAt(Stream', at, ws)
  <1>1. Stream' = PutAt(Stream, at - HeaderWords, ws)
    BY DEF WriteAt, Stream, Buffered
  <1>2. StreamEnd' = EndOf(Stream')
    BY DEF StreamEnd, EndOf
  <1>3. Stream \in Seq(Int) /\ StreamEnd = EndOf(Stream)
    BY StreamType
  <1>4. LET t == PutAt(Stream, at - HeaderWords, ws)
        IN /\ EndOf(t) = IF at + Len(ws) > EndOf(Stream) THEN at + Len(ws)
                         ELSE EndOf(Stream)
           /\ KeptBut(Stream, t, at, at + Len(ws))
           /\ LiesAt(t, at, ws)
    BY <1>3, PutAtStream
  <1> QED BY <1>1, <1>2, <1>3, <1>4

(* What is written at the end of the stream leaves all of it as it is.     *)
Extended ==
    /\ pos' = StreamEnd' /\ StreamEnd' >= StreamEnd
    /\ KeptBut(Stream, Stream', StreamEnd, StreamEnd')

LEMMA FwriteExtends ==
    ASSUME TypeInv, NEW ws \in Seq(Int), Fwrite(ws), pos = StreamEnd, opts' = opts
    PROVE  /\ Extended /\ StreamEnd' = StreamEnd + Len(ws)
           /\ LiesAt(Stream', StreamEnd, ws)
  <1>1. WriteAt(StreamEnd, ws) /\ pos' = StreamEnd + Len(ws)
    BY DEF Fwrite
  <1>2. StreamEnd \in Nat /\ StreamEnd >= HeaderWords /\ Len(ws) \in Nat
    BY StreamType DEF EndOf, HeaderWords
  <1>3. /\ StreamEnd' = IF StreamEnd + Len(ws) > StreamEnd THEN StreamEnd + Len(ws)
                        ELSE StreamEnd
        /\ KeptBut(Stream, Stream', StreamEnd, StreamEnd + Len(ws))
        /\ LiesAt(Stream', StreamEnd, ws)
    BY <1>1, <1>2, WriteAtStream
  <1>4. StreamEnd' = StreamEnd + Len(ws)
    BY <1>2, <1>3
  <1> QED BY <1>1, <1>2, <1>3, <1>4 DEF Extended

LEMMA UnchangedExtends ==
    ASSUME TypeInv, pos = StreamEnd, UNCHANGED <<pos, file, tables, opts>>
    PROVE  Extended
  <1>1. Stream' = Stream /\ StreamEnd' = StreamEnd
    BY DEF Stream, StreamEnd, Buffered
  <1> QED BY <1>1, StreamType DEF Extended, KeptBut

LEMMA FileWriteExtends ==
    ASSUME TypeInv, NEW ws \in Seq(Int), FileWrite(ws), pos = StreamEnd, opts' = opts
    PROVE  Extended
  <1>1. CASE Buffered
    <2>1. UNCHANGED <<pos, tables>> /\ Stream = tables /\ Stream' = tables'
      BY <1>1 DEF FileWrite, Stream, Buffered
    <2>2. Stream' = Stream /\ StreamEnd' = StreamEnd
      BY <2>1 DEF StreamEnd
    <2> QED BY <2>1, <2>2, StreamType DEF Extended, KeptBut
  <1>2. CASE ~ Buffered
    <2>1. Fwrite(ws)
      BY <1>2 DEF FileWrite, Fwrite, WriteAt, FilePos
    <2> QED BY <2>1, FwriteExtends
  <1> QED BY <1>1, <1>2

-----------------------------------------------------------------------------
(* What is written stays where it is.                                      *)

(* The fields of an entry's header.                                        *)
LEMMA HeaderFields ==
    ASSUME TypeInv, NEW c \in E, NEW at \in Int, NEW parent \in Int,
           NEW prev \in Int, NEW nxt \in Int
    PROVE  LET h == EntryHeader(c, at, parent, prev, nxt)
           IN /\ h[1] = 256 * rco.id[c] + rco.type[c]
              /\ h[CountField] = Len(rco.kids[c]) /\ h[NextField] = nxt
              /\ h[PrevField] = PrevWord(c, prev) /\ h[ParentField] = at - parent
              /\ \A other \in Int : \A k \in 1..EntryWords : k # NextField =>
                    EntryHeader(c, at, parent, prev, other)[k] = h[k]
  <1>1. EntryHeader(c, at, parent, prev, nxt)[NextField] = nxt
    BY DEF EntryHeader, NextField
  <1>2. \A other \in Int : \A k \in 1..EntryWords : k # NextField =>
           EntryHeader(c, at, parent, prev, other)[k]
             = EntryHeader(c, at, parent, prev, nxt)[k]
    BY SMTT(30) DEF EntryHeader, NextField, EntryWords
  <1> QED BY <1>1, <1>2 DEF EntryHeader, CountField, NextField, PrevField, ParentField

LEMMA FieldWord ==
    ASSUME NEW c, NEW k
    PROVE  /\ Field(c, k) = WordAt(Stream, offset[c] + k - 1)
           /\ Field(c, k)' = WordAt(Stream', offset'[c] + k - 1)
  BY DEF Field, Word, WordAt

(* The neighbours of an entry do not move.                                 *)
LEMMA NeighboursKept ==
    ASSUME rco \in Archives, rco' = rco, NEW m \in 0..N, NEW c \in 1..m,
           \A b \in 1..m : offset'[b] = offset[b]
    PROVE  /\ ParentAt(c)' = ParentAt(c) /\ PrevDistance(c)' = PrevDistance(c)
           /\ LastSibling(c)' = LastSibling(c) /\ Siblings(c)' = Siblings(c)
           /\ Place(c)' = Place(c)
  <1>1. c \in E /\ m \in Nat /\ E = 1..N /\ Main = 1
    BY ParentType
  <1>2. Siblings(c)' = Siblings(c) /\ Place(c)' = Place(c)
    BY DEF Siblings, Place
  <1>3. LastSibling(c)' = LastSibling(c)
    BY <1>2 DEF LastSibling
  <1>4. ParentAt(c)' = ParentAt(c)
    <2>1. CASE c = Main
      BY <2>1 DEF ParentAt
    <2>2. CASE c # Main
      <3>1. rco.parent[c] \in 1..m
        BY <1>1, <2>2, ParentType
      <3> QED BY <2>2, <3>1 DEF ParentAt
    <2> QED BY <2>1, <2>2
  <1>5. PrevDistance(c)' = PrevDistance(c)
    <2>1. CASE c = Main \/ Place(c) = 1
      BY <1>2, <2>1 DEF PrevDistance
    <2>2. CASE c # Main /\ Place(c) # 1
      <3> DEFINE p == rco.parent[c]
                 i == Place(c)
      <3>1. p \in E /\ i \in 1..Len(rco.kids[p]) /\ rco.kids[p][i] = c
            /\ Siblings(c) = rco.kids[p]
        BY <1>1, <2>2, PlaceType
      <3>2. i - 1 \in 1..Len(rco.kids[p]) /\ i - 1 < i
        BY <2>2, <3>1, EntryType
      <3>3. rco.kids[p][i-1] \in E /\ rco.kids[p][i-1] < c
        BY <3>1, <3>2, KidType
      <3>4. Siblings(c)[Place(c) - 1] \in 1..m
        BY <1>1, <3>1, <3>3
      <3>5. offset'[Siblings(c)[Place(c) - 1]] = offset[Siblings(c)[Place(c) - 1]]
            /\ offset'[c] = offset[c]
        BY <3>4
      <3> QED BY <1>2, <2>2, <3>5 DEF PrevDistance
    <2> QED BY <2>1, <2>2
  <1> QED BY <1>2, <1>3, <1>4, <1>5

(* Neither does what its header says, when its words are not written to.   *)
LEMMA HeaderKept ==
    ASSUME rco \in Archives, rco' = rco, NEW m \in 0..N, NEW n \in 0..N, Linked(m),
           NEW c \in 1..m,
           \A b \in 1..m : offset'[b] = offset[b],
           \A k \in 1..EntryWords : WordAt(Stream', offset[c] + k - 1)
                                      = WordAt(Stream, offset[c] + k - 1),
           NextDistance(c, n)' = NextDistance(c, m)
    PROVE  \A k \in 1..EntryWords : Field(c, k)' = HeaderOf(c, n)'[k]
  <1>1. HeaderOf(c, n)' = HeaderOf(c, m)
    BY NeighboursKept
    DEF HeaderOf, EntryHeader, IsParentEntry, EntrySize, PrevWord
  <1>2. ASSUME NEW k \in 1..EntryWords PROVE Field(c, k)' = HeaderOf(c, m)[k]
    <2>1. Field(c, k)' = WordAt(Stream, offset[c] + k - 1)
      BY FieldWord
    <2>2. Field(c, k) = HeaderOf(c, m)[k]
      BY DEF Linked
    <2> QED BY <2>1, <2>2, FieldWord
  <1> QED BY <1>1, <1>2

(* The space of an entry, and what write_entry writes of it.               *)
LEMMA RoomType ==
    ASSUME TypeInv, NEW e \in E
    PROVE  /\ Room(e) \in Nat /\ Room(e) >= EntryWords
           /\ Len(Extra(e)) \in Nat /\ Room(e) <= EntryWords + Len(Extra(e))
           /\ Patchable(e) => Room(e) = EntryWords + Len(Extra(e))
  <1>1. Len(rco.attrs[e]) \in Nat /\ Len(Extra(e)) \in Nat /\ rco \in Archives
    <2>1. Extra(e) \in Seq(Int) /\ rco \in Archives
      BY ExtraType DEF TypeInv
    <2>2. Len(Extra(e)) \in Nat
      BY <2>1
    <2> QED BY <2>1, <2>2, EntryType
  <1>2. ~ Patchable(e) => rco.attrs[e] = <<>>
    <2>1. IsArchive(rco) /\ E = EntriesOf(rco)
      BY <1>1, ArchiveType DEF E
    <2> QED BY <2>1 DEF Patchable, IsArchive
  <1>3. Patchable(e) => Len(Extra(e)) = Len(rco.attrs[e])
    <2>1. Patchable(e) => Extra(e) = Placeholders(e)
      BY DEF Patchable, Extra, VSMX, TEXT, IMG, MODEL, SOUND, FONT, OBJ, ANIM
    <2> QED BY <2>1, PlaceholdersType
  <1>4. rco.attrs[e] = <<>> => Len(rco.attrs[e]) = 0
    OBVIOUS
  <1> QED BY <1>1, <1>2, <1>3, <1>4 DEF Room, EntryWords

(* The header of an entry is kept when what is written lies elsewhere.     *)
LEMMA WordsKept ==
    ASSUME TypeInv, NEW m \in 0..N, Placed(m), NEW c \in 1..m,
           NEW lo \in Int, NEW hi \in Int, KeptBut(Stream, Stream', lo, hi),
           hi <= offset[c] \/ offset[c] + EntryWords <= lo
    PROVE  \A k \in 1..EntryWords : WordAt(Stream', offset[c] + k - 1)
                                      = WordAt(Stream, offset[c] + k - 1)
  <1> TAKE k \in 1..EntryWords
  <1> DEFINE p == offset[c] + k - 1
  <1>1. /\ c \in E /\ offset[c] \in Nat /\ offset[c] >= HeaderWords
        /\ offset[c] + Room(c) <= StreamEnd /\ Room(c) \in Nat
        /\ Room(c) >= EntryWords
    <2>1. c \in E
      BY ParentType DEF TypeInv
    <2> QED BY <2>1, RoomType DEF TypeInv, Placed
  <1>2. p \in HeaderWords..EndOf(Stream)-1 /\ ~ (lo <= p /\ p < hi)
    <2>1. EndOf(Stream) = StreamEnd /\ StreamEnd \in Nat
      BY StreamType
    <2>2. /\ EntryWords \in Nat /\ HeaderWords \in Nat
          /\ offset[c] <= p /\ p < offset[c] + EntryWords /\ p \in Int
      BY <1>1 DEF EntryWords, HeaderWords
    <2> HIDE DEF p
    <2> QED BY <1>1, <2>1, <2>2
  <1> HIDE DEF p
  <1>3. WordAt(Stream', p) = WordAt(Stream, p)
    BY <1>2 DEF KeptBut
  <1> QED BY <1>3 DEF p

(* write_entry writes the next entry at the end.                           *)
LEMMA EnterTree ==
    ASSUME TypeInv, NEW m \in 0..N-1, Placed(m), Linked(m), pos = StreamEnd,
           NEW prev \in Int, Enter(m + 1, ParentAt(m + 1), prev),
           prev = PrevDistance(m + 1)',
           \A b \in 1..m : NextDistance(b, m + 1)' = NextDistance(b, m),
           NextDistance(m + 1, m + 1)' = 0
    PROVE  /\ Placed(m + 1)' /\ Linked(m + 1)' /\ AtEnd(m + 1)'
           /\ pos' = StreamEnd' /\ KeptBut(Stream, Stream', StreamEnd, StreamEnd')
  <1> DEFINE c == m + 1
             h == EntryHeader(c, pos, ParentAt(c), prev, 0)
             ws == h \o Extra(c)
  <1>1. /\ rco \in Archives /\ rco' = rco /\ opts' = opts /\ pos \in Nat
        /\ m \in Nat /\ c \in E /\ c \in Nat /\ E = 1..N /\ Main = 1 /\ N \in Nat
    <2>1. rco \in Archives /\ rco' = rco /\ opts' = opts /\ pos \in Nat
      BY DEF TypeInv, Enter
    <2>2. E = 1..N /\ Main = 1 /\ N \in Nat
      BY <2>1, ParentType
    <2> QED BY <2>1, <2>2
  <1>2. ParentAt(c) \in Int
    <2>1. c # Main => offset[rco.parent[c]] \in Nat
      BY <1>1, ParentType DEF TypeInv
    <2> QED BY <2>1 DEF ParentAt, HeaderWords
  <1> HIDE DEF c
  <1>3. h \in Seq(Int) /\ Len(h) = EntryWords
    <2> DEFINE parent == ParentAt(c)
    <2>1. pos \in Int /\ 0 \in Int /\ parent \in Int
      BY <1>1, <1>2
    <2> HIDE DEF parent
    <2> DEFINE at == pos
    <2>2. at \in Int
      BY <2>1
    <2> HIDE DEF at
    <2>0. c \in E
      BY <1>1
    <2>3. \A nxt \in Int : /\ EntryHeader(c, at, parent, prev, nxt) \in Seq(Int)
                           /\ Len(EntryHeader(c, at, parent, prev, nxt)) = EntryWords
      BY <2>0, <2>1, <2>2, HeaderWordsType
    <2>4. /\ EntryHeader(c, pos, parent, prev, 0) \in Seq(Int)
          /\ Len(EntryHeader(c, pos, parent, prev, 0)) = EntryWords
      BY <2>3 DEF at
    <2> QED BY <2>4 DEF parent
  <1>4. Extra(c) \in Seq(Int)
    BY <1>1, ExtraType
  <1>5. ws \in Seq(Int) /\ Len(ws) = EntryWords + Len(Extra(c))
        /\ \A k \in 1..EntryWords : ws[k] = h[k]
    <2> DEFINE x == Extra(c)
    <2> HIDE DEF h, x
    <2>1. h \in Seq(Int) /\ x \in Seq(Int)
      BY <1>3, <1>4 DEF x
    <2>2. h \o x \in Seq(Int) /\ Len(h \o x) = Len(h) + Len(x)
          /\ \A k \in 1..Len(h) : (h \o x)[k] = h[k]
      BY <2>1, ConcatProperties
    <2> QED BY <1>3, <2>2 DEF x
  <1>6. Fwrite(ws) /\ offset' = [offset EXCEPT ![c] = pos]
    BY DEF Enter, c
  <1> HIDE DEF ws
  <1>7. /\ Extended /\ StreamEnd' = StreamEnd + Len(ws)
        /\ LiesAt(Stream', StreamEnd, ws)
    BY <1>1, <1>5, <1>6, FwriteExtends
  <1>8. StreamEnd \in Nat /\ StreamEnd >= HeaderWords /\ Len(Extra(c)) \in Nat
        /\ Room(c) \in Nat /\ Room(c) <= EntryWords + Len(Extra(c))
        /\ (Patchable(c) => Room(c) = EntryWords + Len(Extra(c)))
    BY <1>1, StreamType, RoomType DEF EndOf, HeaderWords
  <1>9. offset'[c] = StreamEnd /\ \A b \in 1..m : offset'[b] = offset[b] /\ b \in E
    <2>1. offset \in [E -> Nat] /\ pos = StreamEnd
      BY DEF TypeInv
    <2>2. \A b \in 1..m : b \in E /\ b # c
      BY <1>1 DEF c
    <2> QED BY <1>1, <1>6, <2>1, <2>2
  <1>10. \A e : Room(e)' = Room(e) /\ Patchable(e)' = Patchable(e)
    BY <1>1 DEF Room, Patchable
  <1>11. \A e \in 1..m : offset[e] \in Nat /\ Room(e) \in Nat
    BY <1>9, RoomType DEF TypeInv
  <1>12. Placed(m + 1)'
    <2>1. ASSUME NEW e \in 1..m+1
          PROVE  offset'[e] >= HeaderWords /\ offset'[e] + Room(e) <= StreamEnd'
      <3>1. CASE e = c
        <4>1. offset'[e] = StreamEnd /\ StreamEnd' = StreamEnd + (EntryWords + Len(Extra(c)))
          BY <1>5, <1>7, <1>9, <3>1
        <4> QED BY <1>8, <3>1, <4>1 DEF EntryWords, HeaderWords
      <3>2. CASE e # c
        <4>1. e \in 1..m
          BY <1>1, <3>2 DEF c
        <4>2. offset[e] >= HeaderWords /\ offset[e] + Room(e) <= StreamEnd
          BY <4>1 DEF Placed
        <4>3. StreamEnd' = StreamEnd + (EntryWords + Len(Extra(c)))
          BY <1>5, <1>7
        <4>4. offset'[e] = offset[e] /\ offset[e] \in Nat /\ Room(e) \in Nat
          BY <1>9, <1>11, <4>1
        <4> QED BY <1>8, <4>2, <4>3, <4>4 DEF HeaderWords, EntryWords
      <3> QED BY <3>1, <3>2
    <2>2. ASSUME NEW e \in 1..m+1, NEW g \in 1..m+1, e < g
          PROVE  offset'[e] + Room(e) <= offset'[g]
      <3>1. e \in 1..m /\ (g \in 1..m \/ g = c)
        BY <1>1, <2>2 DEF c
      <3>2. offset[e] + Room(e) <= StreamEnd
        BY <3>1 DEF Placed
      <3>3. g \in 1..m => offset[e] + Room(e) <= offset[g]
        BY <2>2, <3>1 DEF Placed
      <3> QED BY <1>9, <3>1, <3>2, <3>3
    <2> QED BY <1>10, <2>1, <2>2 DEF Placed
  <1>13. Linked(m + 1)'
    <2>1. ASSUME NEW b \in 1..m, NEW k \in 1..EntryWords
          PROVE  Field(b, k)' = HeaderOf(b, m + 1)'[k]
      <3>1. KeptBut(Stream, Stream', StreamEnd, StreamEnd') /\ StreamEnd' \in Int
        BY <1>1, <1>5, <1>7, <1>8 DEF Extended
      <3>2. offset[b] + EntryWords <= StreamEnd
        <4>1. offset[b] + Room(b) <= StreamEnd /\ Room(b) >= EntryWords
          BY <1>9, RoomType DEF Placed
        <4> QED BY <1>8, <1>11, <4>1, SMTT(30) DEF EntryWords
      <3>3. \A i \in 1..EntryWords : WordAt(Stream', offset[b] + i - 1)
                                       = WordAt(Stream, offset[b] + i - 1)
        <4>1. m \in 0..N
          BY <1>1
        <4> QED BY <1>8, <3>1, <3>2, <4>1, WordsKept
      <3>4. m \in 0..N /\ m + 1 \in 0..N
        BY <1>1
      <3> QED BY <1>1, <1>9, <3>3, <3>4, HeaderKept
    <2>2. ASSUME NEW k \in 1..EntryWords
          PROVE  Field(c, k)' = HeaderOf(c, c)'[k]
      <3>1. Field(c, k)' = ws[k]
        <4>1. k \in 1..Len(ws)
          <5>1. EntryWords + Len(Extra(c)) >= EntryWords
            BY <1>8 DEF EntryWords
          <5>2. Len(ws) \in Nat /\ Len(ws) >= EntryWords
            BY <1>5, <1>8, <5>1 DEF EntryWords
          <5> QED BY <5>2 DEF EntryWords
        <4> QED BY <1>7, <1>9, <4>1, FieldWord DEF LiesAt
      <3>2. ParentAt(c)' = ParentAt(c)
        <4>1. CASE c = Main
          BY <4>1 DEF ParentAt
        <4>2. CASE c # Main
          <5>1. rco.parent[c] \in 1..m
            <6>1. rco.parent[c] \in E /\ rco.parent[c] < c
              BY <1>1, <4>2, ParentType
            <6> QED BY <1>1, <6>1 DEF c
          <5> QED BY <1>1, <1>9, <4>2, <5>1 DEF ParentAt
        <4> QED BY <4>1, <4>2
      <3>3. HeaderOf(c, c)' = h
        <4>1. PrevDistance(c)' = prev /\ NextDistance(c, c)' = 0
          BY DEF c
        <4> QED BY <1>1, <1>9, <3>2, <4>1
                DEF HeaderOf, EntryHeader, IsParentEntry, EntrySize, PrevWord
      <3> QED BY <1>5, <3>1, <3>3
    <2>3. \A b \in 1..m+1 : b \in 1..m \/ b = c
      BY <1>1 DEF c
    <2> QED BY <2>1, <2>2, <2>3 DEF Linked, c
  <1>14. AtEnd(m + 1)'
    BY <1>5, <1>7, <1>8, <1>9, <1>10 DEF AtEnd, c
  <1> QED BY <1>7, <1>12, <1>13, <1>14 DEF Extended

-----------------------------------------------------------------------------
(* The calls of write_entry.                                               *)

LEMMA Pushed ==
    ASSUME NEW S, NEW s \in Seq(S), s # <<>>, NEW x \in S, NEW y \in S
    PROVE  LET t == <<x, y>> \o Tail(s)
           IN /\ Len(t) = Len(s) + 1 /\ DOMAIN t = 1..Len(s)+1
              /\ t[1] = x /\ t[2] = y
              /\ \A j \in 3..Len(t) : t[j] = s[j-1]
  <1> DEFINE u == Tail(s)
             p == <<x, y>>
  <1>1. u \in Seq(S) /\ Len(u) = Len(s) - 1 /\ Len(s) \in Nat \ {0}
        /\ \A j \in 1..Len(u) : u[j] = s[j+1]
    OBVIOUS
  <1>2. p \in Seq(S) /\ Len(p) = 2 /\ p[1] = x /\ p[2] = y
    OBVIOUS
  <1> HIDE DEF u, p
  <1>3. /\ p \o u \in Seq(S) /\ Len(p \o u) = Len(p) + Len(u)
        /\ \A j \in 1..Len(p) + Len(u) :
              (p \o u)[j] = IF j <= Len(p) THEN p[j] ELSE u[j - Len(p)]
    BY <1>1, <1>2, ConcatProperties
  <1>4. Len(p \o u) = Len(s) + 1 /\ DOMAIN (p \o u) = 1..Len(s)+1
    BY <1>1, <1>2, <1>3
  <1>5. (p \o u)[1] = x /\ (p \o u)[2] = y
    BY <1>1, <1>2, <1>3
  <1>6. \A j \in 3..Len(p \o u) : (p \o u)[j] = s[j-1]
    <2> TAKE j \in 3..Len(p \o u)
    <2>1. j \in 1..Len(p) + Len(u) /\ ~ (j <= 2) /\ j - 2 \in 1..Len(u)
          /\ j - 2 + 1 = j - 1
      BY <1>1, <1>2, <1>3
    <2>2. (p \o u)[j] = u[j - 2]
      BY <1>2, <1>3, <2>1
    <2> QED BY <1>1, <2>1, <2>2
  <1> QED BY <1>4, <1>5, <1>6 DEF u, p

LEMMA Popped ==
    ASSUME NEW S, NEW s \in Seq(S), s # <<>>
    PROVE  /\ Len(s) \in Nat \ {0} /\ Len(Tail(s)) = Len(s) - 1
           /\ DOMAIN s = 1..Len(s) /\ DOMAIN Tail(s) = 1..Len(s)-1
           /\ \A j \in 1..Len(s)-1 : Tail(s)[j] = s[j+1]
           /\ Tail(s) = <<>> <=> Len(s) = 1
  <1>1. Len(s) \in Nat \ {0} /\ Len(Tail(s)) = Len(s) - 1 /\ Tail(s) \in Seq(S)
    OBVIOUS
  <1>2. \A j \in 1..Len(s)-1 : Tail(s)[j] = s[j+1]
    OBVIOUS
  <1>3. DOMAIN s = 1..Len(s) /\ DOMAIN Tail(s) = 1..Len(s)-1
    BY <1>1
  <1>4. Tail(s) = <<>> <=> Len(s) = 1
    <2>1. \A u \in Seq(S) : u = <<>> <=> Len(u) = 0
      OBVIOUS
    <2>2. Len(Tail(s)) = 0 <=> Len(s) = 1
      BY <1>1
    <2> DEFINE u == Tail(s)
    <2>3. u \in Seq(S) /\ (Len(u) = 0 <=> Len(s) = 1)
      BY <1>1, <2>2
    <2> HIDE DEF u
    <2>4. u = <<>> <=> Len(s) = 1
      BY <2>1, <2>3
    <2> QED BY <2>4 DEF u
  <1> QED BY <1>1, <1>2, <1>3, <1>4

LEMMA FrameFields ==
    ASSUME TypeInv, NEW j \in DOMAIN stack
    PROVE  /\ stack[j] \in Frames /\ stack[j].e \in E
           /\ stack[j].left \in Seq(E) /\ Len(stack[j].left) \in Nat
           /\ Len(rco.kids[stack[j].e]) \in Nat
  <1>1. stack[j] \in Frames
    BY DEF TypeInv
  <1>2. stack[j].e \in E /\ stack[j].left \in Seq(E)
    BY <1>1 DEF Frames
  <1>3. Len(stack[j].left) \in Nat
    BY <1>2
  <1> QED BY <1>1, <1>2, <1>3, EntryType DEF TypeInv

(* The subentry to be written next is the next entry of the document, and  *)
(* the only one that a written neighbour waits for.                        *)
LEMMA NextChild ==
    ASSUME TypeInv, NEW m \in 0..N, Calls(m), stack # <<>>, stack[1].left # <<>>,
           NEW d \in 0..Len(rco.kids[stack[1].e]), Call(m, 1, d)
    PROVE  LET e == stack[1].e
               c == Head(stack[1].left)
           IN /\ m < N /\ c = m + 1 /\ d < Len(rco.kids[e])
              /\ c = rco.kids[e][d+1] /\ e \in 1..m
              /\ rco.parent[c] = e /\ c # Main /\ Place(c) = d + 1
              /\ Siblings(c) = rco.kids[e]
              /\ \A b \in 1..m : ~ LastSibling(b) /\ ~ OnStack(b)
                    /\ ~ (Siblings(b)[Place(b) + 1] <= m)
                    => Siblings(b)[Place(b) + 1] = m + 1
  <1> DEFINE f == stack[1]
             e == f.e
             kids == rco.kids[e]
             c == Head(f.left)
  <1>1. /\ rco \in Archives /\ stack \in Seq(Frames) /\ 1 \in DOMAIN stack
        /\ DOMAIN stack = 1..Len(stack) /\ Len(stack) \in Nat
        /\ N \in Nat /\ E = 1..N /\ m \in Nat /\ Main = 1
    <2>1. rco \in Archives /\ stack \in Seq(Frames)
      BY DEF TypeInv
    <2> QED BY <2>1, ParentType
  <1>2. e \in E /\ e \in 1..m /\ Len(kids) \in Nat
        /\ Len(f.left) \in Nat /\ f.left \in Seq(E)
    BY <1>1, FrameFields DEF Call
  <1>3. /\ d + 1 \in 1..Len(kids) /\ c = kids[d+1] /\ Len(f.left) = Len(kids) - d
        /\ \A i \in 1..Len(f.left) : f.left[i] = kids[d + i]
    <2>1. Len(f.left) = Len(kids) - d /\ \A i \in 1..Len(f.left) : f.left[i] = kids[d + i]
      BY DEF Call
    <2>2. Len(f.left) \in Nat \ {0} /\ c = f.left[1]
      BY <1>2
    <2> HIDE DEF kids, c
    <2> QED BY <1>2, <2>1, <2>2
  <1>4. /\ c \in E /\ rco.parent[c] = e /\ c # Main /\ Place(c) = d + 1
        /\ Siblings(c) = kids
    <2> DEFINE i == d + 1
    <2>1. i \in 1..Len(kids) /\ c = kids[i] /\ e \in E
      BY <1>2, <1>3
    <2>2. rco \in Archives
      BY <1>1
    <2> HIDE DEF e, c, i
    <2>3. /\ c \in E /\ rco.parent[c] = e /\ c # Main /\ Place(c) = i
          /\ Siblings(c) = kids
      BY <2>1, <2>2, KidType
    <2> QED BY <2>3 DEF i
  <1>5. c > m
    <2>1. \A i \in 1..Len(kids) : kids[i] <= m <=> i <= d
      BY DEF Call
    <2>2. ~ (c <= m)
      <3> HIDE DEF c, kids
      <3> QED BY <1>2, <1>3, <2>1
    <2> QED BY <1>1, <1>4, <2>2
  <1>6. m < N /\ m + 1 \in E /\ m + 1 # Main
    <2> HIDE DEF c, e
    <2> QED BY <1>1, <1>2, <1>4, <1>5
  <1>7. c = m + 1
    <2> SUFFICES ASSUME c # m + 1 PROVE FALSE
      OBVIOUS
    <2>1. c > m + 1
      BY <1>1, <1>4, <1>5
    <2> DEFINE p == rco.parent[m+1]
    <2>2. p \in E /\ p <= m /\ p \in Nat
      BY <1>1, <1>6, ParentType
    <2>3. OnStack(p)
      <3>1. Calls(m) /\ m + 1 > m
        BY <1>1
      <3> QED BY <1>6, <2>2, <3>1 DEF Calls
    <2>4. PICK j \in DOMAIN stack : stack[j].e = p
      BY <2>3 DEF OnStack
    <2>5. CASE j = 1
      <3> DEFINE i == Place(m+1)
      <3>1. i \in 1..Len(kids) /\ kids[i] = m + 1
        BY <1>1, <1>6, <2>4, <2>5, PlaceType
      <3>2. i > d
        <4>1. kids[i] <= m <=> i <= d
          BY <3>1 DEF Call
        <4>2. i \in Nat /\ d \in Nat /\ m \in Nat
          BY <1>1, <3>1
        <4>3. ~ (kids[i] <= m)
          <5> HIDE DEF i, kids
          <5> QED BY <3>1, <4>2
        <4> HIDE DEF i, kids
        <4> QED BY <4>1, <4>2, <4>3
      <3>3. i = d + 1 \/ d + 1 < i
        <4> HIDE DEF i, kids
        <4> QED BY <1>2, <3>1, <3>2
      <3>4. d + 1 < i => c < m + 1
        <4> DEFINE k == d + 1
        <4>1. k \in 1..Len(kids) /\ c = kids[k]
          BY <1>3
        <4> HIDE DEF e, c, i, k
        <4>2. \A l \in 1..Len(kids) : k < l => c < kids[l]
          BY <1>1, <1>2, <4>1, KidType
        <4>3. k < i => c < m + 1
          BY <3>1, <4>2
        <4> QED BY <4>3 DEF k
      <3>5. i = d + 1 => c = m + 1
        <4>1. kids[i] = m + 1 /\ c = kids[d+1]
          BY <1>3, <3>1
        <4> HIDE DEF i, c, kids
        <4> QED BY <4>1
      <3>6. c \in Int /\ m + 1 \in Int
        BY <1>1, <1>4
      <3> HIDE DEF c, i, kids
      <3> QED BY <2>1, <3>3, <3>4, <3>5, <3>6
    <2>6. CASE j # 1
      <3>1. p < e
        BY <1>1, <2>4, <2>6 DEF Calls
      <3>2. rco \in Archives /\ m \in Nat /\ e \in Nat /\ e <= m /\ c \in E /\ c \in Nat
        BY <1>1, <1>2, <1>4
      <3>3. m + 1 \in e+1..c-1
        <4> HIDE DEF c, e
        <4> QED BY <2>1, <3>2
      <3>4. p >= e
        <4>1. m + 1 \in rco.parent[c]+1..c-1
          BY <1>4, <3>3
        <4> HIDE DEF c, e
        <4>2. rco.parent[m+1] >= rco.parent[c]
          BY <3>2, <4>1, ParentType
        <4> QED BY <1>4, <4>2
      <3> HIDE DEF e, p
      <3> QED BY <2>2, <3>1, <3>2, <3>4
    <2> QED BY <2>5, <2>6
  <1>8. ASSUME NEW b \in 1..m, ~ LastSibling(b), ~ OnStack(b),
               ~ (Siblings(b)[Place(b) + 1] <= m)
        PROVE  Siblings(b)[Place(b) + 1] = m + 1
    <2> DEFINE p == rco.parent[b]
               i == Place(b)
    <2>1. b \in E /\ b # Main
      BY <1>1, <1>8 DEF LastSibling
    <2>2. p \in E /\ Siblings(b) = rco.kids[p] /\ i \in 1..Len(rco.kids[p])
          /\ rco.kids[p][i] = b /\ Len(rco.kids[p]) \in Nat
      BY <1>1, <2>1, PlaceType, EntryType
    <2>3. i + 1 \in 1..Len(rco.kids[p])
      <3>1. i # Len(rco.kids[p])
        BY <1>8, <2>2 DEF LastSibling
      <3> HIDE DEF i, p
      <3> QED BY <2>2, <3>1
    <2> DEFINE g == rco.kids[p][i+1]
    <2>4. g \in E /\ rco.parent[g] = p /\ g # Main
      <3> DEFINE k == i + 1
      <3>1. k \in 1..Len(rco.kids[p])
        BY <2>3
      <3>2. rco \in Archives
        BY <1>1
      <3> HIDE DEF k, p
      <3>3. rco.kids[p][k] \in E /\ rco.parent[rco.kids[p][k]] = p /\ rco.kids[p][k] # Main
        BY <2>2, <3>1, <3>2, KidType
      <3> QED BY <3>3 DEF k
    <2>5. ~ (g <= m) /\ g > m
      <3>1. ~ (g <= m)
        BY <1>8, <2>2
      <3> HIDE DEF g
      <3> QED BY <1>1, <2>4, <3>1
    <2>6. p <= m
      <3>1. p < b
        BY <1>1, <2>1, ParentType
      <3> HIDE DEF p
      <3> QED BY <1>1, <2>2, <3>1
    <2>7. OnStack(p)
      <3> HIDE DEF g, p
      <3> QED BY <2>4, <2>5, <2>6 DEF Calls
    <2>8. PICK j \in DOMAIN stack : stack[j].e = p
      BY <2>7 DEF OnStack
    <2>9. PICK dj \in 0..Len(rco.kids[stack[j].e]) : Call(m, j, dj)
      BY DEF Calls
    <2>10. i <= dj /\ ~ (i + 1 <= dj) /\ dj \in Nat
      <3>1. \A k \in 1..Len(rco.kids[p]) : rco.kids[p][k] <= m <=> k <= dj
        BY <2>8, <2>9 DEF Call
      <3>2. rco.kids[p][i] <= m
        BY <1>1, <2>2
      <3>3. dj \in Nat
        BY <2>2, <2>8, <2>9
      <3> HIDE DEF g, p, i
      <3> QED BY <2>2, <2>3, <2>5, <3>1, <3>2, <3>3 DEF g
    <2>11. dj = i
      <3> HIDE DEF i, p
      <3> QED BY <2>2, <2>10
    <2>12. j = 1
      <3> SUFFICES ASSUME j > 1 PROVE FALSE
        BY <1>1
      <3>1. stack[j-1].e = b /\ j - 1 \in DOMAIN stack
        <4>1. rco.kids[stack[j].e][dj] = stack[j-1].e
          BY <2>9 DEF Call
        <4>2. rco.kids[stack[j].e][dj] = b
          BY <2>2, <2>8, <2>11
        <4>3. j - 1 \in DOMAIN stack
          <5> DEFINE l == Len(stack)
          <5>1. l \in Nat /\ j \in 1..l /\ DOMAIN stack = 1..l
            BY <1>1
          <5> HIDE DEF l
          <5> QED BY <5>1
        <4> QED BY <4>1, <4>2, <4>3
      <3> QED BY <1>8, <3>1 DEF OnStack
    <2>13. dj = d
      <3>1. \A k \in 1..Len(kids) : (kids[k] <= m <=> k <= dj) /\ (kids[k] <= m <=> k <= d)
        BY <2>9, <2>12 DEF Call
      <3>2. d + 1 \in 1..Len(kids) /\ i \in 1..Len(kids)
        BY <1>3, <2>2, <2>8, <2>12
      <3> HIDE DEF i, kids, p
      <3> QED BY <1>2, <2>10, <2>11, <3>1, <3>2
    <2>14. g = c
      BY <1>3, <2>8, <2>11, <2>12, <2>13
    <2> QED BY <1>7, <2>2, <2>14
  <1> QED BY <1>2, <1>3, <1>4, <1>6, <1>7, <1>8

(* The main entry is written first.                                        *)
LEMMA WriteMainTree ==
    ASSUME TypeInv, NEW m \in 0..N, Placed(m), Linked(m), Calls(m), pos = StreamEnd,
           WriteMain
    PROVE  /\ m = 0 /\ Placed(1)' /\ Linked(1)' /\ AtEnd(1)' /\ Calls(1)'
           /\ pos' = StreamEnd' /\ KeptBut(Stream, Stream', StreamEnd, StreamEnd')
  <1>1. /\ rco \in Archives /\ rco' = rco /\ stack = <<>> /\ N \in Nat \ {0}
        /\ E = 1..N /\ Main = 1 /\ E' = E /\ pos \in Nat
    <2>1. rco \in Archives /\ rco' = rco /\ stack = <<>> /\ pos \in Nat
      BY DEF TypeInv, WriteMain, Enter
    <2> QED BY <2>1, ParentType DEF E
  <1>2. m = 0
    BY <1>1 DEF Calls
  <1> DEFINE f == Frame(1, HeaderWords, 0, TRUE)
  <1>3. Enter(1, HeaderWords, 0) /\ stack' = <<f>> /\ offset' = [offset EXCEPT ![1] = pos]
    BY <1>1 DEF WriteMain, Enter
  <1>4. ParentAt(1) = HeaderWords /\ ParentAt(1)' = HeaderWords
        /\ PrevDistance(1)' = 0 /\ LastSibling(1)' = TRUE
    BY <1>1 DEF ParentAt, PrevDistance, LastSibling
  <1>5. NextDistance(1, 1)' = 0
    BY <1>4 DEF NextDistance
  <1>6. /\ Placed(1)' /\ Linked(1)' /\ AtEnd(1)'
        /\ pos' = StreamEnd' /\ KeptBut(Stream, Stream', StreamEnd, StreamEnd')
    <2>1. 0 \in 0..N-1 /\ 0 + 1 = 1 /\ \A b \in 1..0 : NextDistance(b, 0 + 1)' = NextDistance(b, 0)
      BY <1>1
    <2>2. Placed(0) /\ Linked(0)
      BY <1>2
    <2>3. Enter(0 + 1, ParentAt(0 + 1), 0) /\ 0 = PrevDistance(0 + 1)'
          /\ NextDistance(0 + 1, 0 + 1)' = 0
      BY <1>3, <1>4, <1>5, <2>1
    <2>4. /\ Placed(0 + 1)' /\ Linked(0 + 1)' /\ AtEnd(0 + 1)'
          /\ pos' = StreamEnd' /\ KeptBut(Stream, Stream', StreamEnd, StreamEnd')
      BY <2>1, <2>2, <2>3, EnterTree
    <2> QED BY <2>1, <2>4
  <1>7. Calls(1)'
    <2>1. /\ f.e = 1 /\ f.at = pos /\ f.parent = HeaderWords /\ f.prev = 0
          /\ f.last = TRUE /\ f.left = rco.kids[1] /\ f.ret = 0
      BY DEF Frame
    <2>2. DOMAIN stack' = {1} /\ stack'[1] = f /\ Len(stack') = 1 /\ stack' # <<>>
      BY <1>3
    <2> HIDE DEF f
    <2>3. Len(rco.kids[1]) \in Nat /\ 1 \in E
      BY <1>1, EntryType
    <2>4. offset'[1] = pos
      BY <1>3, <2>3 DEF TypeInv
    <2>5. \A i \in 1..Len(rco.kids[1]) : ~ (rco.kids[1][i] <= 1)
      <3> TAKE i \in 1..Len(rco.kids[1])
      <3>1. 1 < rco.kids[1][i] /\ rco.kids[1][i] \in E
        BY <1>1, <2>3, KidType
      <3> QED BY <1>1, <3>1
    <2>6. Call(1, 1, 0)'
      <3>1. \A i \in 1..Len(rco.kids[1]) : rco.kids[1][i] <= 1 <=> i <= 0
        BY <2>3, <2>5
      <3>2. /\ Len(f.left) = Len(rco.kids[1]) - 0
            /\ \A i \in 1..Len(f.left) : f.left[i] = rco.kids[1][0 + i]
        BY <2>1, <2>3
      <3>3. f.e = 1 /\ f.parent = ParentAt(1)' /\ f.prev = PrevDistance(1)'
            /\ f.last = LastSibling(1)' /\ f.at = offset'[1]
        BY <1>4, <2>1, <2>4
      <3>4. rco'.kids[f.e] = rco.kids[1] /\ f.e = Main /\ f.ret = 0
        BY <1>1, <2>1
      <3> QED BY <2>2, <3>1, <3>2, <3>3, <3>4 DEF Call
    <2>7. \A j \in DOMAIN stack' :
             \E d \in 0..Len(rco.kids[stack'[j].e]) : Call(1, j, d)'
      BY <2>1, <2>2, <2>3, <2>6
    <2>8. \A e \in E : e > 1 /\ e # Main /\ rco.parent[e] <= 1 => OnStack(rco.parent[e])'
      <3> SUFFICES ASSUME NEW e \in E, e # Main, rco.parent[e] <= 1
                   PROVE  OnStack(rco.parent[e])'
        OBVIOUS
      <3>1. rco.parent[e] = 1
        BY <1>1, ParentType
      <3> QED BY <1>1, <2>1, <2>2, <3>1 DEF OnStack
    <2> QED BY <1>1, <2>2, <2>7, <2>8 DEF Calls, OnStack
  <1> QED BY <1>2, <1>6, <1>7

(* A subentry is written behind what there is, and its call is entered.    *)
LEMMA WriteChildTree ==
    ASSUME TypeInv, NEW m \in 0..N, Placed(m), Linked(m), Calls(m), pos = StreamEnd,
           WriteChild
    PROVE  /\ m < N /\ Placed(m + 1)' /\ Linked(m + 1)' /\ AtEnd(m + 1)'
           /\ Calls(m + 1)'
           /\ pos' = StreamEnd' /\ KeptBut(Stream, Stream', StreamEnd, StreamEnd')
  <1>1. /\ rco \in Archives /\ rco' = rco /\ stack # <<>> /\ N \in Nat /\ m \in Nat
        /\ E = 1..N /\ Main = 1 /\ E' = E /\ pos \in Nat /\ stack[1].left # <<>>
        /\ stack \in Seq(Frames) /\ Len(stack) \in Nat \ {0}
        /\ DOMAIN stack = 1..Len(stack) /\ 1 \in DOMAIN stack
    <2>1. rco \in Archives /\ rco' = rco /\ stack # <<>> /\ pos \in Nat
          /\ stack \in Seq(Frames) /\ stack[1].left # <<>>
      BY DEF TypeInv, WriteChild, Enter
    <2> QED BY <2>1, ParentType, Popped DEF E
  <1>2. PICK e : e = stack[1].e
    OBVIOUS
  <1>3. PICK d \in 0..Len(rco.kids[e]) : Call(m, 1, d)
    BY <1>1, <1>2 DEF Calls
  <1>4. PICK c : c = m + 1
    OBVIOUS
  <1>5. /\ m < N /\ c = Head(stack[1].left) /\ d < Len(rco.kids[e])
        /\ c = rco.kids[e][d+1] /\ e \in 1..m
        /\ rco.parent[c] = e /\ c # Main /\ Place(c) = d + 1
        /\ Siblings(c) = rco.kids[e]
        /\ \A b \in 1..m : ~ LastSibling(b) /\ ~ OnStack(b)
              /\ ~ (Siblings(b)[Place(b) + 1] <= m)
              => Siblings(b)[Place(b) + 1] = c
    BY <1>1, <1>2, <1>3, <1>4, NextChild
  <1>6. c \in E /\ c \in 1..m+1 /\ e \in E /\ e # c /\ d \in Nat
        /\ Len(rco.kids[e]) \in Nat /\ Len(rco.kids[c]) \in Nat
        /\ \A b \in 1..m : b \in E /\ b # c
    <2>1. c \in E /\ c \in 1..m+1 /\ e \in E /\ e # c /\ \A b \in 1..m : b \in E /\ b # c
      BY <1>1, <1>4, <1>5
    <2> QED BY <1>1, <1>3, <2>1, EntryType
  <1> DEFINE f == stack[1]
             new == Frame(c, f.at, f.ret, Tail(f.left) = <<>>)
             old == [f EXCEPT !.left = Tail(@)]
  <1>7. /\ Enter(c, f.at, f.ret) /\ offset' = [offset EXCEPT ![c] = pos]
        /\ stack' = <<new, old>> \o Tail(stack)
    BY <1>5 DEF WriteChild, Enter
  <1>8. /\ f \in Frames /\ f.at = offset[e] /\ f.at \in Nat /\ f.ret \in Int
        /\ f.left \in Seq(E) /\ Len(f.left) = Len(rco.kids[e]) - d
        /\ f.ret = IF d = 0 THEN 0 ELSE pos - offset[rco.kids[e][d]]
    <2>1. /\ f.at = offset[e] /\ Len(f.left) = Len(rco.kids[e]) - d
          /\ f.ret = IF d = 0 THEN 0 ELSE pos - offset[rco.kids[e][d]]
      BY <1>1, <1>2, <1>3 DEF Call
    <2>2. f \in Frames /\ f.at \in Nat /\ f.ret \in Int /\ f.left \in Seq(E)
      BY <1>1, TopType
    <2> QED BY <2>1, <2>2
  <1>9. /\ new \in Frames /\ old \in Frames
        /\ new.e = c /\ new.at = pos /\ new.parent = f.at /\ new.prev = f.ret
        /\ new.last = (Tail(f.left) = <<>>) /\ new.left = rco.kids[c] /\ new.ret = 0
        /\ old.e = f.e /\ old.at = f.at /\ old.parent = f.parent /\ old.prev = f.prev
        /\ old.last = f.last /\ old.left = Tail(f.left)
    <2>1. new \in Frames
      <3>1. (Tail(f.left) = <<>>) \in BOOLEAN /\ f.at \in Int
        BY <1>8
      <3> QED BY <1>6, <1>8, <3>1, FrameType
    <2>2. Tail(f.left) \in Seq(E)
      <3>1. f.left \in Seq(E) /\ f.left # <<>>
        BY <1>1, <1>8
      <3> DEFINE l == f.left
      <3> HIDE DEF l
      <3>2. Tail(l) \in Seq(E)
        BY <3>1 DEF l
      <3> QED BY <3>2 DEF l
    <2>3. old \in Frames
      BY <1>8, <2>2 DEF Frames
    <2>4. /\ new.e = c /\ new.at = pos /\ new.parent = f.at /\ new.prev = f.ret
          /\ new.last = (Tail(f.left) = <<>>) /\ new.left = rco.kids[c] /\ new.ret = 0
      BY DEF Frame
    <2>5. /\ old.e = f.e /\ old.at = f.at /\ old.parent = f.parent /\ old.prev = f.prev
          /\ old.last = f.last /\ old.left = Tail(f.left)
      BY <1>8 DEF Frames
    <2> QED BY <2>1, <2>3, <2>4, <2>5
  <1>10. /\ Len(stack') = Len(stack) + 1 /\ DOMAIN stack' = 1..Len(stack)+1
         /\ stack'[1] = new /\ stack'[2] = old
         /\ \A j \in 3..Len(stack)+1 : stack'[j] = stack[j-1]
    <2> HIDE DEF new, old
    <2> QED BY <1>1, <1>7, <1>9, Pushed
  <1>11. \A j \in 1..Len(stack) :
           /\ stack'[j+1].e = stack[j].e /\ stack'[j+1].at = stack[j].at
           /\ stack'[j+1].parent = stack[j].parent /\ stack'[j+1].prev = stack[j].prev
           /\ stack'[j+1].last = stack[j].last
           /\ j > 1 => stack'[j+1].left = stack[j].left
    <2> TAKE j \in 1..Len(stack)
    <2>1. CASE j = 1
      <3>1. j + 1 = 2 /\ stack[j] = f
        BY <2>1
      <3> HIDE DEF f, new, old
      <3>2. stack'[j+1] = old
        BY <1>10, <3>1
      <3> QED BY <1>9, <2>1, <3>1, <3>2
    <2>2. CASE j # 1
      <3>1. j + 1 \in 3..Len(stack)+1 /\ j + 1 - 1 = j
        BY <1>1, <2>2
      <3>2. stack'[j+1] = stack[j]
        BY <1>10, <3>1, SMTT(30)
      <3> QED BY <3>2
    <2> QED BY <2>1, <2>2
  <1>12. /\ stack'[1].e = c /\ stack'[1].at = pos /\ stack'[1].parent = offset[e]
         /\ stack'[1].prev = f.ret /\ stack'[1].last = (Tail(f.left) = <<>>)
         /\ stack'[1].left = rco.kids[c] /\ stack'[1].ret = 0
         /\ stack'[2].left = Tail(f.left)
    <2> HIDE DEF new, old
    <2> QED BY <1>8, <1>9, <1>10
  <1> HIDE DEF f, new, old
  <1>13. \A b : OnStack(b)' <=> OnStack(b) \/ b = c
    <2> TAKE b
    <2>1. ASSUME OnStack(b)' PROVE OnStack(b) \/ b = c
      <3>1. PICK j \in 1..Len(stack)+1 : stack'[j].e = b
        BY <1>10, <2>1 DEF OnStack
      <3>2. CASE j = 1
        BY <1>12, <3>1, <3>2
      <3>3. CASE j # 1
        <4>1. j - 1 \in 1..Len(stack) /\ j - 1 + 1 = j
          BY <1>1, <3>3
        <4>2. stack[j-1].e = b
          BY <1>11, <3>1, <4>1
        <4> QED BY <1>1, <4>1, <4>2 DEF OnStack
      <3> QED BY <3>2, <3>3
    <2>2. ASSUME OnStack(b) PROVE OnStack(b)'
      <3>1. PICK j \in 1..Len(stack) : stack[j].e = b
        BY <1>1, <2>2 DEF OnStack
      <3>2. stack'[j+1].e = b /\ j + 1 \in 1..Len(stack)+1
        BY <1>1, <1>11, <3>1
      <3> QED BY <1>10, <3>2 DEF OnStack
    <2>3. OnStack(c)'
      <3>1. 1 \in DOMAIN stack'
        BY <1>1, <1>10
      <3> QED BY <1>12, <3>1 DEF OnStack
    <2> QED BY <2>1, <2>2, <2>3
  <1>14. /\ offset'[c] = pos /\ \A b \in 1..m : offset'[b] = offset[b]
    <2>1. offset \in [E -> Nat]
      BY DEF TypeInv
    <2> QED BY <1>6, <1>7, <2>1
  <1>15. /\ Placed(m + 1)' /\ Linked(m + 1)' /\ AtEnd(m + 1)'
         /\ pos' = StreamEnd' /\ KeptBut(Stream, Stream', StreamEnd, StreamEnd')
         /\ ParentAt(c)' = offset[e] /\ PrevDistance(c)' = f.ret
    <2>1. ParentAt(c) = offset[e] /\ ParentAt(c)' = offset[e]
      BY <1>1, <1>5, <1>14 DEF ParentAt
    <2>2. PrevDistance(c)' = f.ret
      <3>1. Place(c)' = d + 1 /\ Siblings(c)' = rco.kids[e]
        BY <1>1, <1>5 DEF Place, Siblings
      <3>2. CASE d = 0
        BY <1>8, <3>1, <3>2 DEF PrevDistance
      <3>3. CASE d # 0
        <4>1. d \in 1..Len(rco.kids[e]) /\ d + 1 # 1 /\ d + 1 - 1 = d
          BY <1>5, <1>6, <3>3
        <4>2. rco.kids[e][d] \in 1..m
          <5>1. rco.kids[e][d] \in E /\ rco.kids[e][d] <= m
            <6>1. rco.kids[e][d] <= m
              BY <1>2, <1>3, <4>1 DEF Call
            <6>2. rco \in Archives /\ e \in E
              BY <1>1, <1>6
            <6>3. rco.kids[e][d] \in E
              BY <4>1, <6>2, KidType
            <6> QED BY <6>1, <6>3
          <5> QED BY <1>1, <5>1
        <4>3. PrevDistance(c)' = offset'[c] - offset'[rco.kids[e][d]]
          BY <1>5, <3>1, <4>1 DEF PrevDistance, Main
        <4> QED BY <1>8, <1>14, <3>3, <4>2, <4>3
      <3> QED BY <3>2, <3>3
    <2>3. \A b \in 1..m : NextDistance(b, c)' = NextDistance(b, m)
      <3> TAKE b \in 1..m
      <3>1. OnStack(b)' = OnStack(b)
        BY <1>6, <1>13 DEF OnStack
      <3>2. LastSibling(b)' = LastSibling(b) /\ Siblings(b)' = Siblings(b)
            /\ Place(b)' = Place(b)
        BY <1>1, <1>14, NeighboursKept
      <3>3. CASE LastSibling(b) \/ OnStack(b)
        BY <3>1, <3>2, <3>3 DEF NextDistance
      <3>4. CASE ~ LastSibling(b) /\ ~ OnStack(b)
        <4>1. PICK g : g = Siblings(b)[Place(b) + 1]
          OBVIOUS
        <4>2. NextDistance(b, m) = (IF g <= m THEN offset[g] ELSE pos) - offset[b]
          BY <3>4, <4>1 DEF NextDistance
        <4>3. NextDistance(b, c)' = (IF g <= c THEN offset'[g] ELSE pos') - offset'[b]
          BY <3>1, <3>2, <3>4, <4>1 DEF NextDistance
        <4>4. CASE g <= m
          <5>1. g \in 1..m
            <6>1. g \in E
              <7>1. b # Main /\ b \in E
                BY <1>6, <3>4 DEF LastSibling
              <7>2. /\ rco.parent[b] \in E /\ Siblings(b) = rco.kids[rco.parent[b]]
                    /\ Place(b) \in 1..Len(Siblings(b)) /\ Place(b) # Len(Siblings(b))
                BY <1>1, <3>4, <7>1, PlaceType DEF LastSibling
              <7>3. Len(rco.kids[rco.parent[b]]) \in Nat
                BY <1>1, <7>2, EntryType
              <7>4. Place(b) + 1 \in 1..Len(rco.kids[rco.parent[b]])
                BY <7>2, <7>3
              <7> QED BY <1>1, <4>1, <7>2, <7>4, KidType
            <6> QED BY <1>1, <4>4, <6>1
          <5>2. g <= c
            BY <1>1, <1>4, <5>1
          <5> QED BY <1>14, <4>2, <4>3, <4>4, <5>1, <5>2
        <4>5. CASE ~ (g <= m)
          <5>1. g = c
            BY <1>5, <3>4, <4>1, <4>5
          <5>2. g <= c
            BY <1>1, <1>4, <5>1
          <5> QED BY <1>14, <4>2, <4>3, <4>5, <5>1, <5>2
        <4> QED BY <4>4, <4>5
      <3> QED BY <3>3, <3>4
    <2>4. NextDistance(c, c)' = 0
      BY <1>13 DEF NextDistance
    <2>5. Enter(c, ParentAt(c), f.ret)
      BY <1>7, <1>8, <2>1
    <2>6. PICK prev \in Int : prev = f.ret
      BY <1>8 DEF f
    <2>7. m \in 0..N-1
      BY <1>1, <1>5
    <2>8. /\ Enter(m + 1, ParentAt(m + 1), prev) /\ prev = PrevDistance(m + 1)'
          /\ \A b \in 1..m : NextDistance(b, m + 1)' = NextDistance(b, m)
          /\ NextDistance(m + 1, m + 1)' = 0
      BY <1>4, <2>2, <2>3, <2>4, <2>5, <2>6
    <2>9. /\ Placed(m + 1)' /\ Linked(m + 1)' /\ AtEnd(m + 1)'
          /\ pos' = StreamEnd' /\ KeptBut(Stream, Stream', StreamEnd, StreamEnd')
      BY <2>7, <2>8, EnterTree
    <2> QED BY <2>1, <2>2, <2>9
  <1>a. /\ N \in Nat /\ m \in Nat /\ c \in Nat /\ c = m + 1 /\ E = 1..N /\ Main = 1
        /\ e \in Nat /\ d \in Nat /\ Len(stack) \in Nat \ {0} /\ c # Main
        /\ Len(stack') = Len(stack) + 1 /\ DOMAIN stack' = 1..Len(stack)+1
        /\ DOMAIN stack = 1..Len(stack)
    BY <1>1, <1>4, <1>5, <1>6, <1>10
  <1>b. rco \in Archives /\ rco' = rco /\ c \in E /\ e \in E
    BY <1>1, <1>6
  <1>16. ASSUME NEW j \in 1..Len(stack), NEW b, b = stack[j].e
         PROVE  /\ b \in 1..m /\ b \in E /\ stack'[j+1].e = b
                /\ stack'[j+1].at = offset'[b] /\ stack'[j+1].parent = ParentAt(b)'
                /\ stack'[j+1].prev = PrevDistance(b)'
                /\ stack'[j+1].last = LastSibling(b)'
                /\ j + 1 = Len(stack') <=> b = Main
                /\ j + 1 < Len(stack') => stack'[j+2].e = rco.parent[b]
                /\ Len(rco.kids[b]) \in Nat
    <2>1. PICK dj \in 0..Len(rco.kids[b]) : Call(m, j, dj)
      BY <1>1, <1>16 DEF Calls
    <2>2. /\ b \in 1..m /\ stack[j].at = offset[b] /\ stack[j].parent = ParentAt(b)
          /\ stack[j].prev = PrevDistance(b) /\ stack[j].last = LastSibling(b)
          /\ j = Len(stack) <=> b = Main
          /\ j < Len(stack) => stack[j+1].e = rco.parent[b]
      BY <1>16, <2>1 DEF Call
    <2>3. /\ ParentAt(b)' = ParentAt(b) /\ PrevDistance(b)' = PrevDistance(b)
          /\ LastSibling(b)' = LastSibling(b)
      <3>1. b \in 1..m
        BY <2>2
      <3>2. m \in 0..N
        OBVIOUS
      <3> QED BY <1>14, <1>b, <3>1, <3>2, NeighboursKept
    <2>4. /\ stack'[j+1].e = stack[j].e /\ stack'[j+1].at = stack[j].at
          /\ stack'[j+1].parent = stack[j].parent /\ stack'[j+1].prev = stack[j].prev
          /\ stack'[j+1].last = stack[j].last
      BY <1>11
    <2>5. j + 1 = Len(stack') <=> b = Main
      <3> DEFINE L == Len(stack)
                 M == Len(stack')
      <3>0. L \in Nat /\ M = L + 1 /\ j \in Int
        BY <1>a
      <3> HIDE DEF L, M
      <3>1. j + 1 = M <=> j = L
        BY <3>0
      <3> QED BY <2>2, <3>1 DEF L, M
    <2>6. ASSUME j + 1 < Len(stack') PROVE stack'[j+2].e = rco.parent[b]
      <3>1. j + 1 \in 1..Len(stack) /\ j < Len(stack) /\ (j + 1) + 1 = j + 2
        BY <1>a, <2>6
      <3>2. stack'[(j+1)+1].e = stack[j+1].e
        BY <1>11, <3>1
      <3> QED BY <2>2, <3>1, <3>2
    <2>7. Len(rco.kids[b]) \in Nat /\ b \in E
      <3>1. b \in E
        BY <1>6, <2>2
      <3> QED BY <1>b, <3>1, EntryType
    <2> QED BY <1>14, <1>16, <2>2, <2>3, <2>4, <2>5, <2>6, <2>7
  <1>17. Call(c, 1, 0)'
    <2>1. stack'[1].last = LastSibling(c)'
      <3>1. LastSibling(c)' <=> d + 1 = Len(rco.kids[e])
        <4>1. Place(c)' = d + 1 /\ Siblings(c)' = rco.kids[e] /\ c # Main
          <5>1. Place(c) = d + 1 /\ Siblings(c) = rco.kids[e] /\ c # Main
            BY <1>5
          <5>2. Place(c)' = Place(c) /\ Siblings(c)' = Siblings(c)
            BY <1>b DEF Place, Siblings
          <5> QED BY <5>1, <5>2
        <4> QED BY <4>1 DEF LastSibling, Main
      <3>2. Tail(f.left) = <<>> <=> Len(f.left) = 1
        BY <1>1, <1>8, Popped DEF f
      <3>3. Tail(f.left) = <<>> <=> d + 1 = Len(rco.kids[e])
        <4>1. Len(f.left) = Len(rco.kids[e]) - d
          BY <1>8 DEF f
        <4>2. Len(f.left) = 1 <=> d + 1 = Len(rco.kids[e])
          BY <1>6, <4>1
        <4> QED BY <3>2, <4>2
      <3>4. LastSibling(c)' \in BOOLEAN
        BY DEF LastSibling
      <3>5. LastSibling(c)' = (Tail(f.left) = <<>>)
        BY <3>1, <3>3, <3>4
      <3> QED BY <1>12, <3>5
    <2>2. \A i \in 1..Len(rco.kids[c]) : rco.kids[c][i] <= c <=> i <= 0
      <3> TAKE i \in 1..Len(rco.kids[c])
      <3>1. c < rco.kids[c][i] /\ rco.kids[c][i] \in E
        BY <1>b, KidType
      <3> QED BY <1>a, <3>1
    <2>3. 1 = Len(stack') <=> c = Main
      BY <1>a
    <2>4. stack'[1+1].e = rco.parent[c] /\ 1 + 1 = 2
      BY <1>1, <1>2, <1>5, <1>11
    <2>5. /\ Len(rco.kids[c]) = Len(rco.kids[c]) - 0
          /\ \A i \in 1..Len(rco.kids[c]) : rco.kids[c][i] = rco.kids[c][0 + i]
      BY <1>6
    <2>6. c \in 1..c
      BY <1>a
    <2>7. ~ (1 > 1) /\ (0 = 0) /\ c \in 1..c /\ rco' = rco
      BY <1>a, <1>b, <2>6
    <2> QED BY <1>12, <1>14, <1>15, <2>1, <2>2, <2>3, <2>4, <2>5, <2>7 DEF Call, Main
  <1>18. Call(c, 2, d + 1)'
    <2> DEFINE l == f.left
               kids == rco.kids[e]
    <2>1. /\ l \in Seq(E) /\ l # <<>> /\ Len(l) = Len(kids) - d
          /\ \A i \in 1..Len(l) : l[i] = kids[d + i]
      BY <1>1, <1>2, <1>3, <1>8 DEF f, Call
    <2>2. /\ Len(Tail(l)) = Len(kids) - (d + 1)
          /\ \A i \in 1..Len(Tail(l)) : Tail(l)[i] = kids[(d + 1) + i]
      <3> HIDE DEF l, kids
      <3>1. /\ Len(Tail(l)) = Len(l) - 1 /\ Len(l) \in Nat \ {0}
            /\ \A i \in 1..Len(l)-1 : Tail(l)[i] = l[i+1]
        BY <2>1, Popped
      <3>2. Len(Tail(l)) = Len(kids) - (d + 1)
        BY <1>6, <2>1, <3>1 DEF kids
      <3>3. ASSUME NEW i \in 1..Len(Tail(l)) PROVE Tail(l)[i] = kids[(d + 1) + i]
        <4>1. i \in 1..Len(l)-1 /\ i + 1 \in 1..Len(l) /\ d + (i + 1) = (d + 1) + i
          BY <1>6, <3>1, <3>3
        <4>2. Tail(l)[i] = l[i+1] /\ l[i+1] = kids[d + (i + 1)]
          BY <2>1, <3>1, <4>1
        <4> QED BY <4>1, <4>2
      <3> QED BY <3>2, <3>3
    <2>3. \A i \in 1..Len(kids) : kids[i] <= c <=> i <= d + 1
      <3> TAKE i \in 1..Len(kids)
      <3>1. kids[i] <= m <=> i <= d
        BY <1>2, <1>3 DEF Call
      <3>2. kids[i] \in Nat /\ i \in Nat
        <4>1. kids[i] \in E
          BY <1>1, <1>6, KidType
        <4> QED BY <1>1, <4>1
      <3>3. d + 1 < i => c < kids[i]
        <4> DEFINE k == d + 1
        <4>1. k \in 1..Len(rco.kids[e])
          <5>1. d < Len(rco.kids[e]) /\ d \in Nat /\ Len(rco.kids[e]) \in Nat
            BY <1>5, <1>6
          <5> QED BY <5>1
        <4>2. c = rco.kids[e][k]
          BY <1>5
        <4> HIDE DEF k
        <4>3. k < i => c < kids[i]
          BY <1>b, <4>1, <4>2, KidType
        <4> QED BY <4>3 DEF k
      <3>4. i = d + 1 => kids[i] = c
        BY <1>5
      <3>5. i <= d \/ i = d + 1 \/ d + 1 < i
        BY <1>6, <3>2
      <3> HIDE DEF kids
      <3> QED BY <1>1, <1>4, <1>6, <3>1, <3>2, <3>3, <3>4, <3>5
    <2>4. d + 1 > 0 /\ kids[d+1] = stack'[1].e /\ 2 - 1 = 1
      BY <1>5, <1>6, <1>12
    <2>5. /\ e \in 1..m /\ stack'[2].e = e
          /\ stack'[2].at = offset'[e] /\ stack'[2].parent = ParentAt(e)'
          /\ stack'[2].prev = PrevDistance(e)' /\ stack'[2].last = LastSibling(e)'
          /\ 2 = Len(stack') <=> e = Main
          /\ 2 < Len(stack') => stack'[2+1].e = rco.parent[e]
      <3>1. 1 \in 1..Len(stack) /\ 1 + 1 = 2 /\ 1 + 2 = 3 /\ 2 + 1 = 3
        BY <1>a
      <3>2. /\ e \in 1..m /\ stack'[1+1].e = e
            /\ stack'[1+1].at = offset'[e] /\ stack'[1+1].parent = ParentAt(e)'
            /\ stack'[1+1].prev = PrevDistance(e)' /\ stack'[1+1].last = LastSibling(e)'
            /\ 1 + 1 = Len(stack') <=> e = Main
            /\ 1 + 1 < Len(stack') => stack'[1+2].e = rco.parent[e]
        <4>1. PICK b : b = stack[1].e
          OBVIOUS
        <4>2. /\ b \in 1..m /\ stack'[1+1].e = b
              /\ stack'[1+1].at = offset'[b] /\ stack'[1+1].parent = ParentAt(b)'
              /\ stack'[1+1].prev = PrevDistance(b)'
              /\ stack'[1+1].last = LastSibling(b)'
          BY <1>16, <3>1, <4>1, Zenon
        <4>3. /\ 1 + 1 = Len(stack') <=> b = Main
              /\ 1 + 1 < Len(stack') => stack'[1+2].e = rco.parent[b]
          BY <1>16, <3>1, <4>1, Zenon
        <4>4. b = e
          BY <1>2, <4>1
        <4> QED BY <4>2, <4>3, <4>4, Zenon
      <3> QED BY <3>1, <3>2
    <2>6. e \in 1..c
      BY <1>a, <2>5
    <2>7. stack'[2].left = Tail(l) /\ 2 # 1 /\ rco' = rco
      BY <1>12, <1>b
    <2> HIDE DEF l, kids
    <2>8. Len(rco'.kids[stack'[2].e]) = Len(kids) /\ rco'.kids[stack'[2].e] = kids
      BY <2>5, <2>7 DEF kids
    <2> QED BY <2>2, <2>3, <2>4, <2>5, <2>6, <2>7, <2>8 DEF Call, Main
  <1>19. ASSUME NEW j \in 2..Len(stack)
         PROVE  \E dj \in 0..Len(rco.kids[stack[j].e]) : Call(c, j + 1, dj)'
    <2>1. PICK b : b = stack[j].e
      OBVIOUS
    <2>2. PICK dj \in 0..Len(rco.kids[b]) : Call(m, j, dj)
      BY <1>1, <1>19, <2>1 DEF Calls
    <2>3. j \in 1..Len(stack) /\ j > 1 /\ j - 1 \in 1..Len(stack) /\ (j + 1) - 1 = j
          /\ (j - 1) + 1 = j /\ (j + 1) + 1 = j + 2 /\ j + 1 > 1 /\ j + 1 # 1
      BY <1>a, <1>19
    <2>4. /\ b \in 1..m /\ b \in E /\ stack'[j+1].e = b
          /\ stack'[j+1].at = offset'[b] /\ stack'[j+1].parent = ParentAt(b)'
          /\ stack'[j+1].prev = PrevDistance(b)'
          /\ stack'[j+1].last = LastSibling(b)'
          /\ j + 1 = Len(stack') <=> b = Main
          /\ j + 1 < Len(stack') => stack'[(j+1)+1].e = rco.parent[b]
          /\ Len(rco.kids[b]) \in Nat
      <3>1. j + 1 < Len(stack') => stack'[j+2].e = rco.parent[b]
        BY <1>16, <2>1, <2>3
      <3>2. (j + 1) + 1 = j + 2
        BY <2>3
      <3>3. j + 1 < Len(stack') => stack'[(j+1)+1].e = rco.parent[b]
        BY <3>1, <3>2
      <3>4. /\ b \in 1..m /\ b \in E /\ stack'[j+1].e = b
            /\ stack'[j+1].at = offset'[b] /\ stack'[j+1].parent = ParentAt(b)'
        BY <1>16, <2>1, <2>3, Zenon
      <3>5. /\ stack'[j+1].prev = PrevDistance(b)'
            /\ stack'[j+1].last = LastSibling(b)'
            /\ Len(rco.kids[b]) \in Nat
        BY <1>16, <2>1, <2>3, Zenon
      <3>6. j + 1 = Len(stack') <=> b = Main
        BY <1>16, <2>1, <2>3, Zenon
      <3> QED BY <3>3, <3>4, <3>5, <3>6, Zenon
    <2>5. /\ Len(stack[j].left) = Len(rco.kids[b]) - dj
          /\ \A i \in 1..Len(stack[j].left) : stack[j].left[i] = rco.kids[b][dj + i]
          /\ \A i \in 1..Len(rco.kids[b]) : rco.kids[b][i] <= m <=> i <= dj
          /\ dj > 0 /\ rco.kids[b][dj] = stack[j-1].e
      BY <2>1, <2>2, <2>3 DEF Call
    <2>6. stack'[j+1].left = stack[j].left
      BY <1>11, <2>3
    <2>7. stack'[j].e = stack[j-1].e
      BY <1>11, <2>3
    <2>8. \A i \in 1..Len(rco.kids[b]) : rco.kids[b][i] <= c <=> i <= dj
      <3> TAKE i \in 1..Len(rco.kids[b])
      <3>1. rco.kids[b][i] \in E /\ rco.parent[rco.kids[b][i]] = b
        BY <1>1, <2>4, KidType, SMTT(30)
      <3>2. b # e
        <4>1. stack[j].e < stack[1].e
          BY <1>1, <2>3 DEF Calls
        <4> QED BY <1>1, <1>2, <1>6, <2>1, <2>4, <4>1
      <3>3. rco.kids[b][i] # c
        BY <1>5, <3>1, <3>2
      <3>4. rco.kids[b][i] <= c <=> rco.kids[b][i] <= m
        <4> DEFINE g == rco.kids[b][i]
        <4> HIDE DEF g
        <4>1. g \in E /\ g # c
          BY <3>1, <3>3 DEF g
        <4>2. g <= c <=> g <= m
          BY <1>a, <4>1
        <4> QED BY <4>2 DEF g
      <3> QED BY <2>5, <3>4
    <2>9. b \in 1..c
      BY <1>1, <1>4, <2>4
    <2>10. Call(c, j + 1, dj)'
      BY <1>1, <2>3, <2>4, <2>5, <2>6, <2>7, <2>8, <2>9 DEF Call, Main
    <2> QED BY <2>1, <2>10
  <1>20. Calls(c)'
    <2>1. ASSUME NEW j \in DOMAIN stack'
          PROVE  \E dj \in 0..Len(rco.kids[stack'[j].e]) : Call(c, j, dj)'
      <3>1. CASE j = 1
        <4>1. stack'[1].e = c /\ 0 \in 0..Len(rco.kids[c]) /\ rco' = rco
          BY <1>6, <1>12, <1>b
        <4> QED BY <1>17, <3>1, <4>1
      <3>2. CASE j = 2
        <4>1. d + 1 \in 0..Len(rco.kids[e]) /\ stack'[2].e = e
          <5>1. 1 \in 1..Len(stack) /\ 1 + 1 = 2 /\ stack[1].e = e
            BY <1>1, <1>2
          <5>2. PICK b : b = stack[1].e
            OBVIOUS
          <5>3. stack'[1+1].e = b
            BY <1>16, <5>1, <5>2, Zenon
          <5>4. d + 1 \in 0..Len(rco.kids[e])
            <6>1. d < Len(rco.kids[e]) /\ d \in Nat /\ Len(rco.kids[e]) \in Nat
              BY <1>5, <1>6
            <6> QED BY <6>1
          <5> QED BY <5>1, <5>2, <5>3, <5>4
        <4> QED BY <1>18, <3>2, <4>1
      <3>3. CASE j # 1 /\ j # 2
        <4>1. j - 1 \in 2..Len(stack) /\ j - 1 \in 1..Len(stack) /\ (j - 1) + 1 = j
          BY <1>1, <1>10, <2>1, <3>3
        <4>2. stack'[j].e = stack[j-1].e
          BY <1>11, <4>1
        <4> QED BY <1>19, <4>1, <4>2
      <3> QED BY <3>1, <3>2, <3>3
    <2>2. ASSUME NEW i \in DOMAIN stack', NEW j \in DOMAIN stack', i < j
          PROVE  stack'[j].e < stack'[i].e
      <3> DEFINE L == Len(stack)
      <3>0. L \in Nat /\ i \in 1..L+1 /\ j \in 1..L+1 /\ i < j
        BY <1>a, <2>2
      <3> HIDE DEF L
      <3>a. j - 1 \in 1..L /\ (j - 1) + 1 = j
        BY <3>0
      <3>1. j - 1 \in 1..Len(stack) /\ (j - 1) + 1 = j
        BY <3>a DEF L
      <3>2. stack'[j].e = stack[j-1].e /\ stack[j-1].e \in 1..m
        BY <1>11, <1>16, <3>1
      <3>3. CASE i = 1
        <4>1. stack'[i].e = c
          BY <1>12, <3>3
        <4> QED BY <1>a, <3>2, <4>1
      <3>4. CASE i # 1
        <4>a. i - 1 \in 1..L /\ (i - 1) + 1 = i /\ i - 1 < j - 1
          <5>1. i - 1 \in 1..L
            BY <3>0, <3>4
          <5>2. (i - 1) + 1 = i /\ i - 1 < j - 1
            BY <3>0
          <5> QED BY <5>1, <5>2
        <4>1. i - 1 \in 1..Len(stack) /\ (i - 1) + 1 = i /\ i - 1 < j - 1
          BY <4>a DEF L
        <4>2. stack'[i].e = stack[i-1].e
          BY <1>11, <4>1
        <4>3. stack[j-1].e < stack[i-1].e
          BY <1>a, <3>1, <4>1 DEF Calls
        <4> QED BY <3>2, <4>2, <4>3
      <3> QED BY <3>3, <3>4
    <2>3. ASSUME NEW g \in E, g > c, g # Main, rco.parent[g] <= c
          PROVE  OnStack(rco.parent[g])'
      <3>1. rco.parent[g] \in E /\ (rco.parent[g] = c \/ rco.parent[g] <= m)
        <4>1. rco.parent[g] \in E /\ rco.parent[g] \in Nat
          BY <1>b, <2>3, ParentType
        <4> QED BY <1>a, <2>3, <4>1
      <3>2. rco.parent[g] <= m => OnStack(rco.parent[g])
        <4>1. Calls(m) /\ g > m
          BY <1>1, <1>a, <2>3
        <4> QED BY <2>3, <4>1 DEF Calls
      <3>3. PICK p : p = rco.parent[g]
        OBVIOUS
      <3>4. OnStack(p)'
        BY <1>13, <3>1, <3>2, <3>3
      <3> QED BY <1>1, <3>3, <3>4
    <2>4. c # 0 /\ stack' # <<>>
      BY <1>1, <1>4, <1>10
    <2> QED BY <1>1, <2>1, <2>2, <2>3, <2>4 DEF Calls, Main
  <1> QED BY <1>4, <1>5, <1>15, <1>20

(* The call that is over is taken off, and its caller goes on.             *)
LEMMA Replaced ==
    ASSUME NEW S, NEW s \in Seq(S), s # <<>>, NEW x \in S
    PROVE  LET t == <<x>> \o Tail(s)
           IN /\ Len(t) = Len(s) /\ DOMAIN t = 1..Len(s) /\ t # <<>>
              /\ t[1] = x /\ \A j \in 2..Len(s) : t[j] = s[j]
  <1> DEFINE u == Tail(s)
             p == <<x>>
  <1>1. u \in Seq(S) /\ Len(u) = Len(s) - 1 /\ Len(s) \in Nat \ {0}
        /\ \A j \in 1..Len(u) : u[j] = s[j+1]
    OBVIOUS
  <1>2. p \in Seq(S) /\ Len(p) = 1 /\ p[1] = x
    OBVIOUS
  <1> HIDE DEF u, p
  <1>3. /\ p \o u \in Seq(S) /\ Len(p \o u) = Len(p) + Len(u)
        /\ \A j \in 1..Len(p) + Len(u) :
              (p \o u)[j] = IF j <= Len(p) THEN p[j] ELSE u[j - Len(p)]
    BY <1>1, <1>2, ConcatProperties
  <1>4. Len(p \o u) = Len(s) /\ DOMAIN (p \o u) = 1..Len(s) /\ p \o u # <<>>
    BY <1>1, <1>2, <1>3
  <1>5. (p \o u)[1] = x
    BY <1>1, <1>2, <1>3
  <1>6. \A j \in 2..Len(s) : (p \o u)[j] = s[j]
    <2> TAKE j \in 2..Len(s)
    <2>1. j \in 1..Len(p) + Len(u) /\ ~ (j <= 1) /\ j - 1 \in 1..Len(u)
          /\ j - 1 + 1 = j
      BY <1>1, <1>2, <1>3
    <2>2. (p \o u)[j] = u[j - 1]
      BY <1>2, <1>3, <2>1
    <2> QED BY <1>1, <2>1, <2>2
  <1> QED BY <1>4, <1>5, <1>6 DEF u, p

(* Where the words of an entry of the tree are.                            *)
PatchesNext ==
    LET at == stack[1].at + NextField - 1
    IN WordAt(Stream, at) = 0 /\ KeptBut(Stream, Stream', at, at + 1)

(* The call of write_entry that returns has written all below its entry.   *)
LEMMA LastCall ==
    ASSUME TypeInv, NEW m \in 0..N, Calls(m), stack # <<>>, stack[1].left = <<>>
    PROVE  LET e == stack[1].e
           IN /\ e \in 1..m /\ Call(m, 1, Len(rco.kids[e]))
              /\ ~ LastSibling(e) => ~ (Siblings(e)[Place(e) + 1] <= m)
              /\ \A g \in E : g # Main /\ rco.parent[g] = e => g <= m
              /\ \A j \in DOMAIN stack : j # 1 => stack[j].e # e
  <1>1. /\ rco \in Archives /\ 1 \in DOMAIN stack /\ N \in Nat /\ m \in Nat
        /\ E = 1..N /\ Main = 1 /\ Len(stack) \in Nat \ {0}
        /\ DOMAIN stack = 1..Len(stack)
    <2>1. rco \in Archives /\ stack \in Seq(Frames)
      BY DEF TypeInv
    <2> QED BY <2>1, ParentType, Popped
  <1>2. PICK e : e = stack[1].e
    OBVIOUS
  <1>3. PICK d \in 0..Len(rco.kids[e]) : Call(m, 1, d)
    BY <1>1, <1>2 DEF Calls
  <1>4. e \in 1..m /\ e \in E /\ Len(rco.kids[e]) \in Nat
    <2>1. e \in 1..m
      BY <1>2, <1>3 DEF Call
    <2> QED BY <1>1, <2>1, EntryType
  <1>5. d = Len(rco.kids[e])
    <2>1. Len(stack[1].left) = Len(rco.kids[e]) - d
      BY <1>2, <1>3 DEF Call
    <2>2. Len(stack[1].left) = 0
      OBVIOUS
    <2> QED BY <1>4, <2>1, <2>2
  <1>6. ASSUME NEW g \in E, g # Main, rco.parent[g] = e PROVE g <= m
    <2>1. Place(g) \in 1..Len(rco.kids[e]) /\ rco.kids[e][Place(g)] = g
      BY <1>1, <1>6, PlaceType
    <2>2. rco.kids[e][Place(g)] <= m <=> Place(g) <= d
      BY <1>2, <1>3, <2>1 DEF Call
    <2> QED BY <1>4, <1>5, <2>1, <2>2
  <1>7. ASSUME NEW j \in DOMAIN stack, j # 1 PROVE stack[j].e # e
    <2>1. stack[j].e < stack[1].e /\ stack[j].e \in E
      <3>1. 1 < j
        BY <1>1, <1>7
      <3> QED BY <1>1, <1>7, <3>1, FrameFields DEF Calls
    <2> QED BY <1>1, <1>2, <1>4, <2>1
  <1>8. ASSUME ~ LastSibling(e) PROVE ~ (Siblings(e)[Place(e) + 1] <= m)
    <2>1. e # Main /\ Place(e) # Len(Siblings(e))
      BY <1>8 DEF LastSibling
    <2>2. PICK p : p = rco.parent[e]
      OBVIOUS
    <2>3. p \in E /\ Siblings(e) = rco.kids[p] /\ Place(e) \in 1..Len(rco.kids[p])
          /\ rco.kids[p][Place(e)] = e /\ Len(rco.kids[p]) \in Nat
      BY <1>1, <1>4, <2>1, <2>2, PlaceType, EntryType
    <2>4. 2 \in DOMAIN stack /\ stack[2].e = p
      <3>1. 1 = Len(stack) <=> e = Main
        BY <1>2, <1>3 DEF Call
      <3>2. 1 < Len(stack) /\ 2 \in DOMAIN stack /\ 1 + 1 = 2
        BY <1>1, <2>1, <3>1
      <3>3. stack[1+1].e = rco.parent[e]
        BY <1>2, <1>3, <3>2 DEF Call
      <3> QED BY <2>2, <3>2, <3>3
    <2>5. PICK k \in 0..Len(rco.kids[p]) : Call(m, 2, k)
      BY <2>4 DEF Calls
    <2>6. k > 0 /\ rco.kids[p][k] = e /\ 2 - 1 = 1
      <3>1. k > 0 /\ rco.kids[p][k] = stack[2-1].e
        BY <2>4, <2>5 DEF Call
      <3> QED BY <1>2, <3>1
    <2>7. Place(e) = k
      <3>1. k \in 1..Len(rco.kids[p])
        BY <2>3, <2>5, <2>6
      <3>2. Place(rco.kids[p][k]) = k
        BY <1>1, <2>3, <3>1, KidType
      <3> QED BY <2>6, <3>2
    <2>8. k + 1 \in 1..Len(rco.kids[p]) /\ ~ (k + 1 <= k)
      BY <2>1, <2>3, <2>7
    <2>9. rco.kids[p][k+1] <= m <=> k + 1 <= k
      BY <2>4, <2>5, <2>8 DEF Call
    <2> QED BY <2>3, <2>7, <2>8, <2>9
  <1> QED BY <1>2, <1>3, <1>4, <1>5, <1>6, <1>7, <1>8

(* The header h has a nextEntryOffset in place of the 0 of the other.      *)
NextOnly(h, blank) ==
    /\ blank[NextField] = 0
    /\ \A k \in 1..EntryWords : k # NextField => h[k] = blank[k]

LEMMA HeadersType ==
    ASSUME TypeInv
    PROVE  \A e \in E : \A at, parent, prev, nxt \in Int :
              LET h == EntryHeader(e, at, parent, prev, nxt)
                  blank == EntryHeader(e, at, parent, prev, 0)
              IN h \in Seq(Int) /\ Len(h) = EntryWords /\ NextOnly(h, blank)
  <1> TAKE e \in E
  <1> TAKE at, parent, prev, nxt \in Int
  <1>1. /\ EntryHeader(e, at, parent, prev, nxt) \in Seq(Int)
        /\ Len(EntryHeader(e, at, parent, prev, nxt)) = EntryWords
    BY HeaderWordsType
  <1>2. 0 \in Int
    OBVIOUS
  <1>3. /\ EntryHeader(e, at, parent, prev, 0)[NextField] = 0
        /\ \A k \in 1..EntryWords : k # NextField =>
              EntryHeader(e, at, parent, prev, nxt)[k]
                = EntryHeader(e, at, parent, prev, 0)[k]
    BY <1>2, HeaderFields
  <1>4. NextOnly(EntryHeader(e, at, parent, prev, nxt),
                 EntryHeader(e, at, parent, prev, 0))
    BY <1>3 DEF NextOnly
  <1> QED BY <1>1, <1>4

(* The call for e returns, and with it the distance to what is next.       *)
Returns(m, e, nxt) ==
    /\ e = stack[1].e /\ nxt = NextOffset(stack[1]) /\ nxt = NextDistance(e, m)'
    /\ \A b : OnStack(b)' <=> OnStack(b) /\ b # e

(* Its return patches nextEntryOffset, and nothing else.                   *)
LEMMA FinishStream ==
    ASSUME TypeInv, NEW m \in 0..N, Placed(m), Linked(m), Calls(m), pos = StreamEnd,
           FinishEntry, NEW e, NEW nxt \in Int, Returns(m, e, nxt)
    PROVE  /\ Linked(m)' /\ StreamEnd' = StreamEnd
           /\ Stream' = Stream \/ PatchesNext
  <1> DEFINE at == stack[1].at
             h == EntryHeader(e, at, stack[1].parent, stack[1].prev, nxt)
  <1>1. /\ rco \in Archives /\ rco' = rco /\ opts' = opts /\ offset' = offset
        /\ pos' = pos /\ stack # <<>> /\ stack[1].left = <<>>
    BY DEF TypeInv, FinishEntry
  <1>0. /\ e = stack[1].e /\ nxt = NextOffset(stack[1]) /\ nxt = NextDistance(e, m)'
        /\ \A b : OnStack(b)' <=> OnStack(b) /\ b # e
    BY DEF Returns
  <1>2. /\ e \in 1..m /\ Call(m, 1, Len(rco.kids[e])) /\ e \in E
        /\ 1 \in DOMAIN stack
    <2>1. e \in 1..m /\ Call(m, 1, Len(rco.kids[e]))
      BY <1>0, <1>1, LastCall
    <2>2. 1 \in DOMAIN stack
      BY <1>1, Popped DEF TypeInv
    <2> QED BY <1>1, <2>1, <2>2, ParentType
  <1>3. /\ at = offset[e] /\ stack[1].parent = ParentAt(e)
        /\ stack[1].prev = PrevDistance(e) /\ stack[1].last = LastSibling(e)
    BY <1>0, <1>2 DEF Call
  <1>4. at \in Int /\ stack[1].parent \in Int /\ stack[1].prev \in Int
        /\ at >= HeaderWords /\ at + Room(e) <= StreamEnd
        /\ Room(e) \in Nat /\ Room(e) >= EntryWords
    <2>1. stack[1] \in Frames
      BY <1>2, FrameFields
    <2>2. at \in Int /\ stack[1].parent \in Int /\ stack[1].prev \in Int
      BY <2>1 DEF Frames
    <2>3. offset[e] >= HeaderWords /\ offset[e] + Room(e) <= StreamEnd
      BY <1>2 DEF Placed
    <2> QED BY <1>2, <1>3, <2>2, <2>3, RoomType
  <1>5. OnStack(e) /\ NextDistance(e, m) = 0
    <2>1. OnStack(e)
      BY <1>0, <1>2 DEF OnStack
    <2> QED BY <2>1 DEF NextDistance
  <1>6. \A b \in 1..m : b # e => NextDistance(b, m)' = NextDistance(b, m)
    <2> TAKE b \in 1..m
    <2> SUFFICES ASSUME b # e PROVE NextDistance(b, m)' = NextDistance(b, m)
      OBVIOUS
    <2>1. OnStack(b)' <=> OnStack(b)
      BY <1>0
    <2>2. LastSibling(b)' = LastSibling(b) /\ Siblings(b)' = Siblings(b)
          /\ Place(b)' = Place(b)
      BY <1>1, NeighboursKept
    <2> QED BY <1>1, <2>1, <2>2 DEF NextDistance
  <1>7. CASE stack[1].last
    <2>1. Stream' = Stream /\ StreamEnd' = StreamEnd
      BY <1>1, <1>7 DEF FinishEntry, Stream, Buffered, StreamEnd
    <2>2. NextDistance(e, m)' = NextDistance(e, m)
      BY <1>0, <1>5, <1>7 DEF NextOffset
    <2>3. ASSUME NEW b \in 1..m
          PROVE  \A k \in 1..EntryWords : Field(b, k)' = HeaderOf(b, m)'[k]
      <3>1. NextDistance(b, m)' = NextDistance(b, m)
        BY <1>6, <2>2
      <3>2. \A k \in 1..EntryWords : WordAt(Stream', offset[b] + k - 1)
                                       = WordAt(Stream, offset[b] + k - 1)
        BY <2>1
      <3> QED BY <1>1, <3>1, <3>2, HeaderKept
    <2> QED BY <2>1, <2>3 DEF Linked
  <1>8. CASE ~ stack[1].last
    <2>1. WriteAt(at, h)
      BY <1>0, <1>8 DEF FinishEntry
    <2>2. h \in Seq(Int) /\ Len(h) = EntryWords
      <3> DEFINE parent == stack[1].parent
                 prev == stack[1].prev
      <3>1. at \in Int /\ parent \in Int /\ prev \in Int
        BY <1>4
      <3> HIDE DEF at, parent, prev
      <3>2. /\ EntryHeader(e, at, parent, prev, nxt) \in Seq(Int)
            /\ Len(EntryHeader(e, at, parent, prev, nxt)) = EntryWords
        BY <1>2, <3>1, HeadersType
      <3> QED BY <3>2 DEF parent, prev
    <2>3. /\ StreamEnd' = IF at + EntryWords > StreamEnd THEN at + EntryWords
                          ELSE StreamEnd
          /\ KeptBut(Stream, Stream', at, at + EntryWords)
          /\ LiesAt(Stream', at, h)
      <3> HIDE DEF at, h
      <3>1. /\ StreamEnd' = IF at + Len(h) > StreamEnd THEN at + Len(h)
                            ELSE StreamEnd
            /\ KeptBut(Stream, Stream', at, at + Len(h))
            /\ LiesAt(Stream', at, h)
        BY <1>1, <1>4, <2>1, <2>2, WriteAtStream DEF at
      <3> QED BY <2>2, <3>1
    <2>4. StreamEnd' = StreamEnd
      <3>1. at + EntryWords <= StreamEnd /\ StreamEnd \in Nat
        <4>1. StreamEnd \in Nat
          BY StreamType
        <4> HIDE DEF at
        <4> QED BY <1>4, <4>1 DEF EntryWords
      <3> HIDE DEF at
      <3> QED BY <1>4, <2>3, <3>1 DEF EntryWords
    <2>5. ASSUME NEW b \in 1..m, b # e
          PROVE  \A k \in 1..EntryWords : Field(b, k)' = HeaderOf(b, m)'[k]
      <3>1. at + EntryWords <= offset[b] \/ offset[b] + EntryWords <= at
        <4>1. b < e \/ e < b
          BY <1>1, <1>2, <2>5, ParentType
        <4>2. b < e => offset[b] + Room(b) <= offset[e]
          BY <1>2 DEF Placed
        <4>3. e < b => offset[e] + Room(e) <= offset[b]
          BY <1>2 DEF Placed
        <4>4. Room(b) \in Nat /\ Room(b) >= EntryWords /\ offset[b] \in Nat
              /\ offset[e] \in Nat
          <5>1. b \in E
            BY <1>1, ParentType
          <5> QED BY <1>2, <5>1, RoomType DEF TypeInv
        <4> HIDE DEF at
        <4> QED BY <1>3, <1>4, <4>1, <4>2, <4>3, <4>4 DEF EntryWords, at
      <3>2. \A k \in 1..EntryWords : WordAt(Stream', offset[b] + k - 1)
                                       = WordAt(Stream, offset[b] + k - 1)
        <4>1. at + EntryWords \in Int
          BY <1>4 DEF EntryWords
        <4> DEFINE hi == at + EntryWords
        <4> HIDE DEF at, hi
        <4>2. hi \in Int /\ at \in Int /\ KeptBut(Stream, Stream', at, hi)
              /\ (hi <= offset[b] \/ offset[b] + EntryWords <= at)
          BY <1>4, <2>3, <3>1, <4>1 DEF hi
        <4> QED BY <4>2, WordsKept
      <3> QED BY <1>1, <1>6, <2>5, <3>2, HeaderKept
    <2>6. \A k \in 1..EntryWords : Field(e, k)' = HeaderOf(e, m)'[k]
      <3>1. HeaderOf(e, m)' = h
        <4>1. ParentAt(e)' = ParentAt(e) /\ PrevDistance(e)' = PrevDistance(e)
          BY <1>1, <1>2, NeighboursKept
        <4> QED BY <1>0, <1>1, <1>3, <4>1
                DEF HeaderOf, EntryHeader, IsParentEntry, EntrySize, PrevWord
      <3>2. ASSUME NEW k \in 1..EntryWords PROVE Field(e, k)' = h[k]
        <4>1. WordAt(Stream', at + k - 1) = h[k]
          <5>1. k \in 1..Len(h)
            BY <2>2
          <5> HIDE DEF at, h
          <5> QED BY <2>3, <5>1 DEF LiesAt
        <4>2. Field(e, k)' = WordAt(Stream', offset'[e] + k - 1)
          BY FieldWord
        <4> QED BY <1>1, <1>3, <4>1, <4>2
      <3> QED BY <3>1, <3>2
    <2>7. Linked(m)'
      BY <2>5, <2>6 DEF Linked
    <2>8. ASSUME NEW k \in 1..EntryWords
          PROVE  /\ k # NextField => WordAt(Stream', at + k - 1) = WordAt(Stream, at + k - 1)
                 /\ k = NextField => WordAt(Stream, at + k - 1) = 0
      <3>1. WordAt(Stream', at + k - 1) = h[k]
        <4>1. k \in 1..Len(h)
          BY <2>2
        <4> HIDE DEF at, h
        <4> QED BY <2>3, <4>1 DEF LiesAt
      <3> DEFINE old == EntryHeader(e, at, stack[1].parent, stack[1].prev, 0)
      <3>2. WordAt(Stream, at + k - 1) = old[k]
        <4>1. Field(e, k) = HeaderOf(e, m)[k]
          BY <1>2 DEF Linked
        <4>2. HeaderOf(e, m) = old
          BY <1>3, <1>5 DEF HeaderOf
        <4>3. Field(e, k) = WordAt(Stream, offset[e] + k - 1)
          BY FieldWord
        <4> QED BY <1>3, <4>1, <4>2, <4>3
      <3>3. old[NextField] = 0 /\ (k # NextField => h[k] = old[k])
        <4> DEFINE parent == stack[1].parent
                   prev == stack[1].prev
        <4>1. at \in Int /\ parent \in Int /\ prev \in Int /\ 0 \in Int
          BY <1>4
        <4> HIDE DEF at, parent, prev
        <4>2. NextOnly(EntryHeader(e, at, parent, prev, nxt),
                       EntryHeader(e, at, parent, prev, 0))
          BY <1>2, <4>1, HeadersType
        <4> QED BY <4>2 DEF parent, prev, NextOnly
      <3> QED BY <3>1, <3>2, <3>3
    <2>9. PatchesNext
      <3> DEFINE w == at + NextField - 1
      <3>1. WordAt(Stream, w) = 0
        BY <2>8 DEF NextField, EntryWords
      <3>2. ASSUME NEW p \in HeaderWords..EndOf(Stream)-1, ~ (w <= p /\ p < w + 1)
            PROVE  WordAt(Stream', p) = WordAt(Stream, p)
        <4>1. CASE at <= p /\ p < at + EntryWords
          <5> DEFINE k == p - at + 1
          <5>1. at + k - 1 = p /\ k \in 1..EntryWords /\ k # NextField
            <6>1. p \in Int /\ w = at + 5
              BY <1>4, StreamType DEF NextField, HeaderWords
            <6> HIDE DEF at, w
            <6> QED BY <1>4, <3>2, <4>1, <6>1 DEF EntryWords, NextField
          <5> HIDE DEF k, at
          <5> QED BY <2>8, <5>1 DEF at
        <4>2. CASE ~ (at <= p /\ p < at + EntryWords)
          BY <2>3, <4>2 DEF KeptBut
        <4> QED BY <4>1, <4>2
      <3>3. KeptBut(Stream, Stream', w, w + 1)
        BY <3>2 DEF KeptBut
      <3> QED BY <3>1, <3>3 DEF PatchesNext
    <2> QED BY <2>4, <2>7, <2>9
  <1> QED BY <1>7, <1>8

LEMMA FinishEntryTree ==
    ASSUME TypeInv, NEW m \in 0..N, Placed(m), Linked(m), AtEnd(m), Calls(m),
           pos = StreamEnd, FinishEntry
    PROVE  /\ Placed(m)' /\ Linked(m)' /\ AtEnd(m)' /\ pos' = StreamEnd'
           /\ stack' # <<>> => Calls(m)'
           /\ stack' = <<>> => m = N
           /\ Stream' = Stream \/ PatchesNext
  <1>1. /\ rco \in Archives /\ rco' = rco /\ offset' = offset
        /\ pos' = pos /\ stack # <<>> /\ stack[1].left = <<>> /\ E' = E
    BY DEF TypeInv, FinishEntry, E
  <1>2. /\ stack \in Seq(Frames) /\ Len(stack) \in Nat \ {0}
        /\ DOMAIN stack = 1..Len(stack) /\ 1 \in DOMAIN stack
    BY <1>1, Popped DEF TypeInv
  <1>a. N \in Nat /\ m \in Nat /\ E = 1..N /\ Main = 1
    BY <1>1, ParentType
  <1>3. PICK e : e = stack[1].e
    OBVIOUS
  <1>4. /\ e \in 1..m /\ Call(m, 1, Len(rco.kids[e]))
        /\ ~ LastSibling(e) => ~ (Siblings(e)[Place(e) + 1] <= m)
        /\ \A g \in E : g # Main /\ rco.parent[g] = e => g <= m
        /\ \A j \in DOMAIN stack : j # 1 => stack[j].e # e
    BY <1>1, <1>3, LastCall
  <1>5. e \in E
    BY <1>a, <1>4
  <1>6. PICK nxt : nxt = NextOffset(stack[1])
    OBVIOUS
  <1>7. nxt \in Int /\ stack[1].at = offset[e] /\ stack[1].last = LastSibling(e)
        /\ stack[1].ret \in Int
    <2>1. stack[1].at = offset[e] /\ stack[1].last = LastSibling(e)
      BY <1>3, <1>4 DEF Call
    <2>2. stack[1].at \in Nat /\ pos \in Nat /\ stack[1].ret \in Int
      BY <1>1, TopType DEF TypeInv
    <2>3. (IF stack[1].last THEN 0 ELSE pos - stack[1].at) \in Int
      BY <2>2
    <2> QED BY <1>6, <2>1, <2>2, <2>3 DEF NextOffset
  <1> DEFINE rest == Tail(stack)
             caller == [rest[1] EXCEPT !.ret = nxt]
  <1>8. /\ rest \in Seq(Frames) /\ Len(rest) = Len(stack) - 1
        /\ DOMAIN rest = 1..Len(stack)-1
        /\ \A j \in 1..Len(stack)-1 : rest[j] = stack[j+1]
        /\ rest = <<>> <=> Len(stack) = 1
    BY <1>1, <1>2, Popped, TailType
  <1>9. IF rest = <<>> THEN stack' = <<>> ELSE stack' = <<caller>> \o Tail(rest)
    BY <1>6 DEF FinishEntry
  <1>10. rest # <<>> =>
           /\ stack' # <<>> /\ Len(stack') = Len(stack) - 1
           /\ DOMAIN stack' = 1..Len(stack)-1
           /\ stack'[1] = caller /\ \A j \in 2..Len(stack)-1 : stack'[j] = stack[j+1]
    <2> SUFFICES ASSUME rest # <<>>
                 PROVE  /\ stack' # <<>> /\ Len(stack') = Len(stack) - 1
                        /\ DOMAIN stack' = 1..Len(stack)-1
                        /\ stack'[1] = caller
                        /\ \A j \in 2..Len(stack)-1 : stack'[j] = stack[j+1]
      OBVIOUS
    <2>1. caller \in Frames
      <3>1. 1 \in 1..Len(stack)-1 /\ rest[1] \in Frames
        <4>1. 1 \in DOMAIN rest
          <5> HIDE DEF rest
          <5> QED BY <1>8, Popped
        <4> HIDE DEF rest
        <4> QED BY <1>8, <4>1
      <3> HIDE DEF rest
      <3> QED BY <1>7, <3>1 DEF Frames
    <2> HIDE DEF caller, rest
    <2>2. /\ Len(stack') = Len(rest) /\ DOMAIN stack' = 1..Len(rest) /\ stack' # <<>>
          /\ stack'[1] = caller /\ \A j \in 2..Len(rest) : stack'[j] = rest[j]
      BY <1>8, <1>9, <2>1, Replaced
    <2>3. \A j \in 2..Len(stack)-1 : j \in 1..Len(stack)-1 /\ j \in 2..Len(rest)
      BY <1>8
    <2> QED BY <1>8, <2>2, <2>3
  <1>11. /\ rest = <<>> => stack' = <<>>
         /\ rest # <<>> => /\ caller.e = stack[2].e /\ caller.at = stack[2].at
                           /\ caller.parent = stack[2].parent
                           /\ caller.prev = stack[2].prev /\ caller.last = stack[2].last
                           /\ caller.left = stack[2].left /\ caller.ret = nxt
    <2>1. rest # <<>> => rest[1] = stack[2] /\ 2 \in DOMAIN stack
      <3> SUFFICES ASSUME rest # <<>> PROVE rest[1] = stack[2] /\ 2 \in DOMAIN stack
        OBVIOUS
      <3>1. 1 \in 1..Len(stack)-1 /\ 1 + 1 = 2 /\ 2 \in 1..Len(stack)
        <4>1. Len(stack) # 1
          BY <1>8
        <4> HIDE DEF rest
        <4> QED BY <1>2, <4>1
      <3> QED BY <1>2, <1>8, <3>1
    <2>2. rest # <<>> => stack[2] \in Frames
      BY <2>1, FrameFields
    <2> HIDE DEF rest
    <2> QED BY <1>9, <2>1, <2>2 DEF Frames
  <1> HIDE DEF caller, rest
  <1>12. \A j \in 1..Len(stack)-1 : rest # <<>> =>
           /\ stack'[j].e = stack[j+1].e /\ stack'[j].at = stack[j+1].at
           /\ stack'[j].parent = stack[j+1].parent /\ stack'[j].prev = stack[j+1].prev
           /\ stack'[j].last = stack[j+1].last /\ stack'[j].left = stack[j+1].left
    <2> TAKE j \in 1..Len(stack)-1
    <2>1. CASE j = 1
      <3>1. j + 1 = 2
        BY <2>1
      <3> QED BY <1>10, <1>11, <2>1, <3>1
    <2>2. CASE j # 1
      <3>1. j \in 2..Len(stack)-1
        BY <1>2, <2>2
      <3> QED BY <1>10, <3>1
    <2> QED BY <2>1, <2>2
  <1>13. \A b : OnStack(b)' <=> OnStack(b) /\ b # e
    <2> TAKE b
    <2>1. ASSUME OnStack(b)' PROVE OnStack(b) /\ b # e
      <3>1. PICK j \in DOMAIN stack' : stack'[j].e = b
        BY <2>1 DEF OnStack
      <3>2. rest # <<>>
        BY <1>11
      <3>3. j \in 1..Len(stack)-1
        BY <1>10, <3>2
      <3>4. stack[j+1].e = b
        BY <1>12, <3>1, <3>2, <3>3
      <3>5. j + 1 \in 1..Len(stack) /\ j + 1 # 1
        BY <1>2, <3>3
      <3> QED BY <1>2, <1>4, <3>4, <3>5 DEF OnStack
    <2>2. ASSUME OnStack(b), b # e PROVE OnStack(b)'
      <3>1. PICK j \in 1..Len(stack) : stack[j].e = b
        BY <1>2, <2>2 DEF OnStack
      <3>2. j - 1 \in 1..Len(stack)-1 /\ (j - 1) + 1 = j /\ Len(stack) # 1
        <4>1. j # 1
          BY <1>3, <2>2, <3>1
        <4> QED BY <1>2, <3>1, <4>1
      <3>3. rest # <<>>
        BY <1>8, <3>2
      <3>4. stack'[j-1].e = b
        BY <1>12, <3>1, <3>2, <3>3
      <3> QED BY <1>10, <3>2, <3>3, <3>4 DEF OnStack
    <2> QED BY <2>1, <2>2
  <1>14. nxt = NextDistance(e, m)'
    <2>1. LastSibling(e)' = LastSibling(e) /\ Siblings(e)' = Siblings(e)
          /\ Place(e)' = Place(e)
      BY <1>1, <1>4, NeighboursKept
    <2>2. ~ OnStack(e)'
      BY <1>13
    <2>3. CASE LastSibling(e)
      BY <1>6, <1>7, <2>1, <2>3 DEF NextDistance, NextOffset
    <2>4. CASE ~ LastSibling(e)
      <3>1. NextDistance(e, m)' = pos - offset[e]
        BY <1>1, <1>4, <2>1, <2>2, <2>4 DEF NextDistance
      <3> QED BY <1>6, <1>7, <2>4, <3>1 DEF NextOffset
    <2> QED BY <2>3, <2>4
  <1>15. Linked(m)' /\ StreamEnd' = StreamEnd /\ (Stream' = Stream \/ PatchesNext)
    <2>1. Returns(m, e, nxt)
      BY <1>3, <1>6, <1>13, <1>14 DEF Returns
    <2> QED BY <1>7, <2>1, FinishStream
  <1>16. Placed(m)' /\ AtEnd(m)' /\ pos' = StreamEnd'
    BY <1>1, <1>15 DEF Placed, AtEnd, Room, Patchable
  <1>17. ASSUME stack' = <<>> PROVE m = N
    <2>1. Len(stack) = 1
      BY <1>8, <1>10, <1>17
    <2>2. e = Main
      <3>1. 1 = Len(stack) <=> e = Main
        BY <1>3, <1>4 DEF Call
      <3> QED BY <2>1, <3>1
    <2> SUFFICES ASSUME m # N PROVE FALSE
      OBVIOUS
    <2>3. m + 1 \in E /\ m + 1 # Main /\ m + 1 > m
      BY <1>a, <1>4
    <2>4. rco.parent[m+1] \in E /\ rco.parent[m+1] <= m
      <3>1. rco.parent[m+1] \in E /\ rco.parent[m+1] < m + 1
        BY <1>1, <2>3, ParentType
      <3> QED BY <1>a, <3>1
    <2>5. OnStack(rco.parent[m+1])
      BY <2>3, <2>4 DEF Calls
    <2>6. rco.parent[m+1] = e
      <3>1. PICK j \in DOMAIN stack : stack[j].e = rco.parent[m+1]
        BY <2>5 DEF OnStack
      <3>2. j = 1
        BY <1>2, <2>1, <3>1
      <3> QED BY <1>3, <3>1, <3>2
    <2>7. m + 1 <= m
      BY <1>4, <2>3, <2>6
    <2> QED BY <1>a, <2>7
  <1>18. ASSUME stack' # <<>> PROVE Calls(m)'
    <2>1. rest # <<>>
      BY <1>11, <1>18
    <2>2. /\ Len(stack') = Len(stack) - 1 /\ DOMAIN stack' = 1..Len(stack)-1
          /\ stack'[1] = caller
      BY <1>10, <2>1
    <2>3. ASSUME NEW j \in 1..Len(stack)-1
          PROVE  \E d \in 0..Len(rco.kids[stack'[j].e]) : Call(m, j, d)'
      <3>1. j + 1 \in DOMAIN stack /\ (j + 1) - 1 = j /\ j + 1 > 1 /\ j + 1 # 1
        BY <1>2, <2>3
      <3>2. PICK b : b = stack[j+1].e
        OBVIOUS
      <3>3. PICK d \in 0..Len(rco.kids[b]) : Call(m, j + 1, d)
        BY <3>1, <3>2 DEF Calls
      <3>4. /\ b \in 1..m /\ stack[j+1].at = offset[b] /\ stack[j+1].parent = ParentAt(b)
            /\ stack[j+1].prev = PrevDistance(b) /\ stack[j+1].last = LastSibling(b)
            /\ Len(stack[j+1].left) = Len(rco.kids[b]) - d
            /\ \A i \in 1..Len(stack[j+1].left) : stack[j+1].left[i] = rco.kids[b][d + i]
            /\ \A i \in 1..Len(rco.kids[b]) : rco.kids[b][i] <= m <=> i <= d
            /\ d > 0 /\ rco.kids[b][d] = stack[j].e
            /\ j + 1 = Len(stack) <=> b = Main
            /\ j + 1 < Len(stack) => stack[(j+1)+1].e = rco.parent[b]
        BY <3>1, <3>2, <3>3 DEF Call
      <3>5. /\ stack'[j].e = b /\ stack'[j].at = stack[j+1].at
            /\ stack'[j].parent = stack[j+1].parent /\ stack'[j].prev = stack[j+1].prev
            /\ stack'[j].last = stack[j+1].last /\ stack'[j].left = stack[j+1].left
        BY <1>12, <2>1, <3>2
      <3>6. /\ ParentAt(b)' = ParentAt(b) /\ PrevDistance(b)' = PrevDistance(b)
            /\ LastSibling(b)' = LastSibling(b)
        BY <1>1, <3>4, NeighboursKept
      <3>7. j > 1 => stack'[j-1].e = stack[j].e
        <4> SUFFICES ASSUME j > 1 PROVE stack'[j-1].e = stack[j].e
          OBVIOUS
        <4>1. j - 1 \in 1..Len(stack)-1 /\ (j - 1) + 1 = j
          BY <1>2, <2>3
        <4> QED BY <1>12, <2>1, <4>1
      <3>8. j = Len(stack') <=> b = Main
        <4>1. j = Len(stack') <=> j + 1 = Len(stack)
          BY <1>2, <2>2, <2>3
        <4> QED BY <3>4, <4>1
      <3>9. ASSUME j < Len(stack') PROVE stack'[j+1].e = rco.parent[b]
        <4>1. j + 1 \in 1..Len(stack)-1 /\ j + 1 < Len(stack)
          BY <1>2, <2>2, <2>3, <3>9
        <4>2. stack'[j+1].e = stack[(j+1)+1].e
          BY <1>12, <2>1, <4>1
        <4> QED BY <3>4, <4>1, <4>2
      <3>10. ASSUME j = 1, stack'[j].left # <<>>
             PROVE  stack'[j].ret = IF d = 0 THEN 0 ELSE pos - offset[rco.kids[b][d]]
        <4>1. stack'[j].ret = nxt /\ rco.kids[b][d] = e
          <5>1. stack'[1].ret = caller.ret
            BY <2>2
          <5>2. caller.ret = nxt
            BY <1>11, <2>1
          <5> QED BY <1>3, <3>4, <3>10, <5>1, <5>2
        <4>2. b \in E /\ d \in 1..Len(rco.kids[b]) /\ Len(rco.kids[b]) \in Nat
          <5>1. b \in E
            BY <1>a, <3>4
          <5>2. Len(rco.kids[b]) \in Nat
            BY <1>1, <5>1, EntryType
          <5> QED BY <3>3, <3>4, <5>1, <5>2
        <4>3. e # Main /\ Place(e) = d /\ Siblings(e) = rco.kids[b]
          <5>1. /\ rco.kids[b][d] # Main /\ Place(rco.kids[b][d]) = d
                /\ Siblings(rco.kids[b][d]) = rco.kids[b]
            BY <1>1, <4>2, KidType
          <5> QED BY <4>1, <5>1
        <4>4. d # Len(rco.kids[b])
          <5>1. stack[j+1].left # <<>> /\ stack[j+1] \in Frames
            BY <3>1, <3>5, <3>10, FrameFields
          <5>2. stack[j+1].left \in Seq(E)
            BY <5>1 DEF Frames
          <5>3. Len(stack[j+1].left) # 0
            <6> DEFINE l == stack[j+1].left
            <6> HIDE DEF l
            <6>1. l \in Seq(E) /\ l # <<>>
              BY <5>1, <5>2 DEF l
            <6>2. Len(l) # 0
              BY <6>1
            <6> QED BY <6>2 DEF l
          <5> QED BY <3>4, <4>2, <5>3
        <4>5. ~ LastSibling(e)
          BY <4>3, <4>4 DEF LastSibling
        <4>6. nxt = pos - offset[e]
          BY <1>6, <1>7, <4>5 DEF NextOffset
        <4> QED BY <3>4, <4>1, <4>6
      <3>11. Call(m, j, d)'
        BY <1>1, <3>4, <3>5, <3>6, <3>7, <3>8, <3>9, <3>10 DEF Call, Main
      <3> QED BY <1>1, <3>5, <3>11
    <2>4. ASSUME NEW i \in DOMAIN stack', NEW j \in DOMAIN stack', i < j
          PROVE  stack'[j].e < stack'[i].e
      <3>1. /\ i \in 1..Len(stack)-1 /\ j \in 1..Len(stack)-1
        BY <2>2
      <3>2. i + 1 \in DOMAIN stack /\ j + 1 \in DOMAIN stack /\ i + 1 < j + 1
        BY <1>2, <2>4, <3>1
      <3>3. stack[j+1].e < stack[i+1].e
        BY <3>2 DEF Calls
      <3>4. stack'[j].e = stack[j+1].e /\ stack'[i].e = stack[i+1].e
        BY <1>12, <2>1, <3>1
      <3> QED BY <3>3, <3>4
    <2>5. ASSUME NEW g \in E, g > m, g # Main, rco.parent[g] <= m
          PROVE  OnStack(rco.parent[g])'
      <3>1. PICK p : p = rco.parent[g]
        OBVIOUS
      <3>2. OnStack(p)
        BY <2>5, <3>1 DEF Calls
      <3>3. p # e
        <4>1. p = e => g <= m
          BY <1>4, <2>5, <3>1
        <4> QED BY <1>a, <2>5, <4>1
      <3>4. OnStack(p)'
        BY <1>13, <3>2, <3>3
      <3> QED BY <1>1, <3>1, <3>4
    <2>6. m # 0
      BY <1>a, <1>4
    <2> QED BY <1>1, <1>18, <2>2, <2>3, <2>4, <2>5, <2>6 DEF Calls, Main
  <1> QED BY <1>15, <1>16, <1>17, <1>18

-----------------------------------------------------------------------------
(* After the tree is written.                                              *)

(* The tree stays when no header is written to.                            *)
LEMMA WholeKept ==
    ASSUME TypeInv, Whole, rco' = rco, offset' = offset, stack' = stack,
           StreamEnd' \in Int, StreamEnd' >= StreamEnd,
           NEW lo \in Int, NEW hi \in Int, KeptBut(Stream, Stream', lo, hi),
           \A c \in E : hi <= offset[c] \/ offset[c] + EntryWords <= lo
    PROVE  Whole'
  <1>1. /\ rco \in Archives /\ N \in Nat /\ E = 1..N /\ N' = N /\ stack' = <<>>
        /\ stack = <<>> /\ Placed(N) /\ Linked(N)
    <2>1. rco \in Archives /\ N' = N /\ stack' = <<>> /\ stack = <<>>
          /\ Placed(N) /\ Linked(N)
      BY DEF TypeInv, N, Whole
    <2> QED BY <2>1, ParentType
  <1>2. PICK m \in 0..N : m = N
    BY <1>1
  <1>3. Placed(m) /\ Linked(m)
    BY <1>1, <1>2
  <1>4. \A c \in 1..m : c \in E
    BY <1>1, <1>2
  <1>5. ASSUME NEW c \in 1..m
        PROVE  \A k \in 1..EntryWords : Field(c, k)' = HeaderOf(c, m)'[k]
    <2>1. \A k \in 1..EntryWords : WordAt(Stream', offset[c] + k - 1)
                                     = WordAt(Stream, offset[c] + k - 1)
      <3>1. hi <= offset[c] \/ offset[c] + EntryWords <= lo
        BY <1>4
      <3> QED BY <1>3, <3>1, WordsKept
    <2>2. NextDistance(c, m)' = NextDistance(c, m)
      <3>1. /\ LastSibling(c)' = LastSibling(c) /\ Siblings(c)' = Siblings(c)
            /\ Place(c)' = Place(c)
        BY <1>1, NeighboursKept
      <3>2. ~ OnStack(c) /\ ~ OnStack(c)'
        BY <1>1 DEF OnStack
      <3>3. CASE LastSibling(c)
        BY <3>1, <3>3 DEF NextDistance
      <3>4. CASE ~ LastSibling(c)
        <4>1. Siblings(c)[Place(c) + 1] <= m
          <5>1. c \in E /\ c # Main /\ Place(c) # Len(Siblings(c))
            BY <1>4, <3>4 DEF LastSibling
          <5>2. PICK p : p = rco.parent[c]
            OBVIOUS
          <5>3. p \in E /\ Siblings(c) = rco.kids[p] /\ Place(c) \in 1..Len(rco.kids[p])
                /\ Len(rco.kids[p]) \in Nat
            BY <1>1, <5>1, <5>2, PlaceType, EntryType
          <5>4. Place(c) + 1 \in 1..Len(rco.kids[p])
            <6>1. Place(c) # Len(rco.kids[p])
              BY <5>1, <5>3
            <6> DEFINE i == Place(c)
                       n == Len(rco.kids[p])
            <6>2. i \in 1..n /\ n \in Nat /\ i # n
              BY <5>3, <6>1
            <6> HIDE DEF i, n
            <6>3. i + 1 \in 1..n
              BY <6>2
            <6> QED BY <6>3 DEF i, n
          <5>5. rco.kids[p][Place(c) + 1] \in E
            BY <1>1, <5>3, <5>4, KidType
          <5>6. rco.kids[p][Place(c) + 1] <= m
            <6> DEFINE g == rco.kids[p][Place(c) + 1]
            <6>1. g \in E
              BY <5>5
            <6> HIDE DEF g
            <6>2. g <= m
              BY <1>1, <1>2, <6>1
            <6> QED BY <6>2 DEF g
          <5> QED BY <5>3, <5>6
        <4> QED BY <3>1, <3>2, <4>1 DEF NextDistance
      <3> QED BY <3>3, <3>4
    <2> QED BY <1>1, <1>3, <2>1, <2>2, HeaderKept
  <1>6. Linked(m)'
    BY <1>5 DEF Linked
  <1>7. Placed(m)'
    <2>1. \A e \in 1..m : offset[e] \in Nat /\ Room(e) \in Nat
      BY <1>4, RoomType DEF TypeInv
    <2>2. StreamEnd \in Nat
      BY StreamType
    <2>3. \A e \in 1..m : offset[e] + Room(e) <= StreamEnd'
      <3> TAKE e \in 1..m
      <3>1. offset[e] + Room(e) <= StreamEnd
        BY <1>3 DEF Placed
      <3> QED BY <2>1, <2>2, <3>1
    <2>4. \A e : Room(e)' = Room(e)
      BY DEF Room
    <2> QED BY <1>3, <2>3, <2>4 DEF Placed
  <1>8. m = N /\ N' = N /\ stack' = <<>>
    BY <1>1, <1>2
  <1> QED BY <1>6, <1>7, <1>8 DEF Whole

(* So do the references of an entry when its attributes are not written.   *)
LEMMA ResolvedKept ==
    ASSUME TypeInv, Whole, rco' = rco, offset' = offset,
           NEW lo \in Int, NEW hi \in Int, KeptBut(Stream, Stream', lo, hi),
           NEW g \in E, hi <= AttrsAt(g) \/ offset[g] + Room(g) <= lo,
           Resolved(g)
    PROVE  Resolved(g)'
  <1>1. /\ rco \in Archives /\ N \in Nat /\ E = 1..N /\ Placed(N)
        /\ offset[g] \in Nat /\ Len(rco.attrs[g]) \in Nat
    <2>1. rco \in Archives /\ Placed(N) /\ offset[g] \in Nat
      BY DEF TypeInv, Whole
    <2> QED BY <2>1, ParentType, EntryType
  <1>2. offset[g] >= HeaderWords /\ offset[g] + Room(g) <= StreamEnd
    BY <1>1 DEF Placed
  <1>3. ASSUME NEW w \in 1..Len(rco.attrs[g])
        PROVE  Word(offset[g] + EntryWords + w - 1)'
                 = Word(offset[g] + EntryWords + w - 1)
    <2>1. PICK p : p = offset[g] + EntryWords + w - 1
      OBVIOUS
    <2>2. p = offset[g] + 10 + w - 1 /\ Room(g) = 10 + Len(rco.attrs[g])
          /\ AttrsAt(g) = offset[g] + 10
      BY <2>1 DEF EntryWords, Room, AttrsAt
    <2>3. p \in HeaderWords..EndOf(Stream)-1 /\ ~ (lo <= p /\ p < hi)
      <3>1. EndOf(Stream) = StreamEnd /\ StreamEnd \in Nat /\ HeaderWords \in Nat
        BY StreamType DEF HeaderWords
      <3> DEFINE n == Len(rco.attrs[g])
                 o == offset[g]
                 end == EndOf(Stream)
      <3>2. /\ n \in Nat /\ o \in Nat /\ end \in Nat /\ w \in 1..n
            /\ p = o + 10 + w - 1 /\ o >= HeaderWords /\ o + (10 + n) <= end
            /\ hi <= o + 10 \/ o + (10 + n) <= lo
        BY <1>1, <1>2, <2>2, <3>1
      <3> HIDE DEF n, o, end
      <3>3. p \in HeaderWords..end-1 /\ ~ (lo <= p /\ p < hi)
        BY <3>1, <3>2
      <3> QED BY <3>3 DEF end
    <2>4. WordAt(Stream', p) = WordAt(Stream, p)
      BY <2>3 DEF KeptBut
    <2> QED BY <2>1, <2>4 DEF Word, WordAt
  <1>4. DOMAIN rco.attrs[g] = 1..Len(rco.attrs[g])
    BY <1>1, EntryType
  <1> QED BY <1>3, <1>4 DEF Resolved

(* What is appended leaves both.                                           *)
LEMMA AppendKeeps ==
    ASSUME TypeInv, Whole, rco' = rco, offset' = offset, stack' = stack, Extended,
           StreamEnd' \in Int
    PROVE  Whole' /\ \A g \in E : Resolved(g) => Resolved(g)'
  <1>1. StreamEnd \in Int /\ StreamEnd' >= StreamEnd
        /\ KeptBut(Stream, Stream', StreamEnd, StreamEnd')
    BY StreamType DEF Extended
  <1>2. ASSUME NEW c \in E
        PROVE  offset[c] + EntryWords <= StreamEnd /\ offset[c] + Room(c) <= StreamEnd
    <2>1. c \in 1..N
      BY ParentType DEF TypeInv
    <2>2. offset[c] + Room(c) <= StreamEnd
      BY <2>1 DEF Placed, Whole
    <2>3. Room(c) \in Nat /\ Room(c) >= EntryWords /\ offset[c] \in Nat
      BY RoomType DEF TypeInv
    <2> QED BY <1>1, <2>2, <2>3 DEF EntryWords
  <1>3. Whole'
    BY <1>1, <1>2, WholeKept
  <1>4. ASSUME NEW g \in E, Resolved(g) PROVE Resolved(g)'
    BY <1>1, <1>2, <1>4, ResolvedKept
  <1> QED BY <1>3, <1>4

(* An iteration of rco_write_fix_refs writes the attributes of its entry,  *)
(* and nothing else.                                                       *)
PatchesAttrs ==
    LET e == Head(todo)
    IN KeptBut(Stream, Stream', AttrsAt(e), AttrsAt(e) + Len(rco.attrs[e]))

LEMMA FixStream ==
    ASSUME TypeInv, Whole, FixEntry
    PROVE  /\ Whole' /\ StreamEnd' = StreamEnd /\ PatchesAttrs
           /\ pos' = offset[Head(todo)] + Room(Head(todo))
           /\ \A e \in E : e = Head(todo) \/ Resolved(e) => Resolved(e)'
  <1>1. PICK e : e = Head(todo)
    OBVIOUS
  <1>2. /\ rco \in Archives /\ rco' = rco /\ opts' = opts /\ offset' = offset
        /\ stack' = stack /\ e \in E
    <2>1. pc # "hash" /\ todo # <<>> /\ todo \in Seq(E)
      BY DEF TypeInv, FixEntry
    <2>2. e \in E
      BY <1>1, <2>1, TailType
    <2> QED BY <2>2 DEF TypeInv, FixEntry
  <1>3. PICK unset \in [Dangling(e) -> Garbage] :
           WriteAt(AttrsAt(e), FixedWords(e, unset))
    BY <1>1 DEF FixEntry
  <1>4. PICK ws : ws = FixedWords(e, unset)
    OBVIOUS
  <1>5. ws \in Seq(Int) /\ Len(ws) = Len(rco.attrs[e]) /\ Len(rco.attrs[e]) \in Nat
    BY <1>2, <1>4, FixedWordsType, EntryType
  <1>6. PICK at : at = AttrsAt(e)
    OBVIOUS
  <1>7. /\ N \in Nat /\ E = 1..N /\ Placed(N) /\ offset[e] \in Nat
        /\ Room(e) \in Nat /\ Room(e) = EntryWords + Len(rco.attrs[e])
        /\ offset[e] >= HeaderWords /\ offset[e] + Room(e) <= StreamEnd
        /\ at = offset[e] + EntryWords /\ at + Len(ws) = offset[e] + Room(e)
        /\ at \in Int /\ at >= HeaderWords /\ StreamEnd \in Nat
    <2>1. N \in Nat /\ E = 1..N /\ Placed(N) /\ offset[e] \in Nat
      BY <1>2, ParentType DEF Whole, TypeInv
    <2>2. offset[e] >= HeaderWords /\ offset[e] + Room(e) <= StreamEnd
      BY <1>2, <2>1 DEF Placed
    <2>3. Room(e) \in Nat /\ Room(e) = EntryWords + Len(rco.attrs[e])
          /\ at = offset[e] + EntryWords /\ StreamEnd \in Nat
      BY <1>2, <1>6, RoomType, StreamType DEF Room, AttrsAt
    <2>4. at + Len(ws) = offset[e] + Room(e) /\ at \in Int /\ at >= HeaderWords
      <3> DEFINE n == Len(ws)
                 o == offset[e]
                 r == Room(e)
      <3>1. n \in Nat /\ o \in Nat /\ o >= HeaderWords /\ r = EntryWords + n
            /\ at = o + EntryWords
        BY <1>5, <2>1, <2>2, <2>3
      <3> HIDE DEF n, o, r
      <3>2. at + n = o + r /\ at \in Int /\ at >= HeaderWords
        BY <3>1 DEF EntryWords, HeaderWords
      <3> QED BY <3>2 DEF n, o, r
    <2> QED BY <2>1, <2>2, <2>3, <2>4
  <1>8. WriteAt(at, ws)
    BY <1>3, <1>4, <1>6
  <1>9. /\ StreamEnd' = StreamEnd /\ KeptBut(Stream, Stream', at, at + Len(ws))
        /\ LiesAt(Stream', at, ws)
    <2>1. /\ StreamEnd' = IF at + Len(ws) > StreamEnd THEN at + Len(ws) ELSE StreamEnd
          /\ KeptBut(Stream, Stream', at, at + Len(ws))
          /\ LiesAt(Stream', at, ws)
      BY <1>2, <1>5, <1>7, <1>8, WriteAtStream
    <2> QED BY <1>5, <1>7, <2>1
  <1>10. PICK hi \in Int : hi = at + Len(ws)
    BY <1>5, <1>7
  <1>11. ASSUME NEW c \in E
         PROVE  /\ hi <= offset[c] \/ offset[c] + EntryWords <= at
                /\ c # e => hi <= offset[c] \/ offset[c] + Room(c) <= at
    <2>1. c < e \/ c = e \/ e < c
      BY <1>2, <1>7
    <2>2. c < e => offset[c] + Room(c) <= offset[e]
      BY <1>2, <1>7 DEF Placed
    <2>3. e < c => offset[e] + Room(e) <= offset[c]
      BY <1>2, <1>7 DEF Placed
    <2>4. Room(c) \in Nat /\ Room(c) >= EntryWords /\ offset[c] \in Nat
      BY RoomType DEF TypeInv
    <2>5. /\ at = offset[e] + EntryWords /\ hi = offset[e] + Room(e)
          /\ offset[e] \in Nat /\ Room(e) \in Nat /\ Room(e) >= EntryWords
      <3>1. Room(e) >= EntryWords
        BY <1>2, RoomType
      <3> QED BY <1>7, <1>10, <3>1
    <2> QED BY <2>1, <2>2, <2>3, <2>4, <2>5 DEF EntryWords
  <1>12. KeptBut(Stream, Stream', at, hi)
    BY <1>9, <1>10
  <1>13. Whole'
    <2>1. StreamEnd' \in Int /\ StreamEnd' >= StreamEnd
      BY <1>7, <1>9
    <2> QED BY <1>2, <1>7, <1>11, <1>12, <2>1, WholeKept
  <1>14. PatchesAttrs
    BY <1>1, <1>5, <1>6, <1>9 DEF PatchesAttrs
  <1>15. pos' = offset[e] + Room(e)
    <2>1. pos' = AttrsAt(e) + Len(rco.attrs[e])
      BY <1>1 DEF FixEntry
    <2> QED BY <1>5, <1>6, <1>7, <2>1
  <1>16. Resolved(e)'
    <2>1. ASSUME NEW w \in DOMAIN rco.attrs[e]
          PROVE  Word(offset[e] + EntryWords + w - 1)' = ws[w]
      <3>1. w \in 1..Len(ws) /\ at + w - 1 = offset[e] + EntryWords + w - 1
        <4>1. DOMAIN rco.attrs[e] = 1..Len(rco.attrs[e])
          BY <1>2, EntryType
        <4> QED BY <1>5, <1>7, <4>1 DEF EntryWords
      <3>2. WordAt(Stream', at + w - 1) = ws[w]
        BY <1>9, <3>1 DEF LiesAt
      <3>3. Word(at + w - 1)' = WordAt(Stream', at + w - 1)
        BY <1>6 DEF Word, WordAt
      <3> QED BY <1>2, <1>6, <3>1, <3>2, <3>3 DEF Word, WordAt
    <2>2. \A w \in DOMAIN rco.attrs[e] :
             IF ~ rco.attrs[e][w].ent THEN ws[w] = rco.attrs[e][w].v
             ELSE rco.attrs[e][w].v # Nil => ws[w] = offset[rco.attrs[e][w].v]
      BY <1>4 DEF FixedWords
    <2> QED BY <1>2, <2>1, <2>2 DEF Resolved
  <1>17. ASSUME NEW g \in E, g # e, Resolved(g) PROVE Resolved(g)'
    <2>1. hi <= AttrsAt(g) \/ offset[g] + Room(g) <= at
      <3>1. offset[g] \in Nat
        BY DEF TypeInv
      <3> QED BY <1>11, <1>17, <3>1 DEF AttrsAt, EntryWords
    <2> QED BY <1>2, <1>7, <1>12, <1>17, <2>1, ResolvedKept
  <1> QED BY <1>1, <1>9, <1>13, <1>14, <1>15, <1>16, <1>17

(* The first phases, and the last: nothing is written to the tree.         *)
Changes ==
    \/ KeptBut(Stream, Stream', StreamEnd, StreamEnd')
    \/ pc = "entries" /\ PatchesNext
    \/ pc \in Fixing /\ todo # <<>> /\ PatchesAttrs

LEMMA EarlyTree ==
    ASSUME TypeInv, TreeInv, pc \in Early, UNCHANGED <<file, tables, opts, stack>>,
           pc' \in Early \cup {"failed"}
    PROVE  TreeInv' /\ Changes
  <1>1. Stream = <<>> /\ stack = <<>>
    BY DEF TreeInv
  <1>2. Stream' = Stream
    BY DEF Stream, Buffered
  <1>3. TreeInv'
    BY <1>1, <1>2 DEF TreeInv, Early, Fixing, TreeWritten
  <1>4. KeptBut(Stream, Stream', StreamEnd, StreamEnd')
    BY <1>2 DEF KeptBut
  <1> QED BY <1>3, <1>4 DEF Changes

LEMMA PlaceholderTree ==
    ASSUME TypeInv, TreeInv, WritePlaceholderHeader
    PROVE  TreeInv' /\ Changes
  <1>1. /\ Stream = <<>> /\ stack = <<>> /\ stack' = stack /\ pc' = "entries"
        /\ pos' = HeaderWords /\ rco' = rco /\ rco \in Archives
    BY DEF TreeInv, WritePlaceholderHeader, Early, Goto, TypeInv
  <1>2. Stream' = Stream
    BY DEF WritePlaceholderHeader, Stream, Buffered
  <1>3. pos' = StreamEnd'
    BY <1>1, <1>2 DEF StreamEnd, HeaderWords
  <1>4. Placed(0)' /\ Linked(0)' /\ AtEnd(0)'
    BY DEF Placed, Linked, AtEnd
  <1>5. Calls(0)'
    <2>1. ASSUME NEW e \in E, e # Main, rco.parent[e] <= 0 PROVE FALSE
      BY <1>1, <2>1, ParentType
    <2> QED BY <1>1, <2>1 DEF Calls, E, Main
  <1>6. 0 \in 0..N /\ N' = N
    BY <1>1, ParentType DEF N
  <1>7. TreeInv'
    BY <1>1, <1>3, <1>4, <1>5, <1>6 DEF TreeInv, Early, Fixing, TreeWritten
  <1>8. KeptBut(Stream, Stream', StreamEnd, StreamEnd')
    BY <1>2 DEF KeptBut
  <1> QED BY <1>7, <1>8 DEF Changes

(* The loops of rco_write_fix_refs begin with the subentries of a table.   *)
LEMMA EndsStart ==
    ASSUME rco \in Archives, NEW k \in Kinds, HasSubentries(rco, Table(k)), EndsWith(k)
    PROVE  LET w == Children(Table(k))
           IN w # <<>> /\ Within(rco, w[Len(w)], N) /\ Patchable(N)
  <1>1. PICK t : t = Table(k)
    OBVIOUS
  <1>2. t \in E /\ rco.kids[t] # <<>> /\ Within(rco, t, N) /\ Patchable(N)
    BY <1>1, TableType DEF HasSubentries, EndsWith, Patchable, N
  <1>3. Within(rco, rco.kids[t][Len(rco.kids[t])], N)
    BY <1>2, LastKid
  <1>4. Children(Table(k)) = rco.kids[t]
    BY <1>1 DEF Children, HasSubentries
  <1> QED BY <1>2, <1>3, <1>4

LEMMA NoWork ==
    ASSUME rco \in Archives, NEW k \in Kinds, ~ HasSubentries(rco, Table(k))
    PROVE  Children(Table(k)) = <<>>
  BY DEF HasSubentries, Children

(* The tree is written, and the loop over the objects begins.              *)
LEMMA EntriesTree ==
    ASSUME TypeInv, TreeInv, PatchedLast, WriteMain \/ WriteChild \/ FinishEntry
    PROVE  TreeInv' /\ Changes
  <1>1. /\ pc = "entries" /\ rco \in Archives /\ rco' = rco /\ opts' = opts
        /\ pos = StreamEnd /\ N' = N /\ N \in Nat
    <2>1. pc = "entries" /\ rco \in Archives /\ rco' = rco /\ opts' = opts /\ N' = N
      BY DEF TypeInv, WriteMain, WriteChild, FinishEntry, Enter, N
    <2> QED BY <2>1, ParentType DEF TreeInv
  <1>2. PICK m \in 0..N : Placed(m) /\ Linked(m) /\ AtEnd(m) /\ Calls(m)
    BY <1>1 DEF TreeInv
  <1>3. ASSUME pc' = "entries", pos' = StreamEnd', NEW n \in 0..N,
               Placed(n)', Linked(n)', AtEnd(n)', Calls(n)'
        PROVE  TreeInv'
    BY <1>1, <1>3 DEF TreeInv, Early, Fixing, TreeWritten
  <1>4. CASE WriteMain
    <2>1. /\ m = 0 /\ Placed(1)' /\ Linked(1)' /\ AtEnd(1)' /\ Calls(1)'
          /\ pos' = StreamEnd' /\ KeptBut(Stream, Stream', StreamEnd, StreamEnd')
      BY <1>1, <1>2, <1>4, WriteMainTree
    <2>2. pc' = "entries" /\ 1 \in 0..N
      BY <1>1, <1>4, ParentType DEF WriteMain, Enter
    <2> QED BY <1>3, <2>1, <2>2 DEF Changes
  <1>5. CASE WriteChild
    <2>1. /\ m < N /\ Placed(m + 1)' /\ Linked(m + 1)' /\ AtEnd(m + 1)' /\ Calls(m + 1)'
          /\ pos' = StreamEnd' /\ KeptBut(Stream, Stream', StreamEnd, StreamEnd')
      BY <1>1, <1>2, <1>5, WriteChildTree
    <2>2. pc' = "entries" /\ m + 1 \in 0..N
      <3>1. pc' = "entries"
        BY <1>5 DEF WriteChild, Enter
      <3>2. N \in Nat /\ m \in 0..N /\ m < N
        BY <1>1, <2>1
      <3> QED BY <3>1, <3>2
    <2> QED BY <1>3, <2>1, <2>2 DEF Changes
  <1>6. CASE FinishEntry
    <2>1. /\ Placed(m)' /\ Linked(m)' /\ AtEnd(m)' /\ pos' = StreamEnd'
          /\ stack' # <<>> => Calls(m)'
          /\ stack' = <<>> => m = N
          /\ Stream' = Stream \/ PatchesNext
      BY <1>1, <1>2, <1>6, FinishEntryTree
    <2>2. Changes
      <3>1. Stream' = Stream => KeptBut(Stream, Stream', StreamEnd, StreamEnd')
        BY DEF KeptBut
      <3> QED BY <1>1, <2>1, <3>1 DEF Changes
    <2>3. CASE Tail(stack) # <<>>
      <3>1. pc' = "entries" /\ stack' # <<>>
        <4> DEFINE x == [Tail(stack)[1] EXCEPT !.ret = NextOffset(stack[1])]
        <4>1. stack' = <<x>> \o Tail(Tail(stack)) /\ pc' = pc
          BY <1>6, <2>3 DEF FinishEntry
        <4>2. Tail(Tail(stack)) \in Seq(Frames)
          <5>1. stack \in Seq(Frames) /\ stack # <<>>
            BY <1>6 DEF TypeInv, FinishEntry
          <5>2. Tail(stack) \in Seq(Frames)
            BY <5>1, TailType
          <5> QED BY <2>3, <5>2, TailType
        <4>3. \A u \in Seq(Frames) : \A y : <<y>> \o u # <<>>
          OBVIOUS
        <4> HIDE DEF x
        <4> QED BY <1>1, <4>1, <4>2, <4>3
      <3> QED BY <1>3, <2>1, <2>2, <3>1
    <2>4. CASE Tail(stack) = <<>>
      <3>1. stack' = <<>> /\ pc' = "fixObj" /\ todo' = Children(Table(OBJ))
        BY <1>6, <2>4 DEF FinishEntry, Goto, Work
      <3>2. Whole' /\ AtEnd(N)'
        BY <1>1, <2>1, <3>1 DEF Whole
      <3>3. EndsAtEnd'
        <4>1. CASE HasSubentries(rco, Table(ANIM))
          BY <1>1, <3>1, <4>1 DEF EndsAtEnd, Table
        <4>2. CASE ~ HasSubentries(rco, Table(ANIM)) /\ HasSubentries(rco, Table(OBJ))
          <5>1. EndsWith(OBJ) /\ OBJ \in Kinds
            BY <4>2, KindNames DEF PatchedLast
          <5>2. LET w == Children(Table(OBJ))
                IN w # <<>> /\ Within(rco, w[Len(w)], N) /\ Patchable(N)
            BY <1>1, <4>2, <5>1, EndsStart
          <5> QED BY <1>1, <3>1, <5>2 DEF EndsAtEnd, Patchable
        <4>3. CASE ~ HasSubentries(rco, Table(ANIM)) /\ ~ HasSubentries(rco, Table(OBJ))
          <5>1. todo' = <<>>
            BY <1>1, <3>1, <4>3, NoWork, KindNames
          <5> QED BY <2>1, <5>1 DEF EndsAtEnd
        <4> QED BY <4>1, <4>2, <4>3
      <3>4. TreeInv'
        BY <1>1, <3>1, <3>2, <3>3 DEF TreeInv, Early, Fixing, TreeWritten
      <3> QED BY <2>2, <3>4
    <2> QED BY <2>3, <2>4
  <1> QED BY <1>4, <1>5, <1>6

(* An iteration takes the first element of s and puts u in its place.      *)
Visited(s, u, t) ==
    /\ t = <<>> <=> u = <<>> /\ Tail(s) = <<>>
    /\ Tail(s) # <<>> => t[Len(t)] = s[Len(s)]
    /\ Tail(s) = <<>> => s[Len(s)] = Head(s)
    /\ Tail(s) = <<>> /\ u # <<>> => t[Len(t)] = u[Len(u)]
    /\ \A i \in 1..Len(u) : i \in 1..Len(t) /\ t[i] = u[i]
    /\ \A i \in 2..Len(s) : \E j \in 1..Len(t) : t[j] = s[i]

LEMMA VisitedOne ==
    ASSUME NEW S, NEW s \in Seq(S), s # <<>>, NEW u \in Seq(S)
    PROVE  Visited(s, u, u \o Tail(s))
  <1> DEFINE v == Tail(s)
             t == u \o v
  <1>1. /\ v \in Seq(S) /\ Len(v) = Len(s) - 1 /\ Len(s) \in Nat \ {0}
        /\ Head(s) = s[1]
        /\ \A j \in 1..Len(v) : v[j] = s[j+1]
    OBVIOUS
  <1>2. v = <<>> <=> Len(v) = 0
    <2>1. v \in Seq(S)
      BY <1>1
    <2> HIDE DEF v
    <2> QED BY <2>1
  <1>3. u = <<>> <=> Len(u) = 0
    OBVIOUS
  <1> HIDE DEF v
  <1>4. /\ t \in Seq(S) /\ Len(t) = Len(u) + Len(v)
        /\ \A j \in 1..Len(u) + Len(v) :
              t[j] = IF j <= Len(u) THEN u[j] ELSE v[j - Len(u)]
    BY <1>1, ConcatProperties
  <1> HIDE DEF t
  <1>5. t = <<>> <=> Len(t) = 0
    BY <1>4
  <1> DEFINE a == Len(u)
             b == Len(v)
  <1>6. a \in Nat /\ b \in Nat /\ Len(s) = b + 1 /\ Len(t) = a + b
    BY <1>1, <1>4
  <1>7. ASSUME NEW i \in 2..Len(s) PROVE a + i - 1 \in 1..Len(t) /\ t[a + i - 1] = s[i]
    <2> HIDE DEF a, b
    <2>1. PICK j : j = a + i - 1
      OBVIOUS
    <2>2. j \in 1..a + b /\ ~ (j <= a) /\ j - a = i - 1 /\ i - 1 \in 1..b /\ i - 1 + 1 = i
      BY <1>6, <2>1
    <2>3. t[j] = v[i - 1] /\ v[i - 1] = s[i]
      <3>1. t[j] = IF j <= a THEN u[j] ELSE v[j - a]
        BY <1>4, <2>2 DEF a, b
      <3>2. v[i - 1] = s[i - 1 + 1]
        BY <1>1, <2>2 DEF b
      <3> QED BY <2>2, <3>1, <3>2
    <2> QED BY <1>6, <2>1, <2>2, <2>3
  <1>8. v # <<>> => t[Len(t)] = s[Len(s)]
    <2> SUFFICES ASSUME v # <<>> PROVE t[Len(t)] = s[Len(s)]
      OBVIOUS
    <2> HIDE DEF a, b
    <2>1. b # 0
      BY <1>2 DEF b
    <2>2. Len(s) \in 2..Len(s) /\ a + Len(s) - 1 = Len(t)
      BY <1>6, <2>1
    <2> QED BY <1>7, <2>2
  <1>9. v = <<>> => s[Len(s)] = Head(s)
    <2> SUFFICES ASSUME v = <<>> PROVE s[Len(s)] = Head(s)
      OBVIOUS
    <2>1. b = 0
      BY <1>2
    <2> HIDE DEF a, b
    <2>2. Len(s) = 1
      BY <1>6, <2>1
    <2> QED BY <1>1, <2>2
  <1>10. v = <<>> /\ u # <<>> => t[Len(t)] = u[Len(u)]
    <2> SUFFICES ASSUME v = <<>>, u # <<>> PROVE t[Len(t)] = u[Len(u)]
      OBVIOUS
    <2> HIDE DEF a, b
    <2>1. b = 0 /\ a # 0
      BY <1>2, <1>3 DEF a, b
    <2>2. Len(t) = a /\ a \in 1..a + b /\ a <= a
      BY <1>6, <2>1
    <2> QED BY <1>4, <2>2 DEF a, b
  <1>11. \A i \in 1..Len(u) : i \in 1..Len(t) /\ t[i] = u[i]
    <2> TAKE i \in 1..Len(u)
    <2>1. i \in 1..a + b /\ i <= a
      <3> HIDE DEF b
      <3> QED BY <1>6
    <2> QED BY <1>4, <1>6, <2>1
  <1>12. \A i \in 2..Len(s) : \E j \in 1..Len(t) : t[j] = s[i]
    BY <1>7
  <1>13. t = <<>> <=> u = <<>> /\ v = <<>>
    <2> HIDE DEF a, b
    <2>1. Len(t) = 0 <=> a = 0 /\ b = 0
      BY <1>6
    <2> QED BY <1>2, <1>3, <1>5, <2>1 DEF a, b
  <1> HIDE DEF a, b
  <1>14. v = Tail(s) => Visited(s, u, t)
    BY <1>8, <1>9, <1>10, <1>11, <1>12, <1>13 DEF Visited
  <1> QED BY <1>14 DEF v, t

(* The last entry of the loop is the last of the document, or it is above  *)
(* it and its last subentry is pushed.                                     *)
LEMMA FixTree ==
    ASSUME TypeInv, TreeInv, FixEntry
    PROVE  TreeInv' /\ Changes
  <1>1. /\ pc \in Fixing /\ pc' = pc /\ rco \in Archives /\ rco' = rco
        /\ todo \in Seq(E) /\ todo # <<>> /\ todo' = Children(Head(todo)) \o Tail(todo)
    BY DEF FixEntry, Fixing, TypeInv
  <1>2. Whole /\ AtEnd(N) /\ EndsAtEnd
    BY <1>1 DEF TreeInv, Fixing, TreeWritten
  <1>3. /\ Whole' /\ StreamEnd' = StreamEnd /\ PatchesAttrs
        /\ pos' = offset[Head(todo)] + Room(Head(todo))
    BY <1>2, FixStream
  <1>4. AtEnd(N)'
    BY <1>1, <1>2, <1>3 DEF AtEnd, N, Patchable, Room, FixEntry
  <1>5. EndsAtEnd'
    <2>1. PICK e : e = Head(todo)
      OBVIOUS
    <2>2. PICK u : u = Children(e)
      OBVIOUS
    <2>3. e \in E /\ u = rco.kids[e] /\ u \in Seq(E) /\ N \in Nat \ {0} /\ E = 1..N
      <3>1. e \in E
        BY <1>1, <2>1, TailType
      <3>2. e # Nil
        BY <1>1, <3>1, ParentType DEF Nil
      <3> QED BY <1>1, <2>2, <3>1, <3>2, EntryType, ParentType DEF Children
    <2>4. todo' = u \o Tail(todo)
      BY <1>1, <2>1, <2>2
    <2>5. CASE pc = "fixObj" /\ HasSubentries(rco, Table(ANIM))
      BY <1>1, <2>5 DEF EndsAtEnd, Table
    <2>6. CASE ~ (pc = "fixObj" /\ HasSubentries(rco, Table(ANIM)))
      <3>1. Within(rco, todo[Len(todo)], N) /\ Patchable(N)
        BY <1>1, <1>2, <2>6 DEF EndsAtEnd, Fixing
      <3>2. /\ todo' = <<>> <=> u = <<>> /\ Tail(todo) = <<>>
            /\ Tail(todo) # <<>> => todo'[Len(todo')] = todo[Len(todo)]
            /\ Tail(todo) = <<>> => todo[Len(todo)] = e
            /\ Tail(todo) = <<>> /\ u # <<>> => todo'[Len(todo')] = u[Len(u)]
        <4>1. Visited(todo, u, todo')
          BY <1>1, <2>3, <2>4, VisitedOne
        <4> QED BY <2>1, <4>1 DEF Visited
      <3>3. CASE todo' = <<>>
        <4>1. Within(rco, e, N) /\ rco.kids[e] = <<>>
          BY <2>3, <3>1, <3>2, <3>3
        <4>2. e = N
          BY <1>1, <2>3, <4>1, LastLeaf
        <4>3. pos' = StreamEnd'
          BY <1>2, <1>3, <2>1, <2>3, <3>1, <4>2 DEF AtEnd
        <4> QED BY <3>3, <4>3 DEF EndsAtEnd
      <3>4. CASE todo' # <<>>
        <4>1. Within(rco, todo'[Len(todo')], N)
          <5>1. CASE Tail(todo) # <<>>
            BY <3>1, <3>2, <5>1
          <5>2. CASE Tail(todo) = <<>>
            <6>1. Within(rco, e, N) /\ rco.kids[e] # <<>>
              BY <2>3, <3>1, <3>2, <3>4, <5>2
            <6>2. Within(rco, rco.kids[e][Len(rco.kids[e])], N)
              BY <1>1, <2>3, <6>1, LastKid
            <6> QED BY <2>3, <3>2, <3>4, <5>2, <6>2
          <5> QED BY <5>1, <5>2
        <4> QED BY <1>1, <3>1, <3>4, <4>1 DEF EndsAtEnd, N, Patchable
      <3> QED BY <3>3, <3>4
    <2> QED BY <2>5, <2>6
  <1>6. TreeInv'
    BY <1>1, <1>3, <1>4, <1>5 DEF TreeInv, Early, Fixing, TreeWritten
  <1> QED BY <1>1, <1>3, <1>6 DEF Changes

(* A step that does not write.                                             *)
LEMMA SameStream ==
    ASSUME TypeInv, Whole, rco' = rco, offset' = offset, stack' = stack,
           Stream' = Stream
    PROVE  Whole'
  <1>1. KeptBut(Stream, Stream', 0, 0)
    BY DEF KeptBut
  <1>2. \A c \in E : 0 <= offset[c]
    BY DEF TypeInv
  <1>3. StreamEnd' = StreamEnd /\ StreamEnd \in Nat
    BY StreamType DEF StreamEnd
  <1>4. StreamEnd' \in Int /\ StreamEnd' >= StreamEnd
    BY <1>3
  <1> QED BY <1>1, <1>2, <1>4, WholeKept

(* The animations follow the objects.                                      *)
LEMMA FixAnimStart ==
    ASSUME TypeInv, TreeInv, PatchedLast, Fallthrough("fixObj", "fixAnim")
    PROVE  TreeInv' /\ Changes
  <1>1. /\ pc = "fixObj" /\ todo = <<>> /\ pc' = "fixAnim"
        /\ todo' = Children(Table(ANIM)) /\ rco \in Archives /\ rco' = rco
        /\ stack' = stack /\ offset' = offset /\ pos' = pos
    BY DEF Fallthrough, Goto, Work, TypeInv
  <1>2. Stream' = Stream /\ StreamEnd' = StreamEnd
    BY DEF Fallthrough, Stream, StreamEnd, Buffered
  <1>3. Whole /\ AtEnd(N) /\ EndsAtEnd
    BY <1>1 DEF TreeInv, Fixing, TreeWritten
  <1>4. Whole'
    BY <1>1, <1>2, <1>3, SameStream
  <1>5. AtEnd(N)'
    BY <1>1, <1>2, <1>3 DEF AtEnd, N, Patchable, Room
  <1>6. EndsAtEnd'
    <2>1. CASE HasSubentries(rco, Table(ANIM))
      <3>1. EndsWith(ANIM) /\ ANIM \in Kinds
        BY <2>1, KindNames DEF PatchedLast
      <3>2. LET w == Children(Table(ANIM))
            IN w # <<>> /\ Within(rco, w[Len(w)], N) /\ Patchable(N)
        BY <1>1, <2>1, <3>1, EndsStart
      <3> QED BY <1>1, <3>2 DEF EndsAtEnd, Patchable, N
    <2>2. CASE ~ HasSubentries(rco, Table(ANIM))
      <3>1. todo' = <<>>
        BY <1>1, <2>2, NoWork, KindNames
      <3>2. pos = StreamEnd
        BY <1>1, <1>3, <2>2 DEF EndsAtEnd
      <3> QED BY <1>1, <1>2, <3>1, <3>2 DEF EndsAtEnd
    <2> QED BY <2>1, <2>2
  <1>7. TreeInv'
    BY <1>1, <1>4, <1>5, <1>6 DEF TreeInv, Early, Fixing, TreeWritten
  <1>8. KeptBut(Stream, Stream', StreamEnd, StreamEnd')
    BY <1>2 DEF KeptBut
  <1> QED BY <1>7, <1>8 DEF Changes

(* The phases that follow append to the output.                            *)
Later == {"hashText", "hashLang", "hash", "text", "textBody", "labels", "flush",
          "packText", "packTextBody", "resources", "header", "done"}

LEMMA AppendsExtend ==
    ASSUME TypeInv, TreeInv, pc \in Later, Appends, opts' = opts
    PROVE  Extended
  <1>1. pos = StreamEnd
    BY DEF TreeInv, Later, Fixing, TreeWritten
  <1>2. CASE \E ws \in Seq(Int) : Fwrite(ws)
    BY <1>1, <1>2, FwriteExtends
  <1>3. CASE \E ws \in Seq(Int) : FileWrite(ws)
    BY <1>1, <1>3, FileWriteExtends
  <1>4. CASE UNCHANGED <<file, tables, pos>>
    BY <1>1, <1>4, UnchangedExtends
  <1> QED BY <1>2, <1>3, <1>4 DEF Appends

LEMMA AppendTree ==
    ASSUME TypeInv, TypeInv', TreeInv, pc \in Later, pc' \in Later, Appends,
           UNCHANGED <<rco, opts, offset, stack>>
    PROVE  TreeInv' /\ Changes /\ \A g \in E : Resolved(g) => Resolved(g)'
  <1>1. Whole /\ pos = StreamEnd
    BY DEF TreeInv, Later, Fixing, TreeWritten
  <1>2. Extended
    BY AppendsExtend
  <1>3. StreamEnd' \in Int
    <2>1. Stream' \in Seq(Int)
      BY DEF TypeInv, Stream
    <2> QED BY <2>1 DEF StreamEnd, HeaderWords
  <1>4. Whole' /\ \A g \in E : Resolved(g) => Resolved(g)'
    BY <1>1, <1>2, <1>3, AppendKeeps
  <1>5. TreeInv'
    BY <1>2, <1>4 DEF TreeInv, Extended, Early, Later, Fixing, TreeWritten
  <1> QED BY <1>2, <1>4, <1>5 DEF Changes, Extended

(* The last loop of rco_write_fix_refs leaves the position at the end.     *)
LEMMA HashStart ==
    ASSUME TypeInv, TreeInv, Fallthrough("fixAnim", "hashText")
    PROVE  /\ TreeInv' /\ Changes
           /\ \A g \in E : Resolved(g) => Resolved(g)'
  <1>1. /\ pc = "fixAnim" /\ todo = <<>> /\ pc' = "hashText" /\ rco' = rco
        /\ stack' = stack /\ offset' = offset /\ pos' = pos
    BY DEF Fallthrough, Goto
  <1>2. Stream' = Stream /\ StreamEnd' = StreamEnd
    BY DEF Fallthrough, Stream, StreamEnd, Buffered
  <1>3. Whole /\ pos = StreamEnd
    BY <1>1 DEF TreeInv, Fixing, TreeWritten, EndsAtEnd
  <1>4. Whole'
    BY <1>1, <1>2, <1>3, SameStream
  <1>5. TreeInv'
    BY <1>1, <1>2, <1>3, <1>4 DEF TreeInv, Early, Fixing, TreeWritten
  <1>6. KeptBut(Stream, Stream', StreamEnd, StreamEnd')
    BY <1>2 DEF KeptBut
  <1>7. \A g \in E : Resolved(g) => Resolved(g)'
    BY <1>1, <1>2 DEF Resolved, Word
  <1> QED BY <1>5, <1>6, <1>7 DEF Changes

LaterStep ==
    \/ HashText \/ HashLang \/ HashTree
    \/ BeginText \/ WriteText \/ WriteLabelsEvents
    \/ Flush \/ BeginPackText \/ PackText
    \/ CopyResources \/ FixHeader
    \/ Fallthrough("hashLang", "hash") \/ Fallthrough("hash", "text")
    \/ Fallthrough("textBody", "labels") \/ Fallthrough("packTextBody", "resources")

LEMMA LaterAppends ==
    ASSUME TypeInv, LaterStep
    PROVE  Appends /\ pc \in Later /\ pc' \in Later /\ UNCHANGED <<rco, opts, offset, stack>>
  <1>1. CASE HashText \/ BeginText \/ BeginPackText \/ FixHeader
    BY <1>1 DEF HashText, BeginText, BeginPackText, FixHeader, Goto, Later, Appends
  <1>2. CASE HashLang
    BY <1>2, HashLangAppends DEF HashLang, Later
  <1>3. CASE HashTree
    BY <1>3, HashTreeAppends DEF HashTree, Later
  <1>4. CASE WriteText
    BY <1>4, WriteTextAppends DEF WriteText, Later
  <1>5. CASE WriteLabelsEvents
    BY <1>5, LabelsAppends DEF WriteLabelsEvents, Goto, Later
  <1>6. CASE Flush
    <2>1. Appends
      BY <1>6, FlushAppends
    <2>2. /\ pc = "flush" /\ pc' = "packText"
          /\ UNCHANGED <<rco, opts, offset, stack>>
      BY <1>6 DEF Flush, Goto
    <2> QED BY <2>1, <2>2 DEF Later
  <1>7. CASE PackText
    <2>1. Appends
      BY <1>7, PackTextAppends
    <2>2. /\ pc = "packTextBody" /\ pc' = pc
          /\ UNCHANGED <<rco, opts, offset, stack>>
      BY <1>7 DEF PackText
    <2> QED BY <2>1, <2>2 DEF Later
  <1>8. CASE CopyResources
    BY <1>8, CopyAppends DEF CopyResources, Goto, Later
  <1>9. CASE \/ Fallthrough("hashLang", "hash") \/ Fallthrough("hash", "text")
             \/ Fallthrough("textBody", "labels")
             \/ Fallthrough("packTextBody", "resources")
    BY <1>9 DEF Fallthrough, Goto, Later, Appends
  <1> QED BY <1>1, <1>2, <1>3, <1>4, <1>5, <1>6, <1>7, <1>8, <1>9 DEF LaterStep

LEMMA LaterTree ==
    ASSUME TypeInv, TypeInv', TreeInv, LaterStep
    PROVE  TreeInv' /\ Changes /\ \A g \in E : Resolved(g) => Resolved(g)'
  BY LaterAppends, AppendTree

(* The steps of write_rco before the tree is written.                      *)
EarlyStep ==
    \/ Open \/ OpenFails \/ StageImage \/ StageSound \/ StageModel
    \/ Fallthrough("image", "sound") \/ Fallthrough("sound", "model")
    \/ Fallthrough("model", "placeholder")

LEMMA EarlySteps ==
    ASSUME EarlyStep
    PROVE  pc \in Early /\ UNCHANGED <<file, tables, opts, stack>>
           /\ pc' \in Early \cup {"failed"}
  BY DEF EarlyStep, Open, OpenFails, StageImage, StageModel, StageSound,
         StageCompressed, Fallthrough, Goto, Early

LEMMA NextSteps ==
    ASSUME Next
    PROVE  \/ EarlyStep \/ WritePlaceholderHeader
           \/ WriteMain \/ WriteChild \/ FinishEntry \/ FixEntry
           \/ Fallthrough("fixObj", "fixAnim") \/ Fallthrough("fixAnim", "hashText")
           \/ LaterStep
  BY DEF Next, EndLoop, EarlyStep, LaterStep

LEMMA NextTree ==
    ASSUME TypeInv, TreeInv, PatchedLast, Next
    PROVE  TreeInv' /\ Changes
  <1>1. CASE EarlyStep
    BY <1>1, EarlySteps, EarlyTree
  <1>2. CASE WritePlaceholderHeader
    BY <1>2, PlaceholderTree
  <1>3. CASE WriteMain \/ WriteChild \/ FinishEntry
    BY <1>3, EntriesTree
  <1>4. CASE FixEntry
    BY <1>4, FixTree
  <1>5. CASE Fallthrough("fixObj", "fixAnim")
    BY <1>5, FixAnimStart
  <1>6. CASE Fallthrough("fixAnim", "hashText")
    BY <1>6, HashStart
  <1>7. CASE LaterStep
    BY <1>7, NextType, LaterTree
  <1> QED BY <1>1, <1>2, <1>3, <1>4, <1>5, <1>6, <1>7, NextSteps

LEMMA StutterParts ==
    ASSUME UNCHANGED vars, NEW m \in 0..N
    PROVE  /\ Placed(m) => Placed(m)'
           /\ Linked(m) => Linked(m)'
           /\ AtEnd(m) => AtEnd(m)'
           /\ Calls(m) => Calls(m)'
  <1>1. UNCHANGED <<pos, stack, rco, opts, offset, file, tables>>
    BY DEF vars
  <1>2. Stream' = Stream /\ StreamEnd' = StreamEnd
    BY <1>1 DEF Stream, StreamEnd, Buffered
  <1>3. Placed(m) => Placed(m)'
    BY <1>1, <1>2 DEF Placed, Room
  <1>4. AtEnd(m) => AtEnd(m)'
    BY <1>1, <1>2 DEF AtEnd, Room, Patchable
  <1>5. Linked(m) => Linked(m)'
    <2>1. \A c, k : Field(c, k)' = Field(c, k)
      BY <1>1, <1>2 DEF Field, Word
    <2>2. \A c : HeaderOf(c, m)' = HeaderOf(c, m)
      BY <1>1 DEF HeaderOf, ParentAt, PrevDistance, NextDistance, LastSibling,
           Siblings, Place, OnStack, EntryHeader, IsParentEntry, EntrySize, PrevWord
    <2> QED BY <2>1, <2>2 DEF Linked
  <1>6. Calls(m) => Calls(m)'
    <2>1. \A j, d : Call(m, j, d)' <=> Call(m, j, d)
      BY <1>1 DEF Call, ParentAt, PrevDistance, LastSibling, Siblings, Place
    <2> QED BY <1>1, <2>1 DEF Calls, OnStack, E
  <1> QED BY <1>3, <1>4, <1>5, <1>6

LEMMA StutterTree ==
    ASSUME TypeInv, TreeInv, UNCHANGED vars
    PROVE  TreeInv'
  <1>1. /\ UNCHANGED <<pc, pos, todo, stack, rco, opts, offset, file, tables>>
    BY DEF vars
  <1>2. Stream' = Stream /\ StreamEnd' = StreamEnd
    BY <1>1 DEF Stream, StreamEnd, Buffered
  <1>3. TreeWritten => Whole'
    BY <1>1, <1>2, SameStream DEF TreeInv
  <1>4. pc \in Fixing => AtEnd(N)' /\ EndsAtEnd'
    BY <1>1, <1>2 DEF TreeInv, Fixing, AtEnd, EndsAtEnd, Patchable, Room, N, Table
  <1>5. \A m \in 0..N : /\ Placed(m) => Placed(m)'
                        /\ Linked(m) => Linked(m)'
                        /\ AtEnd(m) => AtEnd(m)'
                        /\ Calls(m) => Calls(m)'
    BY StutterParts
  <1> QED BY <1>1, <1>2, <1>3, <1>4, <1>5 DEF TreeInv, TreeWritten, N

-----------------------------------------------------------------------------
(* The tree.                                                               *)

(* PatchedLast is a condition on the archive, which is not changed.        *)
LEMMA ArchiveKept ==
    ASSUME [Next]_vars
    PROVE  /\ rco' = rco
           /\ PatchedLast' <=> PatchedLast
           /\ RefsInTables' <=> RefsInTables
  <1>1. rco' = rco
    <2>1. CASE UNCHANGED vars
      BY <2>1 DEF vars
    <2>2. CASE Next
      <3>1. EarlyStep \/ WritePlaceholderHeader => rco' = rco
        BY DEF EarlyStep, WritePlaceholderHeader, Open, OpenFails, StageImage,
               StageModel, StageSound, StageCompressed, Fallthrough
      <3>2. WriteMain \/ WriteChild \/ FinishEntry \/ FixEntry => rco' = rco
        <4>1. WriteMain => rco' = rco
          BY DEF WriteMain, Enter
        <4>2. WriteChild => rco' = rco
          BY DEF WriteChild, Enter
        <4>3. FinishEntry => rco' = rco
          BY DEF FinishEntry
        <4>4. FixEntry => rco' = rco
          BY DEF FixEntry
        <4> QED BY <4>1, <4>2, <4>3, <4>4
      <3>3. LaterStep => rco' = rco
        BY DEF LaterStep, HashText, HashLang, HashTree, BeginText, WriteText,
               WriteLabelsEvents, Flush, BeginPackText, PackText, CopyResources,
               FixHeader, Fallthrough
      <3> QED BY <2>2, <3>1, <3>2, <3>3, NextSteps DEF Fallthrough
    <2> QED BY <2>1, <2>2
  <1> QED BY <1>1 DEF PatchedLast, EndsWith, RefsInTables, E, Table

LEMMA InitTree == ASSUME Init PROVE TreeInv
  BY DEF Init, TreeInv, Early, Fixing, TreeWritten, Stream

(* For every archive whose last entry is patched last, the file grows as   *)
(* TreeInv says: while write_entry recurses, the entries written so far    *)
(* lie one behind the other, linked to their parents and siblings, and the *)
(* calls that have not returned are those of the entries above the last;   *)
(* once they have returned the tree stays whole, and what comes after the  *)
(* patching of references is written at the end.                           *)
THEOREM TreeInvariant == Spec /\ PatchedLast => [](TypeInv /\ PatchedLast /\ TreeInv)
  <1>1. Init /\ PatchedLast => TypeInv /\ PatchedLast /\ TreeInv
    BY InitType, InitTree
  <1>2. TypeInv /\ PatchedLast /\ TreeInv /\ [Next]_vars
           => (TypeInv /\ PatchedLast /\ TreeInv)'
    <2> SUFFICES ASSUME TypeInv, PatchedLast, TreeInv, [Next]_vars
                 PROVE  TypeInv' /\ PatchedLast' /\ TreeInv'
      OBVIOUS
    <2>1. PatchedLast'
      BY ArchiveKept
    <2>2. CASE Next
      BY <2>1, <2>2, NextType, NextTree
    <2>3. CASE UNCHANGED vars
      <3>1. TypeInv'
        BY <2>3 DEF TypeInv, vars, E, Frames
      <3> QED BY <2>1, <2>3, <3>1, StutterTree
    <2> QED BY <2>2, <2>3
  <1> QED BY <1>1, <1>2, PTL DEF Spec

LEMMA LinkedTree == ASSUME TypeInv, Whole PROVE
    \A e \in E : \A i \in DOMAIN rco.kids[e] :
        LET kids == rco.kids[e]
            c    == kids[i]
        IN /\ Field(c, 1) = 256 * rco.id[c] + rco.type[c]
           /\ offset[c] - Field(c, ParentField) = offset[e]
           /\ Field(c, NextField) = IF i = Len(kids) THEN 0
                                    ELSE offset[kids[i+1]] - offset[c]
           /\ Field(c, CountField) = Len(rco.kids[c])
           /\ (~IsParentEntry(rco, c) \/ rco.id[c] = ANIM) =>
                Field(c, PrevField) = IF i = 1 THEN 0
                                      ELSE offset[c] - offset[kids[i-1]]
  <1> SUFFICES ASSUME NEW e \in E, NEW i \in DOMAIN rco.kids[e]
               PROVE
        LET kids == rco.kids[e]
            c    == kids[i]
        IN /\ Field(c, 1) = 256 * rco.id[c] + rco.type[c]
           /\ offset[c] - Field(c, ParentField) = offset[e]
           /\ Field(c, NextField) = IF i = Len(kids) THEN 0
                                    ELSE offset[kids[i+1]] - offset[c]
           /\ Field(c, CountField) = Len(rco.kids[c])
           /\ (~IsParentEntry(rco, c) \/ rco.id[c] = ANIM) =>
                Field(c, PrevField) = IF i = 1 THEN 0
                                      ELSE offset[c] - offset[kids[i-1]]
    OBVIOUS
  <1>1. PICK kids : kids = rco.kids[e]
    OBVIOUS
  <1>2. PICK c : c = kids[i]
    OBVIOUS
  <1>3. /\ rco \in Archives /\ stack = <<>> /\ Linked(N) /\ N \in Nat /\ E = 1..N
        /\ DOMAIN kids = 1..Len(kids) /\ Len(kids) \in Nat /\ i \in 1..Len(kids)
    <2>1. rco \in Archives /\ stack = <<>> /\ Linked(N)
      BY DEF Whole, TypeInv
    <2> QED BY <1>1, <2>1, ParentType, EntryType
  <1>4. /\ c \in E /\ c # Main /\ rco.parent[c] = e /\ Siblings(c) = kids
        /\ Place(c) = i
    BY <1>1, <1>2, <1>3, KidType
  <1>5. offset[c] \in Nat /\ offset[e] \in Nat /\ \A g \in E : offset[g] \in Nat
    BY <1>4 DEF TypeInv
  <1>6. ParentAt(c) = offset[e]
    BY <1>4 DEF ParentAt
  <1>7. PICK prev : prev = IF i = 1 THEN 0 ELSE offset[c] - offset[kids[i-1]]
    OBVIOUS
  <1>8. PrevDistance(c) = prev /\ prev \in Int
    <2>1. PrevDistance(c) = prev
      BY <1>4, <1>7 DEF PrevDistance
    <2>2. i # 1 => kids[i-1] \in E
      <3>1. i # 1 => i - 1 \in 1..Len(kids)
        BY <1>3
      <3> QED BY <1>1, <1>3, <3>1, KidType
    <2> QED BY <1>5, <1>7, <2>1, <2>2
  <1>9. PICK nxt : nxt = IF i = Len(kids) THEN 0 ELSE offset[kids[i+1]] - offset[c]
    OBVIOUS
  <1>10. NextDistance(c, N) = nxt /\ nxt \in Int
    <2>1. i # Len(kids) => kids[i+1] \in E
      <3>1. i # Len(kids) => i + 1 \in 1..Len(kids)
        BY <1>3
      <3> QED BY <1>1, <1>3, <3>1, KidType
    <2>2. ~ OnStack(c)
      BY <1>3 DEF OnStack
    <2>3. LastSibling(c) <=> i = Len(kids)
      BY <1>4 DEF LastSibling
    <2>4. i # Len(kids) => kids[i+1] <= N
      <3> DEFINE g == kids[i+1]
      <3>1. i # Len(kids) => g \in E
        BY <2>1
      <3> HIDE DEF g
      <3>2. i # Len(kids) => g <= N
        BY <1>3, <3>1
      <3> QED BY <3>2 DEF g
    <2>5. NextDistance(c, N) = nxt
      BY <1>4, <1>9, <2>2, <2>3, <2>4 DEF NextDistance
    <2> QED BY <1>5, <1>9, <2>1, <2>5
  <1>11. PICK h : h = EntryHeader(c, offset[c], offset[e], prev, nxt)
    OBVIOUS
  <1>12. HeaderOf(c, N) = h
    BY <1>6, <1>8, <1>10, <1>11 DEF HeaderOf
  <1>13. \A k \in 1..EntryWords : Field(c, k) = h[k]
    BY <1>3, <1>4, <1>12 DEF Linked
  <1>14. /\ h[1] = 256 * rco.id[c] + rco.type[c]
         /\ h[CountField] = Len(rco.kids[c]) /\ h[NextField] = nxt
         /\ h[PrevField] = PrevWord(c, prev) /\ h[ParentField] = offset[c] - offset[e]
    <2>1. offset[c] \in Int /\ offset[e] \in Int
      BY <1>5
    <2> QED BY <1>4, <1>8, <1>10, <1>11, <2>1, HeaderFields
  <1>15. /\ 1 \in 1..EntryWords /\ CountField \in 1..EntryWords
         /\ NextField \in 1..EntryWords /\ PrevField \in 1..EntryWords
         /\ ParentField \in 1..EntryWords
    BY DEF EntryWords, CountField, NextField, PrevField, ParentField
  <1>16. (~IsParentEntry(rco, c) \/ rco.id[c] = ANIM) => PrevWord(c, prev) = prev
    BY DEF PrevWord
  <1>17. offset[c] - (offset[c] - offset[e]) = offset[e]
    BY <1>5
  <1>18. /\ Field(c, 1) = 256 * rco.id[c] + rco.type[c]
         /\ offset[c] - Field(c, ParentField) = offset[e]
         /\ Field(c, NextField) = nxt
         /\ Field(c, CountField) = Len(rco.kids[c])
         /\ (~IsParentEntry(rco, c) \/ rco.id[c] = ANIM) => Field(c, PrevField) = prev
    BY <1>13, <1>14, <1>15, <1>16, <1>17
  <1> QED BY <1>1, <1>2, <1>7, <1>9, <1>18

(* Once write_entry has returned from the main table, the words of the     *)
(* file link every entry to its parent, to its next and to its previous    *)
(* sibling, and count its subentries, whatever is patched or appended.     *)
THEOREM TreeIsLinked == Spec /\ PatchedLast => []TreeLinked
  <1>1. TypeInv /\ TreeInv => TreeLinked
    BY LinkedTree DEF TreeInv, TreeLinked
  <1> QED BY <1>1, TreeInvariant, PTL

-----------------------------------------------------------------------------
(* What is changed of what is written.                                     *)

(* A step changes a word that is already in the stream only to fill in the *)
(* nextEntryOffset of the entry being finished, or the attributes of the   *)
(* entry whose references are being fixed.                                 *)
Rewrites(i) ==
    LET p == i + HeaderWords - 1
    IN \/ /\ pc = "entries"
          /\ p = stack[1].at + NextField - 1 /\ Stream[i] = 0
       \/ /\ pc \in Fixing
          /\ LET a == offset[Head(todo)] + EntryWords
             IN p \in a..a + Len(rco.attrs[Head(todo)]) - 1

LEMMA ChangesOnce ==
    ASSUME TypeInv, Changes, NEW i \in DOMAIN Stream, Stream'[i] # Stream[i]
    PROVE  Rewrites(i)
  <1>1. PICK p : p = i + HeaderWords - 1
    OBVIOUS
  <1>2. /\ i \in 1..Len(Stream) /\ Len(Stream) \in Nat
        /\ p \in HeaderWords..EndOf(Stream)-1 /\ p \in Int
        /\ p - HeaderWords + 1 = i /\ p < StreamEnd
    <2>1. i \in 1..Len(Stream) /\ Len(Stream) \in Nat
          /\ StreamEnd = HeaderWords + Len(Stream) /\ EndOf(Stream) = StreamEnd
      BY StreamType DEF EndOf
    <2> DEFINE n == Len(Stream)
               end == EndOf(Stream)
    <2>2. i \in 1..n /\ n \in Nat /\ end = HeaderWords + n /\ StreamEnd = end
          /\ p = i + HeaderWords - 1
      BY <1>1, <2>1
    <2> HIDE DEF n, end
    <2>3. /\ p \in HeaderWords..end-1 /\ p \in Int /\ p - HeaderWords + 1 = i
          /\ p < StreamEnd
      BY <2>2 DEF HeaderWords
    <2> QED BY <2>1, <2>3 DEF end
  <1>3. WordAt(Stream, p) = Stream[i] /\ WordAt(Stream', p) = Stream'[i]
    BY <1>2 DEF WordAt
  <1>4. CASE KeptBut(Stream, Stream', StreamEnd, StreamEnd')
    <2>1. StreamEnd \in Nat
      BY StreamType
    <2>2. ~ (StreamEnd <= p /\ p < StreamEnd')
      BY <1>2, <2>1
    <2> QED BY <1>2, <1>3, <1>4, <2>2 DEF KeptBut
  <1>5. CASE pc = "entries" /\ PatchesNext
    <2>1. PICK at : at = stack[1].at + NextField - 1
      OBVIOUS
    <2>2. WordAt(Stream, at) = 0 /\ KeptBut(Stream, Stream', at, at + 1)
      BY <1>5, <2>1 DEF PatchesNext
    <2>3. at <= p /\ p < at + 1
      BY <1>2, <1>3, <2>2 DEF KeptBut
    <2>4. at \in Int
      BY <2>1
    <2>5. at = p
      BY <1>2, <2>3, <2>4
    <2> QED BY <1>1, <1>3, <1>5, <2>1, <2>2, <2>5 DEF Rewrites
  <1>6. CASE pc \in Fixing /\ todo # <<>> /\ PatchesAttrs
    <2>1. PICK e : e = Head(todo)
      OBVIOUS
    <2>2. KeptBut(Stream, Stream', AttrsAt(e), AttrsAt(e) + Len(rco.attrs[e]))
      BY <1>6, <2>1 DEF PatchesAttrs
    <2>3. AttrsAt(e) <= p /\ p < AttrsAt(e) + Len(rco.attrs[e])
      BY <1>2, <1>3, <2>2 DEF KeptBut
    <2>4. PICK a : a = offset[e] + EntryWords
      OBVIOUS
    <2>5. PICK n : n = Len(rco.attrs[e])
      OBVIOUS
    <2>6. a \in Int /\ n \in Nat
      <3>1. pc # "hash" => todo \in Seq(E)
        BY DEF TypeInv
      <3>2. pc \in Fixing => pc # "hash"
        BY DEF Fixing
      <3>3. todo \in Seq(E) /\ todo # <<>>
        BY <1>6, <3>1, <3>2
      <3>4. e \in E /\ rco \in Archives /\ offset[e] \in Nat
        BY <2>1, <3>3, TailType DEF TypeInv
      <3> QED BY <2>4, <2>5, <3>4, EntryType DEF EntryWords
    <2>7. a <= p /\ p < a + n
      BY <2>3, <2>4, <2>5 DEF AttrsAt
    <2>8. p \in a..a + n - 1
      BY <1>2, <2>6, <2>7
    <2> QED BY <1>1, <1>6, <2>1, <2>4, <2>5, <2>8 DEF Rewrites
  <1> QED BY <1>4, <1>5, <1>6 DEF Changes

(* For every such archive, no step of write_rco lands on a word that was   *)
(* written before but to patch it: neither the hash tables and the texts   *)
(* nor the subentries that are still to come overwrite what is there.      *)
THEOREM WrittenOnce == Spec /\ PatchedLast => WriteOnce
  <1>1. ASSUME TypeInv, PatchedLast, TreeInv, [Next]_vars, NEW i \in DOMAIN Stream,
               Stream'[i] # Stream[i]
        PROVE  Rewrites(i)
    <2>1. CASE Next
      BY <1>1, <2>1, NextTree, ChangesOnce
    <2>2. CASE UNCHANGED vars
      BY <1>1, <2>2 DEF vars, Stream, Buffered
    <2> QED BY <1>1, <2>1, <2>2
  <1>2. TypeInv /\ PatchedLast /\ TreeInv /\ [Next]_vars
           => [\A i \in DOMAIN Stream : Stream'[i] # Stream[i] =>
                 LET p == i + HeaderWords - 1
                 IN \/ /\ pc = "entries"
                       /\ p = stack[1].at + NextField - 1 /\ Stream[i] = 0
                    \/ /\ pc \in {"fixObj", "fixAnim"}
                       /\ LET a == offset[Head(todo)] + EntryWords
                          IN p \in a..a + Len(rco.attrs[Head(todo)]) - 1]_vars
    BY <1>1 DEF Rewrites, Fixing
  <1> QED BY <1>2, TreeInvariant, PTL DEF Spec, WriteOnce

-----------------------------------------------------------------------------
(* The references.                                                         *)

(* An entry that refers to others lies below one of the subentries that    *)
(* the loop over its table begins with.                                    *)
LEMMA RefsStart ==
    ASSUME rco \in Archives, RefsInTables, NEW e \in E, rco.attrs[e] # <<>>
    PROVE  /\ rco.id[e] \in {OBJ, ANIM}
           /\ LET w == Children(Table(rco.id[e]))
              IN \E i \in DOMAIN w : Within(rco, w[i], e)
  <1>1. rco.id[e] \in {OBJ, ANIM}
    <2>1. IsArchive(rco) /\ E = EntriesOf(rco)
      BY ArchiveType DEF E
    <2> QED BY <2>1 DEF IsArchive
  <1>2. PICK t : t = Table(rco.id[e])
    OBVIOUS
  <1>3. t # Nil /\ t # e /\ Within(rco, t, e)
    BY <1>2 DEF RefsInTables
  <1>4. t \in E
    BY <1>1, <1>2, <1>3, TableType, KindNames
  <1>5. \E i \in 1..Len(rco.kids[t]) : Within(rco, rco.kids[t][i], e)
    BY <1>3, <1>4, BelowKid
  <1>6. Children(Table(rco.id[e])) = rco.kids[t] /\ DOMAIN rco.kids[t] = 1..Len(rco.kids[t])
    BY <1>2, <1>3, <1>4, EntryType DEF Children
  <1> QED BY <1>1, <1>5, <1>6

LEMMA NoRefs == ASSUME NEW e \in E, rco.attrs[e] = <<>> PROVE Resolved(e)
  BY DEF Resolved

LEMMA RefsBegin ==
    ASSUME TypeInv, RefsInTables, FinishEntry, stack' = <<>>, pc' = "fixObj",
           todo' = Children(Table(OBJ))
    PROVE  RefsInv'
  <1>1. rco' = rco /\ rco \in Archives /\ E' = E
    BY DEF FinishEntry, TypeInv, E
  <1>2. ASSUME NEW e \in E PROVE Resolved(e)' \/ ToVisit(e)'
    <2>1. CASE rco.attrs[e] = <<>>
      BY <1>1, <2>1 DEF Resolved
    <2>2. CASE rco.attrs[e] # <<>>
      <3>1. rco.id[e] \in {OBJ, ANIM}
        BY <1>1, <2>2, RefsStart
      <3>2. CASE rco.id[e] = ANIM
        BY <1>1, <3>2 DEF ToVisit, Fixing
      <3>3. CASE rco.id[e] = OBJ
        <4>1. LET w == Children(Table(OBJ))
              IN \E i \in DOMAIN w : Within(rco, w[i], e)
          BY <1>1, <2>2, <3>3, RefsStart
        <4> QED BY <1>1, <4>1 DEF ToVisit, Fixing
      <3> QED BY <3>1, <3>2, <3>3
    <2> QED BY <2>1, <2>2
  <1> QED BY <1>1, <1>2 DEF RefsInv

LEMMA RefsFixed ==
    ASSUME TypeInv, TreeInv, RefsInv, FixEntry
    PROVE  RefsInv'
  <1>1. /\ pc \in Fixing /\ pc' = pc /\ rco \in Archives /\ rco' = rco /\ E' = E
        /\ todo \in Seq(E) /\ todo # <<>> /\ todo' = Children(Head(todo)) \o Tail(todo)
    BY DEF FixEntry, Fixing, TypeInv, E
  <1>2. Whole /\ \A e \in E : Resolved(e) \/ ToVisit(e)
    BY <1>1 DEF TreeInv, RefsInv, Fixing, TreeWritten
  <1>3. \A e \in E : e = Head(todo) \/ Resolved(e) => Resolved(e)'
    BY <1>2, FixStream
  <1>4. ASSUME NEW e \in E, NEW i \in DOMAIN todo, Within(rco, todo[i], e),
               e # Head(todo)
        PROVE  ToVisit(e)'
    <2>1. PICK h : h = Head(todo)
      OBVIOUS
    <2>2. PICK u : u = Children(h)
      OBVIOUS
    <2>3. /\ h \in E /\ u = rco.kids[h] /\ u \in Seq(E) /\ todo[1] = h
          /\ DOMAIN todo = 1..Len(todo) /\ Len(todo) \in Nat
      <3>1. h \in E /\ todo[1] = h /\ DOMAIN todo = 1..Len(todo) /\ Len(todo) \in Nat
        BY <1>1, <2>1, TailType
      <3>2. h # Nil
        BY <1>1, <3>1, ParentType DEF Nil
      <3> QED BY <1>1, <2>2, <3>1, <3>2, EntryType DEF Children
    <2>4. Visited(todo, u, todo')
      BY <1>1, <2>1, <2>2, <2>3, VisitedOne
    <2>5. todo' \in Seq(E)
      BY <1>1, <2>1, <2>2, <2>3, TailType, ConcatProperties
    <2>6. DOMAIN todo' = 1..Len(todo')
      BY <2>5
    <2>7. \E j \in 1..Len(todo') : Within(rco, todo'[j], e)
      <3>1. CASE i = 1
        <4>1. Within(rco, h, e) /\ e # h
          BY <1>4, <2>1, <2>3, <3>1
        <4>2. \E j \in 1..Len(u) : Within(rco, u[j], e)
          BY <1>1, <2>3, <4>1, BelowKid
        <4> QED BY <2>4, <4>2 DEF Visited
      <3>2. CASE i # 1
        <4>1. i \in 2..Len(todo)
          BY <2>3, <3>2
        <4> QED BY <1>4, <2>4, <4>1 DEF Visited
      <3> QED BY <3>1, <3>2
    <2> QED BY <1>1, <2>6, <2>7 DEF ToVisit
  <1>5. ASSUME NEW e \in E PROVE Resolved(e)' \/ ToVisit(e)'
    <2>1. CASE e = Head(todo) \/ Resolved(e)
      BY <1>3, <2>1
    <2>2. CASE pc = "fixObj" /\ rco.id[e] = ANIM
      BY <1>1, <2>2 DEF ToVisit
    <2>3. CASE e # Head(todo) /\ \E i \in DOMAIN todo : Within(rco, todo[i], e)
      BY <1>4, <2>3
    <2> QED BY <1>2, <2>1, <2>2, <2>3 DEF ToVisit
  <1> QED BY <1>1, <1>5 DEF RefsInv

LEMMA RefsAnim ==
    ASSUME TypeInv, RefsInv, RefsInTables, Fallthrough("fixObj", "fixAnim")
    PROVE  RefsInv'
  <1>1. /\ pc = "fixObj" /\ todo = <<>> /\ pc' = "fixAnim"
        /\ todo' = Children(Table(ANIM)) /\ rco \in Archives /\ rco' = rco /\ E' = E
        /\ offset' = offset /\ Stream' = Stream
    BY DEF Fallthrough, Goto, Work, TypeInv, E, Stream, Buffered
  <1>2. ASSUME NEW e \in E PROVE Resolved(e)' \/ ToVisit(e)'
    <2>1. CASE Resolved(e)
      BY <1>1, <2>1 DEF Resolved, Word
    <2>2. CASE ~ Resolved(e)
      <3>1. rco.id[e] = ANIM /\ rco.attrs[e] # <<>>
        BY <1>1, <2>2, NoRefs DEF RefsInv, ToVisit, TreeWritten
      <3>2. LET w == Children(Table(ANIM))
            IN \E i \in DOMAIN w : Within(rco, w[i], e)
        BY <1>1, <3>1, RefsStart
      <3> QED BY <1>1, <3>2 DEF ToVisit, Fixing
    <2> QED BY <2>1, <2>2
  <1> QED BY <1>1, <1>2 DEF RefsInv

LEMMA AllResolved ==
    ASSUME RefsInv, TreeWritten, (todo = <<>> /\ pc # "fixObj") \/ pc \notin Fixing
    PROVE  \A e \in E : Resolved(e)
  BY DEF RefsInv, ToVisit, Fixing

LEMMA NextRefs ==
    ASSUME TypeInv, TreeInv, RefsInv, PatchedLast, RefsInTables, Next
    PROVE  RefsInv'
  <1>1. CASE EarlyStep \/ WritePlaceholderHeader \/ WriteMain \/ WriteChild
    <2>1. ~ TreeWritten'
      <3>1. EarlyStep => pc' \in Early \cup {"failed"}
        BY EarlySteps
      <3>2. WritePlaceholderHeader => pc' = "entries"
        BY DEF WritePlaceholderHeader, Goto
      <3>3. WriteMain \/ WriteChild => pc' = "entries"
        BY DEF WriteMain, WriteChild, Enter
      <3> QED BY <1>1, <3>1, <3>2, <3>3 DEF TreeWritten, Early
    <2> QED BY <2>1 DEF RefsInv
  <1>2. CASE FinishEntry
    <2>1. CASE Tail(stack) = <<>>
      <3>1. stack' = <<>> /\ pc' = "fixObj" /\ todo' = Children(Table(OBJ))
        BY <1>2, <2>1 DEF FinishEntry, Goto, Work
      <3> QED BY <1>2, <3>1, RefsBegin
    <2>2. CASE Tail(stack) # <<>>
      <3>1. pc' = "entries"
        BY <1>2, <2>2 DEF FinishEntry
      <3> QED BY <3>1 DEF RefsInv, TreeWritten
    <2> QED BY <2>1, <2>2
  <1>3. CASE FixEntry
    BY <1>3, RefsFixed
  <1>4. CASE Fallthrough("fixObj", "fixAnim")
    BY <1>4, RefsAnim
  <1>5. CASE Fallthrough("fixAnim", "hashText")
    <2>1. pc = "fixAnim" /\ todo = <<>> /\ pc' = "hashText" /\ E' = E
      BY <1>5 DEF Fallthrough, Goto, E
    <2>2. \A e \in E : Resolved(e)
      BY <2>1, AllResolved DEF TreeWritten
    <2>3. \A e \in E : Resolved(e)'
      BY <1>5, <2>2, HashStart
    <2> QED BY <2>1, <2>3 DEF RefsInv
  <1>6. CASE LaterStep
    <2>1. pc \in Later /\ pc' \in Later /\ E' = E
      BY <1>6, LaterAppends DEF E
    <2>2. \A e \in E : Resolved(e)
      BY <2>1, AllResolved DEF Later, Fixing, TreeWritten
    <2>3. \A e \in E : Resolved(e)'
      BY <1>6, <2>2, NextType, LaterTree
    <2> QED BY <2>1, <2>3 DEF RefsInv
  <1> QED BY <1>1, <1>2, <1>3, <1>4, <1>5, <1>6, NextSteps

LEMMA StutterRefs == ASSUME TypeInv, RefsInv, UNCHANGED vars PROVE RefsInv'
  <1>1. /\ UNCHANGED <<pc, rco, todo, offset>> /\ Stream' = Stream /\ E' = E
    BY DEF vars, Stream, Buffered, E
  <1>2. \A e : (Resolved(e) => Resolved(e)') /\ (ToVisit(e) => ToVisit(e)')
    BY <1>1 DEF Resolved, Word, ToVisit
  <1> QED BY <1>1, <1>2 DEF RefsInv, TreeWritten

LEMMA Resolves ==
    ASSUME TypeInv, TreeInv, RefsInv
    PROVE  RefsResolve
  <1> SUFFICES ASSUME pc = "done", NEW e \in E, NEW w \in DOMAIN rco.attrs[e]
               PROVE
        LET word == rco.attrs[e][w]
            p    == offset[e] + EntryWords + w - 1
        IN IF ~word.ent THEN Word(p) = word.v
           ELSE word.v # Nil =>
                  /\ Word(p) = offset[word.v]
                  /\ Word(Word(p)) = 256 * rco.id[word.v] + rco.type[word.v]
    BY DEF RefsResolve
  <1>1. Whole /\ Resolved(e)
    BY AllResolved DEF TreeInv, TreeWritten, Fixing
  <1>2. rco \in Archives /\ N \in Nat /\ E = 1..N /\ Linked(N)
    BY <1>1, ParentType DEF Whole, TypeInv
  <1>3. ASSUME NEW c \in E
        PROVE  Word(offset[c]) = 256 * rco.id[c] + rco.type[c]
    <2>1. Field(c, 1) = HeaderOf(c, N)[1]
      BY <1>2 DEF Linked, EntryWords
    <2>2. HeaderOf(c, N)[1] = 256 * rco.id[c] + rco.type[c]
      BY DEF HeaderOf, EntryHeader
    <2>3. Field(c, 1) = Word(offset[c])
      <3>1. offset[c] + 1 - 1 = offset[c]
        BY DEF TypeInv
      <3> QED BY <3>1 DEF Field
    <2> QED BY <2>1, <2>2, <2>3
  <1>4. rco.attrs[e][w].ent /\ rco.attrs[e][w].v # Nil => rco.attrs[e][w].v \in E
    <2>1. IsArchive(rco) /\ E = EntriesOf(rco)
      BY <1>2, ArchiveType DEF E
    <2> QED BY <2>1 DEF IsArchive
  <1>5. rco.attrs[e][w].ent \in BOOLEAN
    <2>1. rco.attrs[e] \in Seq(AttrWord)
      BY <1>2, ArchiveType, EntryType DEF AttrWord
    <2>2. w \in 1..Len(rco.attrs[e])
      BY <2>1
    <2>3. rco.attrs[e][w] \in AttrWord
      BY <2>1, <2>2
    <2> QED BY <2>3 DEF AttrWord
  <1> QED BY <1>1, <1>3, <1>4, <1>5 DEF Resolved

(* When moreover what refers to others lies below the objects or below the *)
(* animations: once all is written, every reference holds the place of the *)
(* entry it refers to, and that entry begins there.  Until then an entry   *)
(* with references is patched, or it lies below one that is to be visited. *)
THEOREM ReferencesResolve ==
    Spec /\ PatchedLast /\ RefsInTables => []RefsResolve
  <1>1. Init /\ RefsInTables => RefsInTables /\ RefsInv
    BY DEF Init, RefsInv, TreeWritten
  <1>2. /\ TypeInv /\ PatchedLast /\ TreeInv /\ RefsInTables /\ RefsInv
        /\ [Next]_vars
        => (RefsInTables /\ RefsInv)'
    <2> SUFFICES ASSUME TypeInv, PatchedLast, TreeInv, RefsInTables, RefsInv,
                        [Next]_vars
                 PROVE  RefsInTables' /\ RefsInv'
      OBVIOUS
    <2>1. RefsInTables'
      BY ArchiveKept
    <2>2. CASE Next
      BY <2>1, <2>2, NextRefs
    <2>3. CASE UNCHANGED vars
      BY <2>1, <2>3, StutterRefs
    <2> QED BY <2>2, <2>3
  <1>3. TypeInv /\ TreeInv /\ RefsInv => RefsResolve
    BY Resolves
  <1> QED BY <1>1, <1>2, <1>3, TreeInvariant, PTL DEF Spec

=============================================================================
