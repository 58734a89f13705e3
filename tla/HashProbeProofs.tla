-------------------------- MODULE HashProbeProofs --------------------------
(***************************************************************************)
(* For every set of entries, every hash sum and every table size that is   *)
(* no smaller than the number of entries: what is stored is found, the     *)
(* probe always has a free slot ahead of it, and the loops store where the *)
(* operator ProbeSlot says.                                                *)
(*                                                                         *)
(* Findable alone is not inductive: that the new entry is found rests on   *)
(* the slots the probe has passed being taken (Path), and that the probe   *)
(* passes fewer than N slots rests on one being free, that is on the       *)
(* number of taken slots being the number of stored entries (Counted).     *)
(***************************************************************************)
EXTENDS HashProbe, FiniteSetTheorems, TLAPS

Used == {s \in Slots : table[s] # Free}

Counted == Cardinality(Used) = Cardinality(stored)

Path ==
    cur # NoKey =>
      \E k \in 0..N-1 : /\ hash = Around(N, Home(cur), k)
                        /\ Taken(table, N, Home(cur), k)

Fresh == cur \notin stored

IInv == TypeOK /\ Findable /\ Fresh /\ Counted /\ Path

-----------------------------------------------------------------------------
(* A home slot is a slot.                                                  *)
LEMMA HomeType == \A k \in Keys : Home(k) \in Slots
  BY SumAssumption, SizeAssumption, SMT DEF Home, Slots

(* Going around the table stays in the table...                            *)
LEMMA AroundType ==
    \A h \in Slots, k \in 0..N-1 : Around(N, h, k) \in Slots
  BY SizeAssumption, SMT DEF Around, Slots

(* ... and comes to every slot.                                            *)
LEMMA AroundOnto ==
    \A h, s \in Slots : \E k \in 0..N-1 : Around(N, h, k) = s
  <1>1. SUFFICES ASSUME NEW h \in Slots, NEW s \in Slots
                 PROVE  \E k \in 0..N-1 : Around(N, h, k) = s
    OBVIOUS
  <1>2. CASE s >= h
    <2>1. s - h \in 0..N-1 /\ Around(N, h, s - h) = s
      BY <1>2, SizeAssumption, SMT DEF Around, Slots
    <2> QED BY <2>1
  <1>3. CASE s < h
    <2>1. s - h + N \in 0..N-1 /\ Around(N, h, s - h + N) = s
      BY <1>3, SizeAssumption, SMT DEF Around, Slots
    <2> QED BY <2>1
  <1> QED BY <1>2, <1>3, SizeAssumption, SMT DEF Slots

(* The probe of calc_hash takes one more step around.                      *)
LEMMA AroundNext ==
    \A h \in Slots, k \in 0..N-1 :
       k + 1 \in 0..N-1 => NextSlot(Around(N, h, k)) = Around(N, h, k + 1)
  BY SizeAssumption, SMT DEF NextSlot, Around, Slots

LEMMA SlotsFinite == IsFiniteSet(Slots) /\ Cardinality(Slots) = N
  <1>1. 0 \in Int /\ N - 1 \in Int /\ 0 <= N - 1
    BY SizeAssumption, SMT
  <1>2. IsFiniteSet(0..N-1) /\ Cardinality(0..N-1) = N
    BY <1>1, FS_Interval, SizeAssumption
  <1> QED BY <1>2 DEF Slots

(* Fewer entries are stored than there are slots while one is being        *)
(* hashed, so a slot is free.                                              *)
LEMMA CountedLeavesFree == TypeOK /\ Fresh /\ Counted => FreeSlotLeft
  <1>1. SUFFICES ASSUME TypeOK, Fresh, Counted, cur # NoKey,
                        \A s \in Slots : table[s] # Free
                 PROVE  FALSE
    BY DEF FreeSlotLeft
  <1>2. Used = Slots
    BY <1>1 DEF Used
  <1>3. Cardinality(stored) = N
    BY <1>1, <1>2, SlotsFinite DEF Counted
  <1>4. cur \in Keys /\ cur \notin stored /\ stored \subseteq Keys
    BY <1>1 DEF TypeOK, Fresh
  <1>5. IsFiniteSet(stored) /\ Cardinality(stored) \in Nat
    BY <1>4, KeysAssumption, FS_Subset, FS_CardinalityType
  <1>6. Cardinality(stored \cup {cur}) = Cardinality(stored) + 1
    BY <1>4, <1>5, FS_AddElement
  <1>7. Cardinality(stored \cup {cur}) <= Cardinality(Keys)
    <2>1. stored \cup {cur} \subseteq Keys
      BY <1>4
    <2> QED BY <2>1, KeysAssumption, FS_Subset
  <1>8. Cardinality(Keys) \in Nat
    BY KeysAssumption, FS_CardinalityType
  <1> QED BY <1>3, <1>5, <1>6, <1>7, <1>8, SizeAssumption, SMT

-----------------------------------------------------------------------------
LEMMA InitIInv == Init => IInv
  <1>1. SUFFICES ASSUME Init PROVE IInv
    OBVIOUS
  <1>2. TypeOK
    BY <1>1, SizeAssumption, SMT DEF Init, TypeOK, EmptyTable, Slots, Free
  <1>3. Findable /\ Fresh /\ Path
    BY <1>1 DEF Init, Findable, Fresh, Path
  <1>4. Counted
    <2>1. Used = {}
      BY <1>1 DEF Init, Used, EmptyTable, Slots
    <2> QED BY <1>1, <2>1 DEF Init, Counted
  <1> QED BY <1>2, <1>3, <1>4 DEF IInv

(* A new entry: the probe is at its home slot and has passed none.         *)
LEMMA BeginIInv ==
    ASSUME IInv, NEW k \in Keys, Begin(k) PROVE IInv'
  <1>1. TypeOK'
    BY HomeType DEF IInv, TypeOK, Begin
  <1>2. Findable' /\ Fresh' /\ Counted'
    BY DEF IInv, Begin, Findable, Fresh, Counted, Used, Reachable, Taken, Home
  <1>3. Path'
    <2>1. Home(k) \in Slots
      BY HomeType
    <2>2. 0 \in 0..N-1 /\ Home(k) = Around(N, Home(k), 0)
      BY <2>1, SizeAssumption, SMT DEF Around, Slots
    <2>3. Taken(table, N, Home(k), 0)
      BY SMT DEF Taken
    <2>4. cur' = k /\ hash' = Home(k) /\ table' = table /\ Home(cur)' = Home(k)
      BY DEF Begin, Home
    <2> QED BY <2>2, <2>3, <2>4 DEF Path, Taken
  <1> QED BY <1>1, <1>2, <1>3 DEF IInv

(* A taken slot: there is another ahead, or every slot would be taken.     *)
LEMMA ProbeIInv == ASSUME IInv, Probe PROVE IInv'
  <1>1. cur # NoKey /\ cur \in Keys /\ hash \in Slots /\ table[hash] # Free
    BY DEF IInv, Probe, TypeOK
  <1>2. TypeOK'
    BY <1>1, SizeAssumption, SMT DEF IInv, TypeOK, Probe, NextSlot, Slots
  <1>3. Findable' /\ Fresh' /\ Counted'
    BY DEF IInv, Probe, Findable, Fresh, Counted, Used, Reachable, Taken, Home
  <1>4. Path'
    <2> DEFINE h == Home(cur)
    <2>1. h \in Slots
      BY <1>1, HomeType
    <2>2. PICK k \in 0..N-1 : hash = Around(N, h, k) /\ Taken(table, N, h, k)
      BY <1>1 DEF IInv, Path
    <2> HIDE DEF h
    <2>3. Taken(table, N, h, k + 1)
      <3>1. SUFFICES ASSUME NEW j \in 0..(k + 1)-1
                     PROVE  table[Around(N, h, j)] # Free
        BY DEF Taken
      <3>2. j \in 0..k-1 \/ j = k
        BY SMT
      <3> QED BY <1>1, <2>2, <3>2 DEF Taken
    <2>4. k + 1 \in 0..N-1
      <3>1. SUFFICES ASSUME k = N - 1 PROVE FALSE
        BY SizeAssumption, SMT
      <3>2. \A j \in 0..N-1 : table[Around(N, h, j)] # Free
        <4>1. 0..(k + 1)-1 = 0..N-1
          BY <3>1, SizeAssumption, SMT
        <4> QED BY <2>3, <4>1 DEF Taken
      <3>3. \A s \in Slots : table[s] # Free
        BY <2>1, <3>2, AroundOnto
      <3> QED BY <1>1, <3>3, CountedLeavesFree DEF IInv, FreeSlotLeft
    <2>5. hash' = Around(N, h, k + 1)
      BY <2>1, <2>2, <2>4, AroundNext DEF Probe
    <2>6. cur' = cur /\ table' = table /\ Home(cur)' = h
      BY DEF Probe, Home, h
    <2> QED BY <2>3, <2>4, <2>5, <2>6 DEF Path, Taken
  <1> QED BY <1>2, <1>3, <1>4 DEF IInv

(* A free slot: the new entry is found because the slots before it are     *)
(* taken, the others because only a free slot changed.                     *)
LEMMA StoreIInv == ASSUME IInv, Store PROVE IInv'
  <1>1. /\ cur # NoKey /\ cur \in Keys /\ cur \notin stored
        /\ hash \in Slots /\ table[hash] = Free
        /\ Place[cur] \in Nat /\ Place[cur] # Free
        /\ table \in [Slots -> Nat] /\ stored \subseteq Keys
    BY PlaceAssumption DEF IInv, Store, TypeOK, Fresh
  <1>2. table' = [table EXCEPT ![hash] = Place[cur]]
    BY DEF Store
  <1>3. TypeOK'
    BY <1>1 DEF Store, TypeOK, IInv
  <1>4. \A s \in Slots : table[s] # Free => table'[s] = table[s]
    BY <1>1, <1>2
  <1>5. table'[hash] = Place[cur]
    BY <1>1, <1>2
  <1>6. ASSUME NEW h \in Slots, NEW k \in 0..N-1, Taken(table, N, h, k)
        PROVE  Taken(table', N, h, k)
    <2>1. SUFFICES ASSUME NEW j \in 0..k-1
                   PROVE  table'[Around(N, h, j)] # Free
      BY DEF Taken
    <2>2. j \in 0..N-1
      BY SizeAssumption, SMT
    <2>3. Around(N, h, j) \in Slots /\ table[Around(N, h, j)] # Free
      BY <1>6, <2>2, AroundType DEF Taken
    <2> QED BY <1>4, <2>3
  <1>7. Findable'
    <2>1. SUFFICES ASSUME NEW k \in stored \cup {cur}
                   PROVE  Reachable(table', N, Home(k), Place[k])
      BY DEF Findable, Store, Home
    <2>2. k \in Keys /\ Home(k) \in Slots
      BY <1>1, HomeType
    <2>3. CASE k \in stored
      <3>1. PICK d \in 0..N-1 : /\ table[Around(N, Home(k), d)] = Place[k]
                                /\ Taken(table, N, Home(k), d)
        BY <2>3 DEF IInv, Findable, Reachable
      <3>2. Around(N, Home(k), d) \in Slots
        BY <2>2, AroundType
      <3>3. Place[k] # Free
        BY <2>2, PlaceAssumption
      <3>4. table'[Around(N, Home(k), d)] = Place[k]
        BY <1>4, <3>1, <3>2, <3>3
      <3> QED BY <1>6, <2>2, <3>1, <3>4 DEF Reachable
    <2>4. CASE k = cur
      <3>1. PICK d \in 0..N-1 : /\ hash = Around(N, Home(cur), d)
                                /\ Taken(table, N, Home(cur), d)
        BY <1>1 DEF IInv, Path
      <3> QED BY <1>5, <1>6, <2>2, <2>4, <3>1 DEF Reachable
    <2> QED BY <2>1, <2>3, <2>4
  <1>8. Counted'
    <2>1. Used' = Used \cup {hash}
      BY <1>1, <1>4, <1>5, <1>2 DEF Used
    <2>2. hash \notin Used /\ Used \subseteq Slots
      BY <1>1 DEF Used
    <2>3. IsFiniteSet(Used)
      BY <2>2, SlotsFinite, FS_Subset
    <2>4. Cardinality(Used') = Cardinality(Used) + 1
      BY <2>1, <2>2, <2>3, FS_AddElement
    <2>5. IsFiniteSet(stored)
      BY <1>1, KeysAssumption, FS_Subset
    <2>6. Cardinality(stored') = Cardinality(stored) + 1
      BY <1>1, <2>5, FS_AddElement DEF Store
    <2> QED BY <2>4, <2>6 DEF IInv, Counted
  <1>9. Path' /\ Fresh'
    <2>1. NoKey \notin stored'
      BY <1>1, KeysAssumption DEF Store
    <2> QED BY <2>1 DEF Store, Path, Fresh
  <1> QED BY <1>3, <1>7, <1>8, <1>9 DEF IInv

LEMMA NextIInv == IInv /\ [Next]_vars => IInv'
  <1>1. SUFFICES ASSUME IInv, [Next]_vars PROVE IInv'
    OBVIOUS
  <1>2. ASSUME NEW k \in Keys, Begin(k) PROVE IInv'
    BY <1>1, <1>2, BeginIInv
  <1>3. CASE Probe
    BY <1>1, <1>3, ProbeIInv
  <1>4. CASE Store
    BY <1>1, <1>4, StoreIInv
  <1>5. CASE UNCHANGED vars
    BY <1>1, <1>5 DEF vars, IInv, TypeOK, Findable, Fresh, Counted, Used, Path,
                      Reachable, Taken, Home
  <1> QED BY <1>1, <1>2, <1>3, <1>4, <1>5 DEF Next

(* The inductive invariant holds.                                          *)
THEOREM Invariance == Spec => []IInv
  BY InitIInv, NextIInv, PTL DEF Spec

(* Type correctness of the table and of the probe.                         *)
THEOREM TypeCorrect == Spec => []TypeOK
  <1>1. IInv => TypeOK
    BY DEF IInv
  <1> QED BY <1>1, Invariance, PTL

(* do_hashing never loses an entry: all that was stored is found.          *)
THEOREM StoredIsFound == Spec => []Findable
  <1>1. IInv => Findable
    BY DEF IInv
  <1> QED BY <1>1, Invariance, PTL

(* The loop of calc_hash always has a free slot to come to.                *)
THEOREM ProbeCanEnd == Spec => []FreeSlotLeft
  <1>1. IInv => FreeSlotLeft
    BY CountedLeavesFree DEF IInv
  <1> QED BY <1>1, Invariance, PTL

-----------------------------------------------------------------------------
(* The slot of the one-step insertion is where the probe has stopped.      *)
LEMMA StopIsProbeSlot ==
    ASSUME IInv, cur # NoKey, table[hash] = Free
    PROVE  hash = ProbeSlot(table, N, Home(cur))
  <1> DEFINE h == Home(cur)
             Stop(k) == table[Around(N, h, k)] = Free /\ Taken(table, N, h, k)
  <1>1. PICK d \in 0..N-1 : hash = Around(N, h, d) /\ Taken(table, N, h, d)
    BY DEF IInv, Path
  <1>2. Stop(d)
    BY <1>1
  <1>3. \A k \in 0..N-1 : Stop(k) => k = d
    <2>1. SUFFICES ASSUME NEW k \in 0..N-1, Stop(k), k # d PROVE FALSE
      OBVIOUS
    <2>2. k \in 0..d-1 \/ d \in 0..k-1
      BY <2>1, SMT
    <2> QED BY <1>2, <2>1, <2>2 DEF Taken
  <1>4. (CHOOSE k \in 0..N-1 : Stop(k)) = d
    BY <1>2, <1>3
  <1> QED BY <1>1, <1>4 DEF ProbeSlot

(* The loops of the program implement HashTable's one-step insertion: the  *)
(* table only ever changes at the slot ProbeSlot picks.                    *)
THEOREM ProbeImplementsInsertion == Spec => StoresAtProbeSlot
  <1>1. ASSUME IInv, Next, table' # table
        PROVE  table' = [table EXCEPT
                           ![ProbeSlot(table, N, Home(cur))] = Place[cur]]
    <2>1. Store
      BY <1>1 DEF Next, Begin, Probe
    <2> QED BY <1>1, <2>1, StopIsProbeSlot DEF Store
  <1>2. IInv /\ [Next]_vars =>
          [table' # table =>
             table' = [table EXCEPT
                         ![ProbeSlot(table, N, Home(cur))] = Place[cur]]]_vars
    BY <1>1 DEF vars
  <1> QED BY <1>2, Invariance, PTL DEF Spec, StoresAtProbeSlot
=============================================================================
