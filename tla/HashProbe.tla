----------------------------- MODULE HashProbe -----------------------------
(***************************************************************************)
(* Filling one hash table of an RCO file as the loops of the writer do     *)
(* (do_hashing, write_text_hash_table and the probe of calc_hash), one     *)
(* comparison at a time.  RcoWriter fills a table in one step with the     *)
(* operators of HashTable; the properties here say that the loops do what  *)
(* the operators say, that they end, and that what was stored is found.    *)
(***************************************************************************)
EXTENDS HashTable, FiniteSets

CONSTANTS
    Keys,      \* the labelled entries of the table
    KeySum,    \* the sum of the characters of the label of an entry
    Place,     \* where the entry lies in the file
    N,         \* hashTableSize
    NoKey      \* none of Keys

(* The table has a slot for every entry: find_larger_prime only rounds up, *)
(* and the labelled entries are among the counted ones.  Entries lie after *)
(* the header of the file, never at 0.                                     *)
ASSUME KeysAssumption == IsFiniteSet(Keys) /\ NoKey \notin Keys
ASSUME SumAssumption == KeySum \in [Keys -> Nat]
ASSUME PlaceAssumption == Place \in [Keys -> Nat \ {Free}]
ASSUME SizeAssumption == N \in Nat \ {0} /\ Cardinality(Keys) <= N

VARIABLES
    table,     \* hashTable
    stored,    \* the entries already in it
    cur,       \* the entry being hashed, NoKey between two
    hash       \* the slot the probe has come to

vars == <<table, stored, cur, hash>>

Slots == 0..N-1

(* hash %= hashTableSize.                                                  *)
Home(k) == KeySum[k] % N

Init ==
    /\ table = EmptyTable(N)
    /\ stored = {} /\ cur = NoKey /\ hash = 0

(* The call of calc_hash for the next entry; the order is the tree's, any  *)
(* order here.                                                             *)
BeginAgain(k) ==                                               \* mutant
    /\ cur = NoKey
    /\ cur' = k /\ hash' = Home(k)
    /\ UNCHANGED <<table, stored>>

Begin(k) ==
    /\ cur = NoKey /\ k \notin stored
    /\ cur' = k /\ hash' = Home(k)
    /\ UNCHANGED <<table, stored>>

(* An iteration of the probe: the slot is taken.                           *)
NextSlotNoWrap(h) == h + 1                                     \* mutant
NextSlotSkipsFirst(h) == IF h + 1 >= N THEN 1 ELSE h + 1       \* mutant
NextSlotBackwards(h) == IF h = 0 THEN N - 1 ELSE h - 1         \* mutant
NextSlotSticks(h) == IF h + 1 >= N THEN h ELSE h + 1           \* mutant

NextSlot(h) == IF h + 1 >= N THEN 0 ELSE h + 1

Probe ==
    /\ cur # NoKey /\ table[hash] # Free
    /\ hash' = NextSlot(hash)
    /\ UNCHANGED <<table, stored, cur>>

(* The slot is free: calc_hash returns it and the position is stored.      *)
Store ==
    /\ cur # NoKey /\ table[hash] = Free
    /\ table' = [table EXCEPT ![hash] = Place[cur]]
    /\ stored' = stored \cup {cur}
    /\ cur' = NoKey
    /\ UNCHANGED hash

Next == (\E k \in Keys : Begin(k)) \/ Probe \/ Store

Spec == Init /\ [][Next]_vars

(* The loops run in one thread to their end.                               *)
FairSpec == Spec /\ WF_vars(Next)

-----------------------------------------------------------------------------
(* Every variable has its type.                                            *)
TypeOK ==
    /\ table \in [Slots -> Nat]
    /\ stored \in SUBSET Keys
    /\ cur \in Keys \cup {NoKey}
    /\ hash \in Slots

(* What was stored is found by probing from its home slot, whatever is     *)
(* stored after it: do_hashing never moves or overwrites an entry.         *)
Findable ==
    \A k \in stored : Reachable(table, N, Home(k), Place[k])

(* While an entry is being hashed there is a free slot, so the while loop  *)
(* of calc_hash ends.                                                      *)
FreeSlotLeft == cur # NoKey => \E s \in Slots : table[s] = Free

(* A step that changes the table stores the current entry in the slot that *)
(* HashTable's one-step insertion picks.                                   *)
StoresAtProbeSlot ==
    [][table' # table =>
         table' = [table EXCEPT ![ProbeSlot(table, N, Home(cur))] = Place[cur]]
      ]_vars

(* Every entry is stored in the end.                                       *)
AllStored == <>(stored = Keys)
=============================================================================
