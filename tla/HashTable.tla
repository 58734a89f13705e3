----------------------------- MODULE HashTable -----------------------------
(***************************************************************************)
(* The hash tables of an RCO file as operators: an open-addressed table    *)
(* with linear probing (calc_hash, do_hashing of rcowriter.c) whose size   *)
(* is rounded up to a prime (find_larger_prime of general.c).              *)
(*                                                                         *)
(* A table of n slots is a function on 0..n-1; a slot holds the position   *)
(* of an entry of the file, which is never 0, and 0 marks a free slot.     *)
(* HashProbe is the same insertion taken one comparison at a time.         *)
(***************************************************************************)
EXTENDS Integers, Sequences

Free == 0

EmptyTable(n) == [s \in 0..n-1 |-> Free]

(* The comparison loop of is_prime: odd divisors up to the square root.    *)
IsPrime(n) ==
    IF n < 12 THEN n <= 3 \/ n \in {5, 7, 11}
    ELSE /\ n % 2 = 1
         /\ \A i \in 3..n : i % 2 = 1 /\ i * i <= n => n % i # 0

(* find_larger_prime: from 3 on, the next odd number that is_prime takes.  *)
(* There is one below 2n (Bertrand), which bounds the search.              *)
FindLargerPrime(n) ==
    IF n <= 2 THEN 2
    ELSE CHOOSE p \in n..2*n :
            /\ p % 2 = 1 /\ IsPrime(p)
            /\ \A q \in n..p-1 : q % 2 = 1 => ~IsPrime(q)

(* The slot k steps after h, wrapping at the end.                          *)
Around(n, h, k) == IF h + k < n THEN h + k ELSE h + k - n

(* The first k slots from h on are taken.                                  *)
Taken(t, n, h, k) == \A j \in 0..k-1 : t[Around(n, h, j)] # Free

(* Where the probe of calc_hash stops: the first free slot at or after h.  *)
(* The loop does not end when no slot is free, so whoever inserts must     *)
(* know that one is.                                                       *)
ProbeSlotHome(t, n, h) == h                                    \* mutant

ProbeSlot(t, n, h) ==
    Around(n, h, CHOOSE k \in 0..n-1 : /\ t[Around(n, h, k)] = Free
                                      /\ Taken(t, n, h, k))

(* items is a sequence of [named, sum, at]: whether the item has a label,  *)
(* the sum of its characters and the position to store.                    *)
Inserted(t, n, item) ==
    IF ~item.named THEN t
    ELSE [t EXCEPT ![ProbeSlot(t, n, item.sum % n)] = item.at]

(* (The singletons have TLC compute each table once and not wherever it is *)
(* used.)                                                                  *)
Filled(items, n) ==
    LET t[i \in 0..Len(items)] ==
          IF i = 0 THEN EmptyTable(n)
          ELSE CHOOSE u \in {Inserted(v, n, items[i]) : v \in {t[i-1]}} : TRUE
    IN t[Len(items)]

(* How a table is searched: from slot h on, slot after slot; a free slot   *)
(* ends the search.                                                        *)
Reachable(t, n, h, at) ==
    \E k \in 0..n-1 : t[Around(n, h, k)] = at /\ Taken(t, n, h, k)
=============================================================================
