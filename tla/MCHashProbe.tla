---------------------------- MODULE MCHashProbe ----------------------------
(* Five entries whose labels collide, wrap around the end of the table and *)
(* fill it: 5 is a prime, so find_larger_prime leaves no slot to spare.     *)
EXTENDS HashProbe, TLC

CONSTANTS a, b, c, d, e

MCKeys == {a, b, c, d, e}
MCSum == (a :> 14) @@ (b :> 9) @@ (c :> 4) @@ (d :> 3) @@ (e :> 4)
MCPlace == (a :> 61) @@ (b :> 71) @@ (c :> 81) @@ (d :> 91) @@ (e :> 101)
MCSize == FindLargerPrime(Cardinality(MCKeys))
=============================================================================
