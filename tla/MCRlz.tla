------------------------------- MODULE MCRlz -------------------------------
(* Inputs for RlzCompress, of bytes of four bits.                          *)
EXTENDS RlzCompress

MCFarthest == (3 :> 20) @@ (4 :> 26) @@ (5 :> 30) @@ (6 :> 60)

Repeat(s, n) == [i \in 1..Len(s) * n |-> s[((i - 1) % Len(s)) + 1]]
Mixed(n, a, b) == [i \in 1..n |-> (a * i + (i \div b) * (i \div b)) % BASE]

(* Everything short; what repeats; what does not, or late.                 *)
MCInputs ==
    UNION {[1..n -> {0, 1, BASE - 1}] : n \in 1..4}
    \cup {Repeat(s, n) : s \in {<<3>>, <<0, 15>>, <<1, 2, 3>>, <<7, 7, 1, 7>>},
                         n \in {5, 8, 11}}
    \cup {Repeat(<<5>>, n) : n \in {16, 17, 18, 40}}
    \cup {Mixed(n, a, 3) : n \in {12, 30}, a \in {1, 6}}
    \cup {Mixed(24, a, 5) \o Repeat(<<9>>, 44) \o Mixed(24, a, 5) : a \in {1, 5}}
    \cup {Repeat(<<9>>, 12) \o Mixed(8, 3, 2) \o Repeat(<<9>>, 20)}

=============================================================================
