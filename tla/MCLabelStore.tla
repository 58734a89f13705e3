---------------------------- MODULE MCLabelStore ----------------------------
(* Documents of a main entry and two or three tables, two of them of one   *)
(* kind, with up to two names each: a short one, a long one, and for some  *)
(* the empty one.                                                          *)
EXTENDS LabelStore, TLC

CONSTANTS short, long, empty

MCWidth == (short :> 1) @@ (long :> 3) @@ (empty :> 1)

UpTo2(S) == {<<>>} \cup {<<a>> : a \in S} \cup (S \X S)

Roots(S) == {<<>>} \cup {<<a>> : a \in S}

DocumentsOf(S, ids) ==
    {[t \in 1..Len(ids) + 1 |-> IF t = 1 THEN [id |-> 1, names |-> root]
                               ELSE [id |-> ids[t-1], names |-> used[t-1]]] :
        root \in Roots(S), used \in [1..Len(ids) -> UpTo2(S)]}

NamedDocuments ==
    DocumentsOf({short, long}, <<8, 4, 3>>) \cup
    DocumentsOf({short, long}, <<8, 3, 8>>)

DocumentsWithEmpty == DocumentsOf({short, long, empty}, <<8, 4>>)
=============================================================================
