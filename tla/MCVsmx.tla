------------------------------- MODULE MCVsmx -------------------------------
(* Scripts for VsmxRoundTrip: every pair of groups of each kind over a few *)
(* words, and files whose sections do not agree with themselves.           *)
EXTENDS VsmxRoundTrip

Section(ws) == [chars |-> Joined(ws), entries |-> Len(ws)]

File(code, text, prop, names) ==
    [version |-> "VSMX", code |-> code, text |-> Section(text),
     prop |-> Section(prop), names |-> Section(names)]

Func(args, flag, locals, start) ==
    [op |-> 42, b1 |-> args, b2 |-> flag, b3 |-> locals, val |-> start]

A == <<97>>
B == <<98, 32, 97>>
Texts == << A, B, <<>>, <<97, 34, 10>>, <<10, 59, 97>>, <<97, 98, 97, 98, 97>>,
            <<97, 10, 101, 10, 102, 10, 103>> >>
Props == << A, <<98>>, <<32, 97>>, <<>>, <<97, 10, 104, 10, 105>> >>
Names == << <<98>>, A >>

(* Words of two or more lines may name instructions in the later ones: one *)
(* without a value, a float, a property, a function and a jump.            *)
MCSpelled ==
    <<101, 10>> :> Line(Group(1, 0), <<>>)
    @@ <<102, 10>> :> Line(Group(39, 0), <<21>>)
    @@ <<103, 34>> :> Line(Group(47, 0), <<32, 98, 10>>)
    @@ <<104, 10>> :> Line(Group(42, 0), <<2, 1, 0>>)
    @@ <<105>> :> Line(Group(57, 0), <<0>>)

Numbers ==
    {Group(37, 0), Group(38, WordSize - 1), Group(39, 20), Group(39, 21), Group(57, WordSize - 1),
     Group(60, 2), Group(1, 0), Group(1, 5), Group(33, 7), [Group(33, 7) EXCEPT !.b1 = 3],
     Group(74, 0), Group(99, 1),
     [Group(99, 1) EXCEPT !.b1 = 3], [Group(1, 0) EXCEPT !.b1 = 3],
     Func(2, 0, 1, 4), Func(2, 1, 1, 4)}
Texted == {Group(op, k) : op \in {40}, k \in 0..7}
Named == {Group(46, k) : k \in 0..2} \cup {Group(op, k) : op \in {47, 51}, k \in 0..5}

Codes ==
    {<<>>} \cup {<<g>> : g \in Numbers \cup Texted \cup Named}
    \cup {<<g, h>> : g \in Numbers, h \in Texted \cup Named}
    \cup {<<g, h, i>> : g \in Texted, h \in Texted, i \in Texted}
    \cup {<<g, h, i>> : g \in Named, h \in Named, i \in {Group(40, 0), Group(46, 1)}}

Uneven ==
    LET f == File(<<Group(40, 0)>>, <<A, B>>, <<>>, <<>>)
    IN {f, [f EXCEPT !.version = "JSX"], [f EXCEPT !.version = "other"],
        [f EXCEPT !.text.entries = 1], [f EXCEPT !.text.entries = 0],
        [f EXCEPT !.text.chars = <<>>], [f EXCEPT !.text.chars = Front(@)],
        [f EXCEPT !.prop.entries = 1]}

MCFiles == {File(c, Texts, Props, Names) : c \in Codes} \cup Uneven
=============================================================================
