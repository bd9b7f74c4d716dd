----------------------------- MODULE MCSheduler -----------------------------
(* Sheduler with days of two hours of three minutes of two ticks.          *)
EXTENDS Sheduler

All         == [kind |-> "all"]
Every(n)    == [kind |-> "every", n |-> n]
One(a)      == [kind |-> "one", a |-> a]
From(a, b)  == [kind |-> "range", a |-> a, b |-> b, n |-> 1]

MCLists == {<<>>, <<All>>, <<Every(2)>>, <<One(1)>>, <<One(2)>>,
            <<From(1, 2)>>, <<One(0), From(2, 3)>>, <<One(0), All>>}

=============================================================================
