----------------------------- MODULE MCXmlSchema ----------------------------
(* Model checking of SchemaElement: the types of its elements, with any     *)
(* content of at most MaxLen children.                                      *)
EXTENDS SchemaElement

CONSTANTS MaxLen, a, b, c, NoType

D(name, min, max, ratio, pos) ==
  [name |-> name, min |-> min, max |-> max, ratio |-> ratio, pos |-> pos]

(* <sequence> a?, b{1,2}, c* </sequence> *)
SeqType == [ratio |-> "sequence",
            desc  |-> <<D(a, 0, 1, "sequence", 1), D(b, 1, 2, "sequence", 2),
                        D(c, 0, 0, "sequence", 3)>>]

(* <choice> a{2,3} | b | c* </choice>, and one where nothing may be absent *)
ChoiceType == [ratio |-> "choice",
               desc  |-> <<D(a, 2, 3, "choice", 1), D(b, 1, 1, "choice", 1),
                           D(c, 0, 0, "choice", 1)>>]

FullChoiceType == [ratio |-> "choice",
                   desc  |-> <<D(a, 1, 2, "choice", 1),
                               D(b, 2, 0, "choice", 1)>>]

(* <all> a?, b, c? </all> *)
AllType == [ratio |-> "all",
            desc  |-> <<D(a, 0, 1, "all", 1), D(b, 1, 1, "all", 1),
                        D(c, 0, 1, "all", 1)>>]

FlatTypes == {SeqType, ChoiceType, FullChoiceType, AllType}

(* They are what the theorems about elements assume. *)
ASSUME PlainFlatTypes == PlainElements

Contents(T) == BoundedSeq(Names(T) \cup {Comment}, MaxLen)

AnElement ==
  \/ elType \in FlatTypes /\ content \in Contents(elType)
  \/ elType = NoType /\ content = <<>>

=============================================================================
