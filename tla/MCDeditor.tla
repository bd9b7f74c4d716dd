----------------------------- MODULE MCDeditor ------------------------------
(* Model checking of Deditor: the schemas and the documents of its run.     *)
(* Before a session an element is looked at by itself (MCXmlSchema).        *)
EXTENDS Deditor, MCXmlSchema

CONSTANTS f1, f2, i1, i2, i3

El(name, id, nodes) == [name |-> name, id |-> id, att |-> 0, kids |-> nodes]

LeafType == [ratio |-> "sequence", desc |-> <<>>]

MCFile == {f1, f2}
MCId == {i1, i2, i3}

MCSymmetry == Permutations(MCFile)

-----------------------------------------------------------------------------
(* <doc> ::= sequence of g?, p*;  <g> ::= choice of x{1,2} | y{2,*}.        *)
GroupType == [ratio |-> "choice",
              desc  |-> <<D("x", 1, 2, "choice", 1), D("y", 2, 0, "choice", 1)>>]

SeqTypes ==
  [doc |-> [ratio |-> "sequence",
            desc  |-> <<D("g", 0, 1, "sequence", 1), D("p", 0, 0, "sequence", 2)>>],
   g |-> GroupType, p |-> LeafType, x |-> LeafType, y |-> LeafType]

SeqDocs == {El("doc", NoId, <<El("g", i1, <<El("x", i2, <<>>)>>),
                              El("p", i3, <<>>)>>)}

(* <doc> ::= choice of g* | y{2,*};  <g> ::= all of x, y?.                  *)
ChoiceTypes ==
  [doc |-> [ratio |-> "choice",
            desc  |-> <<D("g", 0, 0, "choice", 1), D("y", 2, 0, "choice", 1)>>],
   g |-> [ratio |-> "all",
          desc  |-> <<D("x", 1, 1, "all", 1), D("y", 0, 1, "all", 1)>>],
   x |-> LeafType, y |-> LeafType]

ChoiceDocs == {El("doc", NoId, <<El("g", i1, <<El("x", NoId, <<>>),
                                               El("y", i2, <<>>)>>),
                                 El("g", i3, <<El("x", NoId, <<>>)>>)>>),
               El("doc", i3, <<El("y", i1, <<>>), El("y", i2, <<>>)>>)}

(* <doc> ::= sequence of p+, x?: a default document is not valid yet.       *)
PlainTypes ==
  [doc |-> [ratio |-> "sequence",
            desc  |-> <<D("p", 1, 0, "sequence", 1), D("x", 0, 1, "sequence", 2)>>],
   p |-> LeafType, x |-> LeafType]

PlainDocs == {El("doc", NoId, <<El("p", i1, <<>>)>>)}

(* <doc> ::= sequence of p{0,2}, x?, y*.                                    *)
BusyTypes ==
  [doc |-> [ratio |-> "sequence",
            desc  |-> <<D("p", 0, 2, "sequence", 1), D("x", 0, 1, "sequence", 2),
                        D("y", 0, 0, "sequence", 3)>>],
   p |-> LeafType, x |-> LeafType, y |-> LeafType]

BusyDocs == {El("doc", NoId, <<El("p", i1, <<>>), El("x", i2, <<>>)>>)}

(* Sessions on these schemas. *)
Ses(types, docs, att, max, modal, files) ==
  [types |-> types, docs |-> docs, att |-> att, max |-> max, modal |-> modal,
   files |-> files, root |-> "doc"]

MCSessions == {Ses(SeqTypes, SeqDocs, {}, 3, TRUE, FALSE),
               Ses(ChoiceTypes, ChoiceDocs, {}, 3, TRUE, FALSE),
               Ses(BusyTypes, BusyDocs, {}, 4, FALSE, FALSE),
               Ses(PlainTypes, PlainDocs, {"doc"}, 2, TRUE, TRUE)}

(* They are what the theorems about sessions assume. *)
ASSUME SessionsOfTheorems == FlatSessions /\ PlainSessions /\ EvenSessions

-----------------------------------------------------------------------------
(* The element is looked at before one of the sessions only.                *)
MCInit == EditInit /\ AnElement /\ (elType # NoType => ses.files)

BeginSession ==
  /\ elType # NoType
  /\ elType' = NoType /\ content' = <<>>
  /\ UNCHANGED editVars

InSession == elType = NoType /\ EditNext /\ UNCHANGED <<elType, content>>

MCNext == BeginSession \/ InSession

MCSpec == MCInit /\ [][MCNext]_<<editVars, elType, content>>

=============================================================================
