--------------------------- MODULE SchemaElement ---------------------------
(* An element by itself, of any of the types below and with any content,   *)
(* valid or not: what the lists of XmlSchema offer for it is compared with *)
(* the content model.                                                      *)
EXTENDS XmlSchema

CONSTANT ElementTypes

VARIABLES elType, content

(* The content of an element is of names its type has, and comments.       *)
IsContent == elType \in ElementTypes => content \in Seq(Names(elType) \cup {Comment})

PlainElements == \A T \in ElementTypes : SchemaType(Names(T), T) /\ Plain(T)

OneMore(n) ==
  \E i \in 1 .. Len(content) + 1 : Conforms(elType, InsertAt(content, i, n))

(* A name the menu offers, put once where addNode, insertNodeBefore or      *)
(* insertNodeAfter puts it, leaves nothing in the element that the content  *)
(* model forbids (xmlschema.cpp:446).                                       *)
OffersAreSound ==
  elType \in ElementTypes /\ Conforms(elType, content) =>
    /\ \A n \in NamesAt(elType, GetAddChild(elType, content)) :
         Conforms(elType, InsertAt(content, AddRow(elType, content, n) + 1, n))
    /\ \A i \in DOMAIN content : content[i] # Comment =>
         /\ \A n \in NamesAt(elType, InsBefore(elType, content, i)) :
              Conforms(elType, InsertAt(content, i, n))
         /\ \A n \in NamesAt(elType, InsAfter(elType, content, i)) :
              Conforms(elType, InsertAt(content, i + 1, n))

(* Every child that may still be added somewhere is offered ("the          *)
(* descriptions of the children, by the schema, that can still be added",  *)
(* xmlschema.cpp:444), in an element that has no comments.                 *)
AddIsComplete ==
  elType \in ElementTypes /\ Conforms(elType, content) /\ Count(content, Comment) = 0 =>
    \A n \in Names(elType) : OneMore(n) => n \in NamesAt(elType, GetAddChild(elType, content))

(* What isDeleted and the list of replacements allow leaves valid content   *)
(* valid: a child that may be deleted alone can go, a group as a whole, and *)
(* a replacement comes in as many copies as minOccurs asks for, in a choice *)
(* for all the children of the old name, elsewhere for the one child.       *)
RemovalsStayValid ==
  elType \in ElementTypes /\ Valid(elType, content) =>
    \A i \in DOMAIN content :
      LET rez  == IsDeleted(elType, content, content[i])
          New(n) == Repeat(n, Copies(elType.desc[DescOf(elType, n)]))
      IN  /\ rez = 1 => Valid(elType, RemoveAt(content, i))
          /\ rez > 1 => Valid(elType, Others(content, content[i]))
          /\ content[i] # Comment => \A n \in Replace(elType, content, content[i]) :
               Valid(elType, IF elType.ratio = "choice"
                             THEN New(n) \o Others(content, content[i])
                             ELSE SubSeq(content, 1, i - 1) \o New(n)
                                  \o SubSeq(content, i + 1, Len(content)))

=============================================================================
