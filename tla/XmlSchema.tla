----------------------------- MODULE XmlSchema -----------------------------
(***************************************************************************)
(* The questions the editor asks of the schema before it changes a         *)
(* document: which children may still be added to an element, what a child *)
(* may be replaced with, what may be inserted beside it, whether it may be *)
(* deleted, where a new child goes and what a new element starts with.     *)
(*                                                                         *)
(* A complex type is a record                                              *)
(*   ratio : the relation its content starts with (getXLSTypeRatioCild)    *)
(*   desc  : the element descriptions found in it, nested relations and    *)
(*           groups flattened, in schema order (getElementXLS)             *)
(* and a description is a record                                           *)
(*   name, min, max : name or ref, minOccurs, maxOccurs (0 = unbounded)    *)
(*   ratio : the relation the description itself is in (getXLSTypeRatio)   *)
(*   pos   : the place of that relation in the content, which only the     *)
(*           reference definitions below look at.                          *)
(* The children of an element are the sequence of their node names;        *)
(* comments and other nodes no description names are Comment.              *)
(***************************************************************************)
EXTENDS Integers, Sequences, FiniteSets, SequencesExt, FiniteSetsExt

CONSTANT Comment   (* the node name of a child that is no element *)

-----------------------------------------------------------------------------
(* SearchChild(el, name).count() and deditor::countChildElement. *)
Count(kids, name) == Cardinality({i \in DOMAIN kids : kids[i] = name})

Names(T) == {T.desc[i].name : i \in DOMAIN T.desc}

(* The description getNode finds for a child: the first of that name. *)
DescOf(T, name) == Min({i \in DOMAIN T.desc : T.desc[i].name = name})

(* maxOccurs still leaves room for one more. *)
Room(kids, d) == d.max = 0 \/ Count(kids, d.name) < d.max

(* Mutant: maxOccurs="unbounded", kept as 0, taken for a limit. *)
GetAddChildZeroIsLimit(T, kids) ==
  {i \in DOMAIN T.desc : Count(kids, T.desc[i].name) < T.desc[i].max}

(* xmlschema::getAddChild: the descriptions that may still be added. *)
GetAddChild(T, kids) ==
  {i \in DOMAIN T.desc :
     LET d == T.desc[i]
     IN  IF d.ratio = "choice"
         THEN Len(kids) = 0 \/ (Count(kids, d.name) > 0 /\ Room(kids, d))
         ELSE Room(kids, d)}

NamesAt(T, I) == {T.desc[i].name : i \in I}

(* Some alternative of the content may be absent altogether. *)
MayBeEmpty(T) == \E i \in DOMAIN T.desc : T.desc[i].min = 0

(* Mutant: the minimum itself may be deleted. *)
IsDeletedAtMin(T, kids, name) ==
  LET d == T.desc[DescOf(T, name)]
  IN  IF Count(kids, name) >= d.min THEN 1 ELSE 0

(* deditor::isDeleted(el): 0 no, 1 yes, N > 1 all N together, negative     *)
(* only by a replacement.                                                  *)
IsDeleted(T, kids, name) ==
  IF name = Comment THEN 0
  ELSE LET d   == T.desc[DescOf(T, name)]
           cou == Count(kids, name)
       IN  IF cou > d.min THEN 1
           ELSE IF d.ratio # "choice" THEN 0
           ELSE IF MayBeEmpty(T) THEN cou ELSE -cou

(* xmlschema::getReplaice: what the child "name" may be replaced with. *)
Replace(T, kids, name) ==
  LET d    == T.desc[DescOf(T, name)]
      nmin == IF d.ratio = "choice" THEN 0 ELSE d.min
  IN  IF d.ratio = "sequence" \/ Count(kids, name) <= nmin THEN {}
      ELSE {T.desc[i].name :
              i \in {j \in DOMAIN T.desc :
                       /\ T.desc[j].name # name
                       /\ d.ratio = "choice" \/ Room(kids, T.desc[j])}}

(* The nearest sibling elements of the child at position i. *)
Before(kids, i) == {j \in 1 .. i - 1 : kids[j] # Comment}
After(kids, i)  == {j \in i + 1 .. Len(kids) : kids[j] # Comment}

(* Mutant: the search does not stop at the predecessor's description. *)
InsBeforePastSibling(T, kids, i) ==
  LET me == DescOf(T, kids[i]) IN {m \in GetAddChild(T, kids) : m <= me}

(* xmlschema::getInsBeforeElements for the child at position i: upwards    *)
(* from its own description to that of the previous sibling, and further   *)
(* as long as no description of a sequence is met.                         *)
InsBefore(T, kids, i) ==
  LET me   == DescOf(T, kids[i])
      pre  == IF Before(kids, i) = {} THEN 1
              ELSE LET S == {j \in 1 .. me :
                               T.desc[j].name = kids[Max(Before(kids, i))]}
                   IN  IF S = {} THEN 0 ELSE Max(S)
  IN  {m \in GetAddChild(T, kids) :
         /\ m <= me
         /\ \A q \in m .. pre - 1 : T.desc[q].ratio # "sequence"}

(* xmlschema::getInsAfterElements, downwards likewise. *)
InsAfter(T, kids, i) ==
  LET me  == DescOf(T, kids[i])
      pos == IF After(kids, i) = {} THEN Len(T.desc)
             ELSE LET S == {j \in me .. Len(T.desc) :
                              T.desc[j].name = kids[Min(After(kids, i))]}
                  IN  IF S = {} THEN Len(T.desc) + 1 ELSE Min(S)
  IN  {m \in GetAddChild(T, kids) :
         /\ m >= me
         /\ \A q \in pos + 1 .. m : T.desc[q].ratio # "sequence"}

(* deditor::addNode: the row a new child goes to.  In a sequence it is     *)
(* after the last child of the nearest description, from its own upwards,  *)
(* that has one.                                                           *)
AddRow(T, kids, name) ==
  LET present == {i \in 1 .. DescOf(T, name) : Count(kids, T.desc[i].name) > 0}
  IN  CASE T.ratio = "all"      -> Len(kids)
        [] T.ratio = "choice"   -> 0
        [] T.ratio = "sequence" ->
             IF present = {} THEN 0
             ELSE Max({r \in DOMAIN kids : kids[r] = T.desc[Max(present)].name})

(* How many copies addNode and replaceNode insert at once. *)
Copies(d) == IF d.min = 0 THEN 1 ELSE d.min

Repeat(x, n) == [i \in 1 .. n |-> x]

(* deditor::addNodeModel: the children it appends to those an element has  *)
(* (none, or those of the copy it was cloned from).  minOccurs of each are *)
(* added unless maxOccurs is reached, however many there are; in a choice, *)
(* of the first alternative that is not full.                              *)
Mandatory(T, kids) ==
  LET open  == {i \in DOMAIN T.desc : T.desc[i].min > 0 /\ Room(kids, T.desc[i])}
      of(i) == Repeat(T.desc[i].name, T.desc[i].min)
  IN  IF T.ratio # "choice"
      THEN FlattenSeq([i \in DOMAIN T.desc |-> IF i \in open THEN of(i) ELSE <<>>])
      ELSE IF MayBeEmpty(T) \/ open = {} THEN <<>> ELSE of(Min(open))

(* deditor::clearNodeList: the names clearNode may find something to       *)
(* delete of.                                                              *)
ClearList(T, kids) ==
  {T.desc[i].name : i \in {j \in DOMAIN T.desc :
     \/ Count(kids, T.desc[j].name) > T.desc[j].min
     \/ T.ratio = "choice" /\ MayBeEmpty(T)}}

-----------------------------------------------------------------------------
(* Reference definitions: the content model XML Schema gives the type.     *)

(* The children that are left when those called n go.                      *)
Others(kids, n) ==
  LET f[i \in 0 .. Len(kids)] ==
        IF i = 0 THEN <<>>
        ELSE IF kids[i] = n THEN f[i - 1] ELSE Append(f[i - 1], kids[i])
  IN  f[Len(kids)]

(* Nothing is there that must not be: every child is declared, none occurs *)
(* more than maxOccurs times, a sequence keeps its order and at most one   *)
(* alternative of a choice is taken.                                       *)
Conforms(T, kids) ==
  LET E == {x \in DOMAIN kids : kids[x] # Comment}
      D(x) == T.desc[DescOf(T, kids[x])]
  IN  /\ \A x \in E : kids[x] \in Names(T)
      /\ \A i \in DOMAIN T.desc :
           T.desc[i].max > 0 => Count(kids, T.desc[i].name) <= T.desc[i].max
      /\ \A x, y \in E :
           /\ T.ratio = "sequence" /\ x < y => D(x).pos <= D(y).pos
           /\ /\ D(x).ratio = "choice" /\ D(y).ratio = "choice"
              /\ D(x).pos = D(y).pos
              => kids[x] = kids[y]

(* Nothing is missing: every minOccurs is met; of a choice, that of the    *)
(* alternative that was taken, or none is taken and one asks for nothing.  *)
Complete(T, kids) ==
  \A i \in DOMAIN T.desc :
    LET d     == T.desc[i]
        group == {T.desc[j] : j \in {k \in DOMAIN T.desc :
                    T.desc[k].ratio = "choice" /\ T.desc[k].pos = d.pos}}
    IN  \/ Count(kids, d.name) >= d.min
        \/ /\ d.ratio = "choice"
           /\ Count(kids, d.name) = 0
           /\ \E e \in group : Count(kids, e.name) > 0 \/ e.min = 0

Valid(T, kids) == Conforms(T, kids) /\ Complete(T, kids)

-----------------------------------------------------------------------------
(* A type, over the element names that there are.                          *)
SchemaType(names, T) ==
  /\ T.ratio \in {"sequence", "choice", "all"}
  /\ T.desc \in Seq([name : names, min : Nat, max : Nat, pos : Nat,
                     ratio : {"sequence", "choice", "all"}])

(* A type without a relation inside another: every child is described once *)
(* and by the type's own relation, each is a place of its own in a         *)
(* sequence, all are one place in a choice, and in <all> none is asked for *)
(* twice.                                                                  *)
Plain(T) ==
  \A i \in DOMAIN T.desc :
    /\ T.desc[i].ratio = T.ratio /\ T.desc[i].name # Comment
    /\ T.desc[i].max = 0 \/ T.desc[i].min <= T.desc[i].max
    /\ T.ratio = "all" => T.desc[i].min <= 1
    /\ \A j \in DOMAIN T.desc :
         /\ T.desc[i].name = T.desc[j].name => i = j
         /\ T.ratio = "sequence" /\ i < j => T.desc[i].pos < T.desc[j].pos
         /\ T.ratio = "choice" => T.desc[i].pos = T.desc[j].pos


=============================================================================
