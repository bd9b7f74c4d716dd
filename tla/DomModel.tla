------------------------------ MODULE DomModel ------------------------------
(***************************************************************************)
(* The tree model of the editor, seen from one parent element: the DOM     *)
(* children of the element, the DomItem objects its DomItem caches by row  *)
(* (DomItem::childItems), and the indexes that the view keeps and Qt moves *)
(* when rows come and go.                                                  *)
(*                                                                         *)
(* A QModelIndex carries a row and a pointer to the DomItem cached at that *)
(* row.  The pointer dangles once the model has deleted that DomItem, even *)
(* when a new one is cached at the same row.                               *)
(*                                                                         *)
(* Everything runs on the GUI thread, so one handler is one step; only     *)
(* deditor::clearNode, which alternates index() and removeRows() over the  *)
(* rows, is split into its iterations.                                     *)
(***************************************************************************)
EXTENDS Integers, Sequences, FiniteSets, SequencesExt

CONSTANTS
  Node,          (* DOM nodes that can be children of the parent             *)
  Holder,        (* persistent indexes kept by the view (selection, current) *)
  MaxRows,       (* bound on the number of children                          *)
  ClearUnmapped, (* may clearNode run on a node the view never laid out?     *)
  NoIndex        (* the invalid QModelIndex                                  *)

ASSUME DomModelAssumption ==
  /\ MaxRows \in Nat
  /\ ClearUnmapped \in BOOLEAN
  /\ NoIndex \notin [row : Nat, live : BOOLEAN, node : Node]

VARIABLES
  dom,    \* the element's DOM children, in document order
  cache,  \* childItems of its DomItem: row -> the node that item was built on
  mapped, \* the sort/filter proxy holds a mapping of this parent
  held,   \* the view's persistent indexes
  newIn,  \* DomModel::newIn, what getNewIn() returns
  clr     \* the row clearNode's loop is about to visit, -1 outside the loop

vars == <<dom, cache, mapped, held, newIn, clr>>

-----------------------------------------------------------------------------
(* Rows are numbered from 0. *)
Rows(d) == 0 .. Len(d) - 1

NodeAt(d, r) == d[r + 1]

NodesOf(d) == {d[i] : i \in 1 .. Len(d)}

(* An index as the view holds it; node is the DOM node it was taken for.   *)
Index == [row : Nat, live : BOOLEAN, node : Node]

(* DomItem::child for every row of R: what is cached is returned as it is, *)
(* anything else that exists in the DOM is built and cached.               *)
Fetch(c, d, R) ==
  [r \in DOMAIN c \cup (R \cap Rows(d)) |->
      IF r \in DOMAIN c THEN c[r] ELSE NodeAt(d, r)]

Forget(c, R) == [r \in DOMAIN c \ R |-> c[r]]

(* DomItem::addChild.  The bound of the loop is the NUMBER of cached       *)
(* items, not the largest cached row.                                      *)
AddChild(c, row) ==
  LET cou == Cardinality(DOMAIN c)
      n   == IF row > cou THEN cou ELSE row
  IN  IF n \in DOMAIN c THEN Forget(c, n .. cou - 1) ELSE c

(* Mutants: deleteChild that deletes the one item only, or one item more.  *)
DeleteChildOnlyRow(c, row) == Forget(c, {row})

DeleteChildOneMore(c, row) == Forget(c, row - 1 .. Cardinality(DOMAIN c) - 1)

(* DomItem::deleteChild. *)
DeleteChild(c, row) ==
  LET cou == Cardinality(DOMAIN c)
      n   == IF row >= cou THEN cou - 1 ELSE row
  IN  Forget(c, n .. cou - 1)

(* QDomElement::insertAfter and insertBefore: nothing is inserted when the *)
(* reference node is no child of the element.                              *)
InsertBeside(d, new, ref, shift) ==
  IF ref \in NodesOf(d)
  THEN InsertAt(d, (CHOOSE i \in 1 .. Len(d) : d[i] = ref) + shift, new)
  ELSE d

(* QDomNode::removeChild. *)
RemoveNode(d, ref) ==
  IF ref \in NodesOf(d)
  THEN RemoveAt(d, CHOOSE i \in 1 .. Len(d) : d[i] = ref)
  ELSE d

(* A row's index, taken by the view. *)
IndexOf(c, r) == [row |-> r, live |-> TRUE, node |-> c[r]]

(* Mutant: the row after the affected one is announced.                    *)
AnnouncedNext(row) == row + 1

(* The first row beginInsertRows and beginRemoveRows tell Qt about.        *)
Announced(row) == row

(* What Qt does with a persistent index x after the rows from "first" on   *)
(* moved by "by" (endInsertRows, endRemoveRows): it asks the model for the *)
(* index of the new row; an index before "first" keeps its pointer, which  *)
(* is good as long as the model kept the DomItem (row not in "freed").     *)
Moved(x, first, by, c, freed) ==
  IF x = NoIndex THEN NoIndex
  ELSE IF x.row < first
  THEN [x EXCEPT !.live = x.live /\ x.row \notin freed]
  ELSE IF by < 0 /\ x.row = first THEN NoIndex
  ELSE IF x.row + by \in DOMAIN c
  THEN [x EXCEPT !.row = x.row + by, !.live = TRUE]
  ELSE NoIndex

-----------------------------------------------------------------------------
Init ==
  /\ dom \in UNION {{d \in [1 .. n -> Node] : IsInjective(d)} : n \in 0 .. MaxRows}
  /\ cache = [r \in {} |-> NoIndex]
  /\ mapped = FALSE
  /\ held = [h \in Holder |-> NoIndex]
  /\ newIn = NoIndex
  /\ clr = -1

(* The tree view lays the parent out: the proxy runs its filter over every *)
(* row, hence DomModel::index on every row.                                *)
Layout ==
  /\ clr = -1
  /\ cache' = Fetch(cache, dom, Rows(dom))
  /\ mapped' = TRUE
  /\ UNCHANGED <<dom, held, newIn, clr>>

(* An index is taken and kept: by the view on a row it shows, or after the *)
(* scan of indexFromNode, which walks the rows up to the one it wants.     *)
Hold(h, r) ==
  /\ clr = -1
  /\ r \in Rows(dom)
  /\ LET c == Fetch(cache, dom, 0 .. r)
     IN  /\ cache' = c
         /\ held' = [held EXCEPT ![h] = IndexOf(c, r)]
  /\ UNCHANGED <<dom, mapped, newIn, clr>>

(* DomModel::insertRows with a count of 1, the only count in use: "new" is *)
(* the element given to setNewEl.  The rows are indexed again from the new *)
(* one on.  A proxy that does not know the parent maps it on rowsInserted. *)
InsertRows(ask, new) ==
  /\ clr = -1
  /\ Len(dom) < MaxRows
  /\ new \notin NodesOf(dom) \cup {cache[r] : r \in DOMAIN cache}
  /\ LET n   == Len(dom)
         row == IF ask > n THEN n ELSE ask
         c1  == IF n = 0 THEN cache
                ELSE Fetch(cache, dom, {IF row > 0 THEN row - 1 ELSE 0})
         d   == IF n = 0 THEN <<new>>
                ELSE IF row > 0 THEN InsertBeside(dom, new, c1[row - 1], 1)
                ELSE InsertBeside(dom, new, c1[0], 0)
         c2  == AddChild(c1, row)
         c3  == Fetch(c2, d, row .. Len(d) - 1)
     IN  /\ dom' = d
         /\ cache' = Fetch(c3, d, Rows(d))
         /\ mapped' = TRUE
         /\ newIn' = IF row \in Rows(d) THEN IndexOf(c3, row) ELSE NoIndex
         /\ held' = [h \in Holder |->
                       Moved(held[h], Announced(row), 1, c3, DOMAIN c1 \ DOMAIN c2)]
  /\ UNCHANGED clr

(* Mutant: the rows after the removed one are not indexed again.           *)
RemoveRowNoReindex(row) ==
  LET c1 == Fetch(cache, dom, {row})
      d  == RemoveNode(dom, c1[row])
      c2 == DeleteChild(c1, row)
  IN  /\ dom' = d
      /\ cache' = c2
      /\ held' = [h \in Holder |->
                    Moved(held[h], Announced(row), -1, c2, DOMAIN c1 \ DOMAIN c2)]
      /\ UNCHANGED <<mapped, newIn>>

(* DomModel::removeRows with a count of 1, on an existing row. *)
RemoveRow(row) ==
  LET c1 == Fetch(cache, dom, {row})
      d  == RemoveNode(dom, c1[row])
      c2 == DeleteChild(c1, row)
      c3 == Fetch(c2, d, row .. Len(d) - 1)
  IN  /\ dom' = d
      /\ cache' = c3
      /\ held' = [h \in Holder |->
                    Moved(held[h], Announced(row), -1, c3, DOMAIN c1 \ DOMAIN c2)]
      /\ UNCHANGED <<mapped, newIn>>

(* deleteNode and replaceNode: the index they get has gone through the     *)
(* proxy, so the parent is mapped.                                         *)
RemoveRows(row) ==
  /\ clr = -1
  /\ mapped
  /\ row \in Rows(dom)
  /\ RemoveRow(row)
  /\ UNCHANGED clr

(* clearNode: from the last row to the first, take the row's index and     *)
(* remove the row when the schema lets its node go.                        *)
ClearStart ==
  /\ clr = -1
  /\ mapped \/ ClearUnmapped
  /\ clr' = Len(dom) - 1
  /\ UNCHANGED <<dom, cache, mapped, held, newIn>>

ClearStep(deletable) ==
  /\ clr >= 0
  /\ IF deletable
     THEN RemoveRow(clr)
     ELSE /\ cache' = Fetch(cache, dom, {clr})
          /\ UNCHANGED <<dom, mapped, held, newIn>>
  /\ clr' = clr - 1

Next ==
  \/ Layout
  \/ \E h \in Holder, r \in 0 .. MaxRows : Hold(h, r)
  \/ \E ask \in 0 .. MaxRows + 1, new \in Node : InsertRows(ask, new)
  \/ \E row \in 0 .. MaxRows : RemoveRows(row)
  \/ ClearStart
  \/ \E deletable \in BOOLEAN : ClearStep(deletable)

Spec == Init /\ [][Next]_vars

-----------------------------------------------------------------------------
(* The values the variables take. *)
TypeOK ==
  /\ dom \in Seq(Node) /\ Len(dom) <= MaxRows
  /\ DOMAIN cache \subseteq Nat /\ \A r \in DOMAIN cache : cache[r] \in Node
  /\ mapped \in BOOLEAN
  /\ held \in [Holder -> Index \cup {NoIndex}]
  /\ newIn \in Index \cup {NoIndex}
  /\ clr \in -1 .. MaxRows - 1

(* The DomItem cached at a row stands for the DOM child that is at that    *)
(* row now (nodeFromIndex(index)->node() is the node the row shows), for   *)
(* every row, and none is left for a row that is gone.                     *)
RowsAgree ==
  \A r \in DOMAIN cache : r \in Rows(dom) /\ cache[r] = NodeAt(dom, r)

(* No index the view keeps points to a DomItem the model has deleted:      *)
(* addChild and deleteChild only delete items Qt asks for again.           *)
NoDanglingIndex ==
  \A h \in Holder : held[h] # NoIndex => held[h].live

(* A kept index follows its node: the row it names is, after any number of *)
(* insertions and removals before it, still the row of the node it was     *)
(* taken for.                                                              *)
IndexFollowsNode ==
  \A h \in Holder :
    held[h] # NoIndex =>
      held[h].row \in Rows(dom) /\ NodeAt(dom, held[h].row) = held[h].node

(* A kept index is only lost together with its node: no insertion and no   *)
(* removal of a sibling invalidates it.                                    *)
IndexDiesWithNode ==
  [][\A h \in Holder :
       held[h] # NoIndex /\ held'[h] = NoIndex => held[h].node \notin NodesOf(dom')]_vars

(* After insertRows, getNewIn() is the index of the element that was       *)
(* inserted: addNodeModel, called with it, fills the new element and no    *)
(* other.                                                                  *)
NewInIsNewNode ==
  [][\A n \in NodesOf(dom') \ NodesOf(dom) :
       newIn' # NoIndex /\ newIn'.node = n /\ NodeAt(dom', newIn'.row) = n]_vars

-----------------------------------------------------------------------------
(* The inductive invariant of the proofs in EditorProofs. *)

(* No node is twice among the children. *)
DomOK == dom \in Seq(Node) /\ Len(dom) <= MaxRows /\ IsInjective(dom)

(* What the cache of the rows R has to be. *)
Agreeing(d, R) == [r \in R |-> NodeAt(d, r)]

(* The cache has no holes, so that the number of its items is the row of   *)
(* the first one missing; once the parent is mapped it is complete.        *)
CacheIsDense ==
  /\ \E k \in 0 .. Len(dom) : cache = Agreeing(dom, 0 .. k - 1)
  /\ mapped => DOMAIN cache = Rows(dom)

(* clearNode's loop runs on a mapped parent and within its rows. *)
LoopOK ==
  /\ clr \in -1 .. Len(dom) - 1
  /\ clr # -1 => mapped

(* A kept index has its row cached, and belongs to that row's node. *)
HeldOK ==
  /\ held \in [Holder -> Index \cup {NoIndex}]
  /\ \A h \in Holder : held[h] # NoIndex =>
       /\ held[h].live
       /\ held[h].row \in DOMAIN cache
       /\ NodeAt(dom, held[h].row) = held[h].node

IInv ==
  /\ DomOK
  /\ CacheIsDense
  /\ mapped \in BOOLEAN
  /\ LoopOK
  /\ HeldOK
  /\ newIn \in Index \cup {NoIndex}

=============================================================================
