---------------------------- MODULE EditorProofs ----------------------------
(***************************************************************************)
(* Proofs about the document as an item model and about the session that   *)
(* edits it: first DomModel, then Deditor.                                 *)
(*                                                                         *)
(* DomModel: for every set of nodes and of holders and every bound on the  *)
(* rows, as long as clearNode only runs on nodes the view has laid out.    *)
(* The cache then never has a hole below its last item, so that the NUMBER *)
(* of its items, which addChild and deleteChild use as a bound, is the row *)
(* after the last one, and what they delete is all that was cached from    *)
(* the affected row on.                                                    *)
(*                                                                         *)
(* Deditor: for every schema and every document of three levels.  What a   *)
(* method does to the document is a replacement of the children of one     *)
(* element; from what this does to paths, identifiers and declared names   *)
(* follow the invariant of the session, SessionInv, and that of a session  *)
(* whose host program rests while a menu is open, ModalInv.                *)
(*                                                                         *)
(* SchemaElement: for every plain type and every content.  The content     *)
(* model is put in terms of the descriptions of the children's names:      *)
(* Within, Sorted, OneName, Enough; and the rows and rests the lists       *)
(* promise in terms of what is before and behind a row: Between.           *)
(*                                                                         *)
(* Deditor again, with what was shown of single elements: what each method *)
(* makes of the names of one element's children, Keeps, and hence of the   *)
(* pairs of a name and its children's names in the whole document, Kept.   *)
(***************************************************************************)
EXTENDS DomModel, Deditor, SchemaElement, SequenceTheorems,
        FiniteSetTheorems, NaturalsInduction, TLAPS


(* The complete cache of the first k rows. *)
Dense(d, k) == Agreeing(d, 0 .. k - 1)

(* The steps of insertRows: the neighbour of the new row is looked up, the *)
(* new node is put beside it.                                              *)
Neighbour(row) == IF row > 0 THEN row - 1 ELSE 0

LookedUp(d, c, row) ==
  IF Len(d) = 0 THEN c ELSE Fetch(c, d, {Neighbour(row)})

Inserted(d, c, row, new) ==
  IF Len(d) = 0 THEN <<new>>
  ELSE IF row > 0 THEN InsertBeside(d, new, c[row - 1], 1)
  ELSE InsertBeside(d, new, c[0], 0)

-----------------------------------------------------------------------------
(* Lemmas about sequences. *)

(* What inserting one element at place i does to a sequence. *)
LEMMA InsertAtProperties ==
  ASSUME NEW S, NEW s \in Seq(S), NEW i \in 1 .. Len(s) + 1, NEW e \in S
  PROVE  /\ InsertAt(s, i, e) \in Seq(S)
         /\ Len(InsertAt(s, i, e)) = Len(s) + 1
         /\ \A j \in 1 .. Len(s) + 1 :
              InsertAt(s, i, e)[j] = IF j < i THEN s[j]
                                     ELSE IF j = i THEN e ELSE s[j - 1]
<1> DEFINE a == SubSeq(s, 1, i - 1)
           b == <<e>>
           c == SubSeq(s, i, Len(s))
<1>1. Len(s) \in Nat
  BY LenProperties
<1>2. a \in Seq(S) /\ Len(a) = i - 1 /\ \A j \in 1 .. i - 1 : a[j] = s[j]
  <2>1. \A j \in 1 .. i - 1 : s[j] \in S
    BY <1>1, ElementOfSeq
  <2> QED
    BY <1>1, <2>1, SubSeqProperties
<1>3. /\ c \in Seq(S) /\ Len(c) = Len(s) - i + 1
      /\ \A j \in 1 .. Len(s) - i + 1 : c[j] = s[i + j - 1]
  <2>1. \A j \in i .. Len(s) : s[j] \in S
    BY <1>1, ElementOfSeq
  <2> QED
    BY <1>1, <2>1, SubSeqProperties
<1>4. b \in Seq(S) /\ Len(b) = 1 /\ b[1] = e
  OBVIOUS
<1> HIDE DEF a, b, c
<1>5. /\ a \o b \in Seq(S) /\ Len(a \o b) = i
      /\ \A j \in 1 .. i : (a \o b)[j] = IF j < i THEN s[j] ELSE e
  <2>1. /\ a \o b \in Seq(S)
        /\ Len(a \o b) = Len(a) + Len(b)
        /\ \A j \in 1 .. Len(a) + Len(b) :
             (a \o b)[j] = IF j <= Len(a) THEN a[j] ELSE b[j - Len(a)]
    BY <1>2, <1>4, ConcatProperties
  <2>2. Len(a) + Len(b) = i /\ Len(a) = i - 1
    BY <1>1, <1>2, <1>4
  <2>3. ASSUME NEW j \in 1 .. i
        PROVE  (a \o b)[j] = IF j < i THEN s[j] ELSE e
    <3>1. CASE j < i
      <4>1. j <= Len(a) /\ j \in 1 .. Len(a) + Len(b) /\ j \in 1 .. i - 1
        BY <1>1, <2>2, <3>1
      <4>2. (a \o b)[j] = a[j]
        BY <2>1, <4>1
      <4>3. a[j] = s[j]
        BY <1>2, <4>1
      <4> QED
        BY <3>1, <4>2, <4>3, Zenon
    <3>2. CASE j = i
      <4>1. j - Len(a) = 1 /\ ~(j <= Len(a)) /\ j \in 1 .. Len(a) + Len(b)
        BY <1>1, <2>2, <3>2
      <4>2. (a \o b)[j] = b[j - Len(a)]
        BY <2>1, <4>1
      <4> QED
        BY <1>4, <3>2, <4>1, <4>2
    <3>3. j < i \/ j = i
      BY <1>1
    <3> QED
      BY <3>1, <3>2, <3>3
  <2> QED
    BY <2>1, <2>2, <2>3
<1> DEFINE ab == a \o b
<1>6. /\ ab \o c \in Seq(S)
      /\ Len(ab \o c) = Len(ab) + Len(c)
      /\ \A j \in 1 .. Len(ab) + Len(c) :
           (ab \o c)[j] = IF j <= Len(ab) THEN ab[j] ELSE c[j - Len(ab)]
  <2>1. ab \in Seq(S) /\ c \in Seq(S)
    BY <1>3, <1>5
  <2> HIDE DEF ab
  <2> QED
    BY <2>1, ConcatProperties
<1>7. InsertAt(s, i, e) = ab \o c
  BY DEF InsertAt, a, b, c
<1> QED
  BY <1>1, <1>3, <1>5, <1>6, <1>7

(* What removing the element at place i does to a sequence. *)
LEMMA RemoveAtProperties ==
  ASSUME NEW S, NEW s \in Seq(S), NEW i \in 1 .. Len(s)
  PROVE  /\ RemoveAt(s, i) \in Seq(S)
         /\ Len(RemoveAt(s, i)) = Len(s) - 1
         /\ \A j \in 1 .. Len(s) - 1 :
              RemoveAt(s, i)[j] = IF j < i THEN s[j] ELSE s[j + 1]
<1> DEFINE a == SubSeq(s, 1, i - 1)
           c == SubSeq(s, i + 1, Len(s))
<1>1. Len(s) \in Nat
  BY LenProperties
<1>2. a \in Seq(S) /\ Len(a) = i - 1 /\ \A j \in 1 .. i - 1 : a[j] = s[j]
  <2>1. \A j \in 1 .. i - 1 : s[j] \in S
    BY <1>1, ElementOfSeq
  <2> QED
    BY <1>1, <2>1, SubSeqProperties
<1>3. /\ c \in Seq(S) /\ Len(c) = Len(s) - i
      /\ \A j \in 1 .. Len(s) - i : c[j] = s[i + j]
  <2>1. \A j \in i + 1 .. Len(s) : s[j] \in S
    BY <1>1, ElementOfSeq
  <2> QED
    BY <1>1, <2>1, SubSeqProperties
<1> HIDE DEF a, c
<1>4. /\ a \o c \in Seq(S)
      /\ Len(a \o c) = Len(a) + Len(c)
      /\ \A j \in 1 .. Len(a) + Len(c) :
           (a \o c)[j] = IF j <= Len(a) THEN a[j] ELSE c[j - Len(a)]
  BY <1>2, <1>3, ConcatProperties
<1>5. RemoveAt(s, i) = a \o c
  BY DEF RemoveAt, a, c
<1>6. Len(a) = i - 1 /\ Len(a) + Len(c) = Len(s) - 1
  BY <1>1, <1>2, <1>3
<1>7. ASSUME NEW j \in 1 .. Len(s) - 1
      PROVE  (a \o c)[j] = IF j < i THEN s[j] ELSE s[j + 1]
  <2>1. CASE j < i
    BY <1>1, <1>2, <1>4, <1>6, <2>1
  <2>2. CASE ~(j < i)
    <3>1. /\ ~(j <= Len(a)) /\ j \in 1 .. Len(a) + Len(c)
          /\ j - Len(a) \in 1 .. Len(s) - i /\ i + (j - Len(a)) = j + 1
      BY <1>1, <1>6, <2>2
    <3>2. (a \o c)[j] = c[j - Len(a)]
      BY <1>4, <3>1
    <3> QED
      BY <1>3, <2>2, <3>1, <3>2
  <2> QED
    BY <2>1, <2>2
<1> QED
  BY <1>4, <1>5, <1>6, <1>7

(* In a sequence without repetitions the place of an element is unique. *)
LEMMA PlaceIsUnique ==
  ASSUME NEW d \in Seq(Node), IsInjective(d), NEW i \in 1 .. Len(d)
  PROVE  (CHOOSE j \in 1 .. Len(d) : d[j] = d[i]) = i
<1>1. DOMAIN d = 1 .. Len(d)
  BY LenProperties
<1> QED
  BY <1>1 DEF IsInjective

(* The number of cached items is the first row that is not cached. *)
LEMMA CardinalityOfPrefix ==
  ASSUME NEW k \in Nat
  PROVE  IsFiniteSet(0 .. k - 1) /\ Cardinality(0 .. k - 1) = k
  BY FS_Interval

-----------------------------------------------------------------------------
(* Lemmas about the operations on the cache. *)

(* insertRows puts the new node at the row it was asked for. *)
LEMMA InsertedDom ==
  ASSUME NEW d \in Seq(Node), IsInjective(d), NEW row \in 0 .. Len(d),
         NEW new \in Node \ NodesOf(d), NEW c,
         Len(d) > 0 => c[Neighbour(row)] = NodeAt(d, Neighbour(row))
  PROVE  LET e == Inserted(d, c, row, new)
         IN  /\ e \in Seq(Node) /\ Len(e) = Len(d) + 1 /\ IsInjective(e)
             /\ \A r \in 0 .. Len(d) :
                  NodeAt(e, r) = IF r < row THEN NodeAt(d, r)
                                 ELSE IF r = row THEN new ELSE NodeAt(d, r - 1)
<1> DEFINE e == Inserted(d, c, row, new)
<1> HIDE DEF e
<1>1. Len(d) \in Nat /\ DOMAIN d = 1 .. Len(d)
  BY LenProperties
<1>2. /\ e \in Seq(Node) /\ Len(e) = Len(d) + 1
      /\ \A j \in 1 .. Len(d) + 1 :
           e[j] = IF j < row + 1 THEN d[j]
                  ELSE IF j = row + 1 THEN new ELSE d[j - 1]
  <2>1. CASE Len(d) = 0
    <3>1. e = <<new>> /\ row = 0
      BY <2>1 DEF e, Inserted
    <3>2. <<new>> \in Seq(Node) /\ Len(<<new>>) = 1 /\ <<new>>[1] = new
      OBVIOUS
    <3>3. \A j \in 1 .. Len(d) + 1 : j = 1 /\ j = row + 1
      BY <2>1, <3>1
    <3> QED
      BY <2>1, <3>1, <3>2, <3>3
  <2>2. CASE Len(d) > 0 /\ row > 0
    <3>1. c[row - 1] = d[row] /\ row \in 1 .. Len(d)
      BY <2>2, <1>1 DEF NodeAt, Neighbour
    <3>2. d[row] \in NodesOf(d)
      BY <3>1 DEF NodesOf
    <3>3. e = InsertBeside(d, new, d[row], 1)
      BY <2>2, <3>1 DEF e, Inserted
    <3>4. e = InsertAt(d, row + 1, new)
      BY <3>1, <3>2, <3>3, PlaceIsUnique DEF InsertBeside
    <3>5. PICK i \in 1 .. Len(d) + 1 : i = row + 1
      BY <1>1, <3>1
    <3> DEFINE t == InsertAt(d, row + 1, new)
    <3>6. /\ t \in Seq(Node) /\ Len(t) = Len(d) + 1
          /\ \A j \in 1 .. Len(d) + 1 :
               t[j] = IF j < row + 1 THEN d[j]
                      ELSE IF j = row + 1 THEN new ELSE d[j - 1]
      <4>1. /\ InsertAt(d, i, new) \in Seq(Node)
            /\ Len(InsertAt(d, i, new)) = Len(d) + 1
            /\ \A j \in 1 .. Len(d) + 1 :
                 InsertAt(d, i, new)[j] = IF j < i THEN d[j]
                                          ELSE IF j = i THEN new ELSE d[j - 1]
        <5>1. new \in Node /\ d \in Seq(Node)
          OBVIOUS
        <5> QED
          BY <5>1, InsertAtProperties, SMTT(30)
      <4> QED
        BY <3>5, <4>1
    <3>7. e = t
      BY <3>4
    <3> HIDE DEF t
    <3> QED
      BY <3>6, <3>7
  <2>3. CASE Len(d) > 0 /\ row = 0
    <3>1. c[0] = d[1] /\ 1 \in 1 .. Len(d)
      BY <2>3, <1>1 DEF NodeAt, Neighbour
    <3>2. d[1] \in NodesOf(d)
      BY <3>1 DEF NodesOf
    <3>3. e = InsertBeside(d, new, d[1], 0)
      BY <2>3, <3>1 DEF e, Inserted
    <3>4. e = InsertAt(d, 1 + 0, new)
      BY <3>1, <3>2, <3>3, PlaceIsUnique DEF InsertBeside
    <3>5. PICK i \in 1 .. Len(d) + 1 : i = row + 1 /\ i = 1 + 0
      BY <1>1, <2>3, <3>1
    <3>6. /\ InsertAt(d, i, new) \in Seq(Node)
          /\ Len(InsertAt(d, i, new)) = Len(d) + 1
          /\ \A j \in 1 .. Len(d) + 1 :
               InsertAt(d, i, new)[j] = IF j < i THEN d[j]
                                        ELSE IF j = i THEN new ELSE d[j - 1]
      <4>1. new \in Node /\ d \in Seq(Node)
        OBVIOUS
      <4> QED
        BY <4>1, InsertAtProperties, SMTT(30)
    <3>7. e = InsertAt(d, i, new)
      BY <3>4, <3>5
    <3> QED
      BY <3>5, <3>6, <3>7, SMTT(30)
  <2>4. Len(d) = 0 \/ (Len(d) > 0 /\ row > 0) \/ (Len(d) > 0 /\ row = 0)
    BY <1>1
  <2> QED
    BY <2>1, <2>2, <2>3, <2>4, Zenon
<1>3. \A j \in 1 .. Len(d) : d[j] # new
  BY DEF NodesOf
<1>4. IsInjective(e)
  <2>1. DOMAIN e = 1 .. Len(d) + 1
    BY <1>2, LenProperties
  <2> SUFFICES ASSUME NEW a \in 1 .. Len(d) + 1, NEW b \in 1 .. Len(d) + 1,
                      e[a] = e[b]
               PROVE  a = b
    BY <2>1 DEF IsInjective
  <2>2. \A x, y \in 1 .. Len(d) : d[x] = d[y] => x = y
    BY <1>1 DEF IsInjective
  <2> QED
    BY <1>1, <1>2, <1>3, <2>2
<1> QED
  BY <1>1, <1>2, <1>4 DEF NodeAt, e

(* removeRows takes the row's node out and leaves the others in order. *)
LEMMA RemovedDom ==
  ASSUME NEW d \in Seq(Node), IsInjective(d), NEW row \in 0 .. Len(d) - 1,
         NEW e, e = RemoveNode(d, NodeAt(d, row))
  PROVE  /\ e \in Seq(Node) /\ Len(e) = Len(d) - 1 /\ IsInjective(e)
         /\ \A r \in 0 .. Len(d) - 2 :
              NodeAt(e, r) = IF r < row THEN NodeAt(d, r) ELSE NodeAt(d, r + 1)
         /\ NodeAt(d, row) \notin NodesOf(e)
<1>1. Len(d) \in Nat /\ DOMAIN d = 1 .. Len(d)
  BY LenProperties
<1>2. row + 1 \in 1 .. Len(d) /\ d[row + 1] \in NodesOf(d)
  BY <1>1 DEF NodesOf
<1>3. e = RemoveAt(d, row + 1)
  BY <1>2, PlaceIsUnique DEF RemoveNode, NodeAt
<1>4. /\ e \in Seq(Node) /\ Len(e) = Len(d) - 1
      /\ \A j \in 1 .. Len(d) - 1 : e[j] = IF j < row + 1 THEN d[j] ELSE d[j + 1]
  BY <1>2, <1>3, RemoveAtProperties
<1>5. \A x, y \in 1 .. Len(d) : d[x] = d[y] => x = y
  BY <1>1 DEF IsInjective
<1>6. IsInjective(e)
  <2>1. DOMAIN e = 1 .. Len(d) - 1
    BY <1>4, LenProperties
  <2> SUFFICES ASSUME NEW a \in 1 .. Len(d) - 1, NEW b \in 1 .. Len(d) - 1,
                      e[a] = e[b]
               PROVE  a = b
    BY <2>1 DEF IsInjective
  <2> QED
    BY <1>1, <1>4, <1>5
<1>7. d[row + 1] \notin NodesOf(e)
  BY <1>1, <1>2, <1>4, <1>5 DEF NodesOf
<1>8. ASSUME NEW r \in 0 .. Len(d) - 2
      PROVE  NodeAt(e, r) = IF r < row THEN NodeAt(d, r) ELSE NodeAt(d, r + 1)
  <2>1. r + 1 \in 1 .. Len(d) - 1 /\ (r < row <=> r + 1 < row + 1)
    BY <1>1
  <2> QED
    BY <1>4, <2>1 DEF NodeAt
<1>9. NodeAt(d, row) \notin NodesOf(e)
  BY <1>7 DEF NodeAt
<1> QED
  BY <1>4, <1>6, <1>8, <1>9

(* A cache without holes, with the item of one more row cached, loses by   *)
(* addChild nothing before the affected row and everything from it on.     *)
LEMMA CacheAfterAdd ==
  ASSUME NEW d \in Seq(Node), NEW k \in 0 .. Len(d), NEW row \in 0 .. Len(d),
         NEW c, c = LookedUp(d, Dense(d, k), row)
  PROVE  LET c2 == AddChild(c, row)
         IN  /\ DOMAIN Dense(d, k) \subseteq DOMAIN c
             /\ \A r \in DOMAIN c2 : c2[r] = NodeAt(d, r)
             /\ DOMAIN c2 \subseteq 0 .. row - 1
             /\ DOMAIN c \cap (0 .. row - 1) \subseteq DOMAIN c2
             /\ Len(d) > 0 => c[Neighbour(row)] = NodeAt(d, Neighbour(row))
<1> DEFINE one == IF row > 0 THEN row - 1 ELSE 0
           cou == Cardinality(DOMAIN c)
<1>1. Len(d) \in Nat
  BY LenProperties
<1>0. one = Neighbour(row)
  BY DEF Neighbour
<1>2. /\ c = [r \in DOMAIN c |-> NodeAt(d, r)]
      /\ DOMAIN c = IF Len(d) = 0 THEN 0 .. k - 1 ELSE (0 .. k - 1) \cup {one}
  <2>1. CASE Len(d) = 0
    BY <1>1, <2>1 DEF Dense, LookedUp, Agreeing
  <2>2. CASE Len(d) # 0
    <3>1. {one} \cap Rows(d) = {one}
      BY <1>1, <2>2 DEF Rows
    <3>2. c = [r \in (0 .. k - 1) \cup {one} |->
                 IF r \in 0 .. k - 1 THEN Dense(d, k)[r] ELSE NodeAt(d, r)]
      BY <2>2, <3>1, <1>0 DEF Fetch, Dense, LookedUp, Agreeing
    <3>3. \A r \in 0 .. k - 1 : Dense(d, k)[r] = NodeAt(d, r)
      BY DEF Dense, Agreeing
    <3> HIDE DEF one
    <3> QED
      BY <2>2, <3>2, <3>3
  <2> QED
    BY <2>1, <2>2
<1>3. cou = IF Len(d) = 0 \/ one < k THEN k ELSE k + 1
  <2>1. IsFiniteSet(0 .. k - 1) /\ Cardinality(0 .. k - 1) = k
    BY <1>1, CardinalityOfPrefix
  <2>2. CASE Len(d) = 0
    BY <1>2, <2>1, <2>2
  <2>3. CASE Len(d) # 0
    <3>1. one \in Nat
      BY <1>1
    <3> HIDE DEF one
    <3>2. DOMAIN c = (0 .. k - 1) \cup {one}
      BY <1>2, <2>3
    <3>3. Cardinality((0 .. k - 1) \cup {one}) =
            IF one \in 0 .. k - 1 THEN k ELSE k + 1
      BY <2>1, FS_AddElement
    <3> QED
      BY <1>1, <2>3, <3>1, <3>2, <3>3
  <2> QED
    BY <2>2, <2>3
<1> DEFINE n  == IF row > cou THEN cou ELSE row
           c2 == AddChild(c, row)
<1>4. c2 = IF n \in DOMAIN c THEN Forget(c, n .. cou - 1) ELSE c
  BY DEF AddChild
<1>5. DOMAIN c2 = IF n \in DOMAIN c THEN DOMAIN c \ (n .. cou - 1) ELSE DOMAIN c
  BY <1>4 DEF Forget
<1>6. \A r \in DOMAIN c2 : c2[r] = NodeAt(d, r)
  <2> HIDE DEF n, cou
  <2> QED
    BY <1>2, <1>4 DEF Forget
<1>7. /\ DOMAIN c2 \subseteq 0 .. row - 1
      /\ DOMAIN c \cap (0 .. row - 1) \subseteq DOMAIN c2
  <2>1. row \in Nat /\ k \in Nat /\ k <= Len(d) /\ one \in Nat
        /\ one = IF row > 0 THEN row - 1 ELSE 0
    BY <1>1
  <2>2. n = IF row > cou THEN cou ELSE row
    OBVIOUS
  <2> HIDE DEF n, one, cou, c2
  <2>3. CASE Len(d) = 0
    <3>1. DOMAIN c = 0 .. k - 1 /\ cou = k /\ row = 0 /\ k = 0
      BY <1>1, <1>2, <1>3, <2>1, <2>3
    <3> QED
      BY <1>5, <3>1
  <2>4. CASE Len(d) # 0 /\ one < k
    <3>1. DOMAIN c = 0 .. k - 1 /\ cou = k
      <4>1. one \in 0 .. k - 1
        BY <2>1, <2>4
      <4> QED
        BY <1>2, <1>3, <2>4, <4>1
    <3>2. row <= k
      BY <2>1, <2>4
    <3> QED
      BY <1>5, <2>1, <2>2, <3>1, <3>2
  <2>5. CASE Len(d) # 0 /\ ~(one < k)
    <3>1. DOMAIN c = (0 .. k - 1) \cup {one} /\ cou = k + 1
      BY <1>1, <1>2, <1>3, <2>1, <2>5
    <3>2. CASE row = 0
      <4>1. one = 0 /\ k = 0 /\ n = 0
        BY <2>1, <2>2, <2>5, <3>1, <3>2
      <4> QED
        BY <1>5, <3>1, <3>2, <4>1
    <3>3. CASE row > 0
      <4>1. one = row - 1 /\ row >= k + 1 /\ n = k + 1
        BY <2>1, <2>2, <2>5, <3>1, <3>3
      <4>2. n .. cou - 1 = {}
        BY <2>1, <3>1, <4>1
      <4>3. DOMAIN c2 = DOMAIN c
        BY <1>5, <4>2
      <4>4. DOMAIN c2 \subseteq 0 .. row - 1
        BY <2>1, <3>1, <4>1, <4>3
      <4> QED
        BY <4>3, <4>4
    <3>4. row = 0 \/ row > 0
      BY <2>1
    <3> QED
      BY <3>2, <3>3, <3>4
  <2> QED
    BY <2>1, <2>3, <2>4, <2>5
<1>9. DOMAIN Dense(d, k) \subseteq DOMAIN c
  BY <1>2 DEF Dense, Agreeing
<1>10. Len(d) > 0 => c[one] = NodeAt(d, one)
  <2> HIDE DEF one
  <2>1. Len(d) > 0 => one \in DOMAIN c
    BY <1>1, <1>2
  <2>2. \A r \in DOMAIN c : c[r] = NodeAt(d, r)
    BY <1>2
  <2> QED
    BY <2>1, <2>2
<1> QED
  BY <1>0, <1>6, <1>7, <1>9, <1>10

(* Indexing rows keeps a cache that agrees with the children in agreement. *)
LEMMA FetchAgrees ==
  ASSUME NEW d \in Seq(Node), NEW c, NEW R,
         \A r \in DOMAIN c : c[r] = NodeAt(d, r)
  PROVE  Fetch(c, d, R) = Agreeing(d, DOMAIN c \cup (R \cap Rows(d)))
  BY DEF Fetch, Agreeing

(* The rows and the values of a cache that agrees with the children. *)
LEMMA AgreeingProperties ==
  ASSUME NEW d, NEW R
  PROVE  /\ DOMAIN Agreeing(d, R) = R
         /\ \A r \in R : Agreeing(d, R)[r] = NodeAt(d, r)
  BY DEF Agreeing

-----------------------------------------------------------------------------
(* The initial states. *)
LEMMA InitIInv == Init => IInv
<1> SUFFICES ASSUME Init PROVE IInv
  OBVIOUS
<1>1. dom \in Seq(Node) /\ Len(dom) <= MaxRows /\ IsInjective(dom)
  <2>1. PICK n \in 0 .. MaxRows : dom \in [1 .. n -> Node] /\ IsInjective(dom)
    BY DEF Init
  <2>2. n \in Nat /\ n <= MaxRows
    BY <2>1, DomModelAssumption DEF DomModelAssumption
  <2>3. dom \in Seq(Node) /\ Len(dom) = n
    BY <2>1, <2>2
  <2> QED
    BY <2>1, <2>2, <2>3
<1>2. Len(dom) \in Nat
  BY <1>1, LenProperties
<1>3. CacheIsDense
  <2>1. cache = [r \in {} |-> NoIndex] /\ mapped = FALSE
    BY DEF Init
  <2>2. (0 .. 0 - 1) = {}
    OBVIOUS
  <2>3. cache = Agreeing(dom, 0 .. 0 - 1)
    BY <2>1, <2>2 DEF Agreeing
  <2> QED
    BY <1>2, <2>1, <2>3 DEF CacheIsDense
<1>4. LoopOK
  BY <1>2 DEF Init, LoopOK
<1>5. HeldOK
  BY DEF Init, HeldOK
<1> QED
  BY <1>1, <1>3, <1>4, <1>5 DEF Init, IInv, DomOK

(* An index Qt moves to another row keeps its node. *)
AtRow(x, r) == [x EXCEPT !.row = r, !.live = TRUE]

(* Moving an index to a row changes its row only, and makes it live. *)
LEMMA IndexMoved ==
  ASSUME NEW x \in Index, NEW r \in Nat
  PROVE  /\ AtRow(x, r) \in Index /\ AtRow(x, r).live = TRUE
         /\ AtRow(x, r).row = r /\ AtRow(x, r).node = x.node
  BY DEF Index, AtRow

(* insertRows preserves the invariant. *)
LEMMA InsertRowsIInv ==
  ASSUME IInv, NEW ask \in 0 .. MaxRows + 1, NEW new \in Node,
         InsertRows(ask, new)
  PROVE  /\ IInv'
         /\ \A h \in Holder : held[h] # NoIndex => held'[h] # NoIndex
         /\ \A m \in NodesOf(dom') \ NodesOf(dom) :
              newIn' # NoIndex /\ newIn'.node = m /\ NodeAt(dom', newIn'.row) = m
<1> DEFINE n   == Len(dom)
           row == IF ask > n THEN n ELSE ask
           c1 == LookedUp(dom, cache, row)
           d  == Inserted(dom, c1, row, new)
           c2 == AddChild(c1, row)
           c3 == Fetch(c2, d, row .. Len(d) - 1)
           freed == DOMAIN c1 \ DOMAIN c2
<1>1. /\ dom' = d
      /\ cache' = Fetch(c3, d, Rows(d))
      /\ mapped' = TRUE
      /\ newIn' = IF row \in Rows(d) THEN IndexOf(c3, row) ELSE NoIndex
      /\ held' = [h \in Holder |-> Moved(held[h], row, 1, c3, freed)]
      /\ clr = -1 /\ clr' = -1
      /\ Len(dom) < MaxRows
      /\ new \notin NodesOf(dom)
  BY DEF InsertRows, Announced, LookedUp, Inserted, Neighbour
<1>2. MaxRows \in Nat /\ NoIndex \notin Index
  BY DomModelAssumption DEF DomModelAssumption, Index
<1>3. dom \in Seq(Node) /\ IsInjective(dom) /\ n \in Nat
  BY LenProperties DEF IInv, DomOK
<1>4. row \in 0 .. n
  BY <1>3
<1>5. PICK k \in 0 .. n : cache = Dense(dom, k)
  BY DEF IInv, CacheIsDense, Dense
<1>6. /\ DOMAIN cache \subseteq DOMAIN c1
      /\ \A r \in DOMAIN c2 : c2[r] = NodeAt(dom, r)
      /\ DOMAIN c2 \subseteq 0 .. row - 1
      /\ DOMAIN c1 \cap (0 .. row - 1) \subseteq DOMAIN c2
      /\ n > 0 => c1[Neighbour(row)] = NodeAt(dom, Neighbour(row))
  <2>1. dom \in Seq(Node) /\ k \in 0 .. Len(dom) /\ row \in 0 .. Len(dom)
    BY <1>3, <1>4
  <2> HIDE DEF row
  <2> QED
    BY <1>5, <2>1, CacheAfterAdd
<1>7. /\ d \in Seq(Node) /\ Len(d) = n + 1 /\ IsInjective(d)
      /\ \A r \in 0 .. n :
           NodeAt(d, r) = IF r < row THEN NodeAt(dom, r)
                          ELSE IF r = row THEN new ELSE NodeAt(dom, r - 1)
  <2>1. new \in Node \ NodesOf(dom)
    BY <1>1
  <2> HIDE DEF row, c1
  <2> QED
    BY <1>3, <1>4, <1>6, <2>1, InsertedDom
<1> HIDE DEF row, c1, d, c2
<1>8. /\ \A r \in DOMAIN c3 : c3[r] = NodeAt(d, r)
      /\ DOMAIN c3 = DOMAIN c2 \cup (row .. n)
  <2>1. \A r \in DOMAIN c2 : NodeAt(dom, r) = NodeAt(d, r)
    BY <1>3, <1>4, <1>6, <1>7
  <2>2. \A r \in DOMAIN c2 : c2[r] = NodeAt(d, r)
    BY <1>6, <2>1
  <2>3. c3 = Agreeing(d, DOMAIN c2 \cup ((row .. Len(d) - 1) \cap Rows(d)))
    BY <1>7, <2>2, FetchAgrees
  <2>4. (row .. Len(d) - 1) \cap Rows(d) = row .. n
    BY <1>3, <1>4, <1>7 DEF Rows
  <2>5. c3 = Agreeing(d, DOMAIN c2 \cup (row .. n))
    BY <2>3, <2>4
  <2> HIDE DEF c3
  <2> QED
    BY <2>5, AgreeingProperties
<1> HIDE DEF c3
<1>9. cache' = Dense(d, n + 1)
  <2>1. cache' = Agreeing(d, DOMAIN c3 \cup (Rows(d) \cap Rows(d)))
    BY <1>1, <1>7, <1>8, FetchAgrees
  <2>2. DOMAIN c3 \cup (Rows(d) \cap Rows(d)) = 0 .. (n + 1) - 1
    BY <1>3, <1>4, <1>6, <1>7, <1>8 DEF Rows
  <2> QED
    BY <2>1, <2>2 DEF Dense
<1>10. DomOK'
  BY <1>1, <1>2, <1>3, <1>7 DEF DomOK
<1>11. CacheIsDense'
  <2>1. Len(dom') = n + 1 /\ n + 1 \in 0 .. n + 1
    BY <1>1, <1>3, <1>7
  <2>2. cache' = Agreeing(dom', 0 .. (n + 1) - 1)
    BY <1>1, <1>9 DEF Dense
  <2>3. DOMAIN cache' = Rows(dom')
    BY <2>1, <2>2, AgreeingProperties DEF Rows
  <2> QED
    BY <2>1, <2>2, <2>3 DEF CacheIsDense
<1>12. LoopOK'
  BY <1>1, <1>3, <1>7 DEF LoopOK
<1>13. ASSUME NEW h \in Holder
       PROVE  /\ held'[h] \in Index \cup {NoIndex}
              /\ held'[h] # NoIndex =>
                   /\ held'[h].live
                   /\ held'[h].row \in DOMAIN cache'
                   /\ NodeAt(dom', held'[h].row) = held'[h].node
              /\ held[h] # NoIndex => held'[h] # NoIndex
  <2>1. held'[h] = Moved(held[h], row, 1, c3, freed)
    BY <1>1
  <2>2. CASE held[h] = NoIndex
    BY <2>1, <2>2 DEF Moved
  <2>3. CASE held[h] # NoIndex
    <3> DEFINE x == held[h]
    <3>1. /\ x \in Index /\ x.live /\ x.row \in 0 .. k - 1
          /\ NodeAt(dom, x.row) = x.node
      BY <1>5, <2>3 DEF IInv, HeldOK, Dense, Agreeing
    <3>2. CASE x.row < row
      <4>1. x.row \notin freed
        BY <1>3, <1>4, <1>5, <1>6, <3>1, <3>2 DEF Dense, Agreeing
      <4>2. held'[h] = [x EXCEPT !.live = x.live /\ x.row \notin freed]
        BY <2>1, <2>3, <3>2 DEF Moved
      <4>3. held'[h] = x
        BY <3>1, <4>1, <4>2 DEF Index
      <4>4. x.row \in 0 .. n /\ NodeAt(d, x.row) = x.node
        BY <1>3, <1>5, <1>7, <3>1, <3>2
      <4> QED
        BY <1>1, <1>2, <1>9, <3>1, <4>3, <4>4 DEF Dense, Agreeing
    <3>3. CASE ~(x.row < row)
      <4>1. x.row + 1 \in DOMAIN c3 /\ x.row + 1 \in 0 .. n
        BY <1>3, <1>4, <1>5, <1>8, <3>1, <3>3
      <4>2. held'[h] = [x EXCEPT !.row = x.row + 1, !.live = TRUE]
        BY <2>1, <2>3, <3>3, <4>1 DEF Moved
      <4>3. /\ held'[h] \in Index /\ held'[h].live = TRUE
            /\ held'[h].row = x.row + 1 /\ held'[h].node = x.node
        <5>1. x \in Index /\ x.row + 1 \in Nat
          BY <3>1
        <5>2. held'[h] = AtRow(x, x.row + 1)
          BY <4>2 DEF AtRow
        <5>3. LET y == AtRow(x, x.row + 1)
              IN  y \in Index /\ y.live = TRUE /\ y.row = x.row + 1
                  /\ y.node = x.node
          BY <5>1, IndexMoved
        <5> QED
          BY <5>2, <5>3, Zenon
      <4>4. NodeAt(d, x.row + 1) = x.node
        BY <1>3, <1>4, <1>5, <1>7, <3>1, <3>3, <4>1
      <4> QED
        BY <1>1, <1>2, <1>9, <4>1, <4>3, <4>4 DEF Dense, Agreeing
    <3> QED
      BY <3>2, <3>3
  <2> QED
    BY <2>2, <2>3
<1>14. newIn' \in Index /\ newIn'.node = new /\ NodeAt(dom', newIn'.row) = new
  <2>1. row \in Rows(d) /\ row \in DOMAIN c3 /\ row \in Nat /\ row \in 0 .. n
    BY <1>3, <1>4, <1>7, <1>8 DEF Rows
  <2>2. c3[row] = new /\ NodeAt(d, row) = new
    BY <1>7, <1>8, <2>1
  <2> QED
    BY <1>1, <2>1, <2>2 DEF IndexOf, Index
<1>15. ASSUME NEW m \in NodesOf(dom') \ NodesOf(dom)
       PROVE  m = new
  <2>1. PICK r \in 0 .. n : m = NodeAt(d, r)
    <3>1. PICK i \in 1 .. n + 1 : m = d[i]
      BY <1>1, <1>7, <1>15 DEF NodesOf
    <3>2. i - 1 \in 0 .. n /\ (i - 1) + 1 = i
      BY <1>3, <3>1
    <3> QED
      BY <3>1, <3>2 DEF NodeAt
  <2>2. CASE r < row
    <3>1. m = dom[r + 1] /\ r + 1 \in 1 .. n
      BY <1>3, <1>4, <1>7, <2>1, <2>2 DEF NodeAt
    <3> QED
      BY <1>15, <3>1 DEF NodesOf
  <2>3. CASE r > row
    <3>1. m = NodeAt(dom, r - 1)
      BY <1>3, <1>4, <1>7, <2>1, <2>3
    <3>2. m = dom[(r - 1) + 1] /\ (r - 1) + 1 \in 1 .. n
      BY <1>3, <1>4, <2>1, <2>3, <3>1 DEF NodeAt
    <3> QED
      BY <1>15, <3>2 DEF NodesOf
  <2> QED
    BY <1>3, <1>4, <1>7, <2>1, <2>2, <2>3
<1>16. HeldOK'
  BY <1>1, <1>13 DEF HeldOK
<1>17. IInv'
  BY <1>1, <1>10, <1>11, <1>12, <1>14, <1>16 DEF IInv
<1> QED
  BY <1>2, <1>13, <1>14, <1>15, <1>17

(* What removeRow does to a complete cache. *)
LEMMA RemoveRowIInv ==
  ASSUME IInv, mapped, NEW row \in Rows(dom), RemoveRow(row),
         clr' \in -1 .. Len(dom) - 2
  PROVE  /\ IInv'
         /\ Len(dom') = Len(dom) - 1
         /\ NodesOf(dom') \subseteq NodesOf(dom)
         /\ \A h \in Holder : held[h] # NoIndex /\ held'[h] = NoIndex =>
              held[h].node \notin NodesOf(dom')
<1> DEFINE n  == Len(dom)
           c1 == Fetch(cache, dom, {row})
           d  == RemoveNode(dom, c1[row])
           c2 == DeleteChild(c1, row)
           c3 == Fetch(c2, d, row .. Len(d) - 1)
           freed == DOMAIN c1 \ DOMAIN c2
<1>1. /\ dom' = d /\ cache' = c3
      /\ held' = [h \in Holder |-> Moved(held[h], row, -1, c3, freed)]
      /\ mapped' = mapped /\ newIn' = newIn
  BY DEF RemoveRow, Announced
<1>2. /\ dom \in Seq(Node) /\ IsInjective(dom) /\ n \in Nat /\ row \in 0 .. n - 1
      /\ n <= MaxRows /\ MaxRows \in Nat /\ NoIndex \notin Index
  BY LenProperties, DomModelAssumption DEF IInv, DomOK, Rows, DomModelAssumption, Index
<1>3. DOMAIN cache = 0 .. n - 1 /\ \A r \in 0 .. n - 1 : cache[r] = NodeAt(dom, r)
  <2>1. PICK k \in 0 .. n : cache = Agreeing(dom, 0 .. k - 1)
    BY DEF IInv, CacheIsDense
  <2>2. DOMAIN cache = 0 .. n - 1
    BY DEF IInv, CacheIsDense, Rows
  <2> QED
    BY <2>1, <2>2, AgreeingProperties
<1>4. c1 = Agreeing(dom, 0 .. n - 1)
  <2>1. c1 = Agreeing(dom, DOMAIN cache \cup ({row} \cap Rows(dom)))
    BY <1>2, <1>3, FetchAgrees
  <2>2. DOMAIN cache \cup ({row} \cap Rows(dom)) = 0 .. n - 1
    BY <1>2, <1>3
  <2> QED
    BY <2>1, <2>2
<1>5. c1[row] = NodeAt(dom, row) /\ DOMAIN c1 = 0 .. n - 1
      /\ \A r \in 0 .. n - 1 : c1[r] = NodeAt(dom, r)
  BY <1>2, <1>4, AgreeingProperties
<1> HIDE DEF c1
<1>6. /\ d \in Seq(Node) /\ Len(d) = n - 1 /\ IsInjective(d)
      /\ \A r \in 0 .. n - 2 :
           NodeAt(d, r) = IF r < row THEN NodeAt(dom, r) ELSE NodeAt(dom, r + 1)
      /\ NodeAt(dom, row) \notin NodesOf(d)
  <2>1. d = RemoveNode(dom, NodeAt(dom, row))
    BY <1>5
  <2> HIDE DEF d
  <2> QED
    BY <1>2, <2>1, RemovedDom
<1> HIDE DEF d
<1>7. DOMAIN c2 = 0 .. row - 1 /\ \A r \in 0 .. row - 1 : c2[r] = NodeAt(d, r)
  <2>1. Cardinality(DOMAIN c1) = n
    BY <1>2, <1>5, CardinalityOfPrefix
  <2>2. c2 = Forget(c1, row .. n - 1)
    BY <1>2, <2>1 DEF DeleteChild
  <2>3. DOMAIN c2 = 0 .. row - 1
    BY <1>2, <1>5, <2>2 DEF Forget
  <2>4. \A r \in 0 .. row - 1 : c2[r] = c1[r]
    BY <2>2, <2>3 DEF Forget
  <2>5. \A r \in 0 .. row - 1 : r \in 0 .. n - 1 /\ r \in 0 .. n - 2 /\ r < row
    BY <1>2
  <2>6. \A r \in 0 .. row - 1 : c1[r] = NodeAt(dom, r) /\ NodeAt(d, r) = NodeAt(dom, r)
    BY <1>5, <1>6, <2>5
  <2> QED
    BY <2>3, <2>4, <2>6
<1> HIDE DEF c2
<1>8. c3 = Agreeing(d, 0 .. (n - 1) - 1)
  <2>1. c3 = Agreeing(d, DOMAIN c2 \cup ((row .. Len(d) - 1) \cap Rows(d)))
    BY <1>6, <1>7, FetchAgrees
  <2>2. DOMAIN c2 \cup ((row .. Len(d) - 1) \cap Rows(d)) = 0 .. (n - 1) - 1
    BY <1>2, <1>6, <1>7 DEF Rows
  <2> QED
    BY <2>1, <2>2
<1> HIDE DEF c3
<1>9. DomOK'
  BY <1>1, <1>2, <1>6 DEF DomOK
<1>10. CacheIsDense'
  <2>1. Len(dom') = n - 1 /\ n - 1 \in 0 .. n - 1
    BY <1>1, <1>2, <1>6
  <2>2. cache' = Agreeing(dom', 0 .. (n - 1) - 1)
    BY <1>1, <1>8
  <2>3. DOMAIN cache' = Rows(dom')
    BY <2>1, <2>2, AgreeingProperties DEF Rows
  <2> QED
    BY <2>1, <2>2, <2>3 DEF CacheIsDense
<1>11. LoopOK'
  BY <1>1, <1>2, <1>6 DEF LoopOK
<1>12. ASSUME NEW h \in Holder
       PROVE  /\ held'[h] \in Index \cup {NoIndex}
              /\ held'[h] # NoIndex =>
                   /\ held'[h].live
                   /\ held'[h].row \in DOMAIN cache'
                   /\ NodeAt(dom', held'[h].row) = held'[h].node
              /\ held[h] # NoIndex /\ held'[h] = NoIndex =>
                   held[h].node \notin NodesOf(dom')
  <2>1. held'[h] = Moved(held[h], row, -1, c3, freed)
    BY <1>1
  <2>2. CASE held[h] = NoIndex
    BY <2>1, <2>2 DEF Moved
  <2>3. CASE held[h] # NoIndex
    <3> DEFINE x == held[h]
    <3>1. /\ x \in Index /\ x.live /\ x.row \in 0 .. n - 1
          /\ NodeAt(dom, x.row) = x.node
      BY <1>3, <2>3 DEF IInv, HeldOK
    <3>2. CASE x.row < row
      <4>1. x.row \notin freed
        BY <1>2, <1>7, <3>1, <3>2
      <4>2. held'[h] = [x EXCEPT !.live = x.live /\ x.row \notin freed]
        BY <2>1, <2>3, <3>2 DEF Moved
      <4>3. held'[h] = x
        BY <3>1, <4>1, <4>2 DEF Index
      <4>4. x.row \in 0 .. (n - 1) - 1 /\ NodeAt(d, x.row) = x.node
        BY <1>2, <1>6, <3>1, <3>2
      <4> QED
        BY <1>1, <1>2, <1>8, <2>3, <3>1, <4>3, <4>4, AgreeingProperties
    <3>3. CASE x.row = row
      <4>1. held'[h] = NoIndex
        BY <1>2, <2>1, <2>3, <3>3 DEF Moved
      <4>2. x.node \notin NodesOf(dom')
        BY <1>1, <1>6, <3>1, <3>3
      <4> QED
        BY <4>1, <4>2
    <3>4. CASE x.row > row
      <4>1. x.row + -1 \in DOMAIN c3 /\ x.row + -1 \in 0 .. n - 2
        BY <1>2, <1>8, <3>1, <3>4, AgreeingProperties
      <4>2. held'[h] = AtRow(x, x.row + -1)
        BY <1>2, <2>1, <2>3, <3>1, <3>4, <4>1 DEF Moved, AtRow
      <4>3. /\ held'[h] \in Index /\ held'[h].live = TRUE
            /\ held'[h].row = x.row + -1 /\ held'[h].node = x.node
        <5>1. x \in Index /\ x.row + -1 \in Nat
          BY <1>2, <3>1, <4>1
        <5>2. LET y == AtRow(x, x.row + -1)
              IN  y \in Index /\ y.live = TRUE /\ y.row = x.row + -1
                  /\ y.node = x.node
          BY <5>1, IndexMoved
        <5> QED
          BY <4>2, <5>2, Zenon
      <4>4. NodeAt(d, x.row + -1) = x.node
        BY <1>2, <1>6, <3>1, <3>4, <4>1
      <4> QED
        BY <1>1, <1>2, <4>1, <4>3, <4>4
    <3>5. x.row < row \/ x.row = row \/ x.row > row
      BY <1>2, <3>1
    <3> QED
      BY <3>2, <3>3, <3>4, <3>5
  <2> QED
    BY <2>2, <2>3
<1>13. HeldOK'
  BY <1>1, <1>12 DEF HeldOK
<1>14. NodesOf(dom') \subseteq NodesOf(dom)
  <2> SUFFICES ASSUME NEW i \in 1 .. n - 1
               PROVE  d[i] \in NodesOf(dom)
    BY <1>1, <1>6 DEF NodesOf
  <2>1. i - 1 \in 0 .. n - 2 /\ (i - 1) + 1 = i /\ i \in 1 .. n /\ i + 1 \in 1 .. n
    BY <1>2
  <2>2. NodeAt(d, i - 1) = NodeAt(dom, i - 1) \/ NodeAt(d, i - 1) = NodeAt(dom, (i - 1) + 1)
    BY <1>6, <2>1
  <2>3. d[i] = dom[i] \/ d[i] = dom[i + 1]
    BY <2>1, <2>2 DEF NodeAt
  <2> QED
    BY <2>1, <2>3 DEF NodesOf
<1> QED
  BY <1>1, <1>6, <1>9, <1>10, <1>11, <1>12, <1>13, <1>14 DEF IInv

-----------------------------------------------------------------------------
(* Every step preserves the invariant. *)
LEMMA NextIInv ==
  ASSUME ClearUnmapped = FALSE, IInv, [Next]_vars
  PROVE  IInv'
<1>1. /\ dom \in Seq(Node) /\ Len(dom) \in Nat /\ NoIndex \notin Index
      /\ MaxRows \in Nat
  BY LenProperties, DomModelAssumption DEF IInv, DomOK, DomModelAssumption, Index
<1>2. PICK k \in 0 .. Len(dom) : cache = Agreeing(dom, 0 .. k - 1)
  BY DEF IInv, CacheIsDense
<1>3. /\ DOMAIN cache = 0 .. k - 1
      /\ \A r \in DOMAIN cache : cache[r] = NodeAt(dom, r)
  BY <1>2, AgreeingProperties
(* Looking up all rows up to "last" leaves no hole. *)
<1>4. ASSUME NEW last \in -1 .. Len(dom) - 1
      PROVE  \E j \in 0 .. Len(dom) :
               /\ Fetch(cache, dom, 0 .. last) = Agreeing(dom, 0 .. j - 1)
               /\ k <= j /\ last < j
  <2>1. Fetch(cache, dom, 0 .. last)
          = Agreeing(dom, DOMAIN cache \cup ((0 .. last) \cap Rows(dom)))
    BY <1>1, <1>3, FetchAgrees
  <2>2. PICK j \in 0 .. Len(dom) :
          k <= j /\ last < j /\ (j = k \/ j = last + 1)
    BY <1>1
  <2>3. DOMAIN cache \cup ((0 .. last) \cap Rows(dom)) = 0 .. j - 1
    BY <1>1, <1>3, <2>2 DEF Rows
  <2> QED
    BY <2>1, <2>2, <2>3
<1>5. CASE Layout
  <2>1. /\ UNCHANGED <<dom, held, newIn, clr>> /\ mapped' = TRUE
        /\ cache' = Fetch(cache, dom, 0 .. Len(dom) - 1)
    BY <1>5 DEF Layout, Rows
  <2>2. PICK j \in 0 .. Len(dom) :
          /\ cache' = Agreeing(dom, 0 .. j - 1) /\ k <= j
          /\ Len(dom) - 1 < j
    <3>1. Len(dom) - 1 \in -1 .. Len(dom) - 1
      BY <1>1
    <3> QED
      BY <1>4, <2>1, <3>1
  <2>3. DOMAIN cache' = Rows(dom')
    BY <1>1, <2>1, <2>2, AgreeingProperties DEF Rows
  <2>4. CacheIsDense'
    BY <2>1, <2>2, <2>3 DEF CacheIsDense
  <2>5. HeldOK'
    BY <1>1, <1>3, <2>1, <2>2, AgreeingProperties DEF IInv, HeldOK
  <2> QED
    BY <2>1, <2>4, <2>5 DEF IInv, DomOK, LoopOK
<1>6. ASSUME NEW h \in Holder, NEW r \in 0 .. MaxRows, Hold(h, r)
      PROVE  IInv'
  <2> DEFINE c == Fetch(cache, dom, 0 .. r)
  <2>1. /\ UNCHANGED <<dom, mapped, newIn, clr>> /\ cache' = c
        /\ held' = [held EXCEPT ![h] = IndexOf(c, r)]
        /\ r \in 0 .. Len(dom) - 1
    BY <1>6 DEF Hold, Rows
  <2>2. r \in -1 .. Len(dom) - 1
    BY <1>1, <2>1
  <2>3. PICK j \in 0 .. Len(dom) :
          c = Agreeing(dom, 0 .. j - 1) /\ k <= j /\ r < j
    BY <1>4, <2>2
  <2> HIDE DEF c
  <2>4. DOMAIN c = 0 .. j - 1 /\ \A q \in 0 .. j - 1 : c[q] = NodeAt(dom, q)
    BY <2>3, AgreeingProperties
  <2>5. CacheIsDense'
    <3>1. mapped => DOMAIN c = Rows(dom)
      BY <1>1, <1>3, <2>3, <2>4 DEF IInv, CacheIsDense, Rows
    <3> QED
      BY <2>1, <2>3, <3>1 DEF CacheIsDense
  <2>6. /\ IndexOf(c, r) \in Index /\ IndexOf(c, r).live = TRUE
        /\ IndexOf(c, r).row = r /\ IndexOf(c, r).node = NodeAt(dom, r)
    <3>1. c[r] = NodeAt(dom, r) /\ r \in Nat
      BY <1>1, <2>1, <2>3, <2>4
    <3>2. NodeAt(dom, r) \in Node
      BY <1>1, <2>1, ElementOfSeq DEF NodeAt
    <3> QED
      BY <3>1, <3>2 DEF IndexOf, Index
  <2>7. HeldOK'
    <3> SUFFICES ASSUME NEW g \in Holder
                 PROVE  /\ held'[g] \in Index \cup {NoIndex}
                        /\ held'[g] # NoIndex =>
                             /\ held'[g].live
                             /\ held'[g].row \in DOMAIN cache'
                             /\ NodeAt(dom', held'[g].row) = held'[g].node
      BY <2>1, <2>6 DEF IInv, HeldOK
    <3>1. CASE g = h
      <4>1. held'[g] = IndexOf(c, r)
        BY <2>1, <3>1 DEF IInv, HeldOK
      <4> QED
        BY <1>1, <2>1, <2>3, <2>4, <2>6, <4>1
    <3>2. CASE g # h
      <4>1. held'[g] = held[g]
        BY <2>1, <3>2 DEF IInv, HeldOK
      <4> QED
        BY <1>1, <1>3, <2>1, <2>3, <2>4, <4>1 DEF IInv, HeldOK
    <3> QED
      BY <3>1, <3>2
  <2> QED
    BY <2>1, <2>5, <2>7 DEF IInv, DomOK, LoopOK
<1>7. ASSUME NEW ask \in 0 .. MaxRows + 1, NEW new \in Node, InsertRows(ask, new)
      PROVE  IInv'
  BY <1>7, InsertRowsIInv
<1>8. ASSUME NEW row \in 0 .. MaxRows, RemoveRows(row)
      PROVE  IInv'
  <2>1. RemoveRow(row) /\ mapped /\ row \in Rows(dom) /\ clr = -1 /\ clr' = -1
    BY <1>8 DEF RemoveRows
  <2>2. clr' \in -1 .. Len(dom) - 2
    BY <1>1, <2>1 DEF Rows
  <2> QED
    BY <2>1, <2>2, RemoveRowIInv
<1>9. CASE ClearStart
  <2>1. UNCHANGED <<dom, cache, mapped, held, newIn>> /\ clr' = Len(dom) - 1 /\ mapped
    BY <1>9 DEF ClearStart
  <2> QED
    BY <1>1, <2>1 DEF IInv, DomOK, CacheIsDense, LoopOK, HeldOK
<1>10. ASSUME NEW deletable \in BOOLEAN, ClearStep(deletable)
       PROVE  IInv'
  <2>1. clr \in 0 .. Len(dom) - 1 /\ mapped /\ clr' = clr - 1
    BY <1>1, <1>10 DEF ClearStep, IInv, LoopOK
  <2>2. CASE deletable
    <3>1. RemoveRow(clr) /\ clr \in Rows(dom) /\ clr' \in -1 .. Len(dom) - 2
      BY <1>1, <1>10, <2>1, <2>2 DEF ClearStep, Rows
    <3> QED
      BY <2>1, <3>1, RemoveRowIInv
  <2>3. CASE ~deletable
    <3>1. UNCHANGED <<dom, mapped, held, newIn>> /\ cache' = Fetch(cache, dom, {clr})
      BY <1>10, <2>3 DEF ClearStep
    <3>2. DOMAIN cache = Rows(dom)
      BY <2>1 DEF IInv, CacheIsDense
    <3>3. cache' = Agreeing(dom, DOMAIN cache \cup ({clr} \cap Rows(dom)))
      BY <1>1, <1>3, <3>1, FetchAgrees
    <3>4. DOMAIN cache \cup ({clr} \cap Rows(dom)) = 0 .. k - 1
      BY <1>3, <3>2
    <3>5. cache' = cache
      BY <1>2, <3>3, <3>4
    <3>6. LoopOK'
      BY <1>1, <2>1, <3>1 DEF LoopOK
    <3>7. CacheIsDense' /\ HeldOK' /\ DomOK'
      BY <3>1, <3>5 DEF IInv, DomOK, CacheIsDense, HeldOK
    <3> QED
      BY <3>1, <3>6, <3>7 DEF IInv
  <2> QED
    BY <2>2, <2>3
<1>11. CASE UNCHANGED vars
  BY <1>11 DEF vars, IInv, DomOK, CacheIsDense, LoopOK, HeldOK
<1> QED
  BY <1>5, <1>6, <1>7, <1>8, <1>9, <1>10, <1>11 DEF Next

-----------------------------------------------------------------------------
(* The inductive invariant holds in every reachable state, provided that   *)
(* clearNode is only called on nodes the view has laid out.                *)
THEOREM Inductive == ASSUME ClearUnmapped = FALSE PROVE Spec => []IInv
<1>1. Init => IInv
  BY InitIInv
<1>2. IInv /\ [Next]_vars => IInv'
  BY NextIInv
<1> QED
  BY <1>1, <1>2, PTL DEF Spec

(* The variables keep their types (TypeOK of DomModel). *)
THEOREM TypeCorrect == ASSUME ClearUnmapped = FALSE PROVE Spec => []TypeOK
<1>1. IInv => TypeOK
  <2> SUFFICES ASSUME IInv PROVE TypeOK
    OBVIOUS
  <2>1. dom \in Seq(Node) /\ Len(dom) \in Nat /\ Len(dom) <= MaxRows
        /\ MaxRows \in Nat
    BY LenProperties, DomModelAssumption DEF IInv, DomOK, DomModelAssumption
  <2>2. PICK k \in 0 .. Len(dom) : cache = Agreeing(dom, 0 .. k - 1)
    BY DEF IInv, CacheIsDense
  <2>3. DOMAIN cache \subseteq Nat /\ \A r \in DOMAIN cache : cache[r] \in Node
    <3>1. DOMAIN cache = 0 .. k - 1 /\ \A r \in 0 .. k - 1 : cache[r] = NodeAt(dom, r)
      BY <2>2, AgreeingProperties
    <3>2. \A r \in 0 .. k - 1 : r \in Nat /\ NodeAt(dom, r) \in Node
      BY <2>1, ElementOfSeq DEF NodeAt
    <3> QED
      BY <3>1, <3>2
  <2>4. clr \in -1 .. MaxRows - 1
    BY <2>1 DEF IInv, LoopOK
  <2> QED
    BY <2>1, <2>3, <2>4 DEF IInv, HeldOK, TypeOK
<1> QED
  BY <1>1, Inductive, PTL

(* The DomItem cached at a row stands for the child that is at that row    *)
(* now, and none is left for a row that is gone: what nodeFromIndex and    *)
(* index return is right after any insertions, removals and clearings.     *)
THEOREM RowsAlwaysAgree == ASSUME ClearUnmapped = FALSE PROVE Spec => []RowsAgree
<1>1. IInv => RowsAgree
  <2> SUFFICES ASSUME IInv PROVE RowsAgree
    OBVIOUS
  <2>1. PICK k \in 0 .. Len(dom) : cache = Agreeing(dom, 0 .. k - 1)
    BY DEF IInv, CacheIsDense
  <2>2. Len(dom) \in Nat
    BY LenProperties DEF IInv, DomOK
  <2> QED
    BY <2>1, <2>2, AgreeingProperties DEF RowsAgree, Rows
<1> QED
  BY <1>1, Inductive, PTL

(* No index the view keeps points to a DomItem the model has deleted. *)
THEOREM NeverDangling == ASSUME ClearUnmapped = FALSE PROVE Spec => []NoDanglingIndex
<1>1. IInv => NoDanglingIndex
  BY DEF IInv, HeldOK, NoDanglingIndex
<1> QED
  BY <1>1, Inductive, PTL

(* A kept index names the row of the node it was taken for. *)
THEOREM IndexAlwaysFollows ==
  ASSUME ClearUnmapped = FALSE PROVE Spec => []IndexFollowsNode
<1>1. IInv => IndexFollowsNode
  <2> SUFFICES ASSUME IInv, NEW h \in Holder, held[h] # NoIndex
               PROVE  /\ held[h].row \in Rows(dom)
                      /\ NodeAt(dom, held[h].row) = held[h].node
    BY DEF IndexFollowsNode
  <2>1. PICK k \in 0 .. Len(dom) : cache = Agreeing(dom, 0 .. k - 1)
    BY DEF IInv, CacheIsDense
  <2>2. Len(dom) \in Nat
    BY LenProperties DEF IInv, DomOK
  <2>3. DOMAIN cache = 0 .. k - 1
    BY <2>1, AgreeingProperties
  <2> QED
    BY <2>2, <2>3 DEF IInv, HeldOK, Rows
<1> QED
  BY <1>1, Inductive, PTL

-----------------------------------------------------------------------------
(* What a step does to the children and to the kept indexes.               *)
LEMMA StepKeepsIndexes ==
  ASSUME ClearUnmapped = FALSE, IInv, Next
  PROVE  /\ \A h \in Holder : held[h] # NoIndex /\ held'[h] = NoIndex =>
              held[h].node \notin NodesOf(dom')
         /\ \A m \in NodesOf(dom') \ NodesOf(dom) :
              newIn' # NoIndex /\ newIn'.node = m /\ NodeAt(dom', newIn'.row) = m
<1> DEFINE Kept == \A h \in Holder : held[h] # NoIndex /\ held'[h] = NoIndex =>
                     held[h].node \notin NodesOf(dom')
           New  == \A m \in NodesOf(dom') \ NodesOf(dom) :
                     newIn' # NoIndex /\ newIn'.node = m /\ NodeAt(dom', newIn'.row) = m
<1>1. NodesOf(dom') \subseteq NodesOf(dom) => New
  OBVIOUS
<1>2. CASE UNCHANGED <<dom, held>>
  BY <1>1, <1>2
<1>3. ASSUME NEW h \in Holder, NEW r \in 0 .. MaxRows, Hold(h, r)
      PROVE  Kept /\ New
  <2> DEFINE c == Fetch(cache, dom, 0 .. r)
  <2>1. held' = [held EXCEPT ![h] = IndexOf(c, r)] /\ dom' = dom /\ r \in Rows(dom)
    BY <1>3 DEF Hold
  <2>2. PICK k \in 0 .. Len(dom) : cache = Agreeing(dom, 0 .. k - 1)
    BY DEF IInv, CacheIsDense
  <2>3. \A q \in DOMAIN cache : cache[q] = NodeAt(dom, q)
    BY <2>2, AgreeingProperties
  <2>4. dom \in Seq(Node) /\ Len(dom) \in Nat
    BY LenProperties DEF IInv, DomOK
  <2>5. c = Agreeing(dom, DOMAIN cache \cup ((0 .. r) \cap Rows(dom)))
    BY <2>3, <2>4, FetchAgrees
  <2>6. r \in 0 .. r /\ r \in Nat
    OBVIOUS
  <2> HIDE DEF c
  <2>7. c[r] = NodeAt(dom, r)
    BY <2>1, <2>5, <2>6, AgreeingProperties
  <2>8. c[r] \in Node
    BY <2>1, <2>4, <2>6, <2>7, ElementOfSeq DEF NodeAt, Rows
  <2>9. IndexOf(c, r) \in Index /\ NoIndex \notin Index
    BY <2>6, <2>8, DomModelAssumption DEF IndexOf, Index, DomModelAssumption
  <2> QED
    BY <1>1, <2>1, <2>9 DEF IInv, HeldOK
<1>4. ASSUME NEW ask \in 0 .. MaxRows + 1, NEW new \in Node, InsertRows(ask, new)
      PROVE  Kept /\ New
  BY <1>4, InsertRowsIInv
<1>5. ASSUME NEW row \in Rows(dom), mapped, RemoveRow(row), clr' \in -1 .. Len(dom) - 2
      PROVE  Kept /\ New
  BY <1>1, <1>5, RemoveRowIInv
<1>6. dom \in Seq(Node) /\ Len(dom) \in Nat
  BY LenProperties DEF IInv, DomOK
<1>7. ASSUME NEW row \in 0 .. MaxRows, RemoveRows(row)
      PROVE  Kept /\ New
  <2>1. mapped /\ row \in Rows(dom) /\ RemoveRow(row) /\ clr = -1 /\ clr' = clr
    BY <1>7 DEF RemoveRows
  <2>2. clr' \in -1 .. Len(dom) - 2
    BY <1>6, <2>1 DEF Rows
  <2> QED
    BY <1>5, <2>1, <2>2
<1>8. ASSUME NEW deletable \in BOOLEAN, ClearStep(deletable)
      PROVE  Kept /\ New
  <2>1. clr \in 0 .. Len(dom) - 1 /\ mapped /\ clr' = clr - 1
    BY <1>6, <1>8 DEF ClearStep, IInv, LoopOK
  <2>2. CASE deletable
    <3>1. RemoveRow(clr) /\ clr \in Rows(dom) /\ clr' \in -1 .. Len(dom) - 2
      BY <1>6, <1>8, <2>1, <2>2 DEF ClearStep, Rows
    <3> QED
      BY <1>5, <2>1, <3>1
  <2>3. CASE ~deletable
    BY <1>2, <1>8, <2>3 DEF ClearStep
  <2> QED
    BY <2>2, <2>3
<1>9. CASE Layout \/ ClearStart
  BY <1>2, <1>9 DEF Layout, ClearStart
<1> QED
  BY <1>3, <1>4, <1>7, <1>8, <1>9 DEF Next

(* A kept index is only lost together with its node: no insertion and no   *)
(* removal of a sibling invalidates it.                                    *)
THEOREM IndexOnlyDiesWithNode ==
  ASSUME ClearUnmapped = FALSE PROVE Spec => IndexDiesWithNode
<1>1. IInv /\ [Next]_vars =>
        [\A h \in Holder : held[h] # NoIndex /\ held'[h] = NoIndex =>
           held[h].node \notin NodesOf(dom')]_vars
  BY StepKeepsIndexes
<1> QED
  BY <1>1, Inductive, PTL DEF IndexDiesWithNode, Spec

(* After insertRows, getNewIn() is the index of the element that was       *)
(* inserted.                                                               *)
THEOREM NewInAlwaysIsNewNode ==
  ASSUME ClearUnmapped = FALSE PROVE Spec => NewInIsNewNode
<1> DEFINE Found(n) == newIn' # NoIndex /\ newIn'.node = n /\ NodeAt(dom', newIn'.row) = n
<1>1. IInv /\ [Next]_vars => [\A n \in NodesOf(dom') \ NodesOf(dom) : Found(n)]_vars
  BY StepKeepsIndexes
<1> QED
  BY <1>1, Inductive, PTL DEF NewInIsNewNode, Spec

-----------------------------------------------------------------------------
(* Recursive functions, sequences with rows put in and taken out. *)

(* A function on 0 .. k given by its first value and a step from each to   *)
(* the next.                                                               *)
IsStep(G, X) == G \in [Nat \X X -> X]

IsRecursive(f, X, x0, G, k) ==
  /\ f \in [0 .. k -> X]
  /\ f[0] = x0
  /\ \A i \in 1 .. k : f[i] = G[<<i, f[i - 1]>>]

(* There is one: what a definition by recursion rests on.                  *)
LEMMA RecursionExists ==
  ASSUME NEW X, NEW x0 \in X, NEW G, IsStep(G, X), NEW k \in Nat
  PROVE  \E f : IsRecursive(f, X, x0, G, k)
<1> DEFINE Ok(n) == \E f \in [0 .. n -> X] :
                      f[0] = x0 /\ \A i \in 1 .. n : f[i] = G[<<i, f[i - 1]>>]
           Bad == {n \in Nat : ~Ok(n)}
<1> USE DEF IsStep
<1>1. Ok(0)
  <2> DEFINE f == [i \in 0 .. 0 |-> x0]
  <2>1. f \in [0 .. 0 -> X] /\ f[0] = x0
    OBVIOUS
  <2>2. \A i \in 1 .. 0 : FALSE
    OBVIOUS
  <2> HIDE DEF f
  <2> QED
    BY <2>1, <2>2
<1>2. ASSUME NEW n \in Nat, Ok(n)
      PROVE  Ok(n + 1)
  <2>1. PICK f \in [0 .. n -> X] :
          f[0] = x0 /\ \A i \in 1 .. n : f[i] = G[<<i, f[i - 1]>>]
    BY <1>2
  <2> DEFINE v == G[<<n + 1, f[n]>>]
             h == [i \in 0 .. n + 1 |-> IF i = n + 1 THEN v ELSE f[i]]
  <2>2. f[n] \in X
    OBVIOUS
  <2>3. v \in X
    <3>1. <<n + 1, f[n]>> \in Nat \X X
      BY <2>2
    <3> QED
      BY <3>1
  <2> HIDE DEF v
  <2>4. h \in [0 .. n + 1 -> X]
    BY <2>3
  <2>5. h[0] = x0 /\ \A i \in 0 .. n : h[i] = f[i]
    BY <2>1
  <2>6. h[n + 1] = v
    OBVIOUS
  <2> HIDE DEF h
  <2>7. ASSUME NEW i \in 1 .. n + 1
        PROVE  h[i] = G[<<i, h[i - 1]>>]
    <3>1. CASE i = n + 1
      <4>1. h[i - 1] = f[n]
        BY <3>1, <2>5
      <4> QED
        BY <3>1, <4>1, <2>6 DEF v
    <3>2. CASE i # n + 1
      <4>1. i \in 1 .. n /\ i - 1 \in 0 .. n /\ i \in 0 .. n
        BY <3>2
      <4>2. h[i] = f[i] /\ h[i - 1] = f[i - 1]
        BY <4>1, <2>5
      <4>3. f[i] = G[<<i, f[i - 1]>>]
        BY <4>1, <2>1
      <4> QED
        BY <4>2, <4>3
    <3> QED
      BY <3>1, <3>2
  <2> QED
    BY <2>4, <2>5, <2>7
<1> HIDE DEF Ok
<1>3. Bad = {}
  <2> SUFFICES ASSUME Bad # {} PROVE FALSE
    OBVIOUS
  <2>1. PICK n \in Bad : \A m \in Bad : ~(m < n)
    <3>1. \E x \in Bad : \A y \in Bad : ~ (<<y, x>> \in OpToRel(<, Nat))
      <4>1. Bad \in SUBSET Nat
        OBVIOUS
      <4> QED
        BY <4>1, NatLessThanWellFounded, WFMin
    <3> QED
      BY <3>1 DEF OpToRel
  <2>2. n \in Nat /\ ~Ok(n)
    OBVIOUS
  <2>3. n # 0
    BY <2>2, <1>1
  <2>4. n - 1 \in Nat /\ n - 1 \notin Bad
    BY <2>1, <2>2, <2>3
  <2>5. Ok(n - 1)
    BY <2>4
  <2>6. Ok((n - 1) + 1)
    BY <2>4, <2>5, <1>2
  <2>7. (n - 1) + 1 = n
    BY <2>2
  <2> QED
    BY <2>2, <2>6, <2>7
<1>4. Ok(k)
  BY <1>3
<1> QED
  BY <1>4 DEF Ok, IsRecursive

(* What holds at 0 and is handed on from each number to the next up to k   *)
(* holds up to k: S is the set of numbers it holds of.                     *)
LEMMA StepByStep ==
  ASSUME NEW k \in Nat, NEW S, 0 \in S, \A i \in 1 .. k : i - 1 \in S => i \in S
  PROVE  \A i \in 0 .. k : i \in S
<1> DEFINE Bad == {i \in 0 .. k : i \notin S}
<1> SUFFICES ASSUME Bad # {} PROVE FALSE
  OBVIOUS
<1>1. PICK n \in Bad : \A m \in Bad : ~(m < n)
  <2>1. \E x \in Bad : \A y \in Bad : ~ (<<y, x>> \in OpToRel(<, Nat))
    <3>1. Bad \in SUBSET Nat /\ Bad # {}
      OBVIOUS
    <3> HIDE DEF Bad
    <3> QED
      BY <3>1, NatLessThanWellFounded, WFMin
  <2>2. \A x \in Bad, y \in Bad : x \in Nat /\ y \in Nat
    OBVIOUS
  <2> HIDE DEF Bad
  <2> QED
    BY <2>1, <2>2 DEF OpToRel
<1>2. n \in 1 .. k
  OBVIOUS
<1>3. n - 1 \notin Bad /\ n - 1 \in 0 .. k
  BY <1>1, <1>2
<1> QED
  BY <1>2, <1>3

(* A part of a sequence.                                                   *)
LEMMA SubSeqIs ==
  ASSUME NEW S, NEW s \in Seq(S), NEW m \in 1 .. Len(s) + 1, NEW n \in m - 1 .. Len(s)
  PROVE  /\ SubSeq(s, m, n) \in Seq(S) /\ Len(SubSeq(s, m, n)) = n - m + 1
         /\ \A j \in 1 .. n - m + 1 : SubSeq(s, m, n)[j] = s[m + j - 1]
<1>1. Len(s) \in Nat
  BY LenProperties
<1>2. \A j \in m .. n : s[j] \in S
  BY <1>1, ElementOfSeq
<1>3. m \in Int /\ n \in Int
  BY <1>1
<1>4. /\ SubSeq(s, m, n) \in Seq(S)
      /\ Len(SubSeq(s, m, n)) = IF m <= n THEN n - m + 1 ELSE 0
      /\ \A j \in 1 .. n - m + 1 : SubSeq(s, m, n)[j] = s[m + j - 1]
  BY <1>2, <1>3, SubSeqProperties
<1> QED
  BY <1>1, <1>3, <1>4

(* Insert puts the n new elements behind the first row elements.           *)
Inserts(s, kids, row, new, n) ==
  /\ Len(s) = Len(kids) + n /\ n \in Nat /\ Len(kids) \in Nat
  /\ DOMAIN kids = 1 .. Len(kids) /\ DOMAIN s = 1 .. Len(kids) + n /\ DOMAIN new = 1 .. n
  /\ \A i \in 1 .. row : s[i] = kids[i]
  /\ \A i \in row + 1 .. row + n : s[i] = new[i - row]
  /\ \A i \in row + n + 1 .. Len(kids) + n : s[i] = kids[i - n]

LEMMA InsertIs ==
  ASSUME NEW S, NEW kids \in Seq(S), NEW new \in Seq(S), NEW row \in 0 .. Len(kids),
         NEW s, s = Insert(kids, row, new), NEW n, n = Len(new)
  PROVE  s \in Seq(S) /\ Inserts(s, kids, row, new, n)
<1> DEFINE a == SubSeq(kids, 1, row)
           c == SubSeq(kids, row + 1, Len(kids))
           ab == a \o new
<1>1. Len(kids) \in Nat /\ DOMAIN kids = 1 .. Len(kids) /\ n \in Nat
      /\ DOMAIN new = 1 .. n
  BY LenProperties
<1>2. a \in Seq(S) /\ Len(a) = row /\ \A j \in 1 .. row : a[j] = kids[j]
  <2>1. \A j \in 1 .. row : kids[j] \in S
    BY <1>1, ElementOfSeq
  <2> QED
    BY <1>1, <2>1, SubSeqProperties
<1>3. /\ c \in Seq(S) /\ Len(c) = Len(kids) - row
      /\ \A j \in 1 .. Len(kids) - row : c[j] = kids[row + j]
  <2>1. row + 1 \in 1 .. Len(kids) + 1 /\ Len(kids) \in (row + 1) - 1 .. Len(kids)
    BY <1>1
  <2>2. /\ c \in Seq(S) /\ Len(c) = Len(kids) - (row + 1) + 1
        /\ \A j \in 1 .. Len(kids) - (row + 1) + 1 : c[j] = kids[(row + 1) + j - 1]
    BY <2>1, SubSeqIs
  <2>3. /\ Len(kids) - (row + 1) + 1 = Len(kids) - row
        /\ \A j \in 1 .. Len(kids) - row : (row + 1) + j - 1 = row + j
    BY <1>1
  <2> HIDE DEF c
  <2> QED
    BY <2>2, <2>3
<1> HIDE DEF a, c
<1>4. /\ ab \in Seq(S) /\ Len(ab) = row + n
      /\ \A j \in 1 .. row + n :
           ab[j] = IF j <= row THEN a[j] ELSE new[j - row]
  BY <1>2, ConcatProperties
<1> HIDE DEF ab
<1>5. /\ ab \o c \in Seq(S)
      /\ Len(ab \o c) = Len(ab) + Len(c)
      /\ \A j \in 1 .. Len(ab) + Len(c) :
           (ab \o c)[j] = IF j <= Len(ab) THEN ab[j] ELSE c[j - Len(ab)]
  BY <1>3, <1>4, ConcatProperties
<1>6. s = ab \o c
  BY DEF Insert, ab, a, c
<1>7. s \in Seq(S) /\ Len(s) = Len(kids) + n
  <2>1. Len(ab) + Len(c) = Len(kids) + n
    BY <1>1, <1>3, <1>4
  <2> QED
    BY <2>1, <1>5, <1>6
<1>8. DOMAIN s = 1 .. Len(kids) + n
  BY <1>7, LenProperties
<1>9. ASSUME NEW i \in 1 .. row
      PROVE  s[i] = kids[i]
  <2>1. i \in 1 .. Len(ab) + Len(c) /\ i <= Len(ab) /\ i \in 1 .. row + n /\ i <= row
    BY <1>1, <1>3, <1>4
  <2>2. (ab \o c)[i] = ab[i] /\ ab[i] = a[i]
    BY <2>1, <1>4, <1>5
  <2> QED
    BY <2>2, <1>2, <1>6
<1>10. ASSUME NEW i \in row + 1 .. row + n
       PROVE  s[i] = new[i - row]
  <2>1. i \in 1 .. Len(ab) + Len(c) /\ i <= Len(ab) /\ i \in 1 .. row + n /\ ~(i <= row)
    BY <1>1, <1>3, <1>4
  <2>2. (ab \o c)[i] = ab[i] /\ ab[i] = new[i - row]
    BY <2>1, <1>4, <1>5
  <2> QED
    BY <2>1, <2>2, <1>6
<1>11. ASSUME NEW i \in row + n + 1 .. Len(kids) + n
       PROVE  s[i] = kids[i - n]
  <2> DEFINE m == i - Len(ab)
  <2>1. i \in 1 .. Len(ab) + Len(c) /\ ~(i <= Len(ab)) /\ m \in 1 .. Len(kids) - row
        /\ row + m = i - n
    BY <1>1, <1>3, <1>4
  <2>2. (ab \o c)[i] = c[m]
    BY <2>1, <1>5
  <2>3. c[m] = kids[row + m]
    <3> HIDE DEF m
    <3> QED
      BY <2>1, <1>3
  <2> QED
    BY <2>1, <2>2, <2>3, <1>6
<1> QED
  BY <1>1, <1>7, <1>8, <1>9, <1>10, <1>11 DEF Inserts

(* Without takes out the n rows from a on.                                 *)
TakesOut(s, kids, a, n) ==
  /\ Len(s) = Len(kids) - n /\ n \in Nat /\ Len(kids) \in Nat
  /\ DOMAIN kids = 1 .. Len(kids) /\ DOMAIN s = 1 .. Len(kids) - n
  /\ \A i \in 1 .. a - 1 : s[i] = kids[i]
  /\ \A i \in a .. Len(kids) - n : s[i] = kids[i + n]

LEMMA WithoutIs ==
  ASSUME NEW S, NEW kids \in Seq(S),
         NEW a \in 1 .. Len(kids), NEW b \in a .. Len(kids),
         NEW s, s = Without(kids, a .. b), NEW n, n = b - a + 1
  PROVE  s \in Seq(S) /\ TakesOut(s, kids, a, n)
<1> DEFINE u == SubSeq(kids, 1, a - 1)
           v == SubSeq(kids, b + 1, Len(kids))
<1>1. Len(kids) \in Nat /\ DOMAIN kids = 1 .. Len(kids)
  BY LenProperties
<1>2. Min(a .. b) = a /\ Max(a .. b) = b
  <2>1. a \in a .. b /\ b \in a .. b /\ \A x \in a .. b : a <= x /\ b >= x
    BY <1>1
  <2>2. \A x \in a .. b : (\A y \in a .. b : x <= y) => x = a
    BY <2>1
  <2>3. \A x \in a .. b : (\A y \in a .. b : x >= y) => x = b
    BY <2>1
  <2> QED
    BY <2>1, <2>2, <2>3 DEF Min, Max
<1>3. u \in Seq(S) /\ Len(u) = a - 1 /\ \A j \in 1 .. a - 1 : u[j] = kids[j]
  <2>1. \A j \in 1 .. a - 1 : kids[j] \in S
    BY <1>1, ElementOfSeq
  <2> QED
    BY <1>1, <2>1, SubSeqProperties
<1>4. /\ v \in Seq(S) /\ Len(v) = Len(kids) - b
      /\ \A j \in 1 .. Len(kids) - b : v[j] = kids[b + j]
  <2>1. b + 1 \in 1 .. Len(kids) + 1 /\ Len(kids) \in (b + 1) - 1 .. Len(kids)
    BY <1>1
  <2>2. /\ v \in Seq(S) /\ Len(v) = Len(kids) - (b + 1) + 1
        /\ \A j \in 1 .. Len(kids) - (b + 1) + 1 : v[j] = kids[(b + 1) + j - 1]
    BY <2>1, SubSeqIs
  <2>3. /\ Len(kids) - (b + 1) + 1 = Len(kids) - b
        /\ \A j \in 1 .. Len(kids) - b : (b + 1) + j - 1 = b + j
    BY <1>1
  <2> HIDE DEF v
  <2> QED
    BY <2>2, <2>3
<1>5. s = u \o v
  BY <1>2 DEF Without
<1> HIDE DEF u, v
<1>6. /\ u \o v \in Seq(S) /\ Len(u \o v) = Len(u) + Len(v)
      /\ \A j \in 1 .. Len(u) + Len(v) :
           (u \o v)[j] = IF j <= Len(u) THEN u[j] ELSE v[j - Len(u)]
  BY <1>3, <1>4, ConcatProperties
<1>7. Len(u) + Len(v) = Len(kids) - (b - a + 1)
  BY <1>1, <1>3, <1>4
<1>8. ASSUME NEW i \in 1 .. a - 1
      PROVE  s[i] = kids[i]
  <2>1. i \in 1 .. Len(u) + Len(v) /\ i <= Len(u)
    BY <1>1, <1>3, <1>4
  <2> QED
    BY <2>1, <1>3, <1>5, <1>6
<1>9. ASSUME NEW i \in a .. Len(kids) - (b - a + 1)
      PROVE  s[i] = kids[i + (b - a + 1)]
  <2> DEFINE m == i - Len(u)
  <2>1. i \in 1 .. Len(u) + Len(v) /\ ~(i <= Len(u)) /\ m \in 1 .. Len(kids) - b
        /\ b + m = i + (b - a + 1)
    BY <1>1, <1>3, <1>4
  <2>2. (u \o v)[i] = v[m]
    BY <2>1, <1>6
  <2>3. v[m] = kids[b + m]
    <3> HIDE DEF m
    <3> QED
      BY <2>1, <1>4
  <2> QED
    BY <2>1, <2>2, <2>3, <1>5
<1>10. DOMAIN s = 1 .. Len(s)
  BY <1>5, <1>6, LenProperties
<1>11. s \in Seq(S) /\ Len(s) = Len(kids) - n /\ n \in Nat
  <2>1. s \in Seq(S) /\ Len(s) = Len(u) + Len(v)
    BY <1>5, <1>6
  <2>2. n \in Nat /\ Len(u) + Len(v) = Len(kids) - n
    BY <1>1, <1>7
  <2> QED
    BY <2>1, <2>2
<1>12. \A i \in a .. Len(kids) - n : s[i] = kids[i + n]
  BY <1>9
<1> QED
  BY <1>1, <1>8, <1>10, <1>11, <1>12 DEF TakesOut

(* RemoveAt takes out one row.                                             *)
LEMMA RemoveAtIs ==
  ASSUME NEW S, NEW kids \in Seq(S), NEW i \in 1 .. Len(kids)
  PROVE  RemoveAt(kids, i) = Without(kids, i .. i)
<1>1. Min(i .. i) = i /\ Max(i .. i) = i
  <2>1. \A x \in i .. i : x = i
    OBVIOUS
  <2>2. i \in i .. i /\ \A x \in i .. i : i <= x /\ i >= x
    OBVIOUS
  <2> QED
    BY <2>1, <2>2 DEF Min, Max
<1> QED
  BY <1>1 DEF RemoveAt, Without

-----------------------------------------------------------------------------
(* The levels of a document; what the schema's operators give. *)

(* The nodes of a document by their depth, for the element names of the    *)
(* session: the root, its children, theirs, and below them what addNode    *)
(* and addNodeModel put there, which has no identifiers.                   *)
AllNames == DOMAIN Types \cup {Comment}
AnyId    == Id \cup {NoId}
Bare     == Nodes(AllNames, {NoId}, {})
Deep     == Nodes(AllNames, {NoId}, Bare)
Low      == Nodes(AllNames, AnyId, Deep)
Mid      == Nodes(AllNames, AnyId, Low)
Root     == Nodes(DOMAIN Types, AnyId, Mid)

(* New elements called n, with new children of the type of n below them.   *)
Fresh(n) == Nodes({n}, {NoId}, {e \in Deep : e.name \in Names(Types[n])})

(* The types of a session are schema types over its element names.         *)
LEMMA TypesAre ==
  ASSUME ses \in Sessions, NEW n \in DOMAIN Types
  PROVE  /\ SchemaType(DOMAIN Types, Types[n])
         /\ Names(Types[n]) \subseteq DOMAIN Types
         /\ DOMAIN Types[n].desc = 1 .. Len(Types[n].desc)
         /\ Len(Types[n].desc) \in Nat
         /\ Comment \notin DOMAIN Types
         /\ \A i \in DOMAIN Types[n].desc :
              /\ Types[n].desc[i].name \in DOMAIN Types
              /\ Types[n].desc[i].min \in Nat
              /\ Types[n].desc[i].max \in Nat
<1>1. SchemaType(DOMAIN Types, Types[n]) /\ Comment \notin DOMAIN Types
  BY DeditorAssumption DEF Types
<1> DEFINE D == [name : DOMAIN Types, min : Nat, max : Nat, pos : Nat,
                 ratio : {"sequence", "choice", "all"}]
           desc == Types[n].desc
<1>2. desc \in Seq(D)
  BY <1>1 DEF SchemaType
<1>3. DOMAIN desc = 1 .. Len(desc) /\ Len(desc) \in Nat
  <2> HIDE DEF D, desc
  <2> QED
    BY <1>2, LenProperties
<1>4. \A i \in DOMAIN desc : desc[i] \in D
  <2> HIDE DEF D, desc
  <2> QED
    BY <1>2, <1>3, ElementOfSeq
<1>5. \A i \in DOMAIN desc : desc[i].name \in DOMAIN Types
                             /\ desc[i].min \in Nat /\ desc[i].max \in Nat
  BY <1>4
<1> QED
  BY <1>1, <1>3, <1>5 DEF Names

(* Sequences over a set joined one by one, the first i of them to f[i].    *)
Joining(f, seqs, S, L) ==
  /\ f[0] = <<>>
  /\ \A i \in 0 .. L : f[i] \in Seq(S)
  /\ \A i \in 1 .. L : f[i] = f[i - 1] \o seqs[i]

LEMMA FlattenSeqIs ==
  ASSUME NEW S, NEW seqs \in Seq(Seq(S)), NEW L, L = Len(seqs)
  PROVE  \E f : Joining(f, seqs, S, L) /\ FlattenSeq(seqs) = f[L]
<1> DEFINE X == Seq(S)
           G == [p \in Nat \X X |-> IF p[1] \in 1 .. L THEN p[2] \o seqs[p[1]] ELSE p[2]]
<1>1. L \in Nat /\ \A i \in 1 .. L : seqs[i] \in Seq(S)
  BY LenProperties, ElementOfSeq
<1>2. G \in [Nat \X X -> X]
  <2>1. ASSUME NEW p \in Nat \X X
        PROVE  (IF p[1] \in 1 .. L THEN p[2] \o seqs[p[1]] ELSE p[2]) \in X
    <3>1. p[2] \in X /\ p[1] \in Nat
      OBVIOUS
    <3>2. CASE p[1] \in 1 .. L
      <4>1. seqs[p[1]] \in X
        BY <1>1, <3>2
      <4>2. p[2] \o seqs[p[1]] \in X
        BY <3>1, <4>1, ConcatProperties
      <4> QED
        BY <3>2, <4>2
    <3> QED
      BY <3>1, <3>2
  <2> HIDE DEF X
  <2> QED
    BY <2>1
<1>3. <<>> \in X
  BY EmptySeq
<1>4. PICK f : IsRecursive(f, X, <<>>, G, L)
  <2>1. IsStep(G, X) /\ L \in Nat
    BY <1>1, <1>2 DEF IsStep
  <2> HIDE DEF G, X
  <2> QED
    BY <1>3, <2>1, RecursionExists
<1>5. ASSUME NEW i \in 1 .. L
      PROVE  f[i - 1] \in X /\ f[i] = f[i - 1] \o seqs[i]
  <2>1. i - 1 \in 0 .. L /\ i \in Nat
    BY <1>1
  <2>2. f[i - 1] \in X
    BY <1>4, <2>1 DEF IsRecursive
  <2>3. <<i, f[i - 1]>> \in Nat \X X
    BY <2>1, <2>2
  <2>4. G[<<i, f[i - 1]>>] = f[i - 1] \o seqs[i]
    BY <2>3
  <2> QED
    BY <1>4, <2>2, <2>4 DEF IsRecursive
<1> HIDE DEF G
<1>6. f[0] = <<>> /\ \A i \in 0 .. L : f[i] \in Seq(S)
  BY <1>4 DEF IsRecursive
<1>7. Joining(f, seqs, S, L)
  BY <1>5, <1>6 DEF Joining
<1>8. CASE L = 0
  <2>1. seqs = <<>>
    BY <1>8, EmptySeq
  <2>2. FlattenSeq(seqs) = seqs
    BY <1>8 DEF FlattenSeq
  <2> QED
    BY <1>6, <1>7, <1>8, <2>1, <2>2
<1>9. CASE L # 0
  <2> DEFINE Joined(g) == [i \in 1 .. L |-> IF i = 1 THEN seqs[i] ELSE g[i - 1] \o seqs[i]]
             flatten == CHOOSE g : g = Joined(g)
             h == [i \in 1 .. L |-> f[i]]
  <2>1. f[1] = seqs[1]
    <3>1. 1 \in 1 .. L
      BY <1>1, <1>9
    <3>2. f[1] = f[1 - 1] \o seqs[1]
      BY <1>5, <3>1
    <3>3. f[1] = <<>> \o seqs[1]
      <4>1. 1 - 1 = 0
        OBVIOUS
      <4> QED
        BY <1>6, <3>2, <4>1
    <3> QED
      BY <1>1, <3>1, <3>3, ConcatEmptySeq
  <2>2. h = Joined(h)
    <3> SUFFICES ASSUME NEW i \in 1 .. L
                 PROVE  f[i] = IF i = 1 THEN seqs[i] ELSE h[i - 1] \o seqs[i]
      OBVIOUS
    <3>1. CASE i = 1
      BY <3>1, <2>1
    <3>2. CASE i # 1
      <4>1. i - 1 \in 1 .. L
        BY <1>1, <3>2
      <4>2. h[i - 1] = f[i - 1]
        BY <4>1
      <4> QED
        BY <1>5, <3>2, <4>2
    <3> QED
      BY <3>1, <3>2
  <2>3. flatten = Joined(flatten)
    <3> HIDE DEF h, Joined
    <3> QED
      BY <2>2
  <2>4. FlattenSeq(seqs) = flatten[L]
    BY <1>9 DEF FlattenSeq
  <2> HIDE DEF flatten
  <2>5. \A i \in 1 .. L : flatten[i] = IF i = 1 THEN seqs[i] ELSE flatten[i - 1] \o seqs[i]
    BY <2>3
  <2> DEFINE Good == {i \in 0 .. L : i # 0 => flatten[i] = f[i]}
  <2>6. 0 \in Good
    BY <1>1
  <2>7. ASSUME NEW i \in 1 .. L, i - 1 \in Good
        PROVE  i \in Good
    <3>1. flatten[i] = f[i]
      <4>1. CASE i = 1
        BY <2>1, <2>5, <4>1
      <4>2. CASE i # 1
        <5>1. i - 1 # 0
          BY <4>2
        <5>2. flatten[i - 1] = f[i - 1]
          BY <2>7, <5>1
        <5> QED
          BY <1>5, <2>5, <4>2, <5>2
      <4> QED
        BY <4>1, <4>2
    <3> QED
      BY <1>1, <3>1
  <2>8. \A i \in 0 .. L : i \in Good
    <3> HIDE DEF Good
    <3> QED
      BY <1>1, <2>6, <2>7, StepByStep
  <2>9. L \in 0 .. L
    BY <1>1
  <2> QED
    BY <1>7, <1>9, <2>4, <2>8, <2>9
<1> QED
  BY <1>8, <1>9

(* What addNodeModel appends has names the type declares.                  *)
LEMMA MandatoryIs ==
  ASSUME ses \in Sessions, NEW n \in DOMAIN Types, NEW ks
  PROVE  Mandatory(Types[n], ks) \in Seq(Names(Types[n]))
<1> DEFINE T == Types[n]
           S == Names(T)
           open == {i \in DOMAIN T.desc : T.desc[i].min > 0 /\ Room(ks, T.desc[i])}
           of(i) == Repeat(T.desc[i].name, T.desc[i].min)
           parts == [i \in DOMAIN T.desc |-> IF i \in open THEN of(i) ELSE <<>>]
<1>1. /\ DOMAIN T.desc = 1 .. Len(T.desc) /\ Len(T.desc) \in Nat
      /\ \A i \in DOMAIN T.desc : T.desc[i].min \in Nat
  BY TypesAre
<1>2. \A i \in DOMAIN T.desc : T.desc[i].name \in S
  BY DEF Names
<1> HIDE DEF T, S
<1>3. <<>> \in Seq(S)
  BY EmptySeq
<1>4. ASSUME NEW i \in DOMAIN T.desc
      PROVE  of(i) \in Seq(S)
  <2>1. T.desc[i].min \in Nat /\ T.desc[i].name \in S
    BY <1>1, <1>2
  <2> DEFINE x == T.desc[i].name
             m == T.desc[i].min
  <2>2. [j \in 1 .. m |-> x] \in Seq(S)
    <3>1. x \in S /\ m \in Nat
      BY <2>1
    <3> HIDE DEF x, m
    <3> QED
      BY <3>1
  <2> QED
    BY <2>2 DEF Repeat
<1>5. Mandatory(T, ks) = IF T.ratio # "choice" THEN FlattenSeq(parts)
                         ELSE IF MayBeEmpty(T) \/ open = {} THEN <<>> ELSE of(Min(open))
  BY DEF Mandatory
<1>6. FlattenSeq(parts) \in Seq(S)
  <2>1. \A i \in 1 .. Len(T.desc) : parts[i] \in Seq(S)
    BY <1>1, <1>3, <1>4
  <2>2. parts = [i \in 1 .. Len(T.desc) |-> parts[i]]
    BY <1>1
  <2> HIDE DEF parts
  <2>3. parts \in Seq(Seq(S))
    <3> DEFINE k == Len(T.desc)
    <3>1. k \in Nat /\ parts = [i \in 1 .. k |-> parts[i]] /\ \A i \in 1 .. k : parts[i] \in Seq(S)
      BY <1>1, <2>1, <2>2
    <3> HIDE DEF k
    <3> QED
      BY <3>1
  <2>4. Len(parts) \in 0 .. Len(parts)
    BY <2>3, LenProperties
  <2>5. PICK f : Joining(f, parts, S, Len(parts)) /\ FlattenSeq(parts) = f[Len(parts)]
    BY <2>3, FlattenSeqIs
  <2> QED
    BY <2>4, <2>5 DEF Joining
<1>7. ASSUME open # {}
      PROVE  of(Min(open)) \in Seq(S)
  <2>1. open \in SUBSET Nat /\ \A i \in open : i \in DOMAIN T.desc
    BY <1>1
  <2>2. Min(open) \in open
    <3> HIDE DEF open
    <3>1. \E x \in open : \A y \in open : ~ (<<y, x>> \in OpToRel(<, Nat))
      BY <1>7, <2>1, NatLessThanWellFounded, WFMin
    <3>2. PICK x \in open : \A y \in open : ~ (y < x)
      BY <2>1, <3>1 DEF OpToRel
    <3>3. \A y \in open : x <= y
      BY <2>1, <3>2
    <3> QED
      BY <3>3 DEF Min
  <2> QED
    BY <1>4, <2>1, <2>2
<1>8. Mandatory(T, ks) \in Seq(S)
  <2> HIDE DEF parts, open, of
  <2> QED
    BY <1>3, <1>5, <1>6, <1>7
<1> QED
  BY <1>8 DEF T, S

-----------------------------------------------------------------------------
(* New elements. *)

(* The levels of a document: what fits deeper fits further up.             *)
LEMMA Levels ==
  /\ Bare \subseteq Deep /\ Deep \subseteq Low /\ Low \subseteq Mid
  /\ \A e \in Mid : e.kids \in Seq(Low)
  /\ \A e \in Low : e.kids \in Seq(Deep)
  /\ \A e \in Root : e.kids \in Seq(Mid)
<1>1. ASSUME NEW names, NEW ids, NEW more, NEW A, NEW B, A \subseteq B, ids \subseteq more
      PROVE  Nodes(names, ids, A) \subseteq Nodes(names, more, B)
  <2> SUFFICES ASSUME NEW e \in Nodes(names, ids, A)
               PROVE  e \in Nodes(names, more, B)
    OBVIOUS
  <2>1. e.kids \in Seq(A)
    BY DEF Nodes
  <2>2. e.kids \in Seq(B)
    BY <1>1, <2>1, SeqMonotonic
  <2> QED
    BY <1>1, <2>2 DEF Nodes
<1>2. {} \subseteq Bare /\ {NoId} \subseteq {NoId} /\ {NoId} \subseteq AnyId
      /\ AnyId \subseteq AnyId
  BY DEF AnyId
<1>3. Bare \subseteq Deep
  BY <1>1, <1>2 DEF Bare, Deep
<1>4. Deep \subseteq Low
  BY <1>1, <1>2, <1>3 DEF Deep, Low
<1>5. Low \subseteq Mid
  BY <1>1, <1>2, <1>4 DEF Low, Mid
<1>6. /\ \A e \in Mid : e.kids \in Seq(Low)
      /\ \A e \in Low : e.kids \in Seq(Deep)
      /\ \A e \in Root : e.kids \in Seq(Mid)
  BY DEF Mid, Low, Root, Nodes
<1> QED
  BY <1>3, <1>4, <1>5, <1>6

(* A new element is fit for any level and has no identifiers in it.        *)
LEMMA FreshIs ==
  ASSUME ses \in Sessions, NEW n \in DOMAIN Types, NEW e \in Fresh(n)
  PROVE  /\ e \in Low /\ e \in Mid
         /\ e.name = n /\ n # Comment
         /\ IdsIn(e) = {}
         /\ \A i \in DOMAIN e.kids : e.kids[i].id = NoId /\ e.kids[i].name \in Names(Types[n])
<1> DEFINE K == {k \in Deep : k.name \in Names(Types[n])}
<1>1. e.name = n /\ e.id = NoId /\ e.kids \in Seq(K) /\ e.att \in 0 .. 2
      /\ e = [name |-> e.name, id |-> e.id, att |-> e.att, kids |-> e.kids]
  BY DEF Fresh, Nodes
<1>2. e.kids \in Seq(Deep)
  BY <1>1, SeqMonotonic
<1>3. n # Comment
  BY TypesAre
<1>4. e \in Low
  BY <1>1, <1>2 DEF Low, Nodes, AllNames, AnyId
<1>5. \A i \in DOMAIN e.kids : e.kids[i] \in K
  <2> HIDE DEF K
  <2> QED
    BY <1>1, LenProperties, ElementOfSeq
<1>6. \A i \in DOMAIN e.kids : e.kids[i].id = NoId /\ e.kids[i].name \in Names(Types[n])
  BY <1>5 DEF Deep, Nodes
<1>7. IdsIn(e) = {}
  BY <1>1, <1>6 DEF IdsIn
<1> QED
  BY <1>1, <1>3, <1>4, <1>6, <1>7, Levels

(* A new element that has no children yet.                                 *)
LEMMA NewNodeIs ==
  ASSUME ses \in Sessions, NEW n \in DOMAIN Types
  PROVE  /\ NewNode(n) \in Bare /\ NewNode(n).name = n
         /\ NewNode(n).kids = <<>>
         /\ NewNode(n) \in Fresh(n)
         /\ NewNode(n) = [name |-> n, id |-> NoId, att |-> NewNode(n).att, kids |-> <<>>]
<1>1. NewNode(n).att \in 0 .. 2
  BY DeditorAssumption DEF NewNode
<1>2. <<>> \in Seq({}) /\ <<>> \in Seq({e \in Deep : e.name \in Names(Types[n])})
  BY EmptySeq
<1>3. NewNode(n) = [name |-> n, id |-> NoId, att |-> NewNode(n).att, kids |-> <<>>]
  BY DEF NewNode
<1> DEFINE a == NewNode(n).att
           K == {e \in Deep : e.name \in Names(Types[n])}
           r == [name |-> n, id |-> NoId, att |-> a, kids |-> <<>>]
<1>4. r \in Nodes({n}, {NoId}, K) /\ r \in Nodes(AllNames, {NoId}, {})
  <2> HIDE DEF a, K
  <2> QED
    BY <1>1, <1>2 DEF Nodes, AllNames, a, K
<1>5. r.name = n /\ r.kids = <<>>
  OBVIOUS
<1>6. NewNode(n) = r
  BY <1>3
<1> HIDE DEF r, K
<1> QED
  BY <1>3, <1>4, <1>5, <1>6 DEF Fresh, Bare, K

(* addNodeModel makes of a new element a new element.                      *)
LEMMA GrownIs ==
  ASSUME ses \in Sessions, NEW n \in DOMAIN Types, NEW e \in Fresh(n)
  PROVE  Grown(e) \in Fresh(n)
<1> DEFINE kids(x) == Mandatory(TypeOf(x), KidNames(x))
           below(m) == LET q == kids(NewNode(m)) IN [i \in DOMAIN q |-> NewNode(q[i])]
           leaf(m) == [NewNode(m) EXCEPT !.kids = below(m)]
           new == kids(e)
           more == [i \in DOMAIN new |-> leaf(new[i])]
           K == {k \in Deep : k.name \in Names(Types[n])}
<1>1. e.name = n /\ e.id = NoId /\ e.kids \in Seq(K) /\ e.att \in 0 .. 2
      /\ e = [name |-> e.name, id |-> e.id, att |-> e.att, kids |-> e.kids]
  BY DEF Fresh, Nodes
<1>2. Grown(e) = [e EXCEPT !.kids = @ \o more]
  BY DEF Grown
<1>3. ASSUME NEW m \in DOMAIN Types
      PROVE  below(m) \in Seq(Bare)
  <2> DEFINE q == kids(NewNode(m))
             h == [i \in DOMAIN q |-> NewNode(q[i])]
  <2>1. q \in Seq(DOMAIN Types)
    <3>1. TypeOf(NewNode(m)) = Types[m]
      BY NewNodeIs DEF TypeOf
    <3>2. q \in Seq(Names(Types[m]))
      BY <3>1, MandatoryIs
    <3> HIDE DEF q
    <3> QED
      BY <3>2, TypesAre, SeqMonotonic
  <2> HIDE DEF q
  <2>2. DOMAIN q = 1 .. Len(q) /\ Len(q) \in Nat /\ \A i \in 1 .. Len(q) : q[i] \in DOMAIN Types
    BY <2>1, LenProperties, ElementOfSeq
  <2>3. \A i \in 1 .. Len(q) : NewNode(q[i]) \in Bare
    BY <2>2, NewNodeIs
  <2>4. \E l \in Nat : h = [i \in 1 .. l |-> h[i]] /\ \A i \in 1 .. l : h[i] \in Bare
    <3>1. h = [i \in 1 .. Len(q) |-> h[i]] /\ \A i \in 1 .. Len(q) : h[i] \in Bare
      BY <2>2, <2>3
    <3> QED
      BY <3>1, <2>2
  <2> HIDE DEF h
  <2>5. h \in Seq(Bare)
    BY <2>4
  <2> QED
    BY <2>5 DEF h, q
<1>4. ASSUME NEW m \in Names(Types[n])
      PROVE  leaf(m) \in K
  <2>1. m \in DOMAIN Types
    BY TypesAre
  <2>2. NewNode(m) = [name |-> m, id |-> NoId, att |-> NewNode(m).att, kids |-> <<>>]
        /\ NewNode(m) \in Bare
    BY <2>1, NewNodeIs
  <2>3. NewNode(m).att \in 0 .. 2
    BY <2>2 DEF Bare, Nodes
  <2>4. below(m) \in Seq(Bare)
    BY <1>3, <2>1
  <2> HIDE DEF below
  <2>5. leaf(m) = [name |-> m, id |-> NoId, att |-> NewNode(m).att, kids |-> below(m)]
    BY <2>2
  <2>6. leaf(m) \in Deep
    BY <2>1, <2>3, <2>4, <2>5 DEF Deep, Nodes, AllNames
  <2> QED
    BY <2>5, <2>6
<1>5. new \in Seq(Names(Types[n]))
  BY <1>1, MandatoryIs DEF TypeOf
<1> HIDE DEF leaf, new, below, K
<1>6. more \in Seq(K)
  <2>1. DOMAIN new = 1 .. Len(new) /\ Len(new) \in Nat
        /\ \A i \in 1 .. Len(new) : new[i] \in Names(Types[n])
    BY <1>5, LenProperties, ElementOfSeq
  <2>2. \E l \in Nat : more = [i \in 1 .. l |-> more[i]] /\ \A i \in 1 .. l : more[i] \in K
    <3>1. more = [i \in 1 .. Len(new) |-> more[i]] /\ \A i \in 1 .. Len(new) : more[i] \in K
      BY <2>1, <1>4
    <3> QED
      BY <3>1, <2>1
  <2> HIDE DEF more
  <2> QED
    BY <2>2
<1> HIDE DEF more
<1>7. e.kids \o more \in Seq(K)
  BY <1>1, <1>6, ConcatProperties
<1>8. Grown(e) = [name |-> n, id |-> NoId, att |-> e.att, kids |-> e.kids \o more]
  BY <1>1, <1>2
<1>9. Grown(e) \in Nodes({n}, {NoId}, K)
  BY <1>1, <1>7, <1>8 DEF Nodes
<1> QED
  BY <1>9 DEF Fresh, K

(* What addNode and replaceNode insert are new elements, each made of the  *)
(* one before.                                                             *)
OneByOne(s, n) ==
  \A i \in DOMAIN s : s[i] = IF i = 1 THEN Grown(NewNode(n)) ELSE Grown(s[i - 1])

LEMMA NewOnesAre ==
  ASSUME ses \in Sessions, NEW n \in DOMAIN Types, NEW k \in Nat
  PROVE  /\ NewOnes(n, k) \in Seq(Fresh(n))
         /\ Len(NewOnes(n, k)) = k
         /\ OneByOne(NewOnes(n, k), n)
<1> DEFINE X == Fresh(n)
           Ones(g) == [i \in 1 .. k |-> IF i = 1 THEN Grown(NewNode(n)) ELSE Grown(g[i - 1])]
           f == CHOOSE g : g = Ones(g)
           G == [p \in Nat \X X |-> Grown(p[2])]
<1>1. NewOnes(n, k) = f
  BY DEF NewOnes
<1>2. \A x \in X : Grown(x) \in X
  BY GrownIs
<1>3. NewNode(n) \in X
  BY NewNodeIs
<1> HIDE DEF X
<1>4. PICK h : IsRecursive(h, X, NewNode(n), G, k)
  <2>1. IsStep(G, X)
    BY <1>2 DEF IsStep
  <2> HIDE DEF G
  <2> QED
    BY <1>3, <2>1, RecursionExists
<1>5. ASSUME NEW i \in 1 .. k
      PROVE  h[i] = Grown(h[i - 1])
  <2>1. i \in Nat /\ h[i - 1] \in X
    BY <1>4 DEF IsRecursive
  <2>2. h[i] = G[<<i, h[i - 1]>>]
    BY <1>4 DEF IsRecursive
  <2>3. <<i, h[i - 1]>> \in Nat \X X
    BY <2>1
  <2> QED
    BY <2>2, <2>3
<1>6. h[0] = NewNode(n)
  BY <1>4 DEF IsRecursive
<1> DEFINE t == [i \in 1 .. k |-> h[i]]
<1>7. t = Ones(t)
  <2> SUFFICES ASSUME NEW i \in 1 .. k
               PROVE  h[i] = IF i = 1 THEN Grown(NewNode(n)) ELSE Grown(t[i - 1])
    OBVIOUS
  <2>1. CASE i = 1
    <3>1. i - 1 = 0
      BY <2>1
    <3> QED
      BY <2>1, <3>1, <1>5, <1>6
  <2>2. CASE i # 1
    <3>1. t[i - 1] = h[i - 1]
      BY <2>2
    <3> QED
      BY <2>2, <3>1, <1>5
  <2> QED
    BY <2>1, <2>2
<1>8. f = Ones(f)
  <2> HIDE DEF t, Ones
  <2> QED
    BY <1>7
<1> HIDE DEF f
<1>9. \A i \in 1 .. k : f[i] = IF i = 1 THEN Grown(NewNode(n)) ELSE Grown(f[i - 1])
  BY <1>8
<1>10. f = [i \in 1 .. k |-> f[i]]
  <2>1. DOMAIN f = 1 .. k /\ f = [i \in DOMAIN f |-> f[i]]
    BY <1>8
  <2> QED
    BY <2>1
<1> DEFINE Good == {i \in 0 .. k : i # 0 => f[i] \in X}
<1>11. 0 \in Good
  OBVIOUS
<1>12. ASSUME NEW i \in 1 .. k, i - 1 \in Good
       PROVE  i \in Good
  <2>1. CASE i = 1
    BY <2>1, <1>2, <1>3, <1>9
  <2>2. CASE i # 1
    <3>1. f[i - 1] \in X
      BY <1>12, <2>2
    <3> QED
      BY <2>2, <3>1, <1>2, <1>9
  <2> QED
    BY <2>1, <2>2
<1>13. \A i \in 0 .. k : i \in Good
  <2> HIDE DEF Good
  <2> QED
    BY <1>11, <1>12, StepByStep
<1>14. \A i \in 1 .. k : f[i] \in X
  BY <1>13
<1>15. f \in Seq(X) /\ Len(f) = k
  BY <1>10, <1>14
<1>16. OneByOne(f, n)
  <2>1. DOMAIN f = 1 .. k
    BY <1>10
  <2> QED
    BY <1>9, <2>1 DEF OneByOne
<1> QED
  BY <1>1, <1>15, <1>16 DEF X

-----------------------------------------------------------------------------
(* Identifiers. *)

(* The identifiers at and right below the elements of a sequence, and that *)
(* no two of them share one.                                               *)
KidIds(s) == UNION {IdsIn(s[i]) : i \in DOMAIN s}

Apart(s) == \A i, j \in DOMAIN s : i # j => IdsIn(s[i]) \cap IdsIn(s[j]) = {}

(* A child of the root as the session keeps it, and a document.            *)
Tidy(e) == Distinct(e) /\ (e.name = Comment => e.kids = <<>>)

TidyDoc(d) ==
  /\ d \in Root
  /\ Distinct(d)
  /\ \A i \in DOMAIN d.kids : Tidy(d.kids[i])

(* Distinct, of the sequence of the children.                              *)
LEMMA DistinctIs ==
  ASSUME NEW e
  PROVE  Distinct(e) <=> e.id \notin KidIds(e.kids) /\ Apart(e.kids)
  BY DEF Distinct, KidIds, Apart

(* Only a child of the root has identifiers below it.                      *)
LEMMA IdsAtLevels ==
  /\ \A e \in Deep : IdsIn(e) = {}
  /\ \A e \in Low : IdsIn(e) = {e.id} \ {NoId} /\ Distinct(e)
  /\ \A e \in Mid : IdsIn(e) = ({e.id} \cup KidIds(e.kids)) \ {NoId}
<1>1. ASSUME NEW e \in Deep
      PROVE  e.id = NoId /\ \A i \in DOMAIN e.kids : e.kids[i].id = NoId
  <2>1. e.id = NoId /\ e.kids \in Seq(Bare)
    BY DEF Deep, Nodes
  <2>2. \A i \in DOMAIN e.kids : e.kids[i] \in Bare
    BY <2>1, LenProperties, ElementOfSeq
  <2> QED
    BY <2>1, <2>2 DEF Bare, Nodes
<1>2. \A e \in Deep : IdsIn(e) = {}
  BY <1>1 DEF IdsIn
<1>3. ASSUME NEW e \in Low
      PROVE  IdsIn(e) = {e.id} \ {NoId} /\ Distinct(e)
  <2>1. e.kids \in Seq(Deep)
    BY DEF Low, Nodes
  <2>2. \A i \in DOMAIN e.kids : e.kids[i] \in Deep
    BY <2>1, LenProperties, ElementOfSeq
  <2>3. \A i \in DOMAIN e.kids : e.kids[i].id = NoId /\ IdsIn(e.kids[i]) = {}
    BY <2>2, <1>1, <1>2
  <2>4. Distinct(e)
    BY <2>3 DEF Distinct
  <2>5. IdsIn(e) = {e.id} \ {NoId}
    BY <2>3 DEF IdsIn
  <2> QED
    BY <2>4, <2>5
<1>4. ASSUME NEW e \in Mid
      PROVE  IdsIn(e) = ({e.id} \cup KidIds(e.kids)) \ {NoId}
  <2>1. e.kids \in Seq(Low)
    BY DEF Mid, Nodes
  <2>2. \A i \in DOMAIN e.kids : e.kids[i] \in Low
    BY <2>1, LenProperties, ElementOfSeq
  <2>3. \A i \in DOMAIN e.kids : IdsIn(e.kids[i]) = {e.kids[i].id} \ {NoId}
    BY <2>2, <1>3
  <2> QED
    BY <2>3 DEF IdsIn, KidIds
<1> QED
  BY <1>2, <1>3, <1>4

(* New elements are tidy and have no identifiers.                          *)
LEMMA FreshIsTidy ==
  ASSUME ses \in Sessions, NEW n \in DOMAIN Types, NEW e \in Fresh(n)
  PROVE  Tidy(e) /\ IdsIn(e) = {}
  BY FreshIs, IdsAtLevels DEF Tidy

(* Inserting new elements leaves the identifiers of the others.            *)
SameIds(ks, os, new) ==
  /\ KidIds(ks) = KidIds(os)
  /\ Apart(os) => Apart(ks)
  /\ \A i \in DOMAIN ks : \/ \E j \in DOMAIN os : ks[i] = os[j]
                          \/ \E j \in DOMAIN new : ks[i] = new[j]

LEMMA InsertKeepsIds ==
  ASSUME NEW S, NEW os \in Seq(S), NEW new \in Seq(S), NEW row \in 0 .. Len(os),
         \A i \in DOMAIN new : IdsIn(new[i]) = {}
  PROVE  SameIds(Insert(os, row, new), os, new)
<1> DEFINE ks == Insert(os, row, new)
           n == Len(new)
           old(i) == IF i <= row THEN i ELSE i - n
<1> HIDE DEF ks
<1>1. /\ Len(os) \in Nat /\ n \in Nat
      /\ DOMAIN os = 1 .. Len(os) /\ DOMAIN ks = 1 .. Len(os) + n /\ DOMAIN new = 1 .. n
      /\ \A i \in 1 .. row : ks[i] = os[i]
      /\ \A i \in row + 1 .. row + n : ks[i] = new[i - row]
      /\ \A i \in row + n + 1 .. Len(os) + n : ks[i] = os[i - n]
  <2>1. ks = Insert(os, row, new) /\ n = Len(new)
    BY DEF ks
  <2> HIDE DEF n
  <2>2. Inserts(ks, os, row, new, n)
    BY <2>1, InsertIs
  <2> QED
    BY <2>2 DEF Inserts
<1> HIDE DEF n
<1>2. ASSUME NEW i \in DOMAIN ks
      PROVE  \/ \E j \in DOMAIN new : ks[i] = new[j]
             \/ (i <= row \/ row + n < i) /\ old(i) \in DOMAIN os /\ ks[i] = os[old(i)]
  <2>1. CASE i <= row
    BY <1>1, <2>1
  <2>2. CASE row < i /\ i <= row + n
    <3>1. i - row \in DOMAIN new /\ i \in row + 1 .. row + n
      BY <1>1, <2>2
    <3>2. ks[i] = new[i - row]
      BY <3>1, <1>1
    <3> QED
      BY <3>1, <3>2
  <2>3. CASE row + n < i
    <3>1. i \in row + n + 1 .. Len(os) + n /\ ~(i <= row) /\ i - n \in DOMAIN os
      BY <1>1, <2>3
    <3>2. ks[i] = os[i - n]
      BY <3>1, <1>1
    <3> QED
      BY <3>1, <3>2, <2>3
  <2> QED
    BY <1>1, <2>1, <2>2, <2>3
<1>3. ASSUME NEW j \in DOMAIN os
      PROVE  \E i \in DOMAIN ks : ks[i] = os[j]
  <2>1. CASE j <= row
    BY <1>1, <2>1
  <2>2. CASE ~(j <= row)
    <3> DEFINE i == j + n
    <3>1. i \in row + n + 1 .. Len(os) + n /\ i \in DOMAIN ks /\ i - n = j
      BY <1>1, <2>2
    <3>2. ks[i] = os[i - n]
      <4> HIDE DEF i
      <4> QED
        BY <3>1, <1>1
    <3> QED
      BY <3>1, <3>2
  <2> QED
    BY <2>1, <2>2
<1>4. KidIds(ks) = KidIds(os)
  <2>1. \A i \in DOMAIN ks : IdsIn(ks[i]) = {} \/ \E j \in DOMAIN os : ks[i] = os[j]
    BY <1>2
  <2> QED
    BY <2>1, <1>3 DEF KidIds
<1>5. ASSUME Apart(os)
      PROVE  Apart(ks)
  <2> SUFFICES ASSUME NEW i \in DOMAIN ks, NEW j \in DOMAIN ks, i # j,
                      IdsIn(ks[i]) \cap IdsIn(ks[j]) # {}
               PROVE  FALSE
    BY DEF Apart
  <2>1. IdsIn(ks[i]) # {} /\ IdsIn(ks[j]) # {}
    OBVIOUS
  <2>2. (i <= row \/ row + n < i) /\ old(i) \in DOMAIN os /\ ks[i] = os[old(i)]
    BY <2>1, <1>2
  <2>3. (j <= row \/ row + n < j) /\ old(j) \in DOMAIN os /\ ks[j] = os[old(j)]
    BY <2>1, <1>2
  <2>4. old(i) # old(j)
    BY <1>1, <2>2, <2>3
  <2> HIDE DEF old
  <2> QED
    BY <1>5, <2>2, <2>3, <2>4 DEF Apart
<1>6. \A i \in DOMAIN ks : \/ \E j \in DOMAIN os : ks[i] = os[j]
                           \/ \E j \in DOMAIN new : ks[i] = new[j]
  BY <1>2
<1> QED
  BY <1>4, <1>5, <1>6 DEF ks, SameIds

(* The identifiers at some rows.                                           *)
IdsAt(s, R) == UNION {IdsIn(s[i]) : i \in R}

(* Removing rows takes away exactly the identifiers of these rows.         *)
FewerIds(ks, os, removed) ==
  /\ KidIds(os) = KidIds(ks) \cup removed
  /\ Apart(os) => Apart(ks) /\ removed \cap KidIds(ks) = {}
  /\ \A i \in DOMAIN ks : \E j \in DOMAIN os : ks[i] = os[j]

LEMMA WithoutKeepsIds ==
  ASSUME NEW S, NEW os \in Seq(S), NEW a \in 1 .. Len(os), NEW b \in a .. Len(os)
  PROVE  FewerIds(Without(os, a .. b), os, IdsAt(os, a .. b))
<1> DEFINE ks == Without(os, a .. b)
           n == b - a + 1
           old(i) == IF i < a THEN i ELSE i + n
           removed == UNION {IdsIn(os[i]) : i \in a .. b}
<1> HIDE DEF ks
<1>1. /\ Len(os) \in Nat /\ n \in Nat
      /\ DOMAIN os = 1 .. Len(os) /\ DOMAIN ks = 1 .. Len(os) - n
      /\ \A i \in 1 .. a - 1 : ks[i] = os[i]
      /\ \A i \in a .. Len(os) - n : ks[i] = os[i + n]
  <2>1. TakesOut(ks, os, a, n)
    BY WithoutIs DEF ks
  <2> QED
    BY <2>1 DEF TakesOut
<1>2. \A i \in DOMAIN ks : /\ old(i) \in DOMAIN os /\ old(i) \notin a .. b
                           /\ ks[i] = os[old(i)]
  <2> SUFFICES ASSUME NEW i \in DOMAIN ks
               PROVE  old(i) \in DOMAIN os /\ old(i) \notin a .. b /\ ks[i] = os[old(i)]
    OBVIOUS
  <2>1. CASE i < a
    BY <1>1, <2>1
  <2>2. CASE ~(i < a)
    <3>1. i \in a .. Len(os) - n /\ i + n \in DOMAIN os /\ i + n \notin a .. b
      BY <1>1, <2>2
    <3>2. ks[i] = os[i + n]
      <4> HIDE DEF n
      <4> QED
        BY <1>1, <3>1
    <3> QED
      BY <2>2, <3>1, <3>2
  <2> QED
    BY <2>1, <2>2
<1>3. ASSUME NEW j \in DOMAIN os, j \notin a .. b
      PROVE  \E i \in DOMAIN ks : ks[i] = os[j]
  <2>1. CASE j < a
    BY <1>1, <2>1
  <2>2. CASE ~(j < a)
    <3> DEFINE i == j - n
    <3>1. i \in a .. Len(os) - n /\ i \in DOMAIN ks /\ i + n = j
      BY <1>1, <1>3, <2>2
    <3>2. ks[i] = os[j]
      <4> HIDE DEF i, n
      <4> QED
        BY <1>1, <3>1
    <3> QED
      BY <3>1, <3>2
  <2> QED
    BY <2>1, <2>2
<1>4. \A i, j \in DOMAIN ks : i # j => old(i) # old(j)
  BY <1>1
<1>5. a .. b \subseteq DOMAIN os
  BY <1>1
<1> HIDE DEF n, old
<1>6. KidIds(os) = KidIds(ks) \cup removed
  <2>1. KidIds(ks) \subseteq KidIds(os)
    BY <1>2 DEF KidIds
  <2>2. removed \subseteq KidIds(os)
    BY <1>5 DEF KidIds
  <2>3. KidIds(os) \subseteq KidIds(ks) \cup removed
    BY <1>3 DEF KidIds
  <2> QED
    BY <2>1, <2>2, <2>3
<1>7. ASSUME Apart(os)
      PROVE  Apart(ks) /\ removed \cap KidIds(ks) = {}
  <2>1. Apart(ks)
    BY <1>2, <1>4, <1>7 DEF Apart
  <2>2. ASSUME NEW r \in a .. b, NEW i \in DOMAIN ks
        PROVE  IdsIn(os[r]) \cap IdsIn(ks[i]) = {}
    <3>1. r # old(i) /\ old(i) \in DOMAIN os /\ r \in DOMAIN os /\ ks[i] = os[old(i)]
      BY <1>2, <1>5
    <3> QED
      BY <3>1, <1>7 DEF Apart
  <2> QED
    BY <2>1, <2>2 DEF KidIds
<1>8. \A i \in DOMAIN ks : \E j \in DOMAIN os : ks[i] = os[j]
  BY <1>2
<1> QED
  BY <1>6, <1>7, <1>8 DEF ks, FewerIds, IdsAt

-----------------------------------------------------------------------------
(* The paths of a document and its identifiers. *)

(* Paths of the three lengths.                                             *)
LEMMA ShortPaths ==
  ASSUME NEW i, NEW j
  PROVE  /\ Len(<<>>) = 0 /\ Len(<<i>>) = 1 /\ Len(<<i, j>>) = 2
         /\ <<i>>[1] = i /\ <<i, j>>[1] = i /\ <<i, j>>[2] = j
         /\ <<>> \o <<i>> = <<i>> /\ <<i>> \o <<j>> = <<i, j>>
         /\ Front(<<i>>) = <<>> /\ Last(<<i>>) = i
         /\ Front(<<i, j>>) = <<i>> /\ Last(<<i, j>>) = j
         /\ <<i>> # <<>> /\ <<i, j>> # <<>>
<1> DEFINE S == {i, j}
<1>1. <<i>> \in Seq(S) /\ <<j>> \in Seq(S) /\ <<i, j>> \in Seq(S) /\ <<>> \in Seq(S)
  OBVIOUS
<1>2. /\ Len(<<>>) = 0 /\ Len(<<i>>) = 1 /\ Len(<<i, j>>) = 2
      /\ <<i>>[1] = i /\ <<i, j>>[1] = i /\ <<i, j>>[2] = j
      /\ <<i>> # <<>> /\ <<i, j>> # <<>>
  OBVIOUS
<1>3. <<>> \o <<i>> = <<i>>
  BY <1>1, ConcatEmptySeq
<1>4. <<i>> \o <<j>> = <<i, j>>
  <2> DEFINE c == <<i>> \o <<j>>
  <2>1. /\ c \in Seq(S) /\ Len(c) = Len(<<i>>) + Len(<<j>>)
        /\ \A k \in 1 .. Len(<<i>>) + Len(<<j>>) :
             c[k] = IF k <= Len(<<i>>) THEN <<i>>[k] ELSE <<j>>[k - Len(<<i>>)]
    BY <1>1, ConcatProperties
  <2> HIDE DEF c, S
  <2>2. Len(<<i>>) = 1 /\ Len(<<j>>) = 1 /\ <<i>>[1] = i /\ <<j>>[1] = j
    OBVIOUS
  <2>3. Len(c) = 2 /\ c[1] = i
    BY <2>1, <2>2
  <2>4. c[2] = <<j>>[2 - 1]
    BY <2>1, <2>2
  <2>5. 2 - 1 = 1
    OBVIOUS
  <2>6. c[2] = j
    BY <2>2, <2>4, <2>5
  <2>7. \A k \in 1 .. Len(c) : c[k] = <<i, j>>[k]
    BY <1>2, <2>3, <2>6
  <2>8. c = <<i, j>>
    BY <1>1, <1>2, <2>1, <2>3, <2>7, SeqEqual
  <2> QED
    BY <2>8 DEF c
<1>5. Front(<<i>>) = <<>> /\ Front(<<i, j>>) = <<i>>
  <2>1. SubSeq(<<i>>, 1, 0) = <<>>
    BY SubSeqEmpty
  <2>2. SubSeq(<<i, j>>, 1, 1) = <<i>>
    <3> DEFINE c == SubSeq(<<i, j>>, 1, 1)
    <3>1. \A k \in 1 .. 1 : <<i, j>>[k] \in S
      OBVIOUS
    <3> HIDE DEF S
    <3>2. /\ c \in Seq(S) /\ Len(c) = (IF 1 <= 1 THEN 1 - 1 + 1 ELSE 0)
          /\ \A k \in 1 .. 1 - 1 + 1 : c[k] = <<i, j>>[1 + k - 1]
      BY <3>1, SubSeqProperties
    <3> HIDE DEF c
    <3>3. Len(c) = 1 /\ c[1] = i
      <4>1. 1 - 1 + 1 = 1 /\ 1 + 1 - 1 = 1
        OBVIOUS
      <4>2. c[1] = <<i, j>>[1 + 1 - 1]
        BY <3>2, <4>1
      <4> QED
        BY <1>2, <3>2, <4>1, <4>2
    <3>4. \A k \in 1 .. Len(c) : c[k] = <<i>>[k]
      BY <1>2, <3>3
    <3>5. c = <<i>>
      BY <1>1, <1>2, <3>2, <3>3, <3>4, SeqEqual
    <3> QED
      BY <3>5 DEF c
  <2> QED
    BY <1>2, <2>1, <2>2 DEF Front
<1>6. Last(<<i>>) = i /\ Last(<<i, j>>) = j
  BY <1>2 DEF Last
<1> QED
  BY <1>2, <1>3, <1>4, <1>5, <1>6

(* What the paths of a document are and where they lead.                   *)
LEMMA PathsAre ==
  ASSUME NEW d
  PROVE  /\ At(d, <<>>) = d
         /\ \A i : At(d, <<i>>) = d.kids[i]
         /\ \A i, j : At(d, <<i, j>>) = d.kids[i].kids[j]
         /\ \A p : p \in Paths(d) <=>
              \/ p = <<>>
              \/ \E i \in DOMAIN d.kids :
                   /\ d.kids[i].name # Comment
                   /\ \/ p = <<i>>
                      \/ \E j \in DOMAIN d.kids[i].kids :
                           d.kids[i].kids[j].name # Comment /\ p = <<i, j>>
<1>1. At(d, <<>>) = d
  BY ShortPaths DEF At
<1>2. ASSUME NEW i
      PROVE  At(d, <<i>>) = d.kids[i]
  BY ShortPaths DEF At
<1>3. ASSUME NEW i, NEW j
      PROVE  At(d, <<i, j>>) = d.kids[i].kids[j]
  <2>1. Len(<<i, j>>) = 2 /\ <<i, j>>[1] = i /\ <<i, j>>[2] = j
    BY ShortPaths
  <2> QED
    BY <2>1 DEF At
<1> DEFINE Below(p) == {p \o <<i>> : i \in {j \in DOMAIN At(d, p).kids :
                                              At(d, p).kids[j].name # Comment}}
<1>4. Paths(d) = {<<>>} \cup Below(<<>>) \cup UNION {Below(p) : p \in Below(<<>>)}
  BY DEF Paths
<1>5. Below(<<>>) = {<<i>> : i \in {j \in DOMAIN d.kids : d.kids[j].name # Comment}}
  <2>1. \A i : <<>> \o <<i>> = <<i>>
    BY ShortPaths
  <2> QED
    BY <1>1, <2>1
<1>6. ASSUME NEW i
      PROVE  Below(<<i>>) = {<<i, j>> : j \in {k \in DOMAIN d.kids[i].kids :
                                                 d.kids[i].kids[k].name # Comment}}
  <2>1. \A j : <<i>> \o <<j>> = <<i, j>>
    BY ShortPaths
  <2> QED
    BY <1>2, <2>1
<1> HIDE DEF Below
<1>7. ASSUME NEW p
      PROVE  p \in Paths(d) <=>
              \/ p = <<>>
              \/ \E i \in DOMAIN d.kids :
                   /\ d.kids[i].name # Comment
                   /\ \/ p = <<i>>
                      \/ \E j \in DOMAIN d.kids[i].kids :
                           d.kids[i].kids[j].name # Comment /\ p = <<i, j>>
  <2>1. p \in Paths(d) <=> p = <<>> \/ p \in Below(<<>>) \/ \E q \in Below(<<>>) : p \in Below(q)
    BY <1>4
  <2>2. p \in Below(<<>>) <=> \E i \in DOMAIN d.kids : d.kids[i].name # Comment /\ p = <<i>>
    BY <1>5
  <2>3. (\E q \in Below(<<>>) : p \in Below(q)) <=>
          \E i \in DOMAIN d.kids : d.kids[i].name # Comment /\ p \in Below(<<i>>)
    BY <1>5
  <2>4. \A i : p \in Below(<<i>>) <=>
                 \E j \in DOMAIN d.kids[i].kids : d.kids[i].kids[j].name # Comment /\ p = <<i, j>>
    BY <1>6
  <2> QED
    BY <2>1, <2>2, <2>3, <2>4
<1> QED
  BY <1>1, <1>2, <1>3, <1>7

(* The elements of a document.                                             *)
LEMMA KidsAre ==
  ASSUME NEW d \in Root
  PROVE  /\ d.kids \in Seq(Mid)
         /\ \A i \in DOMAIN d.kids : /\ d.kids[i] \in Mid /\ d.kids[i].kids \in Seq(Low)
                                     /\ d.kids[i].name \in AllNames
                                     /\ \A j \in DOMAIN d.kids[i].kids :
                                          /\ d.kids[i].kids[j] \in Low
                                          /\ d.kids[i].kids[j].name \in AllNames
<1>1. d.kids \in Seq(Mid)
  BY DEF Root, Nodes
<1>2. ASSUME NEW i \in DOMAIN d.kids
      PROVE  d.kids[i] \in Mid
  BY <1>1, LenProperties, ElementOfSeq
<1>3. ASSUME NEW m \in Mid
      PROVE  m.kids \in Seq(Low) /\ m.name \in AllNames
  BY DEF Mid, Nodes
<1>4. ASSUME NEW m \in Mid, NEW j \in DOMAIN m.kids
      PROVE  m.kids[j] \in Low
  BY <1>3, LenProperties, ElementOfSeq
<1>5. ASSUME NEW m \in Low
      PROVE  m.name \in AllNames
  BY DEF Low, Nodes
<1> QED
  BY <1>1, <1>2, <1>3, <1>4, <1>5

(* The identifiers of a document.                                          *)
LEMMA DocIdsAre ==
  ASSUME NEW d, TidyDoc(d)
  PROVE  DocIds(d) = ({d.id} \cup KidIds(d.kids)) \ {NoId}
<1>1. d \in Root /\ \A i \in DOMAIN d.kids : d.kids[i].name = Comment => d.kids[i].kids = <<>>
  BY DEF TidyDoc, Tidy
<1>2. \A i \in DOMAIN d.kids :
        /\ d.kids[i] \in Mid
        /\ \A j \in DOMAIN d.kids[i].kids : d.kids[i].kids[j] \in Low
  BY <1>1, KidsAre
<1>3. NoId \notin KidIds(d.kids)
  BY DEF KidIds, IdsIn
<1>4. IdsIn(d) = ({d.id} \cup {d.kids[i].id : i \in DOMAIN d.kids}) \ {NoId}
  BY DEF IdsIn
<1>5. ASSUME NEW i \in DOMAIN d.kids
      PROVE  /\ IdsIn(d.kids[i]) = ({d.kids[i].id} \cup KidIds(d.kids[i].kids)) \ {NoId}
             /\ IdsIn(d.kids[i]) \subseteq KidIds(d.kids)
  BY <1>2, IdsAtLevels DEF KidIds
<1>6. ASSUME NEW p \in Paths(d)
      PROVE  IdsIn(At(d, p)) \subseteq ({d.id} \cup KidIds(d.kids)) \ {NoId}
  <2>1. CASE p = <<>>
    <3>1. \A i \in DOMAIN d.kids : d.kids[i].id # NoId => d.kids[i].id \in KidIds(d.kids)
      BY <1>5
    <3> QED
      BY <2>1, <3>1, <1>4, PathsAre
  <2>2. ASSUME NEW i \in DOMAIN d.kids, p = <<i>>
        PROVE  IdsIn(At(d, p)) \subseteq ({d.id} \cup KidIds(d.kids)) \ {NoId}
    BY <2>2, <1>3, <1>5, PathsAre
  <2>3. ASSUME NEW i \in DOMAIN d.kids, NEW j \in DOMAIN d.kids[i].kids, p = <<i, j>>
        PROVE  IdsIn(At(d, p)) \subseteq ({d.id} \cup KidIds(d.kids)) \ {NoId}
    <3>1. At(d, p) = d.kids[i].kids[j]
      BY <2>3, PathsAre
    <3>2. IdsIn(At(d, p)) \subseteq KidIds(d.kids[i].kids)
      BY <3>1 DEF KidIds
    <3>3. NoId \notin KidIds(d.kids[i].kids)
      BY DEF KidIds, IdsIn
    <3> QED
      BY <3>2, <3>3, <1>3, <1>5
  <2> QED
    BY <2>1, <2>2, <2>3, PathsAre
<1>7. IdsIn(d) \subseteq DocIds(d)
  <2>1. <<>> \in Paths(d) /\ At(d, <<>>) = d
    BY PathsAre
  <2> QED
    BY <2>1 DEF DocIds
<1>8. ASSUME NEW i \in DOMAIN d.kids
      PROVE  IdsIn(d.kids[i]) \subseteq DocIds(d)
  <2>1. CASE d.kids[i].name = Comment
    <3>1. d.kids[i].kids = <<>>
      BY <2>1, <1>1
    <3>2. KidIds(d.kids[i].kids) = {}
      <4>1. DOMAIN d.kids[i].kids = {}
        BY <3>1
      <4> QED
        BY <4>1 DEF KidIds
    <3>3. IdsIn(d.kids[i]) \subseteq IdsIn(d)
      BY <3>2, <1>4, <1>5
    <3> QED
      BY <3>3, <1>7
  <2>2. CASE d.kids[i].name # Comment
    <3>1. <<i>> \in Paths(d) /\ At(d, <<i>>) = d.kids[i]
      BY <2>2, PathsAre
    <3> QED
      BY <3>1 DEF DocIds
  <2> QED
    BY <2>1, <2>2
<1>9. DocIds(d) \subseteq ({d.id} \cup KidIds(d.kids)) \ {NoId}
  BY <1>6 DEF DocIds
<1>10. ({d.id} \cup KidIds(d.kids)) \ {NoId} \subseteq DocIds(d)
  BY <1>4, <1>7, <1>8 DEF KidIds
<1> QED
  BY <1>9, <1>10

-----------------------------------------------------------------------------
(* The children of one element replaced. *)

(* Where nodes are put and taken: under the root or under a child of it.   *)
KidLevel(p) == IF p = <<>> THEN Mid ELSE Low

Above(d) == {p \in Paths(d) : Len(p) <= 1}

LEMMA AboveIs ==
  ASSUME NEW d
  PROVE  \A p : p \in Above(d) <=>
           \/ p = <<>>
           \/ \E i \in DOMAIN d.kids : d.kids[i].name # Comment /\ p = <<i>>
<1>1. \A i, j : Len(<<>>) = 0 /\ Len(<<i>>) = 1 /\ Len(<<i, j>>) = 2
  OBVIOUS
<1>2. ASSUME NEW p
      PROVE  p \in Paths(d) <=>
              \/ p = <<>>
              \/ \E i \in DOMAIN d.kids :
                   /\ d.kids[i].name # Comment
                   /\ \/ p = <<i>>
                      \/ \E j \in DOMAIN d.kids[i].kids :
                           d.kids[i].kids[j].name # Comment /\ p = <<i, j>>
  BY PathsAre
<1> SUFFICES ASSUME NEW p
             PROVE  p \in Above(d) <=>
                      \/ p = <<>>
                      \/ \E i \in DOMAIN d.kids : d.kids[i].name # Comment /\ p = <<i>>
  OBVIOUS
<1>3. p \in Above(d) <=> p \in Paths(d) /\ Len(p) <= 1
  BY DEF Above
<1>4. \A i, j : p = <<i, j>> => ~(Len(p) <= 1)
  BY <1>1
<1>5. p = <<>> => Len(p) <= 1
  BY <1>1
<1>6. ASSUME NEW i, p = <<i>>
      PROVE  Len(p) <= 1
  BY <1>1, <1>6
<1>7. ASSUME p \in Above(d)
      PROVE  \/ p = <<>>
             \/ \E i \in DOMAIN d.kids : d.kids[i].name # Comment /\ p = <<i>>
  <2>1. p \in Paths(d) /\ Len(p) <= 1
    BY <1>3, <1>7
  <2>2. \/ p = <<>>
        \/ \E i \in DOMAIN d.kids :
             /\ d.kids[i].name # Comment
             /\ \/ p = <<i>>
                \/ \E j \in DOMAIN d.kids[i].kids :
                     d.kids[i].kids[j].name # Comment /\ p = <<i, j>>
    BY <1>2, <2>1, Zenon
  <2> QED
    BY <1>4, <2>1, <2>2, Zenon
<1>8. ASSUME \/ p = <<>>
             \/ \E i \in DOMAIN d.kids : d.kids[i].name # Comment /\ p = <<i>>
      PROVE  p \in Above(d)
  <2>1. Len(p) <= 1
    BY <1>5, <1>6, <1>8
  <2>2. p \in Paths(d)
    BY <1>2, <1>8, Zenon
  <2> QED
    BY <1>3, <2>1, <2>2, Zenon
<1> QED
  BY <1>7, <1>8, Zenon

(* The element at such a place.                                            *)
LEMMA ParentIs ==
  ASSUME ses \in Sessions, NEW d, TidyDoc(d), NEW p \in Above(d)
  PROVE  /\ At(d, p).kids \in Seq(KidLevel(p))
         /\ At(d, p).name \in DOMAIN Types
         /\ Apart(At(d, p).kids)
         /\ p \in Paths(d)
         /\ KidIds(At(d, p).kids) \subseteq DocIds(d)
<1>1. d \in Root /\ Distinct(d) /\ \A i \in DOMAIN d.kids : Distinct(d.kids[i])
  BY DEF TidyDoc, Tidy
<1>2. DocIds(d) = ({d.id} \cup KidIds(d.kids)) \ {NoId}
  BY DocIdsAre
<1>3. \A s : NoId \notin KidIds(s)
  BY DEF KidIds, IdsIn
<1>4. CASE p = <<>>
  <2>1. At(d, p) = d
    BY <1>4, PathsAre
  <2>2. d.kids \in Seq(Mid) /\ d.name \in DOMAIN Types
    BY <1>1 DEF Root, Nodes
  <2> QED
    BY <1>1, <1>2, <1>3, <1>4, <2>1, <2>2, DistinctIs DEF KidLevel, Above
<1>5. ASSUME NEW i \in DOMAIN d.kids, d.kids[i].name # Comment, p = <<i>>
      PROVE  /\ At(d, p).kids \in Seq(KidLevel(p))
             /\ At(d, p).name \in DOMAIN Types
             /\ Apart(At(d, p).kids)
             /\ KidIds(At(d, p).kids) \subseteq DocIds(d)
  <2>1. At(d, p) = d.kids[i] /\ p # <<>>
    BY <1>5, PathsAre, ShortPaths
  <2>2. d.kids[i] \in Mid /\ d.kids[i].kids \in Seq(Low) /\ d.kids[i].name \in AllNames
    BY <1>1, KidsAre
  <2>3. d.kids[i].name \in DOMAIN Types
    BY <2>2, <1>5 DEF AllNames
  <2>4. Apart(d.kids[i].kids)
    BY <1>1, DistinctIs
  <2>5. KidIds(d.kids[i].kids) \subseteq IdsIn(d.kids[i])
    BY <2>2, <1>3, IdsAtLevels
  <2>6. IdsIn(d.kids[i]) \subseteq KidIds(d.kids)
    BY DEF KidIds
  <2> QED
    BY <1>2, <1>3, <2>1, <2>2, <2>3, <2>4, <2>5, <2>6 DEF KidLevel
<1> QED
  BY <1>4, <1>5, AboveIs DEF Above

(* An element that is a child.                                             *)
LEMMA ChildIs ==
  ASSUME ses \in Sessions, NEW d, TidyDoc(d), NEW path \in Paths(d), path # <<>>
  PROVE  /\ Front(path) \in Above(d)
         /\ Last(path) \in DOMAIN At(d, Front(path)).kids
         /\ At(d, path) = At(d, Front(path)).kids[Last(path)]
         /\ At(d, path).name \in DOMAIN Types
         /\ At(d, path).name # Comment
<1>1. d \in Root
  BY DEF TidyDoc
<1>2. ASSUME NEW i \in DOMAIN d.kids, d.kids[i].name # Comment, path = <<i>>
      PROVE  /\ Front(path) \in Above(d)
             /\ Last(path) \in DOMAIN At(d, Front(path)).kids
             /\ At(d, path) = At(d, Front(path)).kids[Last(path)]
             /\ At(d, path).name \in DOMAIN Types
             /\ At(d, path).name # Comment
  <2>1. Front(path) = <<>> /\ Last(path) = i
    BY <1>2, ShortPaths
  <2>2. At(d, <<>>) = d /\ At(d, path) = d.kids[i]
    BY <1>2, PathsAre
  <2>3. d.kids[i].name \in AllNames
    BY <1>1, KidsAre
  <2> QED
    BY <1>2, <2>1, <2>2, <2>3, AboveIs DEF AllNames
<1>3. ASSUME NEW i \in DOMAIN d.kids, d.kids[i].name # Comment,
             NEW j \in DOMAIN d.kids[i].kids, d.kids[i].kids[j].name # Comment,
             path = <<i, j>>
      PROVE  /\ Front(path) \in Above(d)
             /\ Last(path) \in DOMAIN At(d, Front(path)).kids
             /\ At(d, path) = At(d, Front(path)).kids[Last(path)]
             /\ At(d, path).name \in DOMAIN Types
             /\ At(d, path).name # Comment
  <2>1. Front(path) = <<i>> /\ Last(path) = j
    BY <1>3, ShortPaths
  <2>2. At(d, <<i>>) = d.kids[i] /\ At(d, path) = d.kids[i].kids[j]
    BY <1>3, PathsAre
  <2>3. d.kids[i].kids[j].name \in AllNames
    BY <1>1, KidsAre
  <2> QED
    BY <1>3, <2>1, <2>2, <2>3, AboveIs DEF AllNames
<1> QED
  BY <1>2, <1>3, PathsAre

(* What becomes of a document when the children of one element are         *)
(* replaced, of a document that had all identifiers of the new ones there. *)
Replaced(d, e, os, ks) ==
  /\ TidyDoc(e)
  /\ DocIds(e) \subseteq DocIds(d)
  /\ DocIds(d) \ DocIds(e) \subseteq KidIds(os) \ KidIds(ks)
  /\ DocIds(e) \cap KidIds(os) \subseteq KidIds(ks)

LEMMA RootEdited ==
  ASSUME ses \in Sessions, NEW d, TidyDoc(d), NEW ks \in Seq(Mid),
         KidIds(ks) \subseteq KidIds(d.kids), Apart(ks),
         \A i \in DOMAIN ks : Tidy(ks[i]),
         NEW e, e = WithKids(d, <<>>, ks)
  PROVE  /\ Replaced(d, e, d.kids, ks)
         /\ e.kids = ks /\ e.name = d.name
<1>1. d \in Root /\ Distinct(d)
  BY DEF TidyDoc
<1>2. d = [name |-> d.name, id |-> d.id, att |-> d.att, kids |-> d.kids]
      /\ d.name \in DOMAIN Types /\ d.id \in AnyId /\ d.att \in 0 .. 2
  BY <1>1 DEF Root, Nodes
<1>3. e = [name |-> d.name, id |-> d.id, att |-> d.att, kids |-> ks]
  BY <1>2 DEF WithKids
<1>4. e.kids = ks /\ e.id = d.id /\ e.name = d.name
  BY <1>3
<1>5. e \in Root
  BY <1>2, <1>3 DEF Root, Nodes
<1>6. d.id \notin KidIds(d.kids)
  BY <1>1, DistinctIs
<1>7. Distinct(e)
  BY <1>4, <1>6, DistinctIs
<1>8. TidyDoc(e)
  BY <1>4, <1>5, <1>7 DEF TidyDoc
<1>9. /\ DocIds(d) = ({d.id} \cup KidIds(d.kids)) \ {NoId}
      /\ DocIds(e) = ({d.id} \cup KidIds(ks)) \ {NoId}
  BY <1>4, <1>8, DocIdsAre
<1> QED
  BY <1>4, <1>6, <1>8, <1>9 DEF Replaced

LEMMA ChildEdited ==
  ASSUME ses \in Sessions, NEW d, TidyDoc(d), NEW i \in DOMAIN d.kids,
         d.kids[i].name # Comment, NEW ks \in Seq(Low),
         KidIds(ks) \subseteq KidIds(d.kids[i].kids), Apart(ks),
         NEW e, e = WithKids(d, <<i>>, ks)
  PROVE  /\ Replaced(d, e, d.kids[i].kids, ks)
         /\ DOMAIN e.kids = DOMAIN d.kids /\ e.name = d.name
         /\ \A j \in DOMAIN d.kids :
              /\ e.kids[j].name = d.kids[j].name
              /\ e.kids[j].kids = IF j = i THEN ks ELSE d.kids[j].kids
<1> DEFINE c == d.kids[i]
           f == [c EXCEPT !.kids = ks]
           s == [d.kids EXCEPT ![i] = f]
<1>1. d \in Root /\ Distinct(d) /\ \A j \in DOMAIN d.kids : Tidy(d.kids[j])
  BY DEF TidyDoc
<1>2. d = [name |-> d.name, id |-> d.id, att |-> d.att, kids |-> d.kids]
      /\ d.name \in DOMAIN Types /\ d.id \in AnyId /\ d.att \in 0 .. 2
      /\ d.kids \in Seq(Mid)
  BY <1>1 DEF Root, Nodes
<1>3. <<i>> # <<>> /\ <<i>>[1] = i
  BY ShortPaths
<1>4. e = [d EXCEPT !.kids = s]
  BY <1>3 DEF WithKids
<1>5. c \in Mid /\ Distinct(c)
  BY <1>1, KidsAre DEF Tidy
<1>6. c = [name |-> c.name, id |-> c.id, att |-> c.att, kids |-> c.kids]
      /\ c.name \in AllNames /\ c.id \in AnyId /\ c.att \in 0 .. 2
  BY <1>5 DEF Mid, Nodes
<1>7. f = [name |-> c.name, id |-> c.id, att |-> c.att, kids |-> ks]
  BY <1>6
<1>8. f \in Mid
  BY <1>6, <1>7 DEF Mid, Nodes
<1>9. f.kids = ks /\ f.id = c.id /\ f.name = c.name
  BY <1>7
<1> HIDE DEF c, f
<1>10. s \in Seq(Mid) /\ DOMAIN s = DOMAIN d.kids
       /\ \A j \in DOMAIN d.kids : s[j] = IF j = i THEN f ELSE d.kids[j]
  <2>1. i \in 1 .. Len(d.kids) /\ DOMAIN d.kids = 1 .. Len(d.kids)
    BY <1>2, LenProperties
  <2> QED
    BY <1>2, <1>8, <2>1, ExceptSeq
<1> HIDE DEF s
<1>11. e = [name |-> d.name, id |-> d.id, att |-> d.att, kids |-> s]
  BY <1>2, <1>4
<1>12. e.kids = s /\ e.id = d.id /\ e.name = d.name
  BY <1>11
<1>13. e \in Root
  BY <1>2, <1>10, <1>11 DEF Root, Nodes
<1>14. c.id \notin KidIds(c.kids)
  BY <1>5, DistinctIs
<1>15. /\ IdsIn(c) = ({c.id} \cup KidIds(c.kids)) \ {NoId}
       /\ IdsIn(f) = ({c.id} \cup KidIds(ks)) \ {NoId}
  BY <1>5, <1>8, <1>9, IdsAtLevels
<1>16. KidIds(ks) \subseteq KidIds(c.kids)
  BY DEF c
<1>17. IdsIn(f) \subseteq IdsIn(c)
  BY <1>15, <1>16
<1>18. \A j \in DOMAIN s : IdsIn(s[j]) \subseteq IdsIn(d.kids[j])
  BY <1>10, <1>17 DEF c
<1>19. Apart(d.kids) /\ d.id \notin KidIds(d.kids)
  BY <1>1, DistinctIs
<1>20. Apart(s)
  BY <1>10, <1>18, <1>19 DEF Apart
<1>21. KidIds(s) \subseteq KidIds(d.kids)
  BY <1>10, <1>18 DEF KidIds
<1>22. Distinct(e)
  BY <1>12, <1>19, <1>20, <1>21, DistinctIs
<1>23. Tidy(f)
  <2>1. Distinct(f)
    BY <1>9, <1>14, <1>16, DistinctIs
  <2>2. f.name # Comment
    BY <1>9 DEF c
  <2> QED
    BY <2>1, <2>2 DEF Tidy
<1>24. TidyDoc(e)
  BY <1>1, <1>10, <1>12, <1>13, <1>22, <1>23 DEF TidyDoc
<1>25. /\ DocIds(d) = ({d.id} \cup KidIds(d.kids)) \ {NoId}
       /\ DocIds(e) = ({d.id} \cup KidIds(s)) \ {NoId}
  BY <1>12, <1>24, DocIdsAre
<1>26. KidIds(d.kids) \ KidIds(s) \subseteq IdsIn(c) \ IdsIn(f)
  <2> SUFFICES ASSUME NEW x \in KidIds(d.kids), x \notin KidIds(s)
               PROVE  x \in IdsIn(c) \ IdsIn(f)
    OBVIOUS
  <2>1. PICK j \in DOMAIN d.kids : x \in IdsIn(d.kids[j])
    BY DEF KidIds
  <2>2. x \notin IdsIn(s[j])
    BY <1>10 DEF KidIds
  <2>3. j = i
    BY <1>10, <2>1, <2>2
  <2> QED
    BY <1>10, <2>1, <2>2, <2>3 DEF c
<1>27. IdsIn(c) \ IdsIn(f) \subseteq KidIds(c.kids) \ KidIds(ks)
  BY <1>15
<1>28. KidIds(s) \cap KidIds(c.kids) \subseteq KidIds(ks)
  <2> SUFFICES ASSUME NEW x \in KidIds(s), x \in KidIds(c.kids)
               PROVE  x \in KidIds(ks)
    OBVIOUS
  <2>1. PICK j \in DOMAIN d.kids : x \in IdsIn(s[j])
    BY <1>10 DEF KidIds
  <2>2. x # NoId
    BY <2>1 DEF IdsIn
  <2>3. x \in IdsIn(d.kids[i])
    BY <1>15, <2>2 DEF c
  <2>4. x \in IdsIn(d.kids[j])
    BY <1>10, <1>18, <2>1
  <2>5. j = i
    BY <1>19, <2>3, <2>4 DEF Apart
  <2>6. x \in IdsIn(f)
    BY <1>10, <2>1, <2>5
  <2> QED
    BY <1>14, <1>15, <2>6
<1>29. d.id \notin KidIds(c.kids) \/ d.id = NoId
  <2>1. KidIds(c.kids) \subseteq IdsIn(c) \cup {NoId}
    BY <1>15
  <2>2. IdsIn(c) \subseteq KidIds(d.kids)
    BY DEF KidIds, c
  <2> QED
    BY <1>19, <2>1, <2>2
<1>30. Replaced(d, e, c.kids, ks)
  <2>1. DocIds(e) \subseteq DocIds(d)
    BY <1>21, <1>25
  <2>2. DocIds(d) \ DocIds(e) \subseteq KidIds(c.kids) \ KidIds(ks)
    BY <1>25, <1>26, <1>27
  <2>3. DocIds(e) \cap KidIds(c.kids) \subseteq KidIds(ks)
    BY <1>25, <1>28, <1>29
  <2> QED
    BY <1>24, <2>1, <2>2, <2>3 DEF Replaced
<1>31. \A j \in DOMAIN d.kids :
              /\ e.kids[j].name = d.kids[j].name
              /\ e.kids[j].kids = IF j = i THEN ks ELSE d.kids[j].kids
  BY <1>9, <1>10, <1>12 DEF c
<1> QED
  BY <1>10, <1>12, <1>30, <1>31 DEF c

-----------------------------------------------------------------------------
(* Where the current index goes. *)

(* Where the current index goes when k rows come in behind the given row:  *)
(* of the root, of child i, of grandchild j of i; m is the parent.         *)
ShiftsTo(i, j, m, row, k) ==
  /\ Shifted(<<>>, <<>>, row, k) = <<>>
  /\ Shifted(<<>>, <<m>>, row, k) = <<>>
  /\ Shifted(<<i>>, <<>>, row, k) = IF i > row THEN <<i + k>> ELSE <<i>>
  /\ Shifted(<<i, j>>, <<>>, row, k) = IF i > row THEN <<i + k, j>> ELSE <<i, j>>
  /\ Shifted(<<i>>, <<m>>, row, k) = <<i>>
  /\ Shifted(<<i, j>>, <<m>>, row, k) = IF i = m /\ j > row THEN <<i, j + k>> ELSE <<i, j>>

LEMMA ShiftedIs ==
  ASSUME NEW i \in Nat, NEW j \in Nat, NEW m \in Nat, NEW row \in Nat, NEW k \in Nat
  PROVE  ShiftsTo(i, j, m, row, k)
<1>1. /\ Len(<<>>) = 0 /\ Len(<<i>>) = 1 /\ Len(<<m>>) = 1 /\ Len(<<i, j>>) = 2
      /\ <<i>>[1] = i /\ <<i, j>>[1] = i /\ <<i, j>>[2] = j
  BY ShortPaths
<1>2. \A s : SubSeq(s, 1, 0) = <<>>
  BY SubSeqEmpty
<1>3. SubSeq(<<i, j>>, 1, 1) = <<i>> /\ SubSeq(<<m>>, 1, 1) = <<m>>
  <2>1. Front(<<i, j>>) = <<i>> /\ Len(<<i, j>>) - 1 = 1
    <3>1. Len(<<i, j>>) - 1 = 1
      BY <1>1
    <3> QED
      BY <3>1, ShortPaths
  <2>2. SubSeq(<<i, j>>, 1, 1) = <<i>>
    BY <2>1 DEF Front
  <2>3. SubSeq(<<m>>, 1, Len(<<m>>)) = <<m>>
    <3>1. <<m>> \in Seq(Nat)
      OBVIOUS
    <3> QED
      BY <3>1, SubSeqFull
  <2> QED
    BY <1>1, <2>2, <2>3
<1>4. /\ IsPrefix(<<>>, <<>>) /\ IsPrefix(<<>>, <<i>>) /\ IsPrefix(<<>>, <<i, j>>)
      /\ IsPrefix(<<m>>, <<i, j>>) <=> <<m>> = <<i>>
  BY <1>1, <1>2, <1>3 DEF IsPrefix
<1>5. <<m>> = <<i>> <=> m = i
  OBVIOUS
<1>6. /\ 0 + 1 = 1 /\ 1 + 1 = 2 /\ 1 > 0 /\ 2 > 0 /\ 2 > 1 /\ ~(0 > 0) /\ ~(0 > 1) /\ ~(1 > 1)
  OBVIOUS
<1>7. [<<i>> EXCEPT ![1] = @ + k] = <<i + k>>
  <2> DEFINE c == [<<i>> EXCEPT ![1] = @ + k]
  <2>1. <<i>> \in Seq(Nat) /\ 1 \in 1 .. Len(<<i>>) /\ i + k \in Nat /\ <<i + k>> \in Seq(Nat)
    BY <1>1
  <2>2. c = [<<i>> EXCEPT ![1] = i + k]
    OBVIOUS
  <2>3. /\ c \in Seq(Nat) /\ Len(c) = 1
        /\ \A l \in 1 .. 1 : c[l] = IF l = 1 THEN i + k ELSE <<i>>[l]
    BY <1>1, <2>1, <2>2, ExceptSeq
  <2> HIDE DEF c
  <2>4. Len(<<i + k>>) = 1 /\ <<i + k>>[1] = i + k
    OBVIOUS
  <2>5. \A l \in 1 .. 1 : c[l] = <<i + k>>[l]
    BY <2>3, <2>4
  <2>6. c = <<i + k>>
    BY <2>1, <2>3, <2>4, <2>5, SeqEqual
  <2> QED
    BY <2>6 DEF c
<1>8. [<<i, j>> EXCEPT ![1] = @ + k] = <<i + k, j>>
  <2> DEFINE c == [<<i, j>> EXCEPT ![1] = @ + k]
  <2>1. <<i, j>> \in Seq(Nat) /\ 1 \in 1 .. Len(<<i, j>>) /\ i + k \in Nat
        /\ <<i + k, j>> \in Seq(Nat)
    BY <1>1
  <2>2. c = [<<i, j>> EXCEPT ![1] = i + k]
    BY <1>1
  <2>3. /\ c \in Seq(Nat) /\ Len(c) = 2
        /\ \A l \in 1 .. 2 : c[l] = IF l = 1 THEN i + k ELSE <<i, j>>[l]
    BY <1>1, <2>1, <2>2, ExceptSeq
  <2> HIDE DEF c
  <2>4. Len(<<i + k, j>>) = 2 /\ <<i + k, j>>[1] = i + k /\ <<i + k, j>>[2] = j
    OBVIOUS
  <2>5. \A l \in 1 .. 2 : c[l] = <<i + k, j>>[l]
    BY <1>1, <2>3, <2>4
  <2>6. c = <<i + k, j>>
    BY <2>1, <2>3, <2>4, <2>5, SeqEqual
  <2> QED
    BY <2>6 DEF c
<1>9. [<<i, j>> EXCEPT ![2] = @ + k] = <<i, j + k>>
  <2> DEFINE c == [<<i, j>> EXCEPT ![2] = @ + k]
  <2>1. <<i, j>> \in Seq(Nat) /\ 2 \in 1 .. Len(<<i, j>>) /\ j + k \in Nat
        /\ <<i, j + k>> \in Seq(Nat)
    BY <1>1
  <2>2. c = [<<i, j>> EXCEPT ![2] = j + k]
    BY <1>1
  <2>3. /\ c \in Seq(Nat) /\ Len(c) = 2
        /\ \A l \in 1 .. 2 : c[l] = IF l = 2 THEN j + k ELSE <<i, j>>[l]
    BY <1>1, <2>1, <2>2, ExceptSeq
  <2> HIDE DEF c
  <2>4. Len(<<i, j + k>>) = 2 /\ <<i, j + k>>[1] = i /\ <<i, j + k>>[2] = j + k
    OBVIOUS
  <2>5. \A l \in 1 .. 2 : c[l] = <<i, j + k>>[l]
    BY <1>1, <2>3, <2>4
  <2>6. c = <<i, j + k>>
    BY <2>1, <2>3, <2>4, <2>5, SeqEqual
  <2> QED
    BY <2>6 DEF c
<1>10. /\ Shifted(<<>>, <<>>, row, k) = <<>>
       /\ Shifted(<<>>, <<m>>, row, k) = <<>>
       /\ Shifted(<<i>>, <<m>>, row, k) = <<i>>
  BY <1>1, <1>6 DEF Shifted
<1>11. /\ Shifted(<<i>>, <<>>, row, k) = IF i > row THEN <<i + k>> ELSE <<i>>
       /\ Shifted(<<i, j>>, <<>>, row, k) = IF i > row THEN <<i + k, j>> ELSE <<i, j>>
  BY <1>1, <1>4, <1>6, <1>7, <1>8 DEF Shifted
<1>12. Shifted(<<i, j>>, <<m>>, row, k) = IF i = m /\ j > row THEN <<i, j + k>> ELSE <<i, j>>
  BY <1>1, <1>4, <1>5, <1>6, <1>9 DEF Shifted
<1> QED
  BY <1>10, <1>11, <1>12 DEF ShiftsTo

(* Children ks in the place of os, of which they are some, or new.         *)
MayReplace(ks, os) ==
  /\ KidIds(ks) \subseteq KidIds(os)
  /\ Apart(ks)
  /\ \A i \in DOMAIN ks : (\E j \in DOMAIN os : ks[i] = os[j]) \/ Tidy(ks[i])

Edited(d, e, p, os, ks) ==
  /\ Replaced(d, e, os, ks)
  /\ At(e, p).kids = ks /\ p \in Above(e) /\ e.name = d.name
  /\ p # <<>> => DOMAIN e.kids = DOMAIN d.kids
  /\ \A i \in DOMAIN d.kids : p # <<>> =>
       /\ e.kids[i].name = d.kids[i].name
       /\ p # <<i>> => e.kids[i].kids = d.kids[i].kids

(* Both places together: p is the root or a child of it.                   *)
LEMMA KidsEdited ==
  ASSUME ses \in Sessions, NEW d, TidyDoc(d), NEW p \in Above(d),
         NEW os, os = At(d, p).kids, NEW ks \in Seq(KidLevel(p)), MayReplace(ks, os),
         NEW e, e = WithKids(d, p, ks)
  PROVE  Edited(d, e, p, os, ks)
<1> USE DEF MayReplace
<1>1. CASE p = <<>>
  <2>1. os = d.kids /\ ks \in Seq(Mid)
    BY <1>1, PathsAre DEF KidLevel
  <2>2. \A i \in DOMAIN d.kids : Tidy(d.kids[i])
    BY DEF TidyDoc
  <2>3. \A i \in DOMAIN ks : Tidy(ks[i])
    BY <2>1, <2>2
  <2>4. Replaced(d, e, d.kids, ks) /\ e.kids = ks /\ e.name = d.name
    <3>1. e = WithKids(d, <<>>, ks)
      BY <1>1
    <3> QED
      BY <2>1, <2>3, <3>1, RootEdited
  <2>5. At(e, p) = e /\ p \in Above(e)
    BY <1>1, PathsAre, AboveIs
  <2> QED
    BY <1>1, <2>1, <2>4, <2>5 DEF Edited
<1>2. ASSUME NEW i \in DOMAIN d.kids, d.kids[i].name # Comment, p = <<i>>
      PROVE  Edited(d, e, p, os, ks)
  <2>1. p # <<>> /\ \A j : p = <<j>> <=> j = i
    BY <1>2, ShortPaths
  <2>2. os = d.kids[i].kids /\ ks \in Seq(Low)
    BY <1>2, <2>1, PathsAre DEF KidLevel
  <2>3. /\ Replaced(d, e, d.kids[i].kids, ks)
        /\ DOMAIN e.kids = DOMAIN d.kids /\ e.name = d.name
        /\ \A j \in DOMAIN d.kids :
             /\ e.kids[j].name = d.kids[j].name
             /\ e.kids[j].kids = IF j = i THEN ks ELSE d.kids[j].kids
    <3>1. e = WithKids(d, <<i>>, ks)
      BY <1>2
    <3> QED
      BY <1>2, <2>2, <3>1, ChildEdited
  <2>4. At(e, p) = e.kids[i] /\ p \in Above(e)
    <3>1. At(e, <<i>>) = e.kids[i]
      BY PathsAre
    <3>2. i \in DOMAIN e.kids /\ e.kids[i].name # Comment
      BY <1>2, <2>3
    <3>3. p \in Above(e)
      BY <1>2, <3>2, AboveIs
    <3> QED
      BY <1>2, <3>1, <3>3
  <2> QED
    BY <2>1, <2>2, <2>3, <2>4 DEF Edited
<1> QED
  BY <1>1, <1>2, AboveIs DEF Edited

(* Every place that held an element holds it still, where Qt moves it to.  *)
LEMMA InsertMovesPaths ==
  ASSUME ses \in Sessions, NEW d, TidyDoc(d), NEW p \in Above(d),
         NEW os, os = At(d, p).kids, NEW ks, NEW row \in 0 .. Len(os), NEW new, NEW k,
         Inserts(ks, os, row, new, k),
         NEW e, Edited(d, e, p, os, ks),
         NEW q \in Paths(d)
  PROVE  Shifted(q, p, row, k) \in Paths(e)
<1> USE DEF Edited
<1> DEFINE moved(i) == IF i > row THEN i + k ELSE i
<1>1. d \in Root
  BY DEF TidyDoc
<1>2. DOMAIN d.kids = 1 .. Len(d.kids) /\ Len(d.kids) \in Nat
  BY <1>1, KidsAre, LenProperties
<1>3. \A i \in DOMAIN d.kids : DOMAIN d.kids[i].kids = 1 .. Len(d.kids[i].kids)
                               /\ Len(d.kids[i].kids) \in Nat
  BY <1>1, KidsAre, LenProperties
<1>4. row \in Nat /\ k \in Nat /\ Len(os) \in Nat /\ DOMAIN os = 1 .. Len(os)
  BY DEF Inserts
<1>5. ASSUME NEW i \in DOMAIN os
      PROVE  moved(i) \in DOMAIN ks /\ ks[moved(i)] = os[i]
  <2>1. CASE i > row
    <3> DEFINE r == i + k
    <3>1. r \in row + k + 1 .. Len(os) + k /\ r - k = i /\ r \in DOMAIN ks
      BY <1>4, <2>1 DEF Inserts
    <3>2. ks[r] = os[r - k]
      <4> HIDE DEF r
      <4> QED
        BY <3>1 DEF Inserts
    <3> QED
      BY <2>1, <3>1, <3>2
  <2>2. CASE ~(i > row)
    BY <1>4, <2>2 DEF Inserts
  <2> QED
    BY <2>1, <2>2
<1>9. /\ \A i, j, m \in Nat : ShiftsTo(i, j, m, row, k)
      /\ 0 \in Nat
  BY <1>4, ShiftedIs
<1>6. CASE p = <<>>
  <2>1. os = d.kids /\ ks = e.kids
    BY <1>6, PathsAre
  <2>2. CASE q = <<>>
    <3>1. Shifted(q, p, row, k) = <<>>
      BY <1>6, <1>9, <2>2 DEF ShiftsTo
    <3> QED
      BY <3>1, PathsAre
  <2>3. ASSUME NEW i \in DOMAIN d.kids, d.kids[i].name # Comment, q = <<i>>
        PROVE  Shifted(q, p, row, k) \in Paths(e)
    <3>1. i \in Nat
      BY <1>2
    <3>2. Shifted(q, p, row, k) = <<moved(i)>>
      <4>1. ShiftsTo(i, 0, 0, row, k)
        BY <1>9, <3>1
      <4> QED
        BY <1>6, <2>3, <4>1 DEF ShiftsTo
    <3>3. moved(i) \in DOMAIN e.kids /\ e.kids[moved(i)] = d.kids[i]
      BY <1>5, <2>1
    <3> HIDE DEF moved
    <3> QED
      BY <2>3, <3>2, <3>3, PathsAre
  <2>4. ASSUME NEW i \in DOMAIN d.kids, d.kids[i].name # Comment,
               NEW j \in DOMAIN d.kids[i].kids, d.kids[i].kids[j].name # Comment,
               q = <<i, j>>
        PROVE  Shifted(q, p, row, k) \in Paths(e)
    <3>1. i \in Nat /\ j \in Nat
      BY <1>2, <1>3
    <3>2. Shifted(q, p, row, k) = <<moved(i), j>>
      <4>1. ShiftsTo(i, j, 0, row, k)
        BY <1>9, <3>1
      <4> QED
        BY <1>6, <2>4, <4>1 DEF ShiftsTo
    <3>3. moved(i) \in DOMAIN e.kids /\ e.kids[moved(i)] = d.kids[i]
      BY <1>5, <2>1
    <3> HIDE DEF moved
    <3> QED
      BY <2>4, <3>2, <3>3, PathsAre
  <2> QED
    BY <2>2, <2>3, <2>4, PathsAre
<1>7. ASSUME NEW m \in DOMAIN d.kids, d.kids[m].name # Comment, p = <<m>>
      PROVE  Shifted(q, p, row, k) \in Paths(e)
  <2>0. m \in Nat /\ p # <<>> /\ \A i : p = <<i>> <=> i = m
    BY <1>2, <1>7, ShortPaths
  <2>1. /\ os = d.kids[m].kids /\ ks = e.kids[m].kids
        /\ DOMAIN e.kids = DOMAIN d.kids
        /\ \A i \in DOMAIN d.kids :
             /\ e.kids[i].name = d.kids[i].name
             /\ i # m => e.kids[i].kids = d.kids[i].kids
    BY <1>7, <2>0, PathsAre
  <2>2. CASE q = <<>>
    <3>1. Shifted(q, p, row, k) = <<>>
      <4>1. ShiftsTo(0, 0, m, row, k)
        BY <1>9, <2>0
      <4> QED
        BY <1>7, <2>2, <4>1 DEF ShiftsTo
    <3> QED
      BY <3>1, PathsAre
  <2>3. ASSUME NEW i \in DOMAIN d.kids, d.kids[i].name # Comment, q = <<i>>
        PROVE  Shifted(q, p, row, k) \in Paths(e)
    <3>1. i \in Nat
      BY <1>2
    <3>2. Shifted(q, p, row, k) = <<i>>
      <4>1. ShiftsTo(i, 0, m, row, k)
        BY <1>9, <2>0, <3>1
      <4> QED
        BY <1>7, <2>3, <4>1 DEF ShiftsTo
    <3> QED
      BY <2>1, <2>3, <3>2, PathsAre
  <2>4. ASSUME NEW i \in DOMAIN d.kids, d.kids[i].name # Comment,
               NEW j \in DOMAIN d.kids[i].kids, d.kids[i].kids[j].name # Comment,
               q = <<i, j>>
        PROVE  Shifted(q, p, row, k) \in Paths(e)
    <3>1. i \in Nat /\ j \in Nat
      BY <1>2, <1>3
    <3>2. Shifted(q, p, row, k) = IF i = m THEN <<i, moved(j)>> ELSE <<i, j>>
      <4>1. ShiftsTo(i, j, m, row, k)
        BY <1>9, <2>0, <3>1
      <4> QED
        BY <1>7, <2>4, <4>1 DEF ShiftsTo
    <3>3. CASE i = m
      <4>1. moved(j) \in DOMAIN e.kids[i].kids /\ e.kids[i].kids[moved(j)] = d.kids[i].kids[j]
        BY <1>5, <2>1, <3>3
      <4> HIDE DEF moved
      <4> QED
        BY <2>1, <2>4, <3>2, <3>3, <4>1, PathsAre
    <3>4. CASE i # m
      BY <2>1, <2>4, <3>2, <3>4, PathsAre
    <3> QED
      BY <3>3, <3>4
  <2> QED
    BY <2>2, <2>3, <2>4, PathsAre
<1> QED
  BY <1>6, <1>7, AboveIs

-----------------------------------------------------------------------------
(* What the methods make of a document. *)

(* New elements among the children at any place.                           *)
LEMMA NewOnesFit ==
  ASSUME ses \in Sessions, NEW n \in DOMAIN Types, NEW k \in Nat, NEW p
  PROVE  /\ NewOnes(n, k) \in Seq(KidLevel(p)) /\ Len(NewOnes(n, k)) = k
         /\ \A i \in DOMAIN NewOnes(n, k) :
              NewOnes(n, k)[i] \in Fresh(n) /\ Tidy(NewOnes(n, k)[i]) /\ IdsIn(NewOnes(n, k)[i]) = {}
<1> DEFINE new == NewOnes(n, k)
<1>1. new \in Seq(Fresh(n)) /\ Len(new) = k
  BY NewOnesAre
<1> HIDE DEF new
<1>2. Fresh(n) \subseteq KidLevel(p)
  BY FreshIs DEF KidLevel
<1>3. new \in Seq(KidLevel(p))
  BY <1>1, <1>2, SeqMonotonic
<1>4. \A i \in DOMAIN new : new[i] \in Fresh(n)
  BY <1>1, LenProperties, ElementOfSeq
<1>5. \A i \in DOMAIN new : Tidy(new[i]) /\ IdsIn(new[i]) = {}
  BY <1>4, FreshIsTidy
<1> QED
  BY <1>1, <1>3, <1>4, <1>5 DEF new

(* addNode and insertNode: identifiers stay, places of elements move.      *)
LEMMA InsertEdit ==
  ASSUME ses \in Sessions, NEW d, TidyDoc(d), NEW p \in Above(d),
         NEW os, os = At(d, p).kids, NEW n \in DOMAIN Types, NEW k \in Nat,
         NEW row \in 0 .. Len(os),
         NEW e, e = WithKids(d, p, Insert(os, row, NewOnes(n, k)))
  PROVE  /\ TidyDoc(e) /\ DocIds(e) = DocIds(d)
         /\ \A q \in Paths(d) : Shifted(q, p, row, k) \in Paths(e)
<1> DEFINE new == NewOnes(n, k)
           ks == Insert(os, row, new)
<1>1. os \in Seq(KidLevel(p)) /\ Apart(os)
  BY ParentIs
<1>2. /\ new \in Seq(KidLevel(p)) /\ Len(new) = k
      /\ \A i \in DOMAIN new : Tidy(new[i]) /\ IdsIn(new[i]) = {}
  BY NewOnesFit
<1>3. e = WithKids(d, p, ks)
  OBVIOUS
<1> HIDE DEF new
<1>4. ks \in Seq(KidLevel(p)) /\ Inserts(ks, os, row, new, k)
  BY <1>1, <1>2, InsertIs
<1>5. /\ KidIds(ks) = KidIds(os) /\ Apart(ks)
      /\ \A i \in DOMAIN ks : \/ \E j \in DOMAIN os : ks[i] = os[j]
                              \/ \E j \in DOMAIN new : ks[i] = new[j]
  <2>1. SameIds(ks, os, new)
    BY <1>1, <1>2, InsertKeepsIds
  <2> QED
    BY <1>1, <2>1 DEF SameIds
<1> HIDE DEF ks
<1>6. \A i \in DOMAIN ks : (\E j \in DOMAIN os : ks[i] = os[j]) \/ Tidy(ks[i])
  BY <1>2, <1>5
<1>7. Edited(d, e, p, os, ks)
  <2>1. MayReplace(ks, os)
    BY <1>5, <1>6 DEF MayReplace
  <2> QED
    BY <1>3, <1>4, <2>1, KidsEdited
<1>8. \A q \in Paths(d) : Shifted(q, p, row, k) \in Paths(e)
  BY <1>4, <1>7, InsertMovesPaths
<1> QED
  BY <1>5, <1>7, <1>8 DEF Edited, Replaced

(* What leaves the document are the given identifiers, all of them; the    *)
(* element they were under stays.                                          *)
TakenFrom(d, e, p, ids) ==
  /\ TidyDoc(e) /\ p \in Paths(e) /\ DocIds(e) \subseteq DocIds(d)
  /\ DocIds(d) \ DocIds(e) \subseteq ids
  /\ ids \cap DocIds(e) = {}

(* deleteNode: what leaves the document is what the rows had, all of it.   *)
LEMMA RemoveEdit ==
  ASSUME ses \in Sessions, NEW d, TidyDoc(d), NEW p \in Above(d),
         NEW os, os = At(d, p).kids, NEW a \in 1 .. Len(os), NEW b \in a .. Len(os),
         NEW e, e = WithKids(d, p, Without(os, a .. b))
  PROVE  TakenFrom(d, e, p, IdsAt(os, a .. b))
<1> DEFINE ks == Without(os, a .. b)
           removed == IdsAt(os, a .. b)
<1>1. os \in Seq(KidLevel(p)) /\ Apart(os)
  BY ParentIs
<1>2. ks \in Seq(KidLevel(p))
  BY <1>1, WithoutIs
<1>3. /\ KidIds(os) = KidIds(ks) \cup removed
      /\ Apart(ks) /\ removed \cap KidIds(ks) = {}
      /\ \A i \in DOMAIN ks : \E j \in DOMAIN os : ks[i] = os[j]
  BY <1>1, WithoutKeepsIds DEF FewerIds
<1>4. e = WithKids(d, p, ks)
  OBVIOUS
<1> HIDE DEF ks, removed
<1>5. Replaced(d, e, os, ks) /\ p \in Above(e)
  <2>1. MayReplace(ks, os)
    BY <1>3 DEF MayReplace
  <2>2. Edited(d, e, p, os, ks)
    BY <1>2, <1>4, <2>1, KidsEdited
  <2> QED
    BY <2>2 DEF Edited
<1>6. p \in Paths(e)
  BY <1>5 DEF Above
<1> QED
  BY <1>3, <1>5, <1>6 DEF Replaced, TakenFrom, removed

(* replaceNode: likewise, with new elements in their place.                *)
LEMMA ReplaceEdit ==
  ASSUME ses \in Sessions, NEW d, TidyDoc(d), NEW p \in Above(d),
         NEW os, os = At(d, p).kids, NEW a \in 1 .. Len(os), NEW b \in a .. Len(os),
         NEW n \in DOMAIN Types, NEW k \in Nat, NEW row \in 0 .. Len(os) - (b - a + 1),
         NEW e, e = WithKids(d, p, Insert(Without(os, a .. b), row, NewOnes(n, k)))
  PROVE  TakenFrom(d, e, p, IdsAt(os, a .. b))
<1> DEFINE rest == Without(os, a .. b)
           removed == IdsAt(os, a .. b)
           new == NewOnes(n, k)
           ks == Insert(rest, row, new)
<1>1. os \in Seq(KidLevel(p)) /\ Apart(os)
  BY ParentIs
<1>2. rest \in Seq(KidLevel(p)) /\ Len(rest) = Len(os) - (b - a + 1)
  <2> DEFINE m == b - a + 1
  <2>1. rest \in Seq(KidLevel(p)) /\ TakesOut(rest, os, a, m)
    BY <1>1, WithoutIs
  <2> QED
    BY <2>1 DEF TakesOut
<1>3. /\ KidIds(os) = KidIds(rest) \cup removed
      /\ Apart(rest) /\ removed \cap KidIds(rest) = {}
      /\ \A i \in DOMAIN rest : \E j \in DOMAIN os : rest[i] = os[j]
  BY <1>1, WithoutKeepsIds DEF FewerIds
<1>4. /\ new \in Seq(KidLevel(p)) /\ Len(new) = k
      /\ \A i \in DOMAIN new : Tidy(new[i]) /\ IdsIn(new[i]) = {}
  BY NewOnesFit
<1>5. e = WithKids(d, p, ks)
  OBVIOUS
<1> HIDE DEF rest, new, removed
<1>6. row \in 0 .. Len(rest)
  BY <1>2
<1>7. ks \in Seq(KidLevel(p))
  BY <1>2, <1>4, <1>6, InsertIs
<1>8. /\ KidIds(ks) = KidIds(rest) /\ Apart(ks)
      /\ \A i \in DOMAIN ks : \/ \E j \in DOMAIN rest : ks[i] = rest[j]
                              \/ \E j \in DOMAIN new : ks[i] = new[j]
  <2>1. SameIds(ks, rest, new)
    BY <1>2, <1>4, <1>6, InsertKeepsIds
  <2> QED
    BY <1>3, <2>1 DEF SameIds
<1> HIDE DEF ks
<1>9. \A i \in DOMAIN ks : (\E j \in DOMAIN os : ks[i] = os[j]) \/ Tidy(ks[i])
  BY <1>3, <1>4, <1>8
<1>10. KidIds(ks) \subseteq KidIds(os)
  BY <1>3, <1>8
<1>11. Replaced(d, e, os, ks) /\ p \in Above(e)
  <2>1. MayReplace(ks, os)
    BY <1>8, <1>9, <1>10 DEF MayReplace
  <2>2. Edited(d, e, p, os, ks)
    BY <1>5, <1>7, <2>1, KidsEdited
  <2> QED
    BY <2>2 DEF Edited
<1>12. p \in Paths(e)
  BY <1>11 DEF Above
<1> QED
  BY <1>3, <1>8, <1>11, <1>12 DEF Replaced, TakenFrom, removed

(* What clearNode leaves is some of what was there.                        *)
Thinned(ks, os) ==
  /\ KidIds(ks) \subseteq KidIds(os)
  /\ Apart(os) => Apart(ks)
  /\ \A i \in DOMAIN ks : \E j \in DOMAIN os : ks[i] = os[j]

LEMMA ThinnedFurther ==
  ASSUME NEW S, NEW os, NEW s \in Seq(S), Thinned(s, os), NEW i \in 1 .. Len(s)
  PROVE  /\ RemoveAt(s, i) \in Seq(S) /\ Len(RemoveAt(s, i)) = Len(s) - 1
         /\ Thinned(RemoveAt(s, i), os)
<1> DEFINE t == Without(s, i .. i)
<1>1. RemoveAt(s, i) = t
  BY RemoveAtIs
<1>2. i \in i .. Len(s) /\ i - i + 1 = 1
  OBVIOUS
<1>3. t \in Seq(S) /\ TakesOut(t, s, i, i - i + 1)
  BY <1>2, WithoutIs
<1>4. FewerIds(t, s, IdsAt(s, i .. i))
  BY <1>2, WithoutKeepsIds
<1> HIDE DEF t
<1>5. Len(t) = Len(s) - 1
  BY <1>2, <1>3 DEF TakesOut
<1>6. Thinned(t, os)
  BY <1>4 DEF Thinned, FewerIds
<1> QED
  BY <1>1, <1>3, <1>5, <1>6

(* clearNode row by row: t[i] is what is left after the last i rows.       *)
MayGo(el, s, i) ==
  LET e == [el EXCEPT !.kids = s]
  IN  IsDeleted(TypeOf(el), KidNames(e), s[i].name) > 0

ClearingAt(t, el, L, i) ==
  t[i] = IF MayGo(el, t[i - 1], L + 1 - i) THEN RemoveAt(t[i - 1], L + 1 - i) ELSE t[i - 1]

Clearing(t, el, S, L) ==
  /\ t[0] = el.kids
  /\ \A i \in 0 .. L : t[i] \in Seq(S) /\ Len(t[i]) >= L - i
  /\ \A i \in 1 .. L : ClearingAt(t, el, L, i)

LEMMA ClearedWalk ==
  ASSUME NEW S, NEW el, NEW os \in Seq(S), os = el.kids
  PROVE  \E t : Clearing(t, el, S, Len(os)) /\ Cleared(el) = t[Len(os)]
<1> DEFINE L == Len(os)
           Step(s, i) == IF MayGo(el, s, i) THEN RemoveAt(s, i) ELSE s
           Walk(g) == [i \in 1 .. L + 1 |-> IF i > L THEN os ELSE Step(g[i + 1], i)]
           f == CHOOSE g : g = Walk(g)
           X == Seq(S)
           G == [q \in Nat \X X |-> IF L + 1 - q[1] \in 1 .. Len(q[2])
                                    THEN Step(q[2], L + 1 - q[1]) ELSE q[2]]
<1>1. L \in Nat
  BY LenProperties
<1>2. Cleared(el) = f[1]
  BY DEF Cleared, MayGo
<1>3. ASSUME NEW s \in X, NEW i \in 1 .. Len(s)
      PROVE  Step(s, i) \in X /\ Len(Step(s, i)) \in {Len(s), Len(s) - 1}
  <2>1. Thinned(s, s)
    BY DEF Thinned
  <2> QED
    BY <2>1, ThinnedFurther
<1> HIDE DEF Step
<1>4. PICK h : IsRecursive(h, X, os, G, L)
  <2>1. IsStep(G, X)
    <3>1. ASSUME NEW q \in Nat \X X
          PROVE  (IF L + 1 - q[1] \in 1 .. Len(q[2])
                  THEN Step(q[2], L + 1 - q[1]) ELSE q[2]) \in X
      BY <1>3
    <3> HIDE DEF X
    <3> QED
      BY <3>1 DEF IsStep
  <2> HIDE DEF G, X, L
  <2>2. os \in X
    BY DEF X
  <2> QED
    BY <1>1, <2>1, <2>2, RecursionExists
<1>5. h[0] = os /\ \A i \in 0 .. L : h[i] \in X
  BY <1>4 DEF IsRecursive
<1>6. ASSUME NEW i \in 1 .. L
      PROVE  /\ i - 1 \in 0 .. L /\ h[i - 1] \in X
             /\ h[i] = IF L + 1 - i \in 1 .. Len(h[i - 1])
                       THEN Step(h[i - 1], L + 1 - i) ELSE h[i - 1]
  <2>1. i \in Nat /\ i - 1 \in 0 .. L /\ h[i - 1] \in X
    BY <1>1, <1>5
  <2>2. h[i] = G[<<i, h[i - 1]>>]
    BY <1>4 DEF IsRecursive
  <2>3. <<i, h[i - 1]>> \in Nat \X X
    BY <2>1
  <2> HIDE DEF X, L
  <2> QED
    BY <2>1, <2>2, <2>3
<1> HIDE DEF G
<1>7. \A i \in 0 .. L : Len(h[i]) >= L - i
  <2> DEFINE Good == {i \in 0 .. L : Len(h[i]) >= L - i}
  <2>1. 0 \in Good
    BY <1>1, <1>5
  <2>2. ASSUME NEW i \in 1 .. L, i - 1 \in Good
        PROVE  i \in Good
    <3>1. Len(h[i - 1]) >= L - (i - 1)
      BY <2>2
    <3>2. L + 1 - i \in 1 .. Len(h[i - 1]) /\ Len(h[i - 1]) \in Nat
      BY <1>1, <1>6, <3>1, LenProperties
    <3>3. h[i] = Step(h[i - 1], L + 1 - i)
      BY <1>6, <3>2
    <3>4. Len(h[i]) \in {Len(h[i - 1]), Len(h[i - 1]) - 1}
      BY <1>3, <1>6, <3>2, <3>3
    <3>5. Len(h[i]) >= L - i
      BY <1>1, <3>1, <3>2, <3>4
    <3> QED
      BY <3>5
  <2>3. \A i \in 0 .. L : i \in Good
    <3> HIDE DEF Good, L
    <3> QED
      BY <1>1, <2>1, <2>2, StepByStep
  <2> QED
    BY <2>3
<1> DEFINE t == [i \in 1 .. L + 1 |-> h[L + 1 - i]]
<1>8. t = Walk(t)
  <2> SUFFICES ASSUME NEW i \in 1 .. L + 1
               PROVE  h[L + 1 - i] = IF i > L THEN os ELSE Step(t[i + 1], i)
    OBVIOUS
  <2>1. CASE i > L
    <3>1. L + 1 - i = 0
      BY <1>1, <2>1
    <3> QED
      BY <2>1, <3>1, <1>5
  <2>2. CASE ~(i > L)
    <3> DEFINE m == L + 1 - i
    <3>1. m \in 1 .. L /\ L + 1 - m = i /\ m - 1 \in 0 .. L /\ L - (m - 1) = i
      BY <1>1, <2>2
    <3>2. t[i + 1] = h[m - 1]
      <4>1. i + 1 \in 1 .. L + 1 /\ L + 1 - (i + 1) = m - 1
        <5>1. i \in Nat /\ L \in Nat /\ i <= L
          BY <1>1, <2>2
        <5> HIDE DEF L
        <5> QED
          BY <5>1
      <4> QED
        BY <4>1
    <3> HIDE DEF m, t
    <3>3. Len(h[m - 1]) >= i /\ Len(h[m - 1]) \in Nat
      BY <1>5, <1>7, <3>1, LenProperties
    <3>4. i \in 1 .. Len(h[m - 1])
      BY <3>3
    <3>5. h[m] = Step(h[m - 1], i)
      BY <1>6, <3>1, <3>4
    <3> QED
      BY <2>2, <3>2, <3>5 DEF m
  <2> QED
    BY <2>1, <2>2
<1>9. f = Walk(f)
  <2> HIDE DEF t, Walk
  <2> QED
    BY <1>8
<1> HIDE DEF f, t
<1>10. \A i \in 1 .. L + 1 : f[i] = IF i > L THEN os ELSE Step(f[i + 1], i)
  BY <1>9
<1> DEFINE Ok(i) == f[L + 1 - i] \in X /\ Len(f[L + 1 - i]) >= L - i
           Good == {i \in 0 .. L : Ok(i)}
<1>11. 0 \in Good
  <2>1. L + 1 - 0 \in 1 .. L + 1 /\ L + 1 - 0 > L /\ Len(os) >= L - 0
    BY <1>1
  <2>2. f[L + 1 - 0] = os
    BY <1>10, <2>1
  <2> QED
    BY <1>1, <2>1, <2>2
<1>12. ASSUME NEW i \in 1 .. L, i - 1 \in Good
       PROVE  i \in Good
  <2> DEFINE r == L + 1 - i
             s == f[r + 1]
  <2>1. r \in 1 .. L + 1 /\ ~(r > L) /\ r + 1 = L + 1 - (i - 1) /\ i - 1 \in 0 .. L
        /\ i \in 0 .. L /\ L - (i - 1) = r /\ r - 1 = L - i /\ r \in Nat
    BY <1>1
  <2>2. Ok(i - 1)
    BY <1>12
  <2>3. s \in X /\ Len(s) >= r
    BY <2>1, <2>2
  <2> HIDE DEF r
  <2>4. f[r] = Step(s, r)
    BY <1>10, <2>1
  <2> HIDE DEF s
  <2>5. r \in 1 .. Len(s) /\ Len(s) \in Nat
    BY <2>1, <2>3, LenProperties
  <2>6. f[r] \in X /\ Len(f[r]) >= r - 1
    <3>1. Step(s, r) \in X /\ Len(Step(s, r)) \in {Len(s), Len(s) - 1}
      BY <1>3, <2>3, <2>5
    <3> QED
      BY <2>1, <2>3, <2>4, <2>5, <3>1
  <2> QED
    BY <2>1, <2>6 DEF r
<1>13. \A i \in 0 .. L : i \in Good
  <2> HIDE DEF Good, L
  <2> QED
    BY <1>1, <1>11, <1>12, StepByStep
<1> DEFINE w == [i \in 0 .. L |-> f[L + 1 - i]]
<1>14. \A i \in 0 .. L : w[i] \in X /\ Len(w[i]) >= L - i
  BY <1>13
<1>15. w[0] = os /\ w[L] = f[1]
  <2>1. 0 \in 0 .. L /\ L \in 0 .. L /\ L + 1 - 0 = L + 1 /\ L + 1 - L = 1
        /\ L + 1 \in 1 .. L + 1 /\ L + 1 > L
    BY <1>1
  <2> QED
    BY <1>10, <2>1
<1>16. ASSUME NEW i \in 1 .. L
       PROVE  ClearingAt(w, el, L, i)
  <2> DEFINE r == L + 1 - i
  <2>1. /\ r \in 1 .. L + 1 /\ ~(r > L) /\ r + 1 = L + 1 - (i - 1)
        /\ i - 1 \in 0 .. L /\ i \in 0 .. L
    BY <1>1
  <2>2. w[i] = f[r] /\ w[i - 1] = f[r + 1]
    BY <2>1
  <2> HIDE DEF w
  <2>3. f[r] = Step(f[r + 1], r)
    BY <1>10, <2>1
  <2> QED
    BY <2>2, <2>3 DEF ClearingAt, Step
<1> HIDE DEF w
<1>17. Clearing(w, el, S, L)
  BY <1>14, <1>15, <1>16 DEF Clearing
<1> QED
  BY <1>2, <1>15, <1>17

LEMMA ClearedIs ==
  ASSUME NEW S, NEW el, NEW os \in Seq(S), os = el.kids
  PROVE  Cleared(el) \in Seq(S) /\ Thinned(Cleared(el), os)
<1> DEFINE L == Len(os)
           X == Seq(S)
<1>1. L \in Nat
  BY LenProperties
<1>2. PICK t : Clearing(t, el, S, L) /\ Cleared(el) = t[L]
  BY ClearedWalk
<1> DEFINE Good == {i \in 0 .. L : Thinned(t[i], os)}
<1>3. 0 \in Good
  <2>1. t[0] = os /\ Thinned(os, os)
    BY <1>2 DEF Clearing, Thinned
  <2> QED
    BY <1>1, <2>1
<1>4. ASSUME NEW i \in 1 .. L, i - 1 \in Good
      PROVE  i \in Good
  <2> DEFINE r == L + 1 - i
             s == t[i - 1]
  <2>1. i - 1 \in 0 .. L /\ i \in 0 .. L /\ L - (i - 1) = r /\ r \in Nat \ {0}
    BY <1>1
  <2>2. s \in X /\ Len(s) >= r /\ Thinned(s, os)
    BY <1>2, <1>4, <2>1 DEF Clearing
  <2>3. t[i] = IF MayGo(el, s, r) THEN RemoveAt(s, r) ELSE s
    BY <1>2 DEF Clearing, ClearingAt
  <2> HIDE DEF r, s
  <2>4. r \in 1 .. Len(s)
    BY <2>1, <2>2, LenProperties
  <2>5. Thinned(RemoveAt(s, r), os)
    BY <2>2, <2>4, ThinnedFurther
  <2> QED
    BY <2>1, <2>2, <2>3, <2>5
<1>5. \A i \in 0 .. L : i \in Good
  <2> HIDE DEF Good, L
  <2> QED
    BY <1>1, <1>3, <1>4, StepByStep
<1>6. L \in 0 .. L
  BY <1>1
<1>7. t[L] \in X
  BY <1>2, <1>6 DEF Clearing
<1> QED
  BY <1>2, <1>5, <1>6, <1>7

(* clearNode.                                                              *)
LEMMA ClearEdit ==
  ASSUME ses \in Sessions, NEW d, TidyDoc(d), NEW p \in Above(d),
         NEW e, e = WithKids(d, p, Cleared(At(d, p)))
  PROVE  TidyDoc(e) /\ p \in Paths(e) /\ DocIds(e) \subseteq DocIds(d)
<1> DEFINE os == At(d, p).kids
           ks == Cleared(At(d, p))
<1>1. os \in Seq(KidLevel(p)) /\ Apart(os)
  BY ParentIs
<1>2. ks \in Seq(KidLevel(p)) /\ Thinned(ks, os)
  BY <1>1, ClearedIs
<1>3. e = WithKids(d, p, ks) /\ os = At(d, p).kids
  OBVIOUS
<1> HIDE DEF os, ks
<1>4. Replaced(d, e, os, ks) /\ p \in Above(e)
  <2>1. MayReplace(ks, os)
    BY <1>1, <1>2 DEF MayReplace, Thinned
  <2>2. Edited(d, e, p, os, ks)
    BY <1>2, <1>3, <2>1, KidsEdited
  <2> QED
    BY <2>2 DEF Edited
<1> QED
  BY <1>4 DEF Replaced, Above

-----------------------------------------------------------------------------
(* Counting; the rows the methods choose. *)

(* The greatest of a set of numbers with a bound is one of them.           *)
LEMMA MaxIs ==
  ASSUME NEW k \in Nat, NEW S \in SUBSET (0 .. k), S # {}
  PROVE  Max(S) \in S /\ \A x \in S : x <= Max(S)
<1> DEFINE R == {k - x : x \in S}
<1>1. R \in SUBSET Nat /\ R # {}
  <2>1. \A x \in S : x \in 0 .. k
    OBVIOUS
  <2>2. \A x \in S : k - x \in Nat
    BY <2>1
  <2> QED
    BY <2>2
<1>2. \E r \in R : \A y \in R : ~ (<<y, r>> \in OpToRel(<, Nat))
  <2> HIDE DEF R
  <2> QED
    BY <1>1, NatLessThanWellFounded, WFMin
<1>3. PICK r \in R : \A y \in R : ~ (y < r)
  BY <1>1, <1>2 DEF OpToRel
<1>4. PICK m \in S : r = k - m
  OBVIOUS
<1>5. \A y \in S : m >= y
  <2> SUFFICES ASSUME NEW y \in S PROVE m >= y
    OBVIOUS
  <2>1. k - y \in R
    OBVIOUS
  <2>2. ~(k - y < k - m)
    BY <1>3, <1>4, <2>1
  <2> QED
    BY <2>2
<1>6. Max(S) \in S /\ \A y \in S : Max(S) >= y
  BY <1>5 DEF Max
<1> QED
  BY <1>6

LEMMA MinIs ==
  ASSUME NEW S \in SUBSET Nat, S # {}
  PROVE  Min(S) \in S /\ \A x \in S : Min(S) <= x
<1>1. \E x \in S : \A y \in S : ~ (<<y, x>> \in OpToRel(<, Nat))
  BY NatLessThanWellFounded, WFMin
<1>2. PICK x \in S : \A y \in S : ~ (y < x)
  BY <1>1 DEF OpToRel
<1>3. \A y \in S : x <= y
  BY <1>2
<1> QED
  BY <1>3 DEF Min

(* The number of places of a sequence with some property.                  *)
LEMMA PartOfInterval ==
  ASSUME NEW k \in Nat, NEW A \in SUBSET (1 .. k)
  PROVE  IsFiniteSet(A) /\ Cardinality(A) \in 0 .. k /\ (A # {} => Cardinality(A) > 0)
<1>1. IsFiniteSet(1 .. k) /\ Cardinality(1 .. k) = k
  BY FS_Interval
<1>2. IsFiniteSet(A) /\ Cardinality(A) <= k
  BY <1>1, FS_Subset
<1>3. Cardinality(A) \in Nat /\ (Cardinality(A) = 0 <=> A = {})
  BY <1>2, FS_CardinalityType, FS_EmptySet
<1>4. Cardinality(A) \in 0 .. k
  <2> DEFINE c == Cardinality(A)
  <2>1. c \in Nat /\ c <= k
    BY <1>1, <1>2, <1>3
  <2> HIDE DEF c
  <2>2. c \in 0 .. k
    BY <2>1
  <2> QED
    BY <2>2 DEF c
<1>5. ASSUME A # {}
      PROVE  Cardinality(A) > 0
  <2> DEFINE c == Cardinality(A)
  <2>1. c \in Nat /\ c # 0
    BY <1>3, <1>5
  <2> HIDE DEF c
  <2>2. c > 0
    BY <2>1
  <2> QED
    BY <2>2 DEF c
<1> QED
  BY <1>2, <1>4, <1>5

(* How often a name occurs.                                                *)
LEMMA CountIs ==
  ASSUME NEW S, NEW ks \in Seq(S), NEW n
  PROVE  /\ Count(ks, n) \in 0 .. Len(ks)
         /\ Count(ks, n) > 0 <=> \E i \in DOMAIN ks : ks[i] = n
<1> DEFINE A == {i \in DOMAIN ks : ks[i] = n}
<1>1. Len(ks) \in Nat /\ DOMAIN ks = 1 .. Len(ks)
  BY LenProperties
<1>2. A \in SUBSET (1 .. Len(ks))
  BY <1>1
<1>3. Count(ks, n) = Cardinality(A)
  BY DEF Count
<1>4. A # {} <=> \E i \in DOMAIN ks : ks[i] = n
  OBVIOUS
<1> HIDE DEF A
<1>5. Cardinality(A) \in 0 .. Len(ks) /\ (A # {} => Cardinality(A) > 0)
  BY <1>1, <1>2, PartOfInterval
<1>6. A = {} => Cardinality(A) = 0
  BY FS_EmptySet
<1> QED
  BY <1>1, <1>3, <1>4, <1>5, <1>6

(* The names of the children of an element.                                *)
LEMMA KidNamesAre ==
  ASSUME ses \in Sessions, NEW d, TidyDoc(d), NEW p \in Above(d)
  PROVE  /\ KidNames(At(d, p)) \in Seq(AllNames)
         /\ Len(KidNames(At(d, p))) = Len(At(d, p).kids)
         /\ DOMAIN KidNames(At(d, p)) = DOMAIN At(d, p).kids
         /\ \A i \in DOMAIN At(d, p).kids :
              KidNames(At(d, p))[i] = At(d, p).kids[i].name /\ At(d, p).kids[i].name \in AllNames
<1> DEFINE os == At(d, p).kids
           ks == KidNames(At(d, p))
<1>1. os \in Seq(KidLevel(p))
  BY ParentIs
<1>2. \A x \in KidLevel(p) : x.name \in AllNames
  BY DEF KidLevel, Mid, Low, Nodes
<1>3. ks = [i \in DOMAIN os |-> os[i].name]
  BY DEF KidNames
<1> HIDE DEF os, ks
<1>4. DOMAIN os = 1 .. Len(os) /\ Len(os) \in Nat /\ \A i \in DOMAIN os : os[i].name \in AllNames
  BY <1>1, <1>2, LenProperties, ElementOfSeq
<1>5. ks \in Seq(AllNames) /\ Len(ks) = Len(os)
  <2> DEFINE L == Len(os)
  <2>1. L \in Nat /\ ks = [i \in 1 .. L |-> os[i].name] /\ \A i \in 1 .. L : os[i].name \in AllNames
    BY <1>3, <1>4
  <2> HIDE DEF L
  <2>2. ks \in Seq(AllNames) /\ Len(ks) = L
    BY <2>1
  <2> QED
    BY <2>2 DEF L
<1> QED
  BY <1>3, <1>4, <1>5 DEF os, ks

(* The description of a name the type has.                                 *)
LEMMA DescOfIs ==
  ASSUME ses \in Sessions, NEW m \in DOMAIN Types, NEW n \in Names(Types[m])
  PROVE  /\ DescOf(Types[m], n) \in DOMAIN Types[m].desc
         /\ Types[m].desc[DescOf(Types[m], n)].name = n
         /\ Types[m].desc[DescOf(Types[m], n)].min \in Nat
         /\ Copies(Types[m].desc[DescOf(Types[m], n)]) \in Nat \ {0}
<1> DEFINE T == Types[m]
           S == {i \in DOMAIN T.desc : T.desc[i].name = n}
<1>1. /\ DOMAIN T.desc = 1 .. Len(T.desc) /\ Len(T.desc) \in Nat
      /\ \A i \in DOMAIN T.desc : T.desc[i].min \in Nat
  BY TypesAre
<1>2. S # {} /\ S \in SUBSET Nat
  BY <1>1 DEF Names
<1>3. Min(S) \in S
  <2> HIDE DEF S
  <2> QED
    BY <1>2, MinIs
<1>4. DescOf(T, n) = Min(S)
  BY DEF DescOf
<1>5. DescOf(T, n) \in DOMAIN T.desc /\ T.desc[DescOf(T, n)].name = n
  BY <1>3, <1>4
<1>6. T.desc[DescOf(T, n)].min \in Nat
  BY <1>1, <1>5
<1>7. Copies(T.desc[DescOf(T, n)]) \in Nat \ {0}
  BY <1>6 DEF Copies
<1> QED
  BY <1>5, <1>6, <1>7

(* The row of a new child is one behind which it can be put.               *)
LEMMA AddRowIs ==
  ASSUME ses \in Sessions, NEW m \in DOMAIN Types, NEW n \in Names(Types[m]),
         NEW ks \in Seq(AllNames)
  PROVE  AddRow(Types[m], ks, n) \in 0 .. Len(ks)
<1> DEFINE T == Types[m]
           present == {i \in 1 .. DescOf(T, n) : Count(ks, T.desc[i].name) > 0}
           rows(i) == {r \in DOMAIN ks : ks[r] = T.desc[i].name}
<1>1. Len(ks) \in Nat /\ DOMAIN ks = 1 .. Len(ks)
  BY LenProperties
<1>2. T.ratio \in {"sequence", "choice", "all"}
  BY TypesAre DEF SchemaType
<1>3. DescOf(T, n) \in Nat
  BY DescOfIs, TypesAre
<1>4. ASSUME present # {}
      PROVE  Max(rows(Max(present))) \in 0 .. Len(ks)
  <2>1. present \in SUBSET (0 .. DescOf(T, n))
    BY <1>3
  <2>2. Max(present) \in present
    <3> HIDE DEF present
    <3> QED
      BY <1>3, <1>4, <2>1, MaxIs
  <2> DEFINE x == Max(present)
  <2>3. Count(ks, T.desc[x].name) > 0
    BY <2>2
  <2> HIDE DEF x
  <2>4. rows(x) # {}
    BY <2>3, CountIs
  <2>5. rows(x) \in SUBSET (0 .. Len(ks))
    BY <1>1
  <2>6. Max(rows(x)) \in rows(x)
    <3> HIDE DEF rows
    <3> QED
      BY <1>1, <2>4, <2>5, MaxIs
  <2>7. Max(rows(x)) \in 0 .. Len(ks)
    BY <2>5, <2>6
  <2> QED
    BY <2>7 DEF x
<1>5. AddRow(T, ks, n) = CASE T.ratio = "all"      -> Len(ks)
                           [] T.ratio = "choice"   -> 0
                           [] T.ratio = "sequence" ->
                                IF present = {} THEN 0 ELSE Max(rows(Max(present)))
  BY DEF AddRow
<1> HIDE DEF T, present, rows
<1>6. CASE T.ratio = "all"
  BY <1>1, <1>5, <1>6 DEF T
<1>7. CASE T.ratio = "choice"
  BY <1>1, <1>5, <1>7 DEF T
<1>8. CASE T.ratio = "sequence"
  BY <1>1, <1>4, <1>5, <1>8 DEF T
<1> QED
  BY <1>2, <1>6, <1>7, <1>8

(* What may be added, inserted or put in place is in the type.             *)
LEMMA OffersAreNames ==
  ASSUME NEW T, NEW ks, NEW i, NEW n
  PROVE  /\ NamesAt(T, GetAddChild(T, ks)) \subseteq Names(T)
         /\ NamesAt(T, InsBefore(T, ks, i)) \subseteq Names(T)
         /\ NamesAt(T, InsAfter(T, ks, i)) \subseteq Names(T)
         /\ Replace(T, ks, n) \subseteq Names(T)
<1>1. GetAddChild(T, ks) \subseteq DOMAIN T.desc
  BY DEF GetAddChild
<1>2. InsBefore(T, ks, i) \subseteq GetAddChild(T, ks) /\ InsAfter(T, ks, i) \subseteq GetAddChild(T, ks)
  BY DEF InsBefore, InsAfter
<1>3. \A I : I \subseteq DOMAIN T.desc => NamesAt(T, I) \subseteq Names(T)
  BY DEF NamesAt, Names
<1>4. Replace(T, ks, n) \subseteq Names(T)
  BY DEF Replace, Names
<1> QED
  BY <1>1, <1>2, <1>3, <1>4

(* deleteNode removes a row of the parent, or its first rows.              *)
LEMMA DeletedRowsAre ==
  ASSUME ses \in Sessions, NEW d, TidyDoc(d), NEW p \in Above(d),
         NEW el, el = At(d, p), NEW i \in DOMAIN el.kids, DeletedRows(el, i) # {}
  PROVE  \E a \in 1 .. Len(el.kids) : \E b \in a .. Len(el.kids) : DeletedRows(el, i) = a .. b
<1> DEFINE L == Len(el.kids)
           ks == KidNames(el)
           rez == IsDeleted(TypeOf(el), ks, el.kids[i].name)
           A == {j \in 1 .. i - 1 : el.kids[j].name # Comment}
           r == ProxyRow(el.kids, i) + 1
<1>1. L \in Nat /\ DOMAIN el.kids = 1 .. L
  BY ParentIs, LenProperties
<1>2. DeletedRows(el, i) = IF rez = 1 THEN {r} ELSE IF rez > 1 THEN 1 .. rez ELSE {}
  BY DEF DeletedRows
<1>3. r \in 1 .. L
  <2>1. i - 1 \in Nat /\ A \in SUBSET (1 .. i - 1)
    BY <1>1
  <2> HIDE DEF A
  <2>2. Cardinality(A) \in 0 .. i - 1
    BY <2>1, PartOfInterval
  <2>3. ProxyRow(el.kids, i) = Cardinality(A)
    BY DEF ProxyRow, A
  <2> QED
    BY <1>1, <2>2, <2>3
<1>4. ASSUME rez # 1, rez > 1
      PROVE  rez \in 1 .. L
  <2>1. Count(ks, el.kids[i].name) \in 0 .. L
    <3>1. ks \in Seq(AllNames) /\ Len(ks) = L
      BY KidNamesAre
    <3> HIDE DEF ks, L
    <3> QED
      BY <3>1, CountIs
  <2>2. rez \in {0, 1, Count(ks, el.kids[i].name), -Count(ks, el.kids[i].name)}
    BY DEF IsDeleted
  <2> HIDE DEF rez, L
  <2> QED
    BY <1>1, <1>4, <2>1, <2>2
<1> HIDE DEF rez, r
<1>5. CASE rez = 1
  <2>1. DeletedRows(el, i) = r .. r /\ r \in r .. L
    BY <1>1, <1>2, <1>3, <1>5
  <2> QED
    BY <1>3, <2>1
<1>6. CASE rez # 1 /\ rez > 1
  <2>1. DeletedRows(el, i) = 1 .. rez /\ 1 \in 1 .. L
    BY <1>1, <1>2, <1>4, <1>6
  <2> QED
    BY <1>4, <1>6, <2>1
<1> QED
  BY <1>2, <1>5, <1>6

(* replaceNode removes the child, or of a choice the first rows.           *)
LEMMA ReplacedRowsAre ==
  ASSUME ses \in Sessions, NEW d, TidyDoc(d), NEW p \in Above(d),
         NEW el, el = At(d, p), NEW i \in DOMAIN el.kids
  PROVE  \E a \in 1 .. Len(el.kids) : \E b \in a .. Len(el.kids) :
           /\ ReplacedRows(el, i) = a .. b
           /\ (IF TypeOf(el).ratio = "choice" THEN 0 ELSE i - 1) \in 0 .. Len(el.kids) - (b - a + 1)
<1> DEFINE L == Len(el.kids)
           ks == KidNames(el)
           c == Count(ks, el.kids[i].name)
<1>1. L \in Nat /\ DOMAIN el.kids = 1 .. L
  BY ParentIs, LenProperties
<1>2. c \in 1 .. L
  <2>1. ks \in Seq(AllNames) /\ Len(ks) = L /\ i \in DOMAIN ks /\ ks[i] = el.kids[i].name
    BY KidNamesAre
  <2> HIDE DEF ks, L
  <2>2. Count(ks, el.kids[i].name) \in 0 .. L /\ Count(ks, el.kids[i].name) > 0
    BY <2>1, CountIs
  <2> QED
    BY <1>1, <2>2
<1>3. CASE TypeOf(el).ratio = "choice"
  <2>1. ReplacedRows(el, i) = 1 .. c
    BY <1>3 DEF ReplacedRows
  <2> HIDE DEF c, L
  <2>2. 1 \in 1 .. L /\ c \in 1 .. L /\ 0 \in 0 .. L - (c - 1 + 1)
    BY <1>1, <1>2
  <2> QED
    BY <1>3, <2>1, <2>2 DEF L
<1>4. CASE TypeOf(el).ratio # "choice"
  <2>1. ReplacedRows(el, i) = i .. i
    <3>1. i .. i = {i}
      BY <1>1
    <3> QED
      BY <1>4, <3>1 DEF ReplacedRows
  <2> HIDE DEF L
  <2>2. i \in 1 .. L /\ i \in i .. L /\ i - 1 \in 0 .. L - (i - i + 1)
    BY <1>1
  <2> QED
    BY <1>4, <2>1, <2>2 DEF L
<1> QED
  BY <1>3, <1>4

-----------------------------------------------------------------------------
(* Attributes. *)

(* Two documents that differ in attributes only.                           *)
Same(d, e) ==
  /\ e.name = d.name /\ e.id = d.id /\ DOMAIN e.kids = DOMAIN d.kids
  /\ \A i \in DOMAIN d.kids :
       /\ e.kids[i].name = d.kids[i].name /\ e.kids[i].id = d.kids[i].id
       /\ DOMAIN e.kids[i].kids = DOMAIN d.kids[i].kids
       /\ \A j \in DOMAIN d.kids[i].kids :
            /\ e.kids[i].kids[j].name = d.kids[i].kids[j].name
            /\ e.kids[i].kids[j].id = d.kids[i].kids[j].id
            /\ e.kids[i].kids[j].kids = d.kids[i].kids[j].kids

LEMMA SameIs ==
  ASSUME NEW d, TidyDoc(d), NEW e \in Root, Same(d, e)
  PROVE  /\ TidyDoc(e) /\ DocIds(e) = DocIds(d)
         /\ Paths(e) = Paths(d) /\ Shape(e) = Shape(d)
<1>1. d \in Root /\ Distinct(d) /\ \A i \in DOMAIN d.kids : Tidy(d.kids[i])
  BY DEF TidyDoc
<1>2. /\ e.name = d.name /\ e.id = d.id /\ DOMAIN e.kids = DOMAIN d.kids
      /\ \A i \in DOMAIN d.kids :
           /\ e.kids[i].name = d.kids[i].name /\ e.kids[i].id = d.kids[i].id
           /\ DOMAIN e.kids[i].kids = DOMAIN d.kids[i].kids
           /\ \A j \in DOMAIN d.kids[i].kids :
                /\ e.kids[i].kids[j].name = d.kids[i].kids[j].name
                /\ e.kids[i].kids[j].id = d.kids[i].kids[j].id
  BY DEF Same
<1>3. ASSUME NEW i \in DOMAIN d.kids
      PROVE  /\ IdsIn(e.kids[i]) = IdsIn(d.kids[i])
             /\ Tidy(e.kids[i])
  <2> DEFINE a == d.kids[i]
             b == e.kids[i]
  <2>1. a \in Mid /\ b \in Mid /\ a.kids \in Seq(Low) /\ b.kids \in Seq(Low)
    BY <1>1, <1>2, KidsAre
  <2>2. /\ b.name = a.name /\ b.id = a.id /\ DOMAIN b.kids = DOMAIN a.kids
        /\ \A j \in DOMAIN a.kids : b.kids[j].id = a.kids[j].id
    BY <1>2
  <2>3. Distinct(a) /\ (a.name = Comment => a.kids = <<>>)
    BY <1>1 DEF Tidy
  <2> HIDE DEF a, b
  <2>4. IdsIn(b) = IdsIn(a)
    BY <2>2 DEF IdsIn
  <2>5. \A j \in DOMAIN a.kids : a.kids[j] \in Low /\ b.kids[j] \in Low
    BY <2>1, <2>2, ElementOfSeq, LenProperties
  <2>6. \A j \in DOMAIN a.kids : IdsIn(a.kids[j]) = {a.kids[j].id} \ {NoId}
    BY <2>5, IdsAtLevels
  <2>7. \A j \in DOMAIN a.kids : IdsIn(b.kids[j]) = {b.kids[j].id} \ {NoId}
    BY <2>5, IdsAtLevels
  <2>8. \A j \in DOMAIN a.kids : IdsIn(b.kids[j]) = IdsIn(a.kids[j])
    BY <2>2, <2>6, <2>7
  <2>9. Distinct(b)
    BY <2>2, <2>3, <2>8 DEF Distinct
  <2>10. ASSUME a.kids = <<>>
         PROVE  b.kids = <<>>
    <3>1. DOMAIN b.kids = {}
      BY <2>2, <2>10
    <3>2. DOMAIN b.kids = 1 .. Len(b.kids) /\ Len(b.kids) \in Nat
      BY <2>1, LenProperties
    <3>3. 1 \notin 1 .. Len(b.kids)
      BY <3>1, <3>2
    <3>4. Len(b.kids) \notin Nat \ {0}
      BY <3>3
    <3> QED
      BY <2>1, <3>4, EmptySeq
  <2> QED
    BY <2>2, <2>3, <2>4, <2>9, <2>10 DEF Tidy, a, b
<1>4. Distinct(e)
  BY <1>1, <1>2, <1>3 DEF Distinct
<1>5. TidyDoc(e)
  BY <1>2, <1>3, <1>4 DEF TidyDoc
<1>6. KidIds(e.kids) = KidIds(d.kids)
  BY <1>2, <1>3 DEF KidIds
<1>7. DocIds(e) = DocIds(d)
  BY <1>2, <1>5, <1>6, DocIdsAre
<1>8. \A p : p \in Paths(e) <=> p \in Paths(d)
  <2> TAKE p
  <2>1. p \in Paths(d) <=>
              \/ p = <<>>
              \/ \E i \in DOMAIN d.kids :
                   /\ d.kids[i].name # Comment
                   /\ \/ p = <<i>>
                      \/ \E j \in DOMAIN d.kids[i].kids :
                           d.kids[i].kids[j].name # Comment /\ p = <<i, j>>
    BY PathsAre
  <2>2. p \in Paths(e) <=>
              \/ p = <<>>
              \/ \E i \in DOMAIN e.kids :
                   /\ e.kids[i].name # Comment
                   /\ \/ p = <<i>>
                      \/ \E j \in DOMAIN e.kids[i].kids :
                           e.kids[i].kids[j].name # Comment /\ p = <<i, j>>
    BY PathsAre
  <2> QED
    BY <1>2, <2>1, <2>2
<1>9. \A i \in DOMAIN d.kids :
        /\ Leaf(e.kids[i]) = Leaf(d.kids[i])
        /\ [j \in DOMAIN e.kids[i].kids |-> Leaf(e.kids[i].kids[j])]
             = [j \in DOMAIN d.kids[i].kids |-> Leaf(d.kids[i].kids[j])]
  BY <1>2 DEF Leaf
<1>10. Shape(e) = Shape(d)
  BY <1>2, <1>9 DEF Shape
<1> QED
  BY <1>5, <1>7, <1>8, <1>10

(* An attribute is set.                                                    *)
LEMMA AttEdit ==
  ASSUME ses \in Sessions, NEW d, TidyDoc(d), NEW p \in Paths(d), NEW v \in 0 .. 2,
         NEW e, e = WithAtt(d, p, v)
  PROVE  /\ TidyDoc(e) /\ DocIds(e) = DocIds(d)
         /\ Paths(e) = Paths(d) /\ Shape(e) = Shape(d)
         /\ Same(d, e)
<1>1. d \in Root
  BY DEF TidyDoc
<1>2. d = [name |-> d.name, id |-> d.id, att |-> d.att, kids |-> d.kids]
      /\ d.name \in DOMAIN Types /\ d.id \in AnyId /\ d.att \in 0 .. 2
      /\ d.kids \in Seq(Mid)
  BY <1>1 DEF Root, Nodes
<1>3. ASSUME p = <<>>
      PROVE  e \in Root /\ Same(d, e)
  <2>1. e = [d EXCEPT !.att = v]
    BY <1>3, ShortPaths DEF WithAtt
  <2>2. e = [name |-> d.name, id |-> d.id, att |-> v, kids |-> d.kids]
    BY <1>2, <2>1
  <2>3. e \in Root
    BY <1>2, <2>2 DEF Root, Nodes
  <2>4. e.name = d.name /\ e.id = d.id /\ e.kids = d.kids
    BY <2>2
  <2> QED
    BY <2>3, <2>4 DEF Same
<1>4. ASSUME NEW i \in DOMAIN d.kids, NEW f \in Mid,
             f.name = d.kids[i].name, f.id = d.kids[i].id,
             DOMAIN f.kids = DOMAIN d.kids[i].kids,
             \A j \in DOMAIN d.kids[i].kids :
                  /\ f.kids[j].name = d.kids[i].kids[j].name
                  /\ f.kids[j].id = d.kids[i].kids[j].id
                  /\ f.kids[j].kids = d.kids[i].kids[j].kids,
             e = [d EXCEPT !.kids = [d.kids EXCEPT ![i] = f]]
      PROVE  e \in Root /\ Same(d, e)
  <2> DEFINE s == [d.kids EXCEPT ![i] = f]
  <2>1. i \in 1 .. Len(d.kids) /\ DOMAIN d.kids = 1 .. Len(d.kids)
    BY <1>2, LenProperties
  <2>2. s \in Seq(Mid) /\ DOMAIN s = DOMAIN d.kids
       /\ \A j \in DOMAIN d.kids : s[j] = IF j = i THEN f ELSE d.kids[j]
    BY <1>2, <2>1, ExceptSeq
  <2>3. e = [d EXCEPT !.kids = s]
    BY <1>4
  <2> HIDE DEF s
  <2>4. e = [name |-> d.name, id |-> d.id, att |-> d.att, kids |-> s]
    BY <1>2, <2>3
  <2>5. e \in Root
    BY <1>2, <2>2, <2>4 DEF Root, Nodes
  <2>6. e.name = d.name /\ e.id = d.id /\ e.kids = s
    BY <2>4
  <2> QED
    BY <1>4, <2>2, <2>5, <2>6 DEF Same
<1>5. ASSUME NEW i \in DOMAIN d.kids, p = <<i>>
      PROVE  e \in Root /\ Same(d, e)
  <2> DEFINE c == d.kids[i]
             f == [c EXCEPT !.att = v]
  <2>1. Len(p) = 1 /\ p[1] = i
    BY <1>5, ShortPaths
  <2>2. e = [d EXCEPT !.kids = [d.kids EXCEPT ![i] = f]]
    BY <2>1 DEF WithAtt
  <2>3. c \in Mid
    BY <1>1, KidsAre
  <2>4. c = [name |-> c.name, id |-> c.id, att |-> c.att, kids |-> c.kids]
        /\ c.name \in AllNames /\ c.id \in AnyId /\ c.kids \in Seq(Low)
    BY <2>3 DEF Mid, Nodes
  <2>5. f = [name |-> c.name, id |-> c.id, att |-> v, kids |-> c.kids]
    BY <2>4
  <2>6. f \in Mid
    BY <2>4, <2>5 DEF Mid, Nodes
  <2>7. f.name = c.name /\ f.id = c.id /\ f.kids = c.kids
    BY <2>5
  <2> HIDE DEF f
  <2> QED
    BY <1>4, <2>2, <2>6, <2>7
<1>6. ASSUME NEW i \in DOMAIN d.kids, NEW j \in DOMAIN d.kids[i].kids, p = <<i, j>>
      PROVE  e \in Root /\ Same(d, e)
  <2> DEFINE c == d.kids[i]
             h == c.kids[j]
             g == [h EXCEPT !.att = v]
             s == [c.kids EXCEPT ![j] = g]
             f == [c EXCEPT !.kids = s]
  <2>1. Len(p) = 2 /\ p[1] = i /\ p[2] = j
    BY <1>6, ShortPaths
  <2>2. e = [d EXCEPT !.kids[i].kids[j].att = v]
    BY <2>1 DEF WithAtt
  <2>3. e = [d EXCEPT !.kids = [d.kids EXCEPT ![i] = f]]
    BY <2>2
  <2>4. c \in Mid /\ h \in Low
    BY <1>1, KidsAre
  <2>5. c = [name |-> c.name, id |-> c.id, att |-> c.att, kids |-> c.kids]
        /\ c.name \in AllNames /\ c.id \in AnyId /\ c.att \in 0 .. 2 /\ c.kids \in Seq(Low)
    BY <2>4 DEF Mid, Nodes
  <2>6. h = [name |-> h.name, id |-> h.id, att |-> h.att, kids |-> h.kids]
        /\ h.name \in AllNames /\ h.id \in AnyId /\ h.kids \in Seq(Deep)
    BY <2>4 DEF Low, Nodes
  <2>7. g = [name |-> h.name, id |-> h.id, att |-> v, kids |-> h.kids]
    BY <2>6
  <2>8. g \in Low
    BY <2>6, <2>7 DEF Low, Nodes
  <2>9. g.name = h.name /\ g.id = h.id /\ g.kids = h.kids
    BY <2>7
  <2> HIDE DEF g
  <2>10. s \in Seq(Low) /\ DOMAIN s = DOMAIN c.kids
         /\ \A m \in DOMAIN c.kids : s[m] = IF m = j THEN g ELSE c.kids[m]
    <3>1. j \in 1 .. Len(c.kids) /\ DOMAIN c.kids = 1 .. Len(c.kids)
      BY <2>5, LenProperties
    <3> QED
      BY <2>5, <2>8, <3>1, ExceptSeq
  <2> HIDE DEF s
  <2>11. f = [name |-> c.name, id |-> c.id, att |-> c.att, kids |-> s]
    BY <2>5
  <2>12. f \in Mid
    BY <2>5, <2>10, <2>11 DEF Mid, Nodes
  <2>13. f.name = c.name /\ f.id = c.id /\ f.kids = s
    BY <2>11
  <2> HIDE DEF f
  <2>14. \A m \in DOMAIN d.kids[i].kids :
           /\ f.kids[m].name = d.kids[i].kids[m].name
           /\ f.kids[m].id = d.kids[i].kids[m].id
           /\ f.kids[m].kids = d.kids[i].kids[m].kids
    BY <2>9, <2>10, <2>13
  <2> QED
    BY <1>4, <2>3, <2>10, <2>12, <2>13, <2>14
<1>7. e \in Root /\ Same(d, e)
  BY <1>3, <1>5, <1>6, PathsAre
<1> QED
  BY <1>7, SameIs

-----------------------------------------------------------------------------
(* One step of each method. *)

(* What every method of the session does to the document: it stays tidy,   *)
(* the current element is in it, what leaves it is reported or waits, and  *)
(* its structure changes only together with DataChange.                    *)
Reported ==
  /\ (DocIds(doc) \cup pending) \ (DocIds(doc') \cup pending') \subseteq sig'.deleted
  /\ sig'.deleted \cap DocIds(doc') = {}
  /\ pending' \cap DocIds(doc') = {}

Orderly ==
  /\ TidyDoc(doc')
  /\ cur' \in Paths(doc')
  /\ pending \cap DocIds(doc) = {} => Reported
  /\ changed' = TRUE \/ (changed' = changed /\ Shape(doc') = Shape(doc))

InOrder == ses \in Sessions /\ TidyDoc(doc) /\ cur \in Paths(doc)

(* A method that changes nothing.                                          *)
LEMMA RefuseStep ==
  ASSUME InOrder, NEW by, Refuse(by)
  PROVE  Orderly
<1>1. doc' = doc /\ cur' = cur /\ changed' = changed /\ pending' = pending
  BY DEF Refuse
<1>2. sig'.deleted = {}
  BY DEF Refuse, Quiet
<1> QED
  BY <1>1, <1>2 DEF Orderly, Reported, InOrder

(* The signals of an addition report no deletion.                          *)
LEMMA AddedIs ==
  ASSUME NEW by, Added(by)
  PROVE  sig'.deleted = {} /\ changed' = TRUE /\ manual' = FALSE
<1>1. sig'.deleted = {}
  BY DEF Added, Quiet
<1> QED
  BY <1>1 DEF Added

LEMMA AddNodeStep ==
  ASSUME InOrder, NEW p \in Above(doc), NEW n, NEW by, AddNode(p, n, by)
  PROVE  Orderly
<1> DEFINE el  == At(doc, p)
           T   == TypeOf(el)
           ks  == KidNames(el)
           k   == Copies(T.desc[DescOf(T, n)])
           row == AddRow(T, ks, n)
<1>1. CASE Refuse(by)
  BY <1>1, RefuseStep
<1>2. CASE ~Refuse(by)
  <2>1. /\ n \in NamesAt(T, GetAddChild(T, ks))
        /\ doc' = WithKids(doc, p, Insert(el.kids, row, NewOnes(n, k)))
        /\ cur' = Shifted(cur, p, row, k)
        /\ Added(by)
        /\ pending' = pending
    BY <1>2 DEF AddNode
  <2>2. ses \in Sessions /\ TidyDoc(doc) /\ cur \in Paths(doc)
    BY DEF InOrder
  <2>3. el.name \in DOMAIN Types /\ T = Types[el.name]
    BY <2>2, ParentIs DEF TypeOf
  <2>4. n \in Names(T)
    BY <2>1, OffersAreNames
  <2>5. n \in DOMAIN Types
    BY <2>2, <2>3, <2>4, TypesAre
  <2>6. k \in Nat
    BY <2>2, <2>3, <2>4, DescOfIs
  <2>7. ks \in Seq(AllNames) /\ Len(ks) = Len(el.kids)
    BY <2>2, KidNamesAre
  <2>8. row \in 0 .. Len(el.kids)
    <3> HIDE DEF el, ks, T, row
    <3>1. AddRow(T, ks, n) \in 0 .. Len(ks)
      BY <2>2, <2>3, <2>4, <2>7, AddRowIs
    <3> QED
      BY <2>7, <3>1 DEF row
  <2> HIDE DEF T, ks, k, row
  <2>9. /\ TidyDoc(doc') /\ DocIds(doc') = DocIds(doc)
        /\ \A q \in Paths(doc) : Shifted(q, p, row, k) \in Paths(doc')
    BY <2>1, <2>2, <2>5, <2>6, <2>8, InsertEdit
  <2>10. sig'.deleted = {} /\ changed' = TRUE
    BY <2>1, AddedIs
  <2> QED
    BY <2>1, <2>2, <2>9, <2>10 DEF Orderly, Reported
<1> QED
  BY <1>1, <1>2

LEMMA InsertNodeStep ==
  ASSUME InOrder, NEW path \in Paths(doc), NEW n, NEW where, NEW by,
         InsertNode(path, n, where, by)
  PROVE  Orderly
<1> DEFINE p    == Front(path)
           el   == At(doc, p)
           i    == Last(path)
           T    == TypeOf(el)
           list == IF where = "before" THEN InsBefore(T, KidNames(el), i)
                                       ELSE InsAfter(T, KidNames(el), i)
           row  == IF where = "before" THEN i - 1 ELSE i
<1>1. CASE Refuse(by)
  BY <1>1, RefuseStep
<1>2. CASE ~Refuse(by)
  <2>1. /\ path # <<>> /\ n \in NamesAt(T, list)
        /\ doc' = WithKids(doc, p, Insert(el.kids, row, NewOnes(n, 1)))
        /\ cur' = Shifted(path, p, row, 1)
        /\ Added(by)
        /\ pending' = pending
    BY <1>2 DEF InsertNode
  <2>2. ses \in Sessions /\ TidyDoc(doc) /\ cur \in Paths(doc)
    BY DEF InOrder
  <2>3. p \in Above(doc) /\ i \in DOMAIN el.kids
    BY <2>1, <2>2, ChildIs
  <2>4. el.name \in DOMAIN Types /\ T = Types[el.name]
    BY <2>2, <2>3, ParentIs DEF TypeOf
  <2>5. n \in Names(T)
    BY <2>1, OffersAreNames
  <2>6. n \in DOMAIN Types
    BY <2>2, <2>4, <2>5, TypesAre
  <2>7. row \in 0 .. Len(el.kids)
    <3>1. el.kids \in Seq(KidLevel(p))
      BY <2>2, <2>3, ParentIs
    <3>2. DOMAIN el.kids = 1 .. Len(el.kids) /\ Len(el.kids) \in Nat
      BY <3>1, LenProperties
    <3> HIDE DEF el, i
    <3> QED
      BY <2>3, <3>2
  <2> HIDE DEF p, el, T, list, row
  <2>8. /\ TidyDoc(doc') /\ DocIds(doc') = DocIds(doc)
        /\ \A q \in Paths(doc) : Shifted(q, p, row, 1) \in Paths(doc')
    <3>1. el = At(doc, p) /\ 1 \in Nat
      BY DEF el
    <3> QED
      BY <2>1, <2>2, <2>3, <2>6, <2>7, <3>1, InsertEdit
  <2>9. sig'.deleted = {} /\ changed' = TRUE
    BY <2>1, AddedIs
  <2> QED
    BY <2>1, <2>2, <2>8, <2>9 DEF Orderly, Reported
<1> QED
  BY <1>1, <1>2

LEMMA ReplaceNodeStep ==
  ASSUME InOrder, NEW path \in Paths(doc), NEW n \in DOMAIN Types, NEW by,
         ReplaceNode(path, n, by)
  PROVE  Orderly
<1> DEFINE el   == At(doc, Front(path))
           T    == TypeOf(el)
           rows == ReplacedRows(el, Last(path))
           row  == IF T.ratio = "choice" THEN 0 ELSE Last(path) - 1
           k    == IF n \in Names(T) THEN Copies(T.desc[DescOf(T, n)]) ELSE 1
           removed == UNION {IdsIn(el.kids[j]) : j \in rows}
<1>1. CASE Refuse(by)
  BY <1>1, RefuseStep
<1>2. CASE ~Refuse(by)
  <2>1. /\ path # <<>>
        /\ doc' = WithKids(doc, Front(path),
                           Insert(Without(el.kids, rows), row, NewOnes(n, k)))
        /\ cur' = Front(path)
        /\ pending' = pending \cup removed
        /\ Added(by)
    BY <1>2 DEF ReplaceNode, AwaitReport
  <2>2. ses \in Sessions /\ TidyDoc(doc)
    BY DEF InOrder
  <2>3. Front(path) \in Above(doc) /\ Last(path) \in DOMAIN el.kids
    BY <2>1, <2>2, ChildIs
  <2>4. el.name \in DOMAIN Types /\ T = Types[el.name]
    BY <2>2, <2>3, ParentIs DEF TypeOf
  <2>5. k \in Nat
    BY <2>2, <2>4, DescOfIs
  <2>6. PICK a \in 1 .. Len(el.kids), b \in 1 .. Len(el.kids) :
          /\ b \in a .. Len(el.kids) /\ rows = a .. b
          /\ row \in 0 .. Len(el.kids) - (b - a + 1)
    <3>1. \E a \in 1 .. Len(el.kids) : \E b \in a .. Len(el.kids) :
             rows = a .. b /\ row \in 0 .. Len(el.kids) - (b - a + 1)
      BY <2>2, <2>3, ReplacedRowsAre
    <3> HIDE DEF el, rows, row
    <3> QED
      BY <3>1
  <2> HIDE DEF T, row, k
  <2>7. removed = IdsAt(el.kids, a .. b)
    BY <2>6 DEF IdsAt
  <2>8. doc' = WithKids(doc, Front(path),
                        Insert(Without(el.kids, a .. b), row, NewOnes(n, k)))
    BY <2>1, <2>6
  <2> HIDE DEF removed, rows
  <2>9. /\ TidyDoc(doc') /\ Front(path) \in Paths(doc') /\ DocIds(doc') \subseteq DocIds(doc)
        /\ DocIds(doc) \ DocIds(doc') \subseteq removed
        /\ removed \cap DocIds(doc') = {}
    <3> DEFINE os == el.kids
               p == Front(path)
    <3>1. p \in Above(doc) /\ os = At(doc, p).kids /\ a \in 1 .. Len(os) /\ b \in a .. Len(os)
      BY <2>3, <2>6
    <3>2. /\ row \in 0 .. Len(os) - (b - a + 1) /\ removed = IdsAt(os, a .. b)
          /\ doc' = WithKids(doc, p, Insert(Without(os, a .. b), row, NewOnes(n, k)))
      BY <2>6, <2>7, <2>8
    <3> HIDE DEF os, el, p
    <3>3. TakenFrom(doc, doc', p, removed)
      BY <2>2, <2>5, <3>1, <3>2, ReplaceEdit
    <3> QED
      BY <3>3 DEF TakenFrom, p
  <2>10. sig'.deleted = {} /\ changed' = TRUE
    BY <2>1, AddedIs
  <2> QED
    BY <2>1, <2>2, <2>9, <2>10 DEF Orderly, Reported
<1> QED
  BY <1>1, <1>2

LEMMA DeleteNodeStep ==
  ASSUME InOrder, NEW path \in Paths(doc), NEW by, DeleteNode(path, by)
  PROVE  Orderly
<1> DEFINE el   == At(doc, Front(path))
           rows == DeletedRows(el, Last(path))
           removed == UNION {IdsIn(el.kids[j]) : j \in rows}
<1>1. /\ path # <<>> /\ rows # {}
      /\ doc' = WithKids(doc, Front(path), Without(el.kids, rows))
      /\ sig' = [Quiet(by) EXCEPT !.deleted = pending \cup removed]
      /\ cur' = Front(path) /\ changed' = TRUE /\ pending' = {}
  BY DEF DeleteNode
<1>2. ses \in Sessions /\ TidyDoc(doc)
  BY DEF InOrder
<1>3. Front(path) \in Above(doc) /\ Last(path) \in DOMAIN el.kids
  BY <1>1, <1>2, ChildIs
<1>4. PICK a \in 1 .. Len(el.kids), b \in 1 .. Len(el.kids) :
        b \in a .. Len(el.kids) /\ rows = a .. b
  <2>1. \E a \in 1 .. Len(el.kids) : \E b \in a .. Len(el.kids) : rows = a .. b
    BY <1>1, <1>2, <1>3, DeletedRowsAre
  <2> HIDE DEF el, rows
  <2> QED
    BY <2>1
<1>5. removed = IdsAt(el.kids, a .. b)
  BY <1>4 DEF IdsAt
<1>6. doc' = WithKids(doc, Front(path), Without(el.kids, a .. b))
  BY <1>1, <1>4
<1> HIDE DEF removed, rows
<1>7. /\ TidyDoc(doc') /\ Front(path) \in Paths(doc') /\ DocIds(doc') \subseteq DocIds(doc)
      /\ DocIds(doc) \ DocIds(doc') \subseteq removed
      /\ removed \cap DocIds(doc') = {}
  <2> DEFINE os == el.kids
             p == Front(path)
  <2>1. p \in Above(doc) /\ os = At(doc, p).kids /\ a \in 1 .. Len(os) /\ b \in a .. Len(os)
    BY <1>3, <1>4
  <2>2. doc' = WithKids(doc, p, Without(os, a .. b))
    BY <1>6
  <2>3. removed = IdsAt(os, a .. b)
    BY <1>5
  <2> HIDE DEF os, el, p
  <2>4. TakenFrom(doc, doc', p, removed)
    BY <1>2, <2>1, <2>2, <2>3, RemoveEdit
  <2> QED
    BY <2>4 DEF TakenFrom, p
<1>8. sig'.deleted = pending \cup removed
  BY <1>1 DEF Quiet
<1> QED
  BY <1>1, <1>7, <1>8 DEF Orderly, Reported

LEMMA ClearNodeStep ==
  ASSUME InOrder, NEW p \in Above(doc), NEW by, ClearNode(p, by)
  PROVE  Orderly
<1>1. /\ doc' = WithKids(doc, p, Cleared(At(doc, p)))
      /\ sig' = [Quiet(by) EXCEPT !.deleted = pending \cup (DocIds(doc) \ DocIds(doc'))]
      /\ cur' = p /\ changed' = TRUE /\ pending' = {}
  BY DEF ClearNode
<1>2. ses \in Sessions /\ TidyDoc(doc)
  BY DEF InOrder
<1>3. TidyDoc(doc') /\ p \in Paths(doc') /\ DocIds(doc') \subseteq DocIds(doc)
  BY <1>1, <1>2, ClearEdit
<1>4. sig'.deleted = pending \cup (DocIds(doc) \ DocIds(doc'))
  BY <1>1 DEF Quiet
<1> QED
  BY <1>1, <1>3, <1>4 DEF Orderly, Reported

(* An attribute of an element of the document is set.                      *)
LEMMA AttributeStep ==
  ASSUME InOrder, NEW path \in Paths(doc), NEW v \in 0 .. 2,
         doc' = WithAtt(doc, path, v), cur' = cur, pending' = pending,
         changed' = changed \/ changed' = TRUE, sig'.deleted = {}
  PROVE  Orderly
<1>1. /\ TidyDoc(doc') /\ DocIds(doc') = DocIds(doc)
      /\ Paths(doc') = Paths(doc) /\ Shape(doc') = Shape(doc)
  BY AttEdit DEF InOrder
<1> QED
  BY <1>1 DEF Orderly, Reported, InOrder

-----------------------------------------------------------------------------
(* Edits of the user, of the program and of the table. *)

(* The documents a session starts with.                                    *)
LEMMA DefaultIsTidy ==
  ASSUME ses \in Sessions
  PROVE  TidyDoc(DefaultDoc)
<1>1. DefaultDoc = [name |-> RootName, id |-> NoId, att |-> 0, kids |-> <<>>]
  BY DEF DefaultDoc
<1>2. RootName \in DOMAIN Types
  BY DeditorAssumption DEF RootName, Types
<1>3. <<>> \in Seq(Mid) /\ DOMAIN <<>> = {}
  OBVIOUS
<1>4. DefaultDoc \in Root
  BY <1>1, <1>2, <1>3 DEF Root, Nodes, AnyId
<1>5. DefaultDoc.kids = <<>>
  BY <1>1
<1> QED
  BY <1>3, <1>4, <1>5 DEF TidyDoc, Distinct

LEMMA OpenedIsTidy ==
  ASSUME ses \in Sessions, NEW d, Opened(Types, d)
  PROVE  TidyDoc(d)
<1> DEFINE L == Nodes(AllNames, AnyId, {})
           M == Nodes(AllNames, AnyId, L)
<1>1. ASSUME NEW names, NEW A, NEW B, A \subseteq B
      PROVE  Nodes(names, AnyId, A) \subseteq Nodes(names, AnyId, B)
  <2> SUFFICES ASSUME NEW e \in Nodes(names, AnyId, A)
               PROVE  e \in Nodes(names, AnyId, B)
    OBVIOUS
  <2>1. Seq(A) \subseteq Seq(B)
    BY <1>1
  <2> QED
    BY <2>1 DEF Nodes
<1>2. L \subseteq Low
  BY <1>1 DEF Low
<1> HIDE DEF L
<1>3. M \subseteq Mid
  BY <1>1, <1>2 DEF Mid
<1> HIDE DEF M
<1>4. d \in Nodes(DOMAIN Types, AnyId, M)
  BY DEF Opened, Documents, AllNames, AnyId, M, L
<1>5. d \in Root
  BY <1>1, <1>3, <1>4 DEF Root
<1>6. Distinct(d) /\ \A i \in DOMAIN d.kids : Distinct(d.kids[i]) /\ Declared(Types, d.kids[i])
  BY DEF Opened
<1>7. \A i \in DOMAIN d.kids : Tidy(d.kids[i])
  BY <1>6 DEF Tidy, Declared
<1> QED
  BY <1>5, <1>6, <1>7 DEF TidyDoc

(* The menu, and the list of replacements, have element names.             *)
LEMMA OfferIs ==
  ASSUME InOrder, NEW p \in Paths(doc)
  PROVE  Offer(p).replace \subseteq DOMAIN Types
<1> DEFINE up == At(doc, Front(p))
<1>1. ses \in Sessions /\ TidyDoc(doc)
  BY DEF InOrder
<1>2. CASE p = <<>>
  BY <1>2 DEF Offer
<1>3. CASE p # <<>>
  <2>1. Front(p) \in Above(doc)
    BY <1>1, <1>3, ChildIs
  <2>2. up.name \in DOMAIN Types /\ TypeOf(up) = Types[up.name]
    BY <1>1, <2>1, ParentIs DEF TypeOf
  <2>3. Names(TypeOf(up)) \subseteq DOMAIN Types
    BY <1>1, <2>2, TypesAre
  <2>4. Replace(TypeOf(up), KidNames(up), At(doc, p).name) \subseteq Names(TypeOf(up))
    BY OffersAreNames
  <2>5. Offer(p).replace = Replace(TypeOf(up), KidNames(up), At(doc, p).name)
    BY <1>3 DEF Offer
  <2> QED
    BY <2>3, <2>4, <2>5
<1> QED
  BY <1>2, <1>3

LEMMA ParentsAreAbove ==
  ASSUME NEW d
  PROVE  Parents(d) \subseteq Above(d)
BY DEF Parents, Above

(* An attribute is added or deleted.                                       *)
LEMMA SetAttributeStep ==
  ASSUME InOrder, NEW path \in Paths(doc), NEW v \in 0 .. 2, NEW by,
         SetAttribute(path, v, by)
  PROVE  Orderly
<1>1. sig'.deleted = {}
  BY DEF SetAttribute, Quiet
<1> QED
  BY <1>1, AttributeStep DEF SetAttribute

MenuOfNames == menu # NoMenu => menu.replace \subseteq DOMAIN Types

(* The user's edits, the program's edits and the edits of the table.       *)
LEMMA UserEditStep ==
  ASSUME InOrder, MenuOfNames, UserEdit
  PROVE  Orderly /\ menu' = NoMenu /\ UNCHANGED <<ses, xmlName, disk>>
<1>1. /\ menu # NoMenu
      /\ \/ \E n \in menu.add : cur \in Parents(doc) /\ AddNode(cur, n, "user")
         \/ \E n \in menu.before : InsertNode(cur, n, "before", "user")
         \/ \E n \in menu.after : InsertNode(cur, n, "after", "user")
         \/ \E n \in menu.replace : ReplaceNode(cur, n, "user")
         \/ menu.delete /\ DeleteNode(cur, "user")
         \/ menu.clear /\ cur \in Parents(doc) /\ ClearNode(cur, "user")
         \/ AddAttribute(cur, 1, "user")
         \/ DeleteAttribute(cur, "user")
      /\ menu' = NoMenu
      /\ UNCHANGED <<ses, xmlName, disk>>
  BY DEF UserEdit
<1>2. cur \in Paths(doc)
  BY DEF InOrder
<1>3. cur \in Parents(doc) => cur \in Above(doc)
  BY ParentsAreAbove
<1>4. ASSUME NEW n, cur \in Parents(doc), AddNode(cur, n, "user")
      PROVE  Orderly
  BY <1>3, <1>4, AddNodeStep
<1>5. ASSUME NEW n, NEW where, InsertNode(cur, n, where, "user")
      PROVE  Orderly
  BY <1>2, <1>5, InsertNodeStep
<1>6. ASSUME NEW n \in menu.replace, ReplaceNode(cur, n, "user")
      PROVE  Orderly
  <2>1. n \in DOMAIN Types
    BY <1>1 DEF MenuOfNames
  <2> QED
    BY <1>2, <1>6, <2>1, ReplaceNodeStep
<1>7. ASSUME DeleteNode(cur, "user")
      PROVE  Orderly
  BY <1>2, <1>7, DeleteNodeStep
<1>8. ASSUME cur \in Parents(doc), ClearNode(cur, "user")
      PROVE  Orderly
  BY <1>3, <1>8, ClearNodeStep
<1>9. ASSUME AddAttribute(cur, 1, "user")
      PROVE  Orderly
  BY <1>2, <1>9, SetAttributeStep DEF AddAttribute
<1>10. ASSUME DeleteAttribute(cur, "user")
       PROVE  Orderly
  BY <1>2, <1>10, SetAttributeStep DEF DeleteAttribute
<1> QED
  BY <1>1, <1>4, <1>5, <1>6, <1>7, <1>8, <1>9, <1>10

LEMMA ProgramEditStep ==
  ASSUME InOrder, ProgramEdit
  PROVE  Orderly /\ UNCHANGED <<ses, menu, xmlName, disk>>
<1>1. /\ \/ \E p \in Parents(doc) : \E n \in Offer(p).add : AddNode(p, n, "program")
         \/ \E p \in Paths(doc) : \E n \in Offer(p).replace : ReplaceNode(p, n, "program")
         \/ \E p \in Paths(doc) : DeleteNode(p, "program")
         \/ \E p \in Parents(doc) : ClearNode(p, "program")
         \/ \E p \in Paths(doc) : AddAttribute(p, 2, "program")
      /\ UNCHANGED <<ses, menu, xmlName, disk>>
  BY DEF ProgramEdit
<1>2. ASSUME NEW p \in Parents(doc), NEW n, AddNode(p, n, "program")
      PROVE  Orderly
  BY <1>2, ParentsAreAbove, AddNodeStep
<1>3. ASSUME NEW p \in Paths(doc), NEW n \in Offer(p).replace, ReplaceNode(p, n, "program")
      PROVE  Orderly
  <2>1. n \in DOMAIN Types
    BY OfferIs
  <2> QED
    BY <1>3, <2>1, ReplaceNodeStep
<1>4. ASSUME NEW p \in Paths(doc), DeleteNode(p, "program")
      PROVE  Orderly
  BY <1>4, DeleteNodeStep
<1>5. ASSUME NEW p \in Parents(doc), ClearNode(p, "program")
      PROVE  Orderly
  BY <1>5, ParentsAreAbove, ClearNodeStep
<1>6. ASSUME NEW p \in Paths(doc), AddAttribute(p, 2, "program")
      PROVE  Orderly
  BY <1>6, SetAttributeStep DEF AddAttribute
<1> QED
  BY <1>1, <1>2, <1>3, <1>4, <1>5, <1>6

LEMMA EditAttributeStep ==
  ASSUME InOrder, NEW v \in {1, 2}, EditAttribute(v)
  PROVE  Orderly /\ UNCHANGED <<ses, menu, xmlName, disk>>
<1>1. sig'.deleted = {}
  BY DEF EditAttribute, Quiet
<1>2. /\ doc' = WithAtt(doc, cur, v) /\ cur' = cur /\ pending' = pending
      /\ changed' = TRUE /\ UNCHANGED <<ses, menu, xmlName, disk>>
  BY DEF EditAttribute
<1>3. cur \in Paths(doc) /\ v \in 0 .. 2
  BY DEF InOrder
<1> QED
  BY <1>1, <1>2, <1>3, AttributeStep

-----------------------------------------------------------------------------
(* The invariant of the session. *)

(* The inductive invariant of the session.                                 *)
FilesAreTidy ==
  /\ xmlName \in File \cup {NoFile}
  /\ DOMAIN disk = File
  /\ \A f \in File : disk[f] # NoDoc => TidyDoc(disk[f])

PendingIsGone == ~MayReopen => pending \cap DocIds(doc) = {}

SessionInv ==
  /\ InOrder
  /\ FilesAreTidy
  /\ MenuOfNames
  /\ PendingIsGone
  /\ StructureIsSaved

(* The names of a schema are the same while the session is.                *)
LEMMA TidyStays ==
  ASSUME ses' = ses, TidyDoc(doc')
  PROVE  TidyDoc(doc)'
BY DEF TidyDoc, Root, Mid, Low, Deep, Bare, AllNames, AnyId, Types

LEMMA FilesStay ==
  ASSUME ses' = ses, DOMAIN disk' = File, xmlName' \in File \cup {NoFile},
         \A f \in File : disk'[f] # NoDoc => TidyDoc(disk'[f])
  PROVE  FilesAreTidy'
BY DEF FilesAreTidy, TidyDoc, Root, Mid, Low, Deep, Bare, AllNames, AnyId, Types

(* A step that leaves the document as it is and reports nothing.           *)
LEMMA QuietStep ==
  ASSUME SessionInv, UNCHANGED <<ses, doc, pending>>, sig'.deleted = {}, cur' \in Paths(doc)
  PROVE  InOrder' /\ PendingIsGone' /\ (~MayReopen => Reported)
<1>1. ses' = ses /\ doc' = doc /\ pending' = pending
  OBVIOUS
<1>2. TidyDoc(doc) /\ ses \in Sessions
  BY DEF SessionInv, InOrder
<1>3. TidyDoc(doc)'
  BY <1>1, <1>2, TidyStays
<1>4. InOrder'
  BY <1>1, <1>2, <1>3 DEF InOrder
<1>5. PendingIsGone' /\ (~MayReopen => Reported)
  BY <1>1 DEF SessionInv, PendingIsGone, MayReopen, Reported
<1> QED
  BY <1>4, <1>5

(* The session starts with it.                                             *)
LEMMA SessionInit ==
  ASSUME EditInit
  PROVE  SessionInv
<1>1. ses \in Sessions /\ cur = <<>> /\ menu = NoMenu /\ pending = {}
  BY DEF EditInit
<1>2. <<>> \in Paths(doc)
  BY PathsAre
<1>3. CASE xmlName = NoFile
  <2>1. NoFile \notin File
    BY DeditorAssumption
  <2>2. doc = DefaultDoc /\ disk = [f \in File |-> NoDoc]
    BY <1>3, <2>1 DEF EditInit
  <2>3. TidyDoc(doc)
    BY <1>1, <2>2, DefaultIsTidy
  <2> QED
    BY <1>1, <1>2, <1>3, <2>2, <2>3
       DEF SessionInv, InOrder, FilesAreTidy, MenuOfNames, PendingIsGone, StructureIsSaved
<1>4. CASE xmlName # NoFile
  <2>1. xmlName \in File /\ doc \in InitDocs /\ disk = [f \in File |-> IF f = xmlName THEN doc ELSE NoDoc]
    BY <1>4 DEF EditInit
  <2>2. Opened(Types, doc)
    BY <1>1, <2>1, DeditorAssumption DEF InitDocs, Types
  <2>3. TidyDoc(doc)
    BY <1>1, <2>2, OpenedIsTidy
  <2>4. DOMAIN disk = File /\ \A f \in File : disk[f] # NoDoc => disk[f] = doc
    BY <2>1
  <2>5. disk[xmlName] = doc
    BY <2>1
  <2> QED
    BY <1>1, <1>2, <2>1, <2>3, <2>4, <2>5
       DEF SessionInv, InOrder, FilesAreTidy, MenuOfNames, PendingIsGone, StructureIsSaved
<1> QED
  BY <1>3, <1>4

(* An edit.                                                                *)
LEMMA OrderlyStep ==
  ASSUME SessionInv, Orderly, UNCHANGED <<ses, xmlName, disk>>,
         menu' = NoMenu \/ menu' = menu
  PROVE  SessionInv' /\ (~MayReopen => Reported)
<1>1. ses' = ses /\ xmlName' = xmlName /\ disk' = disk
  OBVIOUS
<1>2. ses \in Sessions /\ TidyDoc(doc') /\ cur' \in Paths(doc')
  BY DEF SessionInv, InOrder, Orderly
<1>3. InOrder'
  BY <1>1, <1>2, TidyStays DEF InOrder
<1>4. FilesAreTidy'
  BY <1>1, FilesStay DEF SessionInv, FilesAreTidy
<1>5. MenuOfNames'
  BY <1>1 DEF SessionInv, MenuOfNames, Types
<1>6. ~MayReopen => Reported
  BY DEF SessionInv, PendingIsGone, Orderly
<1>7. PendingIsGone'
  BY <1>1, <1>6 DEF PendingIsGone, Reported, MayReopen
<1>8. StructureIsSaved'
  BY <1>1 DEF SessionInv, StructureIsSaved, Orderly
<1> QED
  BY <1>3, <1>4, <1>5, <1>6, <1>7, <1>8 DEF SessionInv

(* The menu is opened.                                                     *)
LEMMA OpenMenuStep ==
  ASSUME SessionInv, OpenMenu
  PROVE  SessionInv' /\ (~MayReopen => Reported)
<1>1. /\ UNCHANGED <<ses, doc, cur, changed, pending, xmlName, disk>>
      /\ menu' = Offer(cur) /\ sig'.deleted = {}
  BY DEF OpenMenu, Quiet
<1>2. InOrder /\ cur \in Paths(doc)
  BY DEF SessionInv, InOrder
<1>3. InOrder' /\ PendingIsGone' /\ (~MayReopen => Reported)
  BY <1>1, <1>2, QuietStep
<1>4. FilesAreTidy'
  BY <1>1, FilesStay DEF SessionInv, FilesAreTidy
<1>5. MenuOfNames'
  BY <1>1, <1>2, OfferIs DEF MenuOfNames, Types
<1>6. StructureIsSaved'
  BY <1>1 DEF SessionInv, StructureIsSaved
<1> QED
  BY <1>3, <1>4, <1>5, <1>6 DEF SessionInv

(* The menu is closed, another element selected.                           *)
LEMMA MoveStep ==
  ASSUME SessionInv, CloseMenu \/ \E path \in Paths(doc) : Select(path)
  PROVE  SessionInv' /\ (~MayReopen => Reported)
<1>1. /\ UNCHANGED <<ses, doc, changed, pending, xmlName, disk>>
      /\ cur' \in Paths(doc) /\ sig'.deleted = {} /\ (menu' = NoMenu \/ menu' = menu)
  BY DEF CloseMenu, Select, Quiet, SessionInv, InOrder
<1>2. InOrder' /\ PendingIsGone' /\ (~MayReopen => Reported)
  BY <1>1, QuietStep
<1>3. FilesAreTidy'
  BY <1>1, FilesStay DEF SessionInv, FilesAreTidy
<1>4. MenuOfNames'
  BY <1>1 DEF SessionInv, MenuOfNames, Types
<1>5. StructureIsSaved'
  BY <1>1 DEF SessionInv, StructureIsSaved
<1> QED
  BY <1>2, <1>3, <1>4, <1>5 DEF SessionInv

(* The document is saved, or replaced by that of a file.                   *)
LEMMA SaveCurDomStep ==
  ASSUME SessionInv, SaveCurDom
  PROVE  SessionInv' /\ (~MayReopen => Reported)
<1>1. /\ UNCHANGED <<ses, doc, cur, pending, menu, xmlName>> /\ menu = NoMenu
      /\ xmlName # NoFile /\ disk' = [disk EXCEPT ![xmlName] = doc] /\ sig'.deleted = {}
  BY DEF SaveCurDom, Quiet
<1>2. FilesAreTidy /\ TidyDoc(doc) /\ cur \in Paths(doc)
  BY DEF SessionInv, InOrder
<1>3. InOrder' /\ PendingIsGone' /\ (~MayReopen => Reported)
  BY <1>1, <1>2, QuietStep
<1>4. /\ xmlName \in File /\ DOMAIN disk' = File
      /\ \A f \in File : disk'[f] = IF f = xmlName THEN doc ELSE disk[f]
  BY <1>1, <1>2 DEF FilesAreTidy
<1>5. FilesAreTidy'
  BY <1>1, <1>2, <1>4, FilesStay DEF FilesAreTidy
<1>6. MenuOfNames'
  BY <1>1 DEF MenuOfNames
<1>7. StructureIsSaved'
  BY <1>1, <1>4 DEF StructureIsSaved
<1> QED
  BY <1>3, <1>5, <1>6, <1>7 DEF SessionInv

LEMMA SaveDomAsStep ==
  ASSUME SessionInv, NEW g \in File, SaveDomAs(g)
  PROVE  SessionInv' /\ (~MayReopen => Reported)
<1>1. /\ UNCHANGED <<ses, doc, cur, changed, pending, menu>> /\ menu = NoMenu
      /\ disk' = [disk EXCEPT ![g] = doc] /\ sig'.deleted = {} /\ g # xmlName
      /\ xmlName' = IF xmlName = NoFile THEN g ELSE xmlName
  BY DEF SaveDomAs, Quiet
<1>2. FilesAreTidy /\ TidyDoc(doc) /\ cur \in Paths(doc)
  BY DEF SessionInv, InOrder
<1>3. InOrder' /\ PendingIsGone' /\ (~MayReopen => Reported)
  BY <1>1, <1>2, QuietStep
<1>4. /\ xmlName' \in File /\ DOMAIN disk' = File
      /\ \A f \in File : disk'[f] = IF f = g THEN doc ELSE disk[f]
  BY <1>1, <1>2 DEF FilesAreTidy
<1>5. FilesAreTidy'
  BY <1>1, <1>2, <1>4, FilesStay DEF FilesAreTidy
<1>6. MenuOfNames'
  BY <1>1 DEF MenuOfNames
<1>7. StructureIsSaved'
  BY <1>1, <1>4 DEF SessionInv, StructureIsSaved
<1> QED
  BY <1>3, <1>5, <1>6, <1>7 DEF SessionInv

LEMMA SetDocumentStep ==
  ASSUME SessionInv, NEW g \in File, SetDocument(g)
  PROVE  SessionInv' /\ MayReopen
<1> DEFINE d == IF ValidDoc(disk[g]) THEN disk[g] ELSE DefaultDoc
<1>1. /\ UNCHANGED <<ses, menu>> /\ menu = NoMenu /\ MayReopen /\ disk[g] # NoDoc
      /\ doc' = d /\ disk' = [disk EXCEPT ![g] = d] /\ xmlName' = g /\ cur' = <<>>
  BY DEF SetDocument
<1>2. FilesAreTidy /\ ses \in Sessions
  BY DEF SessionInv, InOrder
<1>3. TidyDoc(d)
  BY <1>1, <1>2, DefaultIsTidy DEF FilesAreTidy
<1> HIDE DEF d
<1>4. InOrder'
  <2>1. TidyDoc(doc)' /\ ses' \in Sessions
    BY <1>1, <1>2, <1>3, TidyStays
  <2>2. cur' \in Paths(doc')
    BY <1>1, PathsAre
  <2> QED
    BY <2>1, <2>2 DEF InOrder
<1>5. /\ DOMAIN disk' = File
      /\ \A f \in File : disk'[f] = IF f = g THEN d ELSE disk[f]
  BY <1>1, <1>2 DEF FilesAreTidy
<1>6. FilesAreTidy'
  BY <1>1, <1>2, <1>3, <1>5, FilesStay DEF FilesAreTidy
<1>7. MenuOfNames' /\ PendingIsGone'
  BY <1>1 DEF MenuOfNames, PendingIsGone, MayReopen
<1>8. StructureIsSaved'
  BY <1>1, <1>5 DEF StructureIsSaved
<1> QED
  BY <1>1, <1>4, <1>6, <1>7, <1>8 DEF SessionInv

(* Every step keeps the invariant.                                         *)
LEMMA SessionNext ==
  ASSUME SessionInv, EditNext
  PROVE  SessionInv' /\ (~MayReopen => Reported)
<1>1. InOrder /\ MenuOfNames
  BY DEF SessionInv
<1>2. CASE OpenMenu
  BY <1>2, OpenMenuStep
<1>3. CASE CloseMenu \/ \E path \in Paths(doc) : Select(path)
  BY <1>3, MoveStep
<1>4. CASE UserEdit
  <2>1. Orderly /\ menu' = NoMenu /\ UNCHANGED <<ses, xmlName, disk>>
    BY <1>1, <1>4, UserEditStep
  <2> QED
    BY <2>1, OrderlyStep
<1>5. CASE ProgramEdit
  <2>1. Orderly /\ UNCHANGED <<ses, menu, xmlName, disk>>
    BY <1>1, <1>5, ProgramEditStep
  <2> QED
    BY <2>1, OrderlyStep
<1>6. CASE \E v \in {1, 2} : EditAttribute(v)
  <2>1. Orderly /\ UNCHANGED <<ses, menu, xmlName, disk>>
    BY <1>1, <1>6, EditAttributeStep
  <2> QED
    BY <2>1, OrderlyStep
<1>7. CASE SaveCurDom
  BY <1>7, SaveCurDomStep
<1>8. CASE \E f \in File : SaveDomAs(f)
  BY <1>8, SaveDomAsStep
<1>9. CASE \E f \in File : SetDocument(f)
  BY <1>9, SetDocumentStep
<1> QED
  BY <1>2, <1>3, <1>4, <1>5, <1>6, <1>7, <1>8, <1>9 DEF EditNext

LEMMA SessionStutters ==
  ASSUME SessionInv, UNCHANGED editVars
  PROVE  SessionInv'
<1>1. UNCHANGED <<ses, doc, cur, changed, pending, menu, xmlName, disk>>
  BY DEF editVars
<1>2. TidyDoc(doc)'
  BY <1>1, TidyStays DEF SessionInv, InOrder
<1>3. InOrder'
  BY <1>1, <1>2 DEF SessionInv, InOrder
<1>4. FilesAreTidy'
  BY <1>1, FilesStay DEF SessionInv, FilesAreTidy
<1>5. MenuOfNames' /\ PendingIsGone'
  BY <1>1 DEF SessionInv, MenuOfNames, PendingIsGone, Types, MayReopen
<1>6. StructureIsSaved'
  BY <1>1 DEF SessionInv, StructureIsSaved
<1> QED
  BY <1>3, <1>4, <1>5, <1>6 DEF SessionInv

(* The session keeps its invariant: the document has the three levels and  *)
(* no identifier twice, the current element is in it, and so on.           *)
THEOREM SessionInvariant == EditSpec => []SessionInv
<1>1. EditInit => SessionInv
  BY SessionInit
<1>2. SessionInv /\ [EditNext]_editVars => SessionInv'
  BY SessionNext, SessionStutters
<1> QED
  BY <1>1, <1>2, PTL DEF EditSpec

(* While getChangeData says that nothing is unsaved, the session's file    *)
(* has the structure of the document, whatever the order of edits, saves   *)
(* under any name and reopenings (DataChange, deditor.cpp).                *)
THEOREM SavedStructureIsKept == EditSpec => []StructureIsSaved
<1>1. SessionInv => StructureIsSaved
  BY DEF SessionInv
<1> QED
  BY <1>1, SessionInvariant, PTL

(* What leaves the document waits in deletedId until deleteNode or         *)
(* clearNode report it, and what they report is not in the document: no    *)
(* deletion is lost or reported of a node that is still there, whoever     *)
(* edits and through whatever menu (deletedId, deditor.cpp).               *)
THEOREM DeletionsAreReported == EditSpec => DeletionsReported
<1>1. /\ SessionInv /\ [EditNext]_editVars
      => [~MayReopen =>
            /\ (DocIds(doc) \cup pending) \ (DocIds(doc') \cup pending') \subseteq sig'.deleted
            /\ sig'.deleted \cap DocIds(doc') = {}]_editVars
  BY SessionNext DEF Reported
<1> QED
  BY <1>1, SessionInvariant, PTL DEF EditSpec, DeletionsReported

-----------------------------------------------------------------------------
(* Declared children. *)

(* A document whose elements have children their types declare.            *)
DeclaredDoc(d) ==
  Declared(Types, d) /\ \A i \in DOMAIN d.kids : Declared(Types, d.kids[i])

(* One that may be put under an element called m.                          *)
Allowed(m, e) == e.name \in Names(Types[m]) \cup {Comment} /\ Declared(Types, e)

LEMMA FreshIsAllowed ==
  ASSUME ses \in Sessions, NEW m, NEW n \in Names(Types[m]), n \in DOMAIN Types,
         NEW e \in Fresh(n)
  PROVE  Allowed(m, e)
<1>1. /\ e.name = n /\ n # Comment
      /\ \A i \in DOMAIN e.kids : e.kids[i].name \in Names(Types[n])
  BY FreshIs
<1> QED
  BY <1>1 DEF Allowed, Declared

LEMMA DeclaredIs ==
  ASSUME ses \in Sessions, NEW d, TidyDoc(d)
  PROVE  /\ Declared(Types, d) <=>
              \A i \in DOMAIN d.kids : d.kids[i].name \in Names(Types[d.name]) \cup {Comment}
         /\ DeclaredDoc(d) <=> \A i \in DOMAIN d.kids : Allowed(d.name, d.kids[i])
<1>1. d.name \in DOMAIN Types /\ d.name # Comment
  BY DeditorAssumption DEF TidyDoc, Root, Nodes, Types
<1> QED
  BY <1>1 DEF Declared, DeclaredDoc, Allowed

(* Children that were there, or that may be there, are put in their place. *)
MayDeclare(ks, os, m, top) ==
  \A i \in DOMAIN ks :
    \/ \E j \in DOMAIN os : ks[i] = os[j]
    \/ ks[i].name \in Names(Types[m]) \cup {Comment} /\ (top => Declared(Types, ks[i]))

LEMMA DeclaredEdit ==
  ASSUME ses \in Sessions, NEW d, TidyDoc(d), DeclaredDoc(d), NEW p \in Above(d),
         NEW os, os = At(d, p).kids, NEW ks, MayDeclare(ks, os, At(d, p).name, p = <<>>),
         NEW e, e = WithKids(d, p, ks)
  PROVE  DeclaredDoc(e)
<1>1. d \in Root
  BY DEF TidyDoc
<1>2. d = [name |-> d.name, id |-> d.id, att |-> d.att, kids |-> d.kids]
      /\ d.kids \in Seq(Mid)
  BY <1>1 DEF Root, Nodes
<1>3. \A i \in DOMAIN d.kids : /\ d.kids[i].name \in Names(Types[d.name]) \cup {Comment}
                               /\ Declared(Types, d.kids[i])
  BY DeclaredIs DEF DeclaredDoc, Allowed
<1>4. d.name # Comment
  BY <1>1, DeditorAssumption DEF Root, Nodes, Types
<1>5. CASE p = <<>>
  <2>1. e = [name |-> d.name, id |-> d.id, att |-> d.att, kids |-> ks]
    BY <1>2, <1>5 DEF WithKids
  <2>2. e.name = d.name /\ e.kids = ks
    BY <2>1
  <2>3. os = d.kids /\ At(d, p).name = d.name
    BY <1>5, PathsAre
  <2>4. \A i \in DOMAIN ks : /\ ks[i].name \in Names(Types[d.name]) \cup {Comment}
                             /\ Declared(Types, ks[i])
    BY <1>3, <1>5, <2>3 DEF MayDeclare
  <2> QED
    BY <1>4, <2>2, <2>4 DEF DeclaredDoc, Declared
<1>6. ASSUME NEW m \in DOMAIN d.kids, d.kids[m].name # Comment, p = <<m>>
      PROVE  DeclaredDoc(e)
  <2> DEFINE c == d.kids[m]
             f == [c EXCEPT !.kids = ks]
             s == [d.kids EXCEPT ![m] = f]
  <2>1. <<m>> # <<>> /\ <<m>>[1] = m
    BY ShortPaths
  <2>2. e = [d EXCEPT !.kids = s]
    BY <1>6, <2>1 DEF WithKids
  <2>3. c \in Mid
    BY <1>1, KidsAre
  <2>4. c = [name |-> c.name, id |-> c.id, att |-> c.att, kids |-> c.kids]
    BY <2>3 DEF Mid, Nodes
  <2>5. f.name = c.name /\ f.kids = ks
    BY <2>4
  <2>6. DOMAIN s = DOMAIN d.kids /\ \A j \in DOMAIN d.kids : s[j] = IF j = m THEN f ELSE d.kids[j]
    BY <1>2
  <2> HIDE DEF f, s
  <2>7. e.name = d.name /\ e.kids = s
    BY <1>2, <2>2
  <2>8. At(d, p) = c
    BY <1>6, PathsAre
  <2>9. \A i \in DOMAIN ks : ks[i].name \in Names(Types[c.name]) \cup {Comment}
    BY <1>3, <1>6, <2>8 DEF MayDeclare, Declared
  <2>10. Declared(Types, f)
    BY <1>6, <2>5, <2>9 DEF Declared
  <2> QED
    BY <1>3, <1>4, <2>5, <2>6, <2>7, <2>10 DEF DeclaredDoc, Declared
<1> QED
  BY <1>5, <1>6, AboveIs

LEMMA DeclaredSame ==
  ASSUME ses \in Sessions, NEW d, TidyDoc(d), DeclaredDoc(d), NEW e, TidyDoc(e), Same(d, e)
  PROVE  DeclaredDoc(e)
<1>1. /\ e.name = d.name /\ DOMAIN e.kids = DOMAIN d.kids
      /\ \A i \in DOMAIN d.kids :
           /\ e.kids[i].name = d.kids[i].name
           /\ DOMAIN e.kids[i].kids = DOMAIN d.kids[i].kids
           /\ \A j \in DOMAIN d.kids[i].kids : e.kids[i].kids[j].name = d.kids[i].kids[j].name
  BY DEF Same
<1>2. \A i \in DOMAIN e.kids : e.kids[i].name = Comment => e.kids[i].kids = <<>>
  BY DEF TidyDoc, Tidy
<1> QED
  BY <1>1, <1>2 DEF DeclaredDoc, Declared

-----------------------------------------------------------------------------
(* Additions under a modal menu. *)

(* What a method does to the flag and the signal of manual additions when  *)
(* it is not refused to the user.                                          *)
Announces ==
  /\ DeclaredDoc(doc')
  /\ manual' = FALSE
  /\ sig'.add => sig'.by = "user"

InModal == InOrder /\ DeclaredDoc(doc) /\ manual = FALSE /\ Flat(Types)

(* The program's calls may be refused, they do not count as manual.        *)
LEMMA RefuseAnnounces ==
  ASSUME InModal, Refuse("program")
  PROVE  Announces
<1>1. doc' = doc /\ manual' = Manual("program") /\ sig'.add = FALSE
  BY DEF Refuse, Quiet
<1>2. manual' = FALSE
  BY <1>1 DEF Manual, InModal
<1> QED
  BY <1>1, <1>2 DEF Announces, InModal

LEMMA AddedAnnounces ==
  ASSUME InModal, NEW by \in {"user", "program"}, Added(by)
  PROVE  manual' = FALSE /\ (sig'.add => sig'.by = "user")
<1>1. manual' = FALSE /\ sig'.add = Manual(by) /\ sig'.by = by
  BY DEF Added, Quiet
<1>2. Manual(by) <=> by = "user"
  BY DEF Manual, InModal
<1> QED
  BY <1>1, <1>2

(* Some of the children that were there.                                   *)
SomeOf(ks, os) == \A i \in DOMAIN ks : \E j \in DOMAIN os : ks[i] = os[j]

(* New elements among children that are declared.                          *)
LEMMA InsertDeclares ==
  ASSUME ses \in Sessions, NEW d, TidyDoc(d), DeclaredDoc(d), NEW p \in Above(d),
         NEW os, os = At(d, p).kids, NEW rest, NEW k \in Nat,
         rest \in Seq(KidLevel(p)), SomeOf(rest, os),
         NEW n \in Names(Types[At(d, p).name]), NEW row \in 0 .. Len(rest),
         NEW e, e = WithKids(d, p, Insert(rest, row, NewOnes(n, k)))
  PROVE  DeclaredDoc(e)
<1> DEFINE new == NewOnes(n, k)
           ks == Insert(rest, row, new)
           m == At(d, p).name
<1>1. n \in DOMAIN Types
  BY ParentIs, TypesAre
<1>2. /\ new \in Seq(KidLevel(p))
      /\ \A i \in DOMAIN new : new[i] \in Fresh(n) /\ IdsIn(new[i]) = {}
  BY <1>1, NewOnesFit
<1>3. \A i \in DOMAIN new : Allowed(m, new[i])
  BY <1>1, <1>2, FreshIsAllowed
<1> HIDE DEF new, m
<1>4. \A i \in DOMAIN ks : \/ \E j \in DOMAIN rest : ks[i] = rest[j]
                           \/ \E j \in DOMAIN new : ks[i] = new[j]
  <2>1. SameIds(ks, rest, new)
    BY <1>2, InsertKeepsIds
  <2> HIDE DEF ks
  <2> QED
    BY <2>1 DEF SameIds
<1>5. e = WithKids(d, p, ks)
  BY DEF new
<1> HIDE DEF ks
<1>6. \A i \in DOMAIN ks : (\E j \in DOMAIN os : ks[i] = os[j]) \/ Allowed(m, ks[i])
  BY <1>3, <1>4 DEF SomeOf
<1>7. MayDeclare(ks, os, m, p = <<>>)
  BY <1>6 DEF MayDeclare, Allowed
<1> QED
  BY <1>5, <1>7, DeclaredEdit DEF m

LEMMA AddNodeAnnounces ==
  ASSUME InModal, NEW p \in Above(doc), NEW n, NEW by \in {"user", "program"},
         AddNode(p, n, by),
         by = "user" => n \in NamesAt(TypeOf(At(doc, p)),
                                      GetAddChild(TypeOf(At(doc, p)), KidNames(At(doc, p))))
  PROVE  Announces
<1> DEFINE el  == At(doc, p)
           T   == TypeOf(el)
           ks  == KidNames(el)
           k   == Copies(T.desc[DescOf(T, n)])
           row == AddRow(T, ks, n)
<1>1. CASE n \notin NamesAt(T, GetAddChild(T, ks))
  <2>1. by = "program" /\ Refuse(by)
    BY <1>1 DEF AddNode
  <2> QED
    BY <2>1, RefuseAnnounces
<1>2. CASE n \in NamesAt(T, GetAddChild(T, ks))
  <2>1. /\ doc' = WithKids(doc, p, Insert(el.kids, row, NewOnes(n, k)))
        /\ Added(by)
    BY <1>2 DEF AddNode
  <2>2. ses \in Sessions /\ TidyDoc(doc) /\ DeclaredDoc(doc)
    BY DEF InOrder, InModal
  <2>3. el.name \in DOMAIN Types /\ T = Types[el.name] /\ el.kids \in Seq(KidLevel(p))
    BY <2>2, ParentIs DEF TypeOf
  <2>4. n \in Names(T)
    BY <1>2, OffersAreNames
  <2>5. k \in Nat
    BY <2>2, <2>3, <2>4, DescOfIs
  <2>6. ks \in Seq(AllNames) /\ Len(ks) = Len(el.kids)
    BY <2>2, KidNamesAre
  <2>7. row \in 0 .. Len(el.kids)
    <3> HIDE DEF el, ks, T, row
    <3>1. AddRow(T, ks, n) \in 0 .. Len(ks)
      BY <2>2, <2>3, <2>4, <2>6, AddRowIs
    <3> QED
      BY <2>6, <3>1 DEF row
  <2>8. n \in Names(Types[el.name])
    BY <2>3, <2>4
  <2> HIDE DEF T, ks, k, row
  <2>9. DeclaredDoc(doc')
    <3> DEFINE os == el.kids
    <3>1. os = At(doc, p).kids /\ SomeOf(os, os)
      BY DEF SomeOf
    <3>2. os \in Seq(KidLevel(p)) /\ row \in 0 .. Len(os)
          /\ doc' = WithKids(doc, p, Insert(os, row, NewOnes(n, k)))
      BY <2>1, <2>3, <2>7
    <3>3. n \in Names(Types[At(doc, p).name])
      BY <2>8
    <3> HIDE DEF os, el
    <3> QED
      BY <2>2, <2>5, <3>1, <3>2, <3>3, InsertDeclares
  <2> QED
    BY <2>1, <2>9, AddedAnnounces DEF Announces
<1> QED
  BY <1>1, <1>2

LEMMA InsertNodeAnnounces ==
  ASSUME InModal, NEW path \in Paths(doc), path # <<>>, NEW n, NEW where,
         InsertNode(path, n, where, "user"),
         NEW up, up = At(doc, Front(path)),
         n \in NamesAt(TypeOf(up), IF where = "before"
                                   THEN InsBefore(TypeOf(up), KidNames(up), Last(path))
                                   ELSE InsAfter(TypeOf(up), KidNames(up), Last(path)))
  PROVE  Announces
<1> DEFINE p    == Front(path)
           i    == Last(path)
           T    == TypeOf(up)
           row  == IF where = "before" THEN i - 1 ELSE i
<1>1. /\ doc' = WithKids(doc, p, Insert(up.kids, row, NewOnes(n, 1)))
      /\ Added("user")
  BY DEF InsertNode
<1>2. ses \in Sessions /\ TidyDoc(doc) /\ DeclaredDoc(doc)
  BY DEF InOrder, InModal
<1>3. p \in Above(doc) /\ i \in DOMAIN up.kids
  BY <1>2, ChildIs
<1>4. up.name \in DOMAIN Types /\ T = Types[up.name] /\ up.kids \in Seq(KidLevel(p))
  BY <1>2, <1>3, ParentIs DEF TypeOf
<1>5. n \in Names(T)
  BY OffersAreNames
<1>6. row \in 0 .. Len(up.kids)
  <2>1. DOMAIN up.kids = 1 .. Len(up.kids) /\ Len(up.kids) \in Nat
    BY <1>4, LenProperties
  <2> HIDE DEF i
  <2> QED
    BY <1>3, <2>1
<1>7. n \in Names(Types[up.name])
  BY <1>4, <1>5
<1>8. DeclaredDoc(doc')
  <2> DEFINE os == up.kids
  <2>1. /\ os = At(doc, p).kids /\ SomeOf(os, os)
        /\ os \in Seq(KidLevel(p)) /\ row \in 0 .. Len(os)
    BY <1>4, <1>6 DEF SomeOf
  <2>2. doc' = WithKids(doc, p, Insert(os, row, NewOnes(n, 1)))
    BY <1>1
  <2>3. n \in Names(Types[At(doc, p).name]) /\ 1 \in Nat
    BY <1>7
  <2> HIDE DEF os, p, row
  <2> QED
    BY <1>2, <1>3, <2>1, <2>2, <2>3, InsertDeclares
<1> QED
  BY <1>1, <1>8, AddedAnnounces DEF Announces

-----------------------------------------------------------------------------
(* Replacements and removals under a modal menu. *)

(* The description of a child the type declares.                           *)
LEMMA ChildDescIs ==
  ASSUME InModal, NEW path \in Paths(doc), path # <<>>,
         NEW up, up = At(doc, Front(path)), NEW T, T = TypeOf(up),
         NEW old, old = At(doc, path).name
  PROVE  /\ old \in Names(T) /\ old # Comment
         /\ DescOf(T, old) \in DOMAIN T.desc
         /\ T.desc[DescOf(T, old)].name = old
         /\ T.desc[DescOf(T, old)].ratio = T.ratio
         /\ T.desc[DescOf(T, old)].min \in Nat
<1>1. ses \in Sessions /\ TidyDoc(doc) /\ DeclaredDoc(doc) /\ Flat(Types)
  BY DEF InOrder, InModal
<1>2. /\ Front(path) \in Above(doc) /\ Last(path) \in DOMAIN up.kids
      /\ up.kids[Last(path)].name = old /\ old # Comment
  BY <1>1, ChildIs
<1>3. up.name \in DOMAIN Types /\ T = Types[up.name]
  BY <1>1, <1>2, ParentIs DEF TypeOf
<1>4. up.name # Comment
  BY <1>3, DeditorAssumption, <1>1 DEF Types
<1>5. Declared(Types, up)
  <2>1. CASE Front(path) = <<>>
    BY <1>1, <2>1, PathsAre DEF DeclaredDoc
  <2>2. ASSUME NEW m \in DOMAIN doc.kids, Front(path) = <<m>>
        PROVE  Declared(Types, up)
    BY <1>1, <2>2, PathsAre DEF DeclaredDoc
  <2> QED
    BY <1>2, <2>1, <2>2, AboveIs
<1>6. old \in Names(T)
  BY <1>2, <1>3, <1>4, <1>5 DEF Declared
<1>7. /\ DescOf(T, old) \in DOMAIN T.desc
      /\ T.desc[DescOf(T, old)].name = old
      /\ T.desc[DescOf(T, old)].min \in Nat
  BY <1>1, <1>3, <1>6, DescOfIs
<1> QED
  BY <1>1, <1>2, <1>3, <1>6, <1>7 DEF Flat

(* What the menu offers as a replacement, replaceNode does.                *)
LEMMA ReplaceOffered ==
  ASSUME NEW T, NEW ks, NEW old, NEW n \in Replace(T, ks, old),
         T.desc[DescOf(T, old)].ratio = T.ratio
  PROVE  /\ T.ratio # "sequence"
         /\ T.ratio = "choice" \/ ~(Count(ks, old) <= T.desc[DescOf(T, old)].min)
<1> DEFINE d == T.desc[DescOf(T, old)]
           nmin == IF d.ratio = "choice" THEN 0 ELSE d.min
<1>1. ~(d.ratio = "sequence" \/ Count(ks, old) <= nmin)
  BY DEF Replace
<1> QED
  BY <1>1

LEMMA ReplaceNodeAnnounces ==
  ASSUME InModal, NEW path \in Paths(doc), path # <<>>, NEW by \in {"user", "program"},
         NEW n, ReplaceNode(path, n, by),
         NEW up, up = At(doc, Front(path)),
         n \in Replace(TypeOf(up), KidNames(up), At(doc, path).name)
  PROVE  Announces
<1> DEFINE p    == Front(path)
           T    == TypeOf(up)
           old  == At(doc, path).name
           rows == ReplacedRows(up, Last(path))
           row  == IF T.ratio = "choice" THEN 0 ELSE Last(path) - 1
           k    == IF n \in Names(T) THEN Copies(T.desc[DescOf(T, n)]) ELSE 1
           rest == Without(up.kids, rows)
<1>1. ses \in Sessions /\ TidyDoc(doc) /\ DeclaredDoc(doc)
  BY DEF InOrder, InModal
<1>2. p \in Above(doc) /\ Last(path) \in DOMAIN up.kids
  BY <1>1, ChildIs
<1>3. up.name \in DOMAIN Types /\ T = Types[up.name] /\ up.kids \in Seq(KidLevel(p))
  BY <1>1, <1>2, ParentIs DEF TypeOf
<1>4. n \in Names(T)
  BY OffersAreNames
<1>5. T.desc[DescOf(T, old)].ratio = T.ratio /\ T.desc[DescOf(T, old)].min \in Nat
  BY ChildDescIs
<1>6. T.ratio # "sequence" /\ (T.ratio = "choice" \/ Count(KidNames(up), old) > T.desc[DescOf(T, old)].min)
  <2>1. KidNames(up) \in Seq(AllNames)
    BY <1>1, <1>2, KidNamesAre
  <2>2. Count(KidNames(up), old) \in Nat
    BY <2>1, CountIs, LenProperties
  <2>3. T.ratio # "sequence"
    BY <1>5, ReplaceOffered
  <2>4. T.ratio = "choice" \/ ~(Count(KidNames(up), old) <= T.desc[DescOf(T, old)].min)
    BY <1>5, ReplaceOffered
  <2> HIDE DEF T, old
  <2> QED
    BY <1>5, <2>2, <2>3, <2>4
<1>7. /\ doc' = WithKids(doc, p, Insert(rest, row, NewOnes(n, k)))
      /\ Added(by)
  BY <1>6 DEF ReplaceNode
<1>8. k \in Nat
  BY <1>1, <1>3, <1>4, DescOfIs
<1>9. PICK a \in 1 .. Len(up.kids), b \in 1 .. Len(up.kids) :
        /\ b \in a .. Len(up.kids) /\ rows = a .. b
        /\ row \in 0 .. Len(up.kids) - (b - a + 1)
  <2>1. \E a \in 1 .. Len(up.kids) : \E b \in a .. Len(up.kids) :
           rows = a .. b /\ row \in 0 .. Len(up.kids) - (b - a + 1)
    BY <1>1, <1>2, ReplacedRowsAre
  <2> HIDE DEF rows, row
  <2> QED
    BY <2>1
<1>10. n \in Names(Types[up.name])
  BY <1>3, <1>4
<1>11. rest = Without(up.kids, a .. b)
  BY <1>9
<1> HIDE DEF T, old, rows, row, k, rest
<1>12. /\ rest \in Seq(KidLevel(p)) /\ Len(rest) = Len(up.kids) - (b - a + 1)
       /\ \A i \in DOMAIN rest : \E j \in DOMAIN up.kids : rest[i] = up.kids[j]
  <2> DEFINE m == b - a + 1
             os == up.kids
  <2>1. rest \in Seq(KidLevel(p)) /\ TakesOut(rest, os, a, m)
    BY <1>3, <1>9, <1>11, WithoutIs
  <2>2. FewerIds(rest, os, IdsAt(os, a .. b))
    BY <1>3, <1>9, <1>11, WithoutKeepsIds
  <2>3. \A i \in DOMAIN rest : \E j \in DOMAIN os : rest[i] = os[j]
    BY <2>2 DEF FewerIds
  <2> QED
    BY <2>1, <2>3 DEF TakesOut
<1>13. DeclaredDoc(doc')
  <2> DEFINE os == up.kids
  <2>1. /\ os = At(doc, p).kids /\ n \in Names(Types[At(doc, p).name])
        /\ SomeOf(rest, os)
    BY <1>10, <1>12 DEF SomeOf
  <2>2. row \in 0 .. Len(rest) /\ rest \in Seq(KidLevel(p))
    BY <1>9, <1>12
  <2> HIDE DEF os, p
  <2> QED
    BY <1>1, <1>2, <1>7, <1>8, <2>1, <2>2, InsertDeclares
<1> QED
  BY <1>7, <1>13, AddedAnnounces DEF Announces

(* Removals.                                                               *)
LEMMA FewerDeclares ==
  ASSUME ses \in Sessions, NEW d, TidyDoc(d), DeclaredDoc(d), NEW p \in Above(d),
         NEW ks, \A i \in DOMAIN ks : \E j \in DOMAIN At(d, p).kids : ks[i] = At(d, p).kids[j],
         NEW e, e = WithKids(d, p, ks)
  PROVE  DeclaredDoc(e)
<1> DEFINE os == At(d, p).kids
<1>1. MayDeclare(ks, os, At(d, p).name, p = <<>>)
  BY DEF MayDeclare
<1> QED
  BY <1>1, DeclaredEdit

LEMMA DeleteNodeAnnounces ==
  ASSUME InModal, NEW path \in Paths(doc), NEW by, DeleteNode(path, by)
  PROVE  Announces
<1> DEFINE el   == At(doc, Front(path))
           rows == DeletedRows(el, Last(path))
           removed == UNION {IdsIn(el.kids[j]) : j \in rows}
<1>1. /\ path # <<>> /\ rows # {}
      /\ doc' = WithKids(doc, Front(path), Without(el.kids, rows))
      /\ sig' = [Quiet(by) EXCEPT !.deleted = pending \cup removed]
      /\ manual' = manual
  BY DEF DeleteNode
<1>2. ses \in Sessions /\ TidyDoc(doc) /\ DeclaredDoc(doc) /\ manual = FALSE
  BY DEF InOrder, InModal
<1>3. Front(path) \in Above(doc) /\ Last(path) \in DOMAIN el.kids
  BY <1>1, <1>2, ChildIs
<1>4. PICK a \in 1 .. Len(el.kids), b \in 1 .. Len(el.kids) :
        b \in a .. Len(el.kids) /\ rows = a .. b
  <2>1. \E a \in 1 .. Len(el.kids) : \E b \in a .. Len(el.kids) : rows = a .. b
    BY <1>1, <1>2, <1>3, DeletedRowsAre
  <2> HIDE DEF el, rows
  <2> QED
    BY <2>1
<1>5. sig'.add = FALSE
  BY <1>1 DEF Quiet
<1>6. doc' = WithKids(doc, Front(path), Without(el.kids, a .. b))
  BY <1>1, <1>4
<1> HIDE DEF removed, rows
<1>7. \A i \in DOMAIN Without(el.kids, a .. b) :
         \E j \in DOMAIN el.kids : Without(el.kids, a .. b)[i] = el.kids[j]
  <2> DEFINE os == el.kids
             ks == Without(os, a .. b)
  <2>1. os \in Seq(KidLevel(Front(path)))
    BY <1>2, <1>3, ParentIs
  <2>2. FewerIds(ks, os, IdsAt(os, a .. b))
    BY <1>4, <2>1, WithoutKeepsIds
  <2> QED
    BY <2>2 DEF FewerIds
<1>8. DeclaredDoc(doc')
  <2> DEFINE ks == Without(el.kids, a .. b)
             p == Front(path)
  <2>1. /\ p \in Above(doc) /\ doc' = WithKids(doc, p, ks)
        /\ \A i \in DOMAIN ks : \E j \in DOMAIN At(doc, p).kids : ks[i] = At(doc, p).kids[j]
    BY <1>3, <1>6, <1>7
  <2> HIDE DEF ks, p
  <2> QED
    BY <1>2, <2>1, FewerDeclares
<1> QED
  BY <1>1, <1>2, <1>5, <1>8 DEF Announces

LEMMA ClearNodeAnnounces ==
  ASSUME InModal, NEW p \in Above(doc), NEW by, ClearNode(p, by)
  PROVE  Announces
<1> DEFINE el == At(doc, p)
           ks == Cleared(el)
<1>1. /\ doc' = WithKids(doc, p, ks)
      /\ sig' = [Quiet(by) EXCEPT !.deleted = pending \cup (DocIds(doc) \ DocIds(doc'))]
      /\ manual' = manual
  BY DEF ClearNode
<1>2. ses \in Sessions /\ TidyDoc(doc) /\ DeclaredDoc(doc) /\ manual = FALSE
  BY DEF InOrder, InModal
<1>3. el.kids \in Seq(KidLevel(p))
  BY <1>2, ParentIs
<1>4. Thinned(ks, el.kids)
  BY <1>3, ClearedIs
<1>5. sig'.add = FALSE
  BY <1>1 DEF Quiet
<1> HIDE DEF ks
<1>6. DeclaredDoc(doc')
  BY <1>1, <1>2, <1>4, FewerDeclares DEF Thinned
<1> QED
  BY <1>1, <1>2, <1>5, <1>6 DEF Announces

LEMMA AttributeAnnounces ==
  ASSUME InModal, NEW path \in Paths(doc), NEW v \in 0 .. 2,
         doc' = WithAtt(doc, path, v), manual' = manual, sig'.add = FALSE
  PROVE  Announces
<1>1. ses \in Sessions /\ TidyDoc(doc) /\ DeclaredDoc(doc) /\ manual = FALSE
  BY DEF InOrder, InModal
<1>2. TidyDoc(doc') /\ Same(doc, doc')
  BY <1>1, AttEdit
<1> QED
  BY <1>1, <1>2, DeclaredSame DEF Announces

LEMMA SetAttributeAnnounces ==
  ASSUME InModal, NEW path \in Paths(doc), NEW v \in 0 .. 2, NEW by,
         SetAttribute(path, v, by)
  PROVE  Announces
<1>1. sig'.add = FALSE
  BY DEF SetAttribute, Quiet
<1> QED
  BY <1>1, AttributeAnnounces DEF SetAttribute

-----------------------------------------------------------------------------
(* Manual additions. *)

(* While the program rests during a menu and no document is opened again,  *)
(* the menu is what it was when it was opened and the flag is down.        *)
ModalInv ==
  MenuIsModal /\ ~MayReopen =>
    /\ DeclaredDoc(doc)
    /\ manual = FALSE
    /\ menu # NoMenu => menu = Offer(cur)
    /\ sig.add => sig.by = "user"

(* The entries of a menu that is as it was when it was opened.             *)
LEMMA UserEditAnnounces ==
  ASSUME InModal, UserEdit, menu = Offer(cur)
  PROVE  Announces
<1> DEFINE el == At(doc, cur)
           up == At(doc, Front(cur))
           T  == TypeOf(up)
           ks == KidNames(up)
<1>1. cur \in Paths(doc) /\ (cur \in Parents(doc) => cur \in Above(doc))
  BY ParentsAreAbove DEF InModal, InOrder
<1>2. /\ menu.add = NamesAt(TypeOf(el), GetAddChild(TypeOf(el), KidNames(el)))
      /\ cur = <<>> => menu.before = {} /\ menu.after = {} /\ menu.replace = {}
      /\ cur # <<>> => /\ menu.before = NamesAt(T, InsBefore(T, ks, Last(cur)))
                       /\ menu.after = NamesAt(T, InsAfter(T, ks, Last(cur)))
                       /\ menu.replace = Replace(T, ks, el.name)
  BY DEF Offer
<1>3. ASSUME NEW n \in menu.add, cur \in Parents(doc), AddNode(cur, n, "user")
      PROVE  Announces
  BY <1>1, <1>2, <1>3, AddNodeAnnounces
<1>4. ASSUME NEW n \in menu.before, InsertNode(cur, n, "before", "user")
      PROVE  Announces
  <2>1. cur # <<>> /\ n \in NamesAt(T, InsBefore(T, ks, Last(cur)))
    BY <1>2
  <2>2. n \in NamesAt(T, IF "before" = "before" THEN InsBefore(T, ks, Last(cur))
                                                ELSE InsAfter(T, ks, Last(cur)))
    BY <2>1
  <2> HIDE DEF up
  <2> QED
    BY <1>1, <1>4, <2>1, <2>2, InsertNodeAnnounces DEF up
<1>5. ASSUME NEW n \in menu.after, InsertNode(cur, n, "after", "user")
      PROVE  Announces
  <2>1. cur # <<>> /\ n \in NamesAt(T, InsAfter(T, ks, Last(cur)))
    BY <1>2
  <2>2. n \in NamesAt(T, IF "after" = "before" THEN InsBefore(T, ks, Last(cur))
                                               ELSE InsAfter(T, ks, Last(cur)))
    BY <2>1
  <2> QED
    BY <1>1, <1>5, <2>1, <2>2, InsertNodeAnnounces
<1>6. ASSUME NEW n \in menu.replace, ReplaceNode(cur, n, "user")
      PROVE  Announces
  <2>1. cur # <<>> /\ n \in Replace(T, ks, el.name)
    BY <1>2
  <2> QED
    BY <1>1, <1>6, <2>1, ReplaceNodeAnnounces
<1>7. ASSUME DeleteNode(cur, "user")
      PROVE  Announces
  BY <1>1, <1>7, DeleteNodeAnnounces
<1>8. ASSUME cur \in Parents(doc), ClearNode(cur, "user")
      PROVE  Announces
  BY <1>1, <1>8, ClearNodeAnnounces
<1>9. ASSUME AddAttribute(cur, 1, "user")
      PROVE  Announces
  BY <1>1, <1>9, SetAttributeAnnounces DEF AddAttribute
<1>10. ASSUME DeleteAttribute(cur, "user")
       PROVE  Announces
  BY <1>1, <1>10, SetAttributeAnnounces DEF DeleteAttribute
<1> HIDE DEF el, up, T, ks
<1> QED
  BY <1>3, <1>4, <1>5, <1>6, <1>7, <1>8, <1>9, <1>10 DEF UserEdit

LEMMA ProgramEditAnnounces ==
  ASSUME InModal, ProgramEdit
  PROVE  Announces
<1>1. ASSUME NEW p \in Parents(doc), NEW n, AddNode(p, n, "program")
      PROVE  Announces
  BY <1>1, ParentsAreAbove, AddNodeAnnounces
<1>2. ASSUME NEW p \in Paths(doc), NEW n \in Offer(p).replace, ReplaceNode(p, n, "program")
      PROVE  Announces
  <2>1. p # <<>> /\ n \in Replace(TypeOf(At(doc, Front(p))), KidNames(At(doc, Front(p))), At(doc, p).name)
    BY DEF Offer
  <2> QED
    BY <1>2, <2>1, ReplaceNodeAnnounces
<1>3. ASSUME NEW p \in Paths(doc), DeleteNode(p, "program")
      PROVE  Announces
  BY <1>3, DeleteNodeAnnounces
<1>4. ASSUME NEW p \in Parents(doc), ClearNode(p, "program")
      PROVE  Announces
  BY <1>4, ParentsAreAbove, ClearNodeAnnounces
<1>5. ASSUME NEW p \in Paths(doc), AddAttribute(p, 2, "program")
      PROVE  Announces
  BY <1>5, SetAttributeAnnounces DEF AddAttribute
<1> QED
  BY <1>1, <1>2, <1>3, <1>4, <1>5 DEF ProgramEdit

(* From what the methods do to the invariant.                              *)
LEMMA AnnouncesStep ==
  ASSUME Announces, ses' = ses, menu' = NoMenu
  PROVE  ModalInv'
<1>1. DeclaredDoc(doc)'
  BY DEF Announces, DeclaredDoc, Types
<1> QED
  BY <1>1 DEF Announces, ModalInv

(* Every step keeps it, and the session starts with it.                    *)
LEMMA ModalStep ==
  ASSUME FlatSessions, InOrder, ModalInv, EditNext
  PROVE  ModalInv'
<1>1. CASE ~(MenuIsModal /\ ~MayReopen)
  <2>1. ses' = ses
    BY DEF EditNext, OpenMenu, CloseMenu, UserEdit, ProgramEdit, EditAttribute, Select,
           SaveCurDom, SaveDomAs, SetDocument
  <2> QED
    BY <1>1, <2>1 DEF ModalInv, MenuIsModal, MayReopen
<1>2. CASE MenuIsModal /\ ~MayReopen
  <2>1. /\ DeclaredDoc(doc) /\ manual = FALSE
        /\ menu # NoMenu => menu = Offer(cur)
    BY <1>2 DEF ModalInv
  <2>2. Flat(Types)
    BY <1>2 DEF FlatSessions, InOrder, MenuIsModal, MayReopen, Types
  <2>3. InModal
    BY <2>1, <2>2 DEF InModal
  <2>4. CASE UserEdit
    <3>1. menu = Offer(cur) /\ ses' = ses /\ menu' = NoMenu
      BY <2>1, <2>4 DEF UserEdit
    <3> QED
      BY <2>3, <2>4, <3>1, UserEditAnnounces, AnnouncesStep
  <2>5. CASE ProgramEdit
    <3>1. menu' = NoMenu /\ ses' = ses
      BY <1>2, <2>5 DEF ProgramEdit
    <3> QED
      BY <2>3, <2>5, <3>1, ProgramEditAnnounces, AnnouncesStep
  <2>6. ASSUME NEW v \in {1, 2}, EditAttribute(v)
        PROVE  ModalInv'
    <3>1. /\ doc' = WithAtt(doc, cur, v) /\ manual' = manual /\ sig'.add = FALSE
          /\ menu' = NoMenu /\ ses' = ses
      BY <2>6 DEF EditAttribute, Quiet
    <3>2. cur \in Paths(doc) /\ v \in 0 .. 2
      BY DEF InOrder
    <3> QED
      BY <2>3, <3>1, <3>2, AttributeAnnounces, AnnouncesStep
  <2>7. ASSUME UNCHANGED <<ses, doc, manual>>, sig'.add = FALSE,
               menu' = NoMenu \/ (menu' = Offer(cur) /\ cur' = cur)
        PROVE  ModalInv'
    <3>1. DeclaredDoc(doc)' /\ (manual = FALSE)'
      BY <2>1, <2>7 DEF DeclaredDoc, Types
    <3>2. cur' = cur => Offer(cur)' = Offer(cur)
      BY <2>7 DEF Offer, TypeOf, Types
    <3> QED
      BY <2>7, <3>1, <3>2 DEF ModalInv
  <2>8. CASE OpenMenu
    BY <2>7, <2>8 DEF OpenMenu, Quiet
  <2>9. CASE CloseMenu
    BY <2>7, <2>9 DEF CloseMenu, Quiet
  <2>10. CASE \E path \in Paths(doc) : Select(path)
    BY <2>7, <2>10 DEF Select, Quiet
  <2>11. CASE SaveCurDom
    BY <2>7, <2>11 DEF SaveCurDom, Quiet
  <2>12. CASE \E f \in File : SaveDomAs(f)
    BY <2>7, <2>12 DEF SaveDomAs, Quiet
  <2>13. CASE \E f \in File : SetDocument(f)
    BY <1>2, <2>13 DEF SetDocument
  <2> QED
    BY <2>4, <2>5, <2>6, <2>8, <2>9, <2>10, <2>11, <2>12, <2>13 DEF EditNext
<1> QED
  BY <1>1, <1>2

LEMMA ModalInit ==
  ASSUME EditInit
  PROVE  ModalInv
<1>1. /\ ses \in Sessions /\ manual = FALSE /\ menu = NoMenu /\ sig.add = FALSE
      /\ doc = DefaultDoc \/ doc \in InitDocs
  BY DEF EditInit, Quiet
<1>2. CASE doc = DefaultDoc
  <2>1. RootName # Comment
    BY <1>1, DeditorAssumption DEF RootName
  <2>2. doc.name = RootName /\ doc.kids = <<>>
    BY <1>2 DEF DefaultDoc
  <2> QED
    BY <1>1, <2>1, <2>2 DEF ModalInv, DeclaredDoc, Declared
<1>3. CASE doc \in InitDocs
  <2>1. Opened(Types, doc)
    BY <1>1, <1>3, DeditorAssumption DEF InitDocs, Types
  <2>2. DeclaredDoc(doc)
    BY <2>1 DEF Opened, DeclaredDoc
  <2> QED
    BY <1>1, <2>2 DEF ModalInv
<1> QED
  BY <1>1, <1>2, <1>3

(* AddManualNode comes from additions of the user's only, in a session     *)
(* whose program rests while a menu is open, that opens no document, and   *)
(* whose schema has no relation inside one of another kind: the menu then  *)
(* offers nothing the method refuses, so that no flag stays set for the    *)
(* program's next addition (manualChange, deditor.cpp).                    *)
THEOREM ManualAdditionsAreUsers ==
  ASSUME FlatSessions
  PROVE  EditSpec => []ManualIsUsers
<1>1. EditInit => ModalInv
  BY ModalInit
<1>2. SessionInv /\ ModalInv /\ [EditNext]_editVars => ModalInv'
  <2>1. ASSUME ModalInv, UNCHANGED editVars
        PROVE  ModalInv'
    BY <2>1 DEF editVars, ModalInv, DeclaredDoc, Offer, TypeOf, Types, MenuIsModal, MayReopen
  <2> QED
    BY <2>1, ModalStep DEF SessionInv
<1>3. ModalInv => ManualIsUsers
  BY DEF ModalInv, ManualIsUsers
<1> QED
  BY <1>1, <1>2, <1>3, SessionInvariant, PTL DEF EditSpec

-----------------------------------------------------------------------------
(* Counting in sequences joined, cut, put in and taken out. *)

LEMMA CountNat ==
  ASSUME NEW S, NEW ks \in Seq(S), NEW n
  PROVE  Count(ks, n) \in Nat
<1>1. Len(ks) \in Nat
  BY LenProperties
<1>2. Count(ks, n) \in 0 .. Len(ks)
  BY CountIs
<1> QED
  BY <1>1, <1>2

LEMMA MinMaxIs ==
  ASSUME NEW a \in Nat, NEW b \in Nat, a <= b
  PROVE  Min(a .. b) = a /\ Max(a .. b) = b
<1>1. a \in a .. b /\ b \in a .. b /\ \A x \in a .. b : a <= x /\ b >= x
  OBVIOUS
<1>2. \A x \in a .. b : (\A y \in a .. b : x <= y) => x = a
  BY <1>1
<1>3. \A x \in a .. b : (\A y \in a .. b : x >= y) => x = b
  BY <1>1
<1> QED
  BY <1>1, <1>2, <1>3 DEF Min, Max

(* As many of the second sequence are behind the first as are in it.       *)
LEMMA ShiftedCount ==
  ASSUME NEW m \in Nat, NEW k \in Nat, NEW B \in SUBSET (1 .. m)
  PROVE  /\ IsFiniteSet({k + j : j \in B})
         /\ Cardinality({k + j : j \in B}) = Cardinality(B)
<1> DEFINE C == {k + j : j \in B}
           f == [j \in B |-> k + j]
<1>1. IsFiniteSet(B)
  BY PartOfInterval
<1>2. f \in Bijection(B, C)
  <2>1. f \in [B -> C]
    OBVIOUS
  <2>2. \A i, j \in B : f[i] = f[j] => i = j
    OBVIOUS
  <2>3. \A c \in C : \E j \in B : f[j] = c
    OBVIOUS
  <2> QED
    BY <2>1, <2>2, <2>3 DEF Bijection, Injection, Surjection, IsInjective
<1>3. ExistsBijection(B, C)
  BY <1>2 DEF ExistsBijection
<1> HIDE DEF C
<1> QED
  BY <1>1, <1>3, FS_Bijection DEF C

LEMMA CountConcat ==
  ASSUME NEW S, NEW s \in Seq(S), NEW t \in Seq(S), NEW n
  PROVE  Count(s \o t, n) = Count(s, n) + Count(t, n)
<1> DEFINE k == Len(s)
           m == Len(t)
           A == {i \in DOMAIN s : s[i] = n}
           B == {j \in DOMAIN t : t[j] = n}
           C == {k + j : j \in B}
           U == {i \in DOMAIN (s \o t) : (s \o t)[i] = n}
<1>1. k \in Nat /\ m \in Nat /\ DOMAIN s = 1 .. k /\ DOMAIN t = 1 .. m
  BY LenProperties
<1>2. /\ DOMAIN (s \o t) = 1 .. k + m
      /\ \A i \in 1 .. k + m : (s \o t)[i] = IF i <= k THEN s[i] ELSE t[i - k]
  BY ConcatProperties, LenProperties
<1>3. A \in SUBSET (1 .. k) /\ B \in SUBSET (1 .. m)
  BY <1>1
<1>4. U \subseteq A \cup C
  <2> SUFFICES ASSUME NEW i \in U PROVE i \in A \cup C
    OBVIOUS
  <2>1. i \in 1 .. k + m /\ (s \o t)[i] = n
    BY <1>2
  <2>2. CASE i <= k
    <3>1. i \in A
      BY <1>1, <1>2, <2>1, <2>2
    <3> QED
      BY <3>1
  <2>3. CASE ~(i <= k)
    <3>1. i - k \in 1 .. m
      BY <1>1, <2>1, <2>3
    <3>2. i - k \in B
      BY <1>1, <1>2, <2>1, <2>3, <3>1
    <3>3. i = k + (i - k)
      BY <1>1, <2>1
    <3> QED
      BY <3>2, <3>3
  <2> QED
    BY <2>2, <2>3
<1>5. A \subseteq U
  <2> SUFFICES ASSUME NEW i \in A PROVE i \in U
    OBVIOUS
  <2>1. i \in 1 .. k + m /\ i <= k /\ s[i] = n
    BY <1>1
  <2> QED
    BY <1>2, <2>1
<1>6. C \subseteq U
  <2> SUFFICES ASSUME NEW j \in B PROVE k + j \in U
    OBVIOUS
  <2>1. j \in 1 .. m /\ t[j] = n
    BY <1>1
  <2>2. k + j \in 1 .. k + m /\ ~(k + j <= k) /\ (k + j) - k = j
    BY <1>1, <2>1
  <2> QED
    BY <1>2, <2>1, <2>2
<1>7. A \cap C = {}
  BY <1>1
<1>8. U = A \cup C
  <2> HIDE DEF U, A, C
  <2> QED
    BY <1>4, <1>5, <1>6
<1>9. IsFiniteSet(A) /\ IsFiniteSet(C) /\ Cardinality(C) = Cardinality(B)
  <2>1. IsFiniteSet(A)
    <3> HIDE DEF A
    <3> QED
      BY <1>1, <1>3, PartOfInterval
  <2>2. IsFiniteSet(C) /\ Cardinality(C) = Cardinality(B)
    <3> HIDE DEF B, k, m
    <3> QED
      BY <1>1, <1>3, ShiftedCount
  <2> QED
    BY <2>1, <2>2
<1>10. Count(s, n) = Cardinality(A) /\ Count(t, n) = Cardinality(B) /\ Count(s \o t, n) = Cardinality(U)
  BY DEF Count
<1> HIDE DEF A, B, C, U
<1>11. Cardinality(A \cap C) = 0
  BY <1>7, FS_EmptySet
<1>12. Cardinality(A) \in Nat /\ Cardinality(C) \in Nat
  BY <1>9, FS_CardinalityType
<1>13. Cardinality(U) = Cardinality(A) + Cardinality(C) - Cardinality(A \cap C)
  BY <1>8, <1>9, FS_Union
<1> QED
  BY <1>9, <1>10, <1>11, <1>12, <1>13

(* A row of one name.                                                      *)
LEMMA CountSame ==
  ASSUME NEW S, NEW s \in Seq(S), NEW x, \A i \in DOMAIN s : s[i] = x, NEW n
  PROVE  Count(s, n) = IF n = x THEN Len(s) ELSE 0
<1>1. Len(s) \in Nat /\ DOMAIN s = 1 .. Len(s)
  BY LenProperties
<1>2. CASE n = x
  <2>1. {i \in DOMAIN s : s[i] = n} = 1 .. Len(s)
    BY <1>1, <1>2
  <2>2. Cardinality(1 .. Len(s)) = Len(s)
    BY <1>1, FS_Interval
  <2> QED
    BY <1>2, <2>1, <2>2 DEF Count
<1>3. CASE n # x
  <2>1. {i \in DOMAIN s : s[i] = n} = {}
    BY <1>3
  <2> QED
    BY <1>3, <2>1, FS_EmptySet DEF Count
<1> QED
  BY <1>2, <1>3

LEMMA RepeatIs ==
  ASSUME NEW S, NEW x \in S, NEW k \in Nat
  PROVE  /\ Repeat(x, k) \in Seq(S) /\ Len(Repeat(x, k)) = k
         /\ DOMAIN Repeat(x, k) = 1 .. k /\ \A i \in 1 .. k : Repeat(x, k)[i] = x
         /\ \A n : Count(Repeat(x, k), n) = IF n = x THEN k ELSE 0
<1>1. Repeat(x, k) = [i \in 1 .. k |-> x]
  BY DEF Repeat
<1> DEFINE s == Repeat(x, k)
<1>2. s \in Seq(S) /\ Len(s) = k /\ DOMAIN s = 1 .. k /\ \A i \in 1 .. k : s[i] = x
  BY <1>1
<1> HIDE DEF s
<1>3. \A n : Count(s, n) = IF n = x THEN k ELSE 0
  BY <1>2, CountSame
<1> QED
  BY <1>2, <1>3 DEF s

(* A sequence is cut in two anywhere, and in three.                        *)
LEMMA CountCut ==
  ASSUME NEW S, NEW s \in Seq(S), NEW r \in 0 .. Len(s), NEW n
  PROVE  Count(s, n) = Count(SubSeq(s, 1, r), n) + Count(SubSeq(s, r + 1, Len(s)), n)
<1>1. Len(s) \in Nat
  BY LenProperties
<1>2. 1 \in 1 .. Len(s) + 1 /\ r \in 1 - 1 .. Len(s) /\ Len(s) \in r .. Len(s)
      /\ r + 1 \in 1 .. Len(s) + 1 /\ Len(s) \in (r + 1) - 1 .. Len(s)
  BY <1>1
<1>3. SubSeq(s, 1, r) \in Seq(S) /\ SubSeq(s, r + 1, Len(s)) \in Seq(S)
  BY <1>2, SubSeqIs
<1> DEFINE u == SubSeq(s, 1, r)
           v == SubSeq(s, r + 1, Len(s))
<1>4. u \o v = SubSeq(s, 1, Len(s))
  BY <1>2, ConcatAdjacentSubSeq
<1>5. SubSeq(s, 1, Len(s)) = s
  <2>1. /\ SubSeq(s, 1, Len(s)) \in Seq(S) /\ Len(SubSeq(s, 1, Len(s))) = Len(s) - 1 + 1
        /\ \A j \in 1 .. Len(s) - 1 + 1 : SubSeq(s, 1, Len(s))[j] = s[1 + j - 1]
    BY <1>1, SubSeqIs
  <2> DEFINE w == SubSeq(s, 1, Len(s))
  <2>2. w \in Seq(S) /\ Len(w) = Len(s) /\ \A j \in 1 .. Len(w) : w[j] = s[j]
    BY <1>1, <2>1
  <2> HIDE DEF w
  <2>3. w = s
    BY <2>2, SeqEqual
  <2> QED
    BY <2>3 DEF w
<1>6. u \in Seq(S) /\ v \in Seq(S)
  BY <1>3
<1> HIDE DEF u, v
<1>7. Count(u \o v, n) = Count(u, n) + Count(v, n)
  BY <1>6, CountConcat
<1> QED
  BY <1>4, <1>5, <1>7 DEF u, v

(* What is put in is counted in addition.                                  *)
LEMMA CountInsert ==
  ASSUME NEW S, NEW kids \in Seq(S), NEW new \in Seq(S), NEW row \in 0 .. Len(kids), NEW n
  PROVE  Count(Insert(kids, row, new), n) = Count(kids, n) + Count(new, n)
<1> DEFINE a == SubSeq(kids, 1, row)
           c == SubSeq(kids, row + 1, Len(kids))
<1>1. Len(kids) \in Nat
  BY LenProperties
<1>2. 1 \in 1 .. Len(kids) + 1 /\ row \in 1 - 1 .. Len(kids)
      /\ row + 1 \in 1 .. Len(kids) + 1 /\ Len(kids) \in (row + 1) - 1 .. Len(kids)
  BY <1>1
<1>3. a \in Seq(S) /\ c \in Seq(S)
  BY <1>2, SubSeqIs
<1>4. Count(kids, n) = Count(a, n) + Count(c, n)
  BY CountCut
<1>5. Insert(kids, row, new) = (a \o new) \o c
  BY DEF Insert
<1> HIDE DEF a, c
<1>6. a \o new \in Seq(S)
  BY <1>3, ConcatProperties
<1>7. Count((a \o new) \o c, n) = Count(a, n) + Count(new, n) + Count(c, n)
  <2>1. Count((a \o new) \o c, n) = Count(a \o new, n) + Count(c, n)
    BY <1>3, <1>6, CountConcat
  <2>2. Count(a \o new, n) = Count(a, n) + Count(new, n)
    BY <1>3, CountConcat
  <2> QED
    BY <2>1, <2>2
<1>8. Count(a, n) \in Nat /\ Count(c, n) \in Nat /\ Count(new, n) \in Nat
  BY <1>3, CountNat
<1> QED
  BY <1>4, <1>5, <1>7, <1>8

(* What is taken out is counted no more.                                   *)
Stretch(kids, a, b) == SubSeq(kids, a, b)

LEMMA CountWithout ==
  ASSUME NEW S, NEW kids \in Seq(S), NEW a \in 1 .. Len(kids), NEW b \in a .. Len(kids),
         NEW n, NEW part, part = Stretch(kids, a, b)
  PROVE  /\ Count(kids, n) = Count(Without(kids, a .. b), n) + Count(part, n)
         /\ Count(Without(kids, a .. b), n) \in Nat /\ Count(part, n) \in Nat
<1> DEFINE u == SubSeq(kids, 1, a - 1)
           v == SubSeq(kids, b + 1, Len(kids))
           w == SubSeq(kids, a, Len(kids))
<1>1. Len(kids) \in Nat
  BY LenProperties
<1>2. Min(a .. b) = a /\ Max(a .. b) = b
  BY <1>1, MinMaxIs
<1>3. Without(kids, a .. b) = u \o v
  BY <1>2 DEF Without
<1>4. u \in Seq(S) /\ v \in Seq(S) /\ w \in Seq(S) /\ part \in Seq(S)
  <2>1. 1 \in 1 .. Len(kids) + 1 /\ a - 1 \in 1 - 1 .. Len(kids)
        /\ b + 1 \in 1 .. Len(kids) + 1 /\ Len(kids) \in (b + 1) - 1 .. Len(kids)
        /\ a \in 1 .. Len(kids) + 1 /\ Len(kids) \in a - 1 .. Len(kids) /\ b \in a - 1 .. Len(kids)
    BY <1>1
  <2> QED
    BY <2>1, SubSeqIs DEF Stretch
<1>5. Count(kids, n) = Count(u, n) + Count(w, n)
  <2>1. a - 1 \in 0 .. Len(kids) /\ (a - 1) + 1 = a
    BY <1>1
  <2> QED
    BY <2>1, CountCut
<1>6. w = part \o v
  <2>1. a \in 1 .. Len(kids) + 1 /\ b \in a - 1 .. Len(kids) /\ Len(kids) \in b .. Len(kids)
    BY <1>1
  <2> QED
    BY <2>1, ConcatAdjacentSubSeq DEF Stretch
<1> HIDE DEF u, v, w
<1>7. Count(w, n) = Count(part, n) + Count(v, n) /\ Count(u \o v, n) = Count(u, n) + Count(v, n)
  BY <1>4, <1>6, CountConcat
<1>8. Count(u, n) \in Nat /\ Count(v, n) \in Nat /\ Count(part, n) \in Nat
  BY <1>4, CountNat
<1>9. Count(Without(kids, a .. b), n) = Count(u, n) + Count(v, n)
  BY <1>3, <1>7
<1>10. Count(kids, n) = Count(u, n) + (Count(part, n) + Count(v, n))
  BY <1>5, <1>7
<1> QED
  BY <1>8, <1>9, <1>10

-----------------------------------------------------------------------------
(* The content model of a plain type by the names of the children. *)

(* The description of a name in a plain type.                              *)
Of(T, n) == T.desc[DescOf(T, n)]

(* What there is to say of a plain type by its names.                      *)
Describes(T) ==
  /\ T.ratio \in {"sequence", "choice", "all"}
  /\ Len(T.desc) \in Nat /\ DOMAIN T.desc = 1 .. Len(T.desc)
  /\ \A i \in DOMAIN T.desc : T.desc[i].name \in Names(T) /\ DescOf(T, T.desc[i].name) = i
  /\ \A n \in Names(T) :
       /\ DescOf(T, n) \in DOMAIN T.desc /\ Of(T, n).name = n
       /\ Of(T, n).min \in Nat /\ Of(T, n).max \in Nat /\ Of(T, n).pos \in Nat
       /\ Of(T, n).ratio = T.ratio
       /\ Of(T, n).max = 0 \/ Of(T, n).min <= Of(T, n).max
       /\ T.ratio = "all" => Of(T, n).min <= 1
  /\ Comment \notin Names(T)

LEMMA PlainDescribes ==
  ASSUME NEW N, NEW T, SchemaType(N, T), Plain(T)
  PROVE  Describes(T)
<1> DEFINE D == [name : N, min : Nat, max : Nat, pos : Nat, ratio : {"sequence", "choice", "all"}]
           L == Len(T.desc)
<1>1. T.ratio \in {"sequence", "choice", "all"} /\ T.desc \in Seq(D)
  BY DEF SchemaType
<1>2. L \in Nat /\ DOMAIN T.desc = 1 .. L
  BY <1>1, LenProperties
<1>3. \A i \in DOMAIN T.desc : T.desc[i] \in D
  <2> HIDE DEF D
  <2> QED
    BY <1>1, <1>2, ElementOfSeq
<1>4. \A i \in DOMAIN T.desc : /\ T.desc[i].min \in Nat /\ T.desc[i].max \in Nat
                               /\ T.desc[i].pos \in Nat
  BY <1>3
<1>5. \A i \in DOMAIN T.desc : T.desc[i].name \in Names(T)
  BY DEF Names
<1>6. \A i, j \in DOMAIN T.desc : T.desc[i].name = T.desc[j].name => i = j
  BY DEF Plain
<1>7. ASSUME NEW n \in Names(T)
      PROVE  DescOf(T, n) \in DOMAIN T.desc /\ T.desc[DescOf(T, n)].name = n
  <2> DEFINE S == {i \in DOMAIN T.desc : T.desc[i].name = n}
  <2>1. S # {} /\ S \in SUBSET Nat
    BY <1>2 DEF Names
  <2>2. Min(S) \in S
    <3> HIDE DEF S
    <3> QED
      BY <2>1, MinIs
  <2>3. DescOf(T, n) = Min(S)
    BY DEF DescOf
  <2> QED
    BY <2>2, <2>3
<1>8. \A i \in DOMAIN T.desc : DescOf(T, T.desc[i].name) = i
  BY <1>5, <1>6, <1>7
<1>9. \A i \in DOMAIN T.desc : /\ T.desc[i].ratio = T.ratio /\ T.desc[i].name # Comment
                               /\ T.desc[i].max = 0 \/ T.desc[i].min <= T.desc[i].max
                               /\ T.ratio = "all" => T.desc[i].min <= 1
  BY DEF Plain
<1>10. Comment \notin Names(T)
  BY <1>9 DEF Names
<1> QED
  BY <1>1, <1>2, <1>4, <1>5, <1>7, <1>8, <1>9, <1>10 DEF Describes, Of

(* What a sequence of names must be to conform: no name too often, in a    *)
(* sequence in the order of the descriptions, in a choice of one name.     *)
Within(T, ks) == \A n \in Names(T) : Of(T, n).max = 0 \/ Count(ks, n) <= Of(T, n).max

Sorted(T, ks) ==
  T.ratio = "sequence" =>
    \A x, y \in DOMAIN ks : x < y /\ ks[x] # Comment /\ ks[y] # Comment =>
      DescOf(T, ks[x]) <= DescOf(T, ks[y])

OneName(T, ks) ==
  T.ratio = "choice" =>
    \A x, y \in DOMAIN ks : ks[x] # Comment /\ ks[y] # Comment => ks[x] = ks[y]

LEMMA ConformsIs ==
  ASSUME NEW T, Plain(T), Describes(T), NEW ks \in Seq(Names(T) \cup {Comment})
  PROVE  Conforms(T, ks) <=> Within(T, ks) /\ Sorted(T, ks) /\ OneName(T, ks)
<1> DEFINE E == {x \in DOMAIN ks : ks[x] # Comment}
           D(x) == T.desc[DescOf(T, ks[x])]
           Few == \A i \in DOMAIN T.desc :
                    T.desc[i].max > 0 => Count(ks, T.desc[i].name) <= T.desc[i].max
           Placed == \A x, y \in E :
                     /\ T.ratio = "sequence" /\ x < y => D(x).pos <= D(y).pos
                     /\ /\ D(x).ratio = "choice" /\ D(y).ratio = "choice"
                        /\ D(x).pos = D(y).pos
                        => ks[x] = ks[y]
<1>1. DOMAIN ks = 1 .. Len(ks) /\ Len(ks) \in Nat
  BY LenProperties
<1>2. \A x \in E : ks[x] \in Names(T)
  BY <1>1, ElementOfSeq
<1>3. Conforms(T, ks) <=> (\A x \in E : ks[x] \in Names(T)) /\ Few /\ Placed
  BY DEF Conforms
<1>4. Few <=> Within(T, ks)
  <2>1. ASSUME Few, NEW n \in Names(T)
        PROVE  Of(T, n).max = 0 \/ Count(ks, n) <= Of(T, n).max
    <3>1. DescOf(T, n) \in DOMAIN T.desc /\ T.desc[DescOf(T, n)].name = n
          /\ T.desc[DescOf(T, n)].max \in Nat
      BY DEF Describes, Of
    <3>2. T.desc[DescOf(T, n)].max > 0 => Count(ks, n) <= T.desc[DescOf(T, n)].max
      BY <2>1, <3>1
    <3> QED
      BY <3>1, <3>2 DEF Of
  <2>2. ASSUME Within(T, ks), NEW i \in DOMAIN T.desc, T.desc[i].max > 0
        PROVE  Count(ks, T.desc[i].name) <= T.desc[i].max
    <3>1. T.desc[i].name \in Names(T) /\ Of(T, T.desc[i].name) = T.desc[i]
      BY DEF Describes, Of
    <3>2. T.desc[i].max \in Nat
      BY <3>1 DEF Describes
    <3> QED
      BY <2>2, <3>1, <3>2 DEF Within
  <2> QED
    BY <2>1, <2>2 DEF Within
<1>5. \A x \in E : /\ DescOf(T, ks[x]) \in DOMAIN T.desc /\ DescOf(T, ks[x]) \in Nat
                   /\ T.desc[DescOf(T, ks[x])].name = ks[x]
                   /\ D(x).pos \in Nat /\ D(x).ratio = T.ratio
  BY <1>2 DEF Describes, Of
<1>6. \A i, j \in DOMAIN T.desc :
        /\ T.ratio = "sequence" /\ i < j => T.desc[i].pos < T.desc[j].pos
        /\ T.ratio = "choice" => T.desc[i].pos = T.desc[j].pos
  BY DEF Plain
<1>7. CASE T.ratio = "sequence"
  <2>1. ASSUME NEW x \in E, NEW y \in E
        PROVE  D(x).pos <= D(y).pos <=> DescOf(T, ks[x]) <= DescOf(T, ks[y])
    <3> DEFINE i == DescOf(T, ks[x])
               j == DescOf(T, ks[y])
    <3>1. /\ i \in DOMAIN T.desc /\ j \in DOMAIN T.desc /\ i \in Nat /\ j \in Nat
          /\ T.desc[i].pos \in Nat /\ T.desc[j].pos \in Nat
      BY <1>5
    <3>2. (i < j => T.desc[i].pos < T.desc[j].pos) /\ (j < i => T.desc[j].pos < T.desc[i].pos)
      BY <1>6, <1>7, <3>1
    <3> HIDE DEF i, j
    <3>3. T.desc[i].pos <= T.desc[j].pos <=> i <= j
      <4>1. CASE i < j
        BY <3>1, <3>2, <4>1
      <4>2. CASE j < i
        BY <3>1, <3>2, <4>2
      <4>3. CASE i = j
        BY <3>1, <4>3
      <4> QED
        BY <3>1, <4>1, <4>2, <4>3
    <3> QED
      BY <3>3 DEF i, j
  <2>2. Placed <=> \A x, y \in E : x < y => D(x).pos <= D(y).pos
    BY <1>5, <1>7
  <2>3. Placed <=> Sorted(T, ks)
    BY <1>7, <2>1, <2>2 DEF Sorted
  <2>4. OneName(T, ks)
    BY <1>7 DEF OneName
  <2> QED
    BY <1>2, <1>3, <1>4, <2>3, <2>4
<1>8. CASE T.ratio = "choice"
  <2>1. \A x, y \in E : D(x).pos = D(y).pos /\ D(x).ratio = "choice"
    BY <1>5, <1>6, <1>8
  <2>2. Placed <=> OneName(T, ks)
    BY <1>8, <2>1 DEF OneName
  <2>3. Sorted(T, ks)
    BY <1>8 DEF Sorted
  <2> QED
    BY <1>2, <1>3, <1>4, <2>2, <2>3
<1>9. CASE T.ratio = "all"
  <2>1. Placed /\ Sorted(T, ks) /\ OneName(T, ks)
    BY <1>5, <1>9 DEF Sorted, OneName
  <2> QED
    BY <1>2, <1>3, <1>4, <2>1
<1> QED
  BY <1>7, <1>8, <1>9 DEF Describes

(* To be complete: no name too seldom, or in a choice another one is       *)
(* there, or none needs to be.                                             *)
Enough(T, ks) ==
  \A n \in Names(T) :
    \/ Count(ks, n) >= Of(T, n).min
    \/ /\ T.ratio = "choice" /\ Count(ks, n) = 0
       /\ \E e \in Names(T) : Count(ks, e) > 0 \/ Of(T, e).min = 0

LEMMA CompleteIs ==
  ASSUME NEW T, Plain(T), Describes(T), NEW ks
  PROVE  Complete(T, ks) <=> Enough(T, ks)
<1> DEFINE Here(i) == {T.desc[j] : j \in {k \in DOMAIN T.desc :
                          T.desc[k].ratio = "choice" /\ T.desc[k].pos = T.desc[i].pos}}
           Is(i) == \/ Count(ks, T.desc[i].name) >= T.desc[i].min
                    \/ /\ T.desc[i].ratio = "choice" /\ Count(ks, T.desc[i].name) = 0
                       /\ \E e \in Here(i) : Count(ks, e.name) > 0 \/ e.min = 0
           Name(n) == \/ Count(ks, n) >= Of(T, n).min
                      \/ /\ T.ratio = "choice" /\ Count(ks, n) = 0
                         /\ \E e \in Names(T) : Count(ks, e) > 0 \/ Of(T, e).min = 0
<1>1. Complete(T, ks) <=> \A i \in DOMAIN T.desc : Is(i)
  BY DEF Complete
<1>2. \A i \in DOMAIN T.desc : /\ T.desc[i].name \in Names(T) /\ Of(T, T.desc[i].name) = T.desc[i]
                               /\ T.desc[i].ratio = T.ratio
  BY DEF Describes, Of
<1>3. \A n \in Names(T) : DescOf(T, n) \in DOMAIN T.desc /\ T.desc[DescOf(T, n)].name = n
  BY DEF Describes, Of
<1>4. ASSUME T.ratio = "choice", NEW i \in DOMAIN T.desc
      PROVE  (\E e \in Here(i) : Count(ks, e.name) > 0 \/ e.min = 0)
             <=> \E n \in Names(T) : Count(ks, n) > 0 \/ Of(T, n).min = 0
  <2>1. Here(i) = {T.desc[j] : j \in DOMAIN T.desc}
    BY <1>2, <1>4 DEF Plain
  <2>2. ASSUME NEW j \in DOMAIN T.desc, Count(ks, T.desc[j].name) > 0 \/ T.desc[j].min = 0
        PROVE  \E n \in Names(T) : Count(ks, n) > 0 \/ Of(T, n).min = 0
    BY <1>2, <2>2
  <2>3. ASSUME NEW n \in Names(T), Count(ks, n) > 0 \/ Of(T, n).min = 0
        PROVE  \E j \in DOMAIN T.desc : Count(ks, T.desc[j].name) > 0 \/ T.desc[j].min = 0
    BY <1>3, <2>3 DEF Of
  <2> HIDE DEF Here
  <2> QED
    BY <2>1, <2>2, <2>3
<1>5. \A i \in DOMAIN T.desc : Is(i) <=> Name(T.desc[i].name)
  <2> HIDE DEF Here
  <2> QED
    BY <1>2, <1>4
<1>6. Enough(T, ks) <=> \A n \in Names(T) : Name(n)
  BY DEF Enough
<1> HIDE DEF Is, Name
<1>7. (\A i \in DOMAIN T.desc : Name(T.desc[i].name)) <=> \A n \in Names(T) : Name(n)
  BY <1>2, <1>3
<1> QED
  BY <1>1, <1>5, <1>6, <1>7

-----------------------------------------------------------------------------
(* One more child. *)

(* Where n may be put in the order of a sequence, and that nothing else is *)
(* there in a choice.                                                      *)
Between(T, ks, row, n) ==
  T.ratio = "sequence" =>
    \A i \in DOMAIN ks : ks[i] # Comment =>
      /\ i <= row => DescOf(T, ks[i]) <= DescOf(T, n)
      /\ i > row => DescOf(T, n) <= DescOf(T, ks[i])

OnlyName(T, ks, n) ==
  T.ratio = "choice" => \A i \in DOMAIN ks : ks[i] # Comment => ks[i] = n

Fits(T, ks, n, k) == Of(T, n).max = 0 \/ Count(ks, n) + k <= Of(T, n).max

LEMMA PutInConforms ==
  ASSUME NEW T, Plain(T), Describes(T), NEW ks \in Seq(Names(T) \cup {Comment}),
         Conforms(T, ks), NEW n \in Names(T), NEW k \in Nat, NEW row \in 0 .. Len(ks),
         NEW new \in Seq(Names(T) \cup {Comment}), Len(new) = k, \A i \in DOMAIN new : new[i] = n,
         Fits(T, ks, n, k), Between(T, ks, row, n), OnlyName(T, ks, n),
         NEW s, s = Insert(ks, row, new)
  PROVE  s \in Seq(Names(T) \cup {Comment}) /\ Conforms(T, s)
<1> DEFINE S == Names(T) \cup {Comment}
           L == Len(ks)
<1>1. L \in Nat /\ DOMAIN ks = 1 .. L
  BY LenProperties
<1>2. Within(T, ks) /\ Sorted(T, ks) /\ OneName(T, ks)
  BY ConformsIs
<1>3. s \in Seq(S) /\ Inserts(s, ks, row, new, k)
  <2> HIDE DEF S
  <2> QED
    BY InsertIs DEF S
<1>4. Within(T, s)
  <2> SUFFICES ASSUME NEW x \in Names(T)
               PROVE  Of(T, x).max = 0 \/ Count(s, x) <= Of(T, x).max
    BY DEF Within
  <2>1. Count(s, x) = Count(ks, x) + Count(new, x)
    <3> HIDE DEF S
    <3> QED
      BY CountInsert DEF S
  <2>2. Count(new, x) = IF x = n THEN k ELSE 0
    BY CountSame
  <2>3. Count(ks, x) \in Nat
    BY CountNat
  <2>4. Of(T, x).max = 0 \/ Count(ks, x) <= Of(T, x).max
    BY <1>2 DEF Within
  <2> QED
    BY <2>1, <2>2, <2>3, <2>4 DEF Fits
<1>5. \A x \in DOMAIN s :
        /\ x \in 1 .. L + k
        /\ x \in 1 .. row => s[x] = ks[x] /\ x \in DOMAIN ks
        /\ x \in row + 1 .. row + k => s[x] = n
        /\ x \in row + k + 1 .. L + k => s[x] = ks[x - k] /\ x - k \in DOMAIN ks /\ x - k > row
  <2> SUFFICES ASSUME NEW x \in DOMAIN s
               PROVE  /\ x \in 1 .. L + k
                      /\ x \in 1 .. row => s[x] = ks[x] /\ x \in DOMAIN ks
                      /\ x \in row + 1 .. row + k => s[x] = n
                      /\ x \in row + k + 1 .. L + k => s[x] = ks[x - k] /\ x - k \in DOMAIN ks /\ x - k > row
    OBVIOUS
  <2>1. /\ DOMAIN s = 1 .. L + k /\ DOMAIN new = 1 .. k
        /\ \A i \in 1 .. row : s[i] = ks[i]
        /\ \A i \in row + 1 .. row + k : s[i] = new[i - row]
        /\ \A i \in row + k + 1 .. L + k : s[i] = ks[i - k]
    BY <1>3 DEF Inserts
  <2>2. x \in 1 .. row => s[x] = ks[x] /\ x \in DOMAIN ks
    BY <1>1, <2>1
  <2>3. ASSUME x \in row + 1 .. row + k
        PROVE  s[x] = n
    <3>1. x - row \in DOMAIN new
      BY <1>1, <2>1, <2>3
    <3> QED
      BY <2>1, <2>3, <3>1
  <2>4. ASSUME x \in row + k + 1 .. L + k
        PROVE  s[x] = ks[x - k] /\ x - k \in DOMAIN ks /\ x - k > row
    BY <1>1, <2>1, <2>4
  <2> QED
    BY <2>1, <2>2, <2>3, <2>4
<1>6. \A x \in DOMAIN s : x \in 1 .. row \/ x \in row + 1 .. row + k \/ x \in row + k + 1 .. L + k
  BY <1>1, <1>5
<1>7. Sorted(T, s)
  <2> SUFFICES ASSUME T.ratio = "sequence", NEW x \in DOMAIN s, NEW y \in DOMAIN s, x < y,
                      s[x] # Comment, s[y] # Comment
               PROVE  DescOf(T, s[x]) <= DescOf(T, s[y])
    BY DEF Sorted
  <2>1. x \in Nat /\ y \in Nat
    BY <1>1, <1>5
  <2>2. DescOf(T, n) \in Nat
    BY DEF Describes
  <2>3. \A i, j \in DOMAIN ks : i < j /\ ks[i] # Comment /\ ks[j] # Comment =>
          DescOf(T, ks[i]) <= DescOf(T, ks[j])
    BY <1>2 DEF Sorted
  <2>4. \A i \in DOMAIN ks : ks[i] # Comment =>
          /\ i <= row => DescOf(T, ks[i]) <= DescOf(T, n)
          /\ i > row => DescOf(T, n) <= DescOf(T, ks[i])
    BY DEF Between
  <2>5. CASE x \in 1 .. row
    <3>1. s[x] = ks[x] /\ x \in DOMAIN ks /\ x <= row
      BY <1>5, <2>5
    <3>2. CASE y \in 1 .. row
      <4>1. s[y] = ks[y] /\ y \in DOMAIN ks
        BY <1>5, <3>2
      <4> QED
        BY <2>3, <3>1, <4>1
    <3>3. CASE y \in row + 1 .. row + k
      <4>1. s[y] = n
        BY <1>5, <3>3
      <4> QED
        BY <2>4, <3>1, <4>1
    <3>4. CASE y \in row + k + 1 .. L + k
      <4>1. s[y] = ks[y - k] /\ y - k \in DOMAIN ks /\ y - k > row
        BY <1>5, <3>4
      <4>2. x < y - k
        BY <2>1, <3>1, <4>1
      <4> QED
        BY <2>3, <3>1, <4>1, <4>2
    <3> QED
      BY <1>6, <3>2, <3>3, <3>4
  <2>6. CASE x \in row + 1 .. row + k
    <3>1. s[x] = n
      BY <1>5, <2>6
    <3>2. CASE y \in row + 1 .. row + k
      <4>1. s[y] = n
        BY <1>5, <3>2
      <4> QED
        BY <2>2, <3>1, <4>1
    <3>3. CASE y \in row + k + 1 .. L + k
      <4>1. s[y] = ks[y - k] /\ y - k \in DOMAIN ks /\ y - k > row
        BY <1>5, <3>3
      <4> QED
        BY <2>4, <3>1, <4>1
    <3>4. y \notin 1 .. row
      BY <2>1, <2>6
    <3> QED
      BY <1>6, <3>2, <3>3, <3>4
  <2>7. CASE x \in row + k + 1 .. L + k
    <3>1. s[x] = ks[x - k] /\ x - k \in DOMAIN ks
      BY <1>5, <2>7
    <3>2. y \in row + k + 1 .. L + k
      BY <1>5, <2>1, <2>7
    <3>3. s[y] = ks[y - k] /\ y - k \in DOMAIN ks /\ x - k < y - k
      BY <1>5, <2>1, <3>2
    <3> QED
      BY <2>3, <3>1, <3>3
  <2> QED
    BY <1>6, <2>5, <2>6, <2>7
<1>8. OneName(T, s)
  <2> SUFFICES ASSUME T.ratio = "choice", NEW x \in DOMAIN s, s[x] # Comment
               PROVE  s[x] = n
    BY DEF OneName
  <2>1. \A i \in DOMAIN ks : ks[i] # Comment => ks[i] = n
    BY DEF OnlyName
  <2> QED
    BY <1>5, <1>6, <2>1
<1>9. Conforms(T, s)
  BY <1>3, <1>4, <1>7, <1>8, ConformsIs
<1> QED
  BY <1>3, <1>9

(* A name that is offered has room for one more, and in a choice it is the *)
(* one that is there.                                                      *)
LEMMA OfferedIs ==
  ASSUME NEW T, Plain(T), Describes(T), NEW ks \in Seq(Names(T) \cup {Comment}),
         OneName(T, ks), NEW n \in NamesAt(T, GetAddChild(T, ks))
  PROVE  /\ n \in Names(T) /\ DescOf(T, n) \in GetAddChild(T, ks)
         /\ OnlyName(T, ks, n)
         /\ Room(ks, Of(T, n)) \/ (T.ratio = "choice" /\ ks = <<>>)
<1>1. PICK i \in GetAddChild(T, ks) : n = T.desc[i].name
  BY DEF NamesAt
<1>2. i \in DOMAIN T.desc
  BY <1>1 DEF GetAddChild
<1>3. n \in Names(T) /\ DescOf(T, n) = i /\ Of(T, n) = T.desc[i] /\ T.desc[i].ratio = T.ratio
  BY <1>1, <1>2 DEF Describes, Of
<1>4. CASE T.ratio # "choice"
  <2>1. Room(ks, T.desc[i])
    BY <1>1, <1>3, <1>4 DEF GetAddChild
  <2> QED
    BY <1>1, <1>3, <1>4, <2>1 DEF OnlyName
<1>5. CASE T.ratio = "choice"
  <2>1. Len(ks) = 0 \/ (Count(ks, n) > 0 /\ Room(ks, T.desc[i]))
    BY <1>1, <1>3, <1>5 DEF GetAddChild
  <2>2. CASE Len(ks) = 0
    <3>1. ks = <<>> /\ DOMAIN ks = {}
      BY <2>2, EmptySeq, LenProperties
    <3> QED
      BY <1>1, <1>3, <1>5, <3>1 DEF OnlyName
  <2>3. CASE Count(ks, n) > 0 /\ Room(ks, T.desc[i])
    <3>1. PICK j \in DOMAIN ks : ks[j] = n
      BY <2>3, CountIs
    <3>2. n # Comment
      BY <1>3 DEF Describes
    <3>3. OnlyName(T, ks, n)
      BY <1>5, <3>1, <3>2 DEF OneName, OnlyName
    <3> QED
      BY <1>1, <1>3, <2>3, <3>3
  <2> QED
    BY <2>1, <2>2, <2>3
<1> QED
  BY <1>4, <1>5

(* One more of an offered name is not too many.                            *)
LEMMA OneMoreFits ==
  ASSUME NEW T, Plain(T), Describes(T), NEW ks \in Seq(Names(T) \cup {Comment}),
         OneName(T, ks), NEW n \in NamesAt(T, GetAddChild(T, ks))
  PROVE  n \in Names(T) /\ OnlyName(T, ks, n) /\ Fits(T, ks, n, 1)
<1>1. /\ n \in Names(T) /\ OnlyName(T, ks, n)
      /\ Room(ks, Of(T, n)) \/ (T.ratio = "choice" /\ ks = <<>>)
  BY OfferedIs
<1>2. Of(T, n).max \in Nat /\ Of(T, n).name = n /\ Count(ks, n) \in Nat
  BY <1>1, CountNat DEF Describes
<1>3. CASE Room(ks, Of(T, n))
  BY <1>1, <1>2, <1>3 DEF Room, Fits
<1>4. CASE ks = <<>>
  <2>1. Count(ks, n) \in 0 .. Len(ks) /\ Len(ks) = 0
    BY <1>4, CountIs, EmptySeq
  <2> QED
    BY <1>1, <1>2, <2>1 DEF Fits
<1> QED
  BY <1>1, <1>3, <1>4

-----------------------------------------------------------------------------
(* The places the lists offer. *)

(* addNode's row is one between what must be before and what behind.       *)
LEMMA AddRowBetween ==
  ASSUME NEW T, Describes(T), NEW ks \in Seq(Names(T) \cup {Comment}),
         Sorted(T, ks), NEW n \in Names(T)
  PROVE  AddRow(T, ks, n) \in 0 .. Len(ks) /\ Between(T, ks, AddRow(T, ks, n), n)
<1> DEFINE d == DescOf(T, n)
           present == {i \in 1 .. d : Count(ks, T.desc[i].name) > 0}
           rows(i) == {r \in DOMAIN ks : ks[r] = T.desc[i].name}
           row == AddRow(T, ks, n)
<1>1. Len(ks) \in Nat /\ DOMAIN ks = 1 .. Len(ks)
  BY LenProperties
<1>2. d \in Nat /\ d \in 1 .. Len(T.desc)
  BY DEF Describes
<1>3. \A i \in DOMAIN ks : ks[i] # Comment => ks[i] \in Names(T)
  BY <1>1, ElementOfSeq
<1>4. CASE T.ratio # "sequence"
  <2>1. row = Len(ks) \/ row = 0
    BY <1>4 DEF AddRow, Describes
  <2> QED
    BY <1>1, <1>4, <2>1 DEF Between
<1>5. CASE T.ratio = "sequence"
  <2>1. row = IF present = {} THEN 0 ELSE Max(rows(Max(present)))
    BY <1>5 DEF AddRow
  <2>2. ASSUME NEW i \in DOMAIN ks, ks[i] # Comment, DescOf(T, ks[i]) <= d
        PROVE  DescOf(T, ks[i]) \in present /\ i \in rows(DescOf(T, ks[i]))
    <3>1. ks[i] \in Names(T)
      BY <1>3, <2>2
    <3>2. DescOf(T, ks[i]) \in 1 .. d /\ T.desc[DescOf(T, ks[i])].name = ks[i]
      BY <1>2, <2>2, <3>1 DEF Describes, Of
    <3>3. Count(ks, ks[i]) > 0
      BY CountIs
    <3> QED
      BY <3>2, <3>3
  <2>3. CASE present = {}
    <3>1. row = 0
      BY <2>1, <2>3
    <3>2. ASSUME NEW i \in DOMAIN ks, ks[i] # Comment
          PROVE  d <= DescOf(T, ks[i]) /\ i > 0
      <4>1. ~(DescOf(T, ks[i]) <= d)
        BY <2>2, <2>3, <3>2
      <4>2. DescOf(T, ks[i]) \in Nat
        BY <1>3, <3>2 DEF Describes
      <4> QED
        BY <1>1, <1>2, <4>1, <4>2
    <3> QED
      BY <1>1, <3>1, <3>2 DEF Between
  <2>4. CASE present # {}
    <3> DEFINE x == Max(present)
    <3>1. x \in present /\ \A i \in present : i <= x
      <4>1. present \in SUBSET (0 .. d)
        BY <1>2
      <4> HIDE DEF present
      <4> QED
        BY <1>2, <2>4, <4>1, MaxIs
    <3> HIDE DEF x
    <3>2. x \in 1 .. d /\ Count(ks, T.desc[x].name) > 0
      BY <3>1
    <3>3. x \in DOMAIN T.desc /\ T.desc[x].name \in Names(T) /\ DescOf(T, T.desc[x].name) = x
      BY <1>2, <3>2 DEF Describes
    <3>4. rows(x) # {} /\ rows(x) \in SUBSET (0 .. Len(ks))
      BY <1>1, <3>2, CountIs
    <3>5. Max(rows(x)) \in rows(x) /\ \A r \in rows(x) : r <= Max(rows(x))
      <4> HIDE DEF rows
      <4> QED
        BY <1>1, <3>4, MaxIs
    <3>6. row = Max(rows(x))
      BY <2>1, <2>4 DEF x
    <3>7. row \in DOMAIN ks /\ ks[row] = T.desc[x].name /\ \A r \in rows(x) : r <= row
      BY <3>5, <3>6
    <3>8. ks[row] # Comment /\ DescOf(T, ks[row]) = x
      BY <3>3, <3>7 DEF Describes
    <3> HIDE DEF row
    <3>9. ASSUME NEW i \in DOMAIN ks, ks[i] # Comment, i <= row
          PROVE  DescOf(T, ks[i]) <= d
      <4>1. DescOf(T, ks[i]) <= x
        <5>1. CASE i = row
          BY <1>2, <3>2, <3>8, <5>1
        <5>2. CASE i < row
          BY <1>5, <3>7, <3>8, <3>9, <5>2 DEF Sorted
        <5> QED
          BY <1>1, <3>7, <3>9, <5>1, <5>2
      <4>2. DescOf(T, ks[i]) \in Nat
        BY <1>3, <3>9 DEF Describes
      <4> QED
        BY <1>2, <3>2, <4>1, <4>2
    <3>10. ASSUME NEW i \in DOMAIN ks, ks[i] # Comment, i > row
           PROVE  d <= DescOf(T, ks[i])
      <4> SUFFICES ASSUME ~(d <= DescOf(T, ks[i])) PROVE FALSE
        OBVIOUS
      <4>1. DescOf(T, ks[i]) \in Nat
        BY <1>3, <3>10 DEF Describes
      <4>2. DescOf(T, ks[i]) <= d
        BY <1>2, <4>1
      <4>3. DescOf(T, ks[i]) \in present /\ i \in rows(DescOf(T, ks[i]))
        BY <2>2, <3>10, <4>2
      <4>4. DescOf(T, ks[i]) <= x
        BY <3>1, <4>3
      <4>5. x <= DescOf(T, ks[i])
        <5>1. row < i
          BY <1>1, <3>7, <3>10
        <5> QED
          BY <1>5, <3>7, <3>8, <3>10, <5>1 DEF Sorted
      <4>6. DescOf(T, ks[i]) = x
        BY <1>2, <3>2, <4>1, <4>4, <4>5
      <4>7. i <= row
        BY <3>7, <4>3, <4>6
      <4> QED
        BY <1>1, <3>7, <3>10, <4>7
    <3> QED
      BY <1>1, <3>7, <3>9, <3>10 DEF Between, row
  <2> QED
    BY <2>3, <2>4
<1> QED
  BY <1>4, <1>5

(* insertNodeBefore and insertNodeAfter put it beside the given child.     *)
LEMMA InsBeforeBetween ==
  ASSUME NEW T, Describes(T), NEW ks \in Seq(Names(T) \cup {Comment}),
         Sorted(T, ks), NEW i \in DOMAIN ks, ks[i] # Comment,
         NEW n \in NamesAt(T, InsBefore(T, ks, i))
  PROVE  n \in NamesAt(T, GetAddChild(T, ks)) /\ Between(T, ks, i - 1, n)
<1> DEFINE me == DescOf(T, ks[i])
           B == Before(ks, i)
           S == {j \in 1 .. me : T.desc[j].name = ks[Max(B)]}
           pre == IF B = {} THEN 1 ELSE IF S = {} THEN 0 ELSE Max(S)
<1>1. Len(ks) \in Nat /\ DOMAIN ks = 1 .. Len(ks)
  BY LenProperties
<1>2. \A j \in DOMAIN ks : ks[j] # Comment => ks[j] \in Names(T)
  BY <1>1, ElementOfSeq
<1>3. me \in 1 .. Len(T.desc) /\ Len(T.desc) \in Nat /\ DOMAIN T.desc = 1 .. Len(T.desc)
  BY <1>2 DEF Describes
<1>4. PICK m \in GetAddChild(T, ks) :
        /\ n = T.desc[m].name /\ m <= me
        /\ \A q \in m .. pre - 1 : T.desc[q].ratio # "sequence"
  BY DEF NamesAt, InsBefore
<1>5. m \in DOMAIN T.desc
  BY DEF GetAddChild
<1>6. n \in NamesAt(T, GetAddChild(T, ks))
  BY <1>4 DEF NamesAt
<1>7. DescOf(T, n) = m
  BY <1>4, <1>5 DEF Describes
<1>8. ASSUME T.ratio = "sequence", NEW y \in DOMAIN ks, ks[y] # Comment, y <= i - 1
      PROVE  DescOf(T, ks[y]) <= m
  <2>1. i \in Nat /\ B \in SUBSET (0 .. i) /\ y \in B /\ B # {}
    BY <1>1, <1>8 DEF Before
  <2> DEFINE p == Max(B)
  <2>2. p \in B /\ \A x \in B : x <= p
    <3> HIDE DEF B
    <3> QED
      BY <2>1, MaxIs
  <2>3. p \in DOMAIN ks /\ p < i /\ ks[p] # Comment
    BY <1>1, <2>2 DEF Before
  <2>4. y <= p
    BY <2>1, <2>2
  <2> HIDE DEF p
  <2> DEFINE z == DescOf(T, ks[p])
  <2>5. z <= me
    BY <1>8, <2>3 DEF Sorted
  <2>6. ks[p] \in Names(T) /\ z \in 1 .. Len(T.desc) /\ T.desc[z].name = ks[p]
    BY <1>2, <1>3, <2>3 DEF Describes, Of
  <2>7. S = {z}
    <3>1. ASSUME NEW j \in S
          PROVE  j = z
      <4>1. j \in DOMAIN T.desc /\ T.desc[j].name = ks[p]
        BY <1>3 DEF p
      <4>2. DescOf(T, T.desc[j].name) = j
        BY <4>1 DEF Describes
      <4> QED
        BY <4>1, <4>2
    <3>2. z \in S
      BY <1>3, <2>5, <2>6 DEF p
    <3> HIDE DEF S
    <3> QED
      BY <3>1, <3>2
  <2>8. Max({z}) = z
    <3>1. z \in Nat
      BY <2>6, <1>3
    <3> HIDE DEF z
    <3>2. {z} = z .. z /\ z <= z
      BY <3>1
    <3> QED
      BY <3>1, <3>2, MinMaxIs
  <2>9. pre = z
    BY <2>1, <2>7, <2>8
  <2> HIDE DEF z, pre
  <2>10. z <= m
    <3> SUFFICES ASSUME m < z PROVE FALSE
      BY <1>3, <1>5, <2>6
    <3>1. m \in m .. pre - 1
      BY <1>3, <1>5, <2>6, <2>9
    <3>2. T.desc[m].ratio = "sequence"
      BY <1>5, <1>8 DEF Describes, Of
    <3> QED
      BY <1>4, <3>1, <3>2
  <2>11. DescOf(T, ks[y]) <= z
    <3>1. CASE y = p
      BY <1>3, <2>6, <3>1 DEF z
    <3>2. CASE y < p
      BY <1>8, <2>3, <3>2 DEF Sorted, z
    <3> QED
      BY <1>1, <2>3, <2>4, <3>1, <3>2
  <2>12. DescOf(T, ks[y]) \in Nat
    BY <1>2, <1>8 DEF Describes
  <2> QED
    BY <1>3, <1>5, <2>6, <2>10, <2>11, <2>12
<1>9. ASSUME T.ratio = "sequence", NEW y \in DOMAIN ks, ks[y] # Comment, y > i - 1
      PROVE  m <= DescOf(T, ks[y])
  <2>1. me <= DescOf(T, ks[y])
    <3>1. CASE y = i
      BY <1>3, <3>1
    <3>2. CASE i < y
      BY <1>9, <3>2 DEF Sorted
    <3> QED
      BY <1>1, <1>9, <3>1, <3>2
  <2>2. DescOf(T, ks[y]) \in Nat
    BY <1>2, <1>9 DEF Describes
  <2> HIDE DEF me
  <2> QED
    BY <1>3, <1>4, <1>5, <2>1, <2>2
<1> QED
  BY <1>6, <1>7, <1>8, <1>9 DEF Between

LEMMA InsAfterBetween ==
  ASSUME NEW T, Describes(T), NEW ks \in Seq(Names(T) \cup {Comment}),
         Sorted(T, ks), NEW i \in DOMAIN ks, ks[i] # Comment,
         NEW n \in NamesAt(T, InsAfter(T, ks, i))
  PROVE  n \in NamesAt(T, GetAddChild(T, ks)) /\ Between(T, ks, i, n)
<1> DEFINE me == DescOf(T, ks[i])
           B == After(ks, i)
           L == Len(T.desc)
           S == {j \in me .. L : T.desc[j].name = ks[Min(B)]}
           pos == IF B = {} THEN L ELSE IF S = {} THEN L + 1 ELSE Min(S)
<1>1. Len(ks) \in Nat /\ DOMAIN ks = 1 .. Len(ks)
  BY LenProperties
<1>2. \A j \in DOMAIN ks : ks[j] # Comment => ks[j] \in Names(T)
  BY <1>1, ElementOfSeq
<1>3. me \in 1 .. L /\ L \in Nat /\ DOMAIN T.desc = 1 .. L
  BY <1>2 DEF Describes
<1>4. PICK m \in GetAddChild(T, ks) :
        /\ n = T.desc[m].name /\ m >= me
        /\ \A q \in pos + 1 .. m : T.desc[q].ratio # "sequence"
  BY DEF NamesAt, InsAfter
<1>5. m \in DOMAIN T.desc
  BY DEF GetAddChild
<1>6. n \in NamesAt(T, GetAddChild(T, ks))
  BY <1>4 DEF NamesAt
<1>7. DescOf(T, n) = m
  BY <1>4, <1>5 DEF Describes
<1>8. ASSUME T.ratio = "sequence", NEW y \in DOMAIN ks, ks[y] # Comment, y > i
      PROVE  m <= DescOf(T, ks[y])
  <2>1. B \in SUBSET Nat /\ y \in B
    BY <1>1, <1>8 DEF After
  <2> DEFINE p == Min(B)
  <2>2. p \in B /\ \A x \in B : p <= x
    <3> HIDE DEF B
    <3> QED
      BY <1>1, <2>1, MinIs
  <2>3. p \in DOMAIN ks /\ i < p /\ ks[p] # Comment
    BY <1>1, <2>2 DEF After
  <2>4. p <= y
    BY <2>1, <2>2
  <2> HIDE DEF p
  <2> DEFINE z == DescOf(T, ks[p])
  <2>5. me <= z
    BY <1>8, <2>3 DEF Sorted
  <2>6. ks[p] \in Names(T) /\ z \in 1 .. L /\ T.desc[z].name = ks[p]
    BY <1>2, <1>3, <2>3 DEF Describes, Of
  <2>7. S = {z}
    <3>1. ASSUME NEW j \in S
          PROVE  j = z
      <4>1. j \in DOMAIN T.desc /\ T.desc[j].name = ks[p]
        BY <1>3 DEF p
      <4>2. DescOf(T, T.desc[j].name) = j
        BY <4>1 DEF Describes
      <4> QED
        BY <4>1, <4>2
    <3>2. z \in S
      BY <1>3, <2>5, <2>6 DEF p
    <3> HIDE DEF S
    <3> QED
      BY <3>1, <3>2
  <2>8. Min({z}) = z
    <3>1. z \in Nat
      BY <2>6, <1>3
    <3> HIDE DEF z
    <3>2. {z} = z .. z /\ z <= z
      BY <3>1
    <3> QED
      BY <3>1, <3>2, MinMaxIs
  <2>9. pos = z
    BY <2>1, <2>7, <2>8
  <2> HIDE DEF z, pos
  <2>10. m <= z
    <3> SUFFICES ASSUME z < m PROVE FALSE
      BY <1>3, <1>5, <2>6
    <3>1. m \in pos + 1 .. m
      BY <1>3, <1>5, <2>6, <2>9
    <3>2. T.desc[m].ratio = "sequence"
      BY <1>5, <1>8 DEF Describes, Of
    <3> QED
      BY <1>4, <3>1, <3>2
  <2>11. z <= DescOf(T, ks[y])
    <3>1. CASE y = p
      BY <1>3, <2>6, <3>1 DEF z
    <3>2. CASE p < y
      BY <1>8, <2>3, <3>2 DEF Sorted, z
    <3> QED
      BY <1>1, <2>3, <2>4, <3>1, <3>2
  <2>12. DescOf(T, ks[y]) \in Nat
    BY <1>2, <1>8 DEF Describes
  <2> QED
    BY <1>3, <1>5, <2>6, <2>10, <2>11, <2>12
<1>9. ASSUME T.ratio = "sequence", NEW y \in DOMAIN ks, ks[y] # Comment, y <= i
      PROVE  DescOf(T, ks[y]) <= m
  <2>1. DescOf(T, ks[y]) <= me
    <3>1. CASE y = i
      BY <1>3, <3>1
    <3>2. CASE y < i
      BY <1>9, <3>2 DEF Sorted
    <3> QED
      BY <1>1, <1>9, <3>1, <3>2
  <2>2. DescOf(T, ks[y]) \in Nat
    BY <1>2, <1>9 DEF Describes
  <2> HIDE DEF me
  <2> QED
    BY <1>3, <1>4, <1>5, <2>1, <2>2
<1> QED
  BY <1>6, <1>7, <1>8, <1>9 DEF Between

-----------------------------------------------------------------------------
(* What is offered for an element, sound and complete. *)

LEMMA InsertAtIs ==
  ASSUME NEW S, NEW ks \in Seq(S), NEW i \in 1 .. Len(ks) + 1, NEW n \in S
  PROVE  /\ InsertAt(ks, i, n) = Insert(ks, i - 1, <<n>>) /\ i - 1 \in 0 .. Len(ks)
         /\ <<n>> \in Seq(S) /\ Len(<<n>>) = 1 /\ \A j \in DOMAIN <<n>> : <<n>>[j] = n
<1>1. Len(ks) \in Nat
  BY LenProperties
<1>2. (i - 1) + 1 = i /\ i - 1 \in 0 .. Len(ks)
  BY <1>1
<1>3. <<n>> \in Seq(S) /\ Len(<<n>>) = 1 /\ \A j \in DOMAIN <<n>> : <<n>>[j] = n
  OBVIOUS
<1> QED
  BY <1>2, <1>3 DEF InsertAt, Insert

(* One more of an offered name.                                            *)
LEMMA OneMoreConforms ==
  ASSUME NEW T, Plain(T), Describes(T), NEW ks \in Seq(Names(T) \cup {Comment}),
         Conforms(T, ks), NEW n \in NamesAt(T, GetAddChild(T, ks)),
         NEW i \in 1 .. Len(ks) + 1, Between(T, ks, i - 1, n)
  PROVE  Conforms(T, InsertAt(ks, i, n))
<1>1. OneName(T, ks)
  BY ConformsIs
<1>2. n \in Names(T) /\ OnlyName(T, ks, n) /\ Fits(T, ks, n, 1)
  BY <1>1, OneMoreFits
<1> DEFINE S == Names(T) \cup {Comment}
           new == <<n>>
<1>3. /\ InsertAt(ks, i, n) = Insert(ks, i - 1, new) /\ i - 1 \in 0 .. Len(ks)
      /\ new \in Seq(S) /\ Len(new) = 1 /\ \A j \in DOMAIN new : new[j] = n
  BY <1>2, InsertAtIs
<1> HIDE DEF new
<1> QED
  BY <1>2, <1>3, PutInConforms

LEMMA ElementIs ==
  ASSUME PlainElements, IsContent, elType \in ElementTypes
  PROVE  Plain(elType) /\ Describes(elType) /\ content \in Seq(Names(elType) \cup {Comment})
<1>1. SchemaType(Names(elType), elType) /\ Plain(elType)
  BY DEF PlainElements
<1> QED
  BY <1>1, PlainDescribes DEF IsContent

(* What the lists offer does not break the content model, where the        *)
(* methods put it: for every plain type and any content that conforms,     *)
(* however long (getAddChild, getInsBeforeElements, getInsAfterElements,   *)
(* xmlschema.cpp; addNode's row, deditor.cpp).                             *)
THEOREM OffersAlwaysSound ==
  ASSUME PlainElements, IsContent
  PROVE  OffersAreSound
<1> DEFINE T  == elType
           ks == content
<1> SUFFICES ASSUME T \in ElementTypes, Conforms(T, ks)
             PROVE  /\ \A n \in NamesAt(T, GetAddChild(T, ks)) :
                         Conforms(T, InsertAt(ks, AddRow(T, ks, n) + 1, n))
                    /\ \A i \in DOMAIN ks : ks[i] # Comment =>
                         /\ \A n \in NamesAt(T, InsBefore(T, ks, i)) :
                              Conforms(T, InsertAt(ks, i, n))
                         /\ \A n \in NamesAt(T, InsAfter(T, ks, i)) :
                              Conforms(T, InsertAt(ks, i + 1, n))
  BY DEF OffersAreSound
<1>1. Plain(T) /\ Describes(T) /\ ks \in Seq(Names(T) \cup {Comment})
  BY ElementIs
<1> HIDE DEF T, ks
<1>2. Sorted(T, ks)
  BY <1>1, ConformsIs
<1>3. Len(ks) \in Nat /\ DOMAIN ks = 1 .. Len(ks)
  BY <1>1, LenProperties
<1>4. ASSUME NEW n \in NamesAt(T, GetAddChild(T, ks))
      PROVE  Conforms(T, InsertAt(ks, AddRow(T, ks, n) + 1, n))
  <2> DEFINE i == AddRow(T, ks, n) + 1
  <2>1. n \in Names(T)
    BY OffersAreNames
  <2>2. AddRow(T, ks, n) \in 0 .. Len(ks) /\ Between(T, ks, AddRow(T, ks, n), n)
    BY <1>1, <1>2, <2>1, AddRowBetween
  <2>3. i \in 1 .. Len(ks) + 1 /\ i - 1 = AddRow(T, ks, n)
    BY <1>3, <2>2
  <2>4. Between(T, ks, i - 1, n)
    BY <2>2, <2>3
  <2> HIDE DEF i
  <2>5. Conforms(T, InsertAt(ks, i, n))
    BY <1>1, <2>3, <2>4, OneMoreConforms
  <2> QED
    BY <2>5 DEF i
<1>5. ASSUME NEW i \in DOMAIN ks, ks[i] # Comment, NEW n \in NamesAt(T, InsBefore(T, ks, i))
      PROVE  Conforms(T, InsertAt(ks, i, n))
  <2>1. n \in NamesAt(T, GetAddChild(T, ks)) /\ Between(T, ks, i - 1, n)
    BY <1>1, <1>2, <1>5, InsBeforeBetween
  <2>2. i \in 1 .. Len(ks) + 1
    BY <1>3
  <2> QED
    BY <1>1, <2>1, <2>2, OneMoreConforms
<1>6. ASSUME NEW i \in DOMAIN ks, ks[i] # Comment, NEW n \in NamesAt(T, InsAfter(T, ks, i))
      PROVE  Conforms(T, InsertAt(ks, i + 1, n))
  <2>1. n \in NamesAt(T, GetAddChild(T, ks)) /\ Between(T, ks, i, n)
    BY <1>1, <1>2, <1>6, InsAfterBetween
  <2> DEFINE j == i + 1
  <2>2. j \in 1 .. Len(ks) + 1 /\ j - 1 = i
    BY <1>3
  <2>3. Between(T, ks, j - 1, n)
    BY <2>1, <2>2
  <2> HIDE DEF j
  <2>4. Conforms(T, InsertAt(ks, j, n))
    BY <1>1, <2>1, <2>2, <2>3, OneMoreConforms
  <2> QED
    BY <2>4 DEF j
<1> QED
  BY <1>4, <1>5, <1>6

(* Whatever may still be added somewhere is offered.                       *)
LEMMA AddableIsOffered ==
  ASSUME NEW T, Plain(T), Describes(T), NEW ks \in Seq(Names(T) \cup {Comment}),
         Count(ks, Comment) = 0, NEW n \in Names(T),
         NEW i \in 1 .. Len(ks) + 1, Conforms(T, InsertAt(ks, i, n))
  PROVE  n \in NamesAt(T, GetAddChild(T, ks))
<1> DEFINE S == Names(T) \cup {Comment}
           new == <<n>>
           s == InsertAt(ks, i, n)
           row == i - 1
           d == DescOf(T, n)
<1>1. /\ s = Insert(ks, row, new) /\ row \in 0 .. Len(ks)
      /\ new \in Seq(S) /\ Len(new) = 1 /\ \A j \in DOMAIN new : new[j] = n
  BY InsertAtIs
<1>2. Len(ks) \in Nat /\ DOMAIN ks = 1 .. Len(ks)
  BY LenProperties
<1>3. Conforms(T, s)
  OBVIOUS
<1> HIDE DEF s, new, row
<1>4. s \in Seq(S) /\ Inserts(s, ks, row, new, 1)
  <2> HIDE DEF S
  <2> QED
    BY <1>1, InsertIs DEF S
<1>5. Within(T, s) /\ OneName(T, s)
  BY <1>3, <1>4, ConformsIs
<1>6. Count(s, n) = Count(ks, n) + 1
  <2>1. Count(s, n) = Count(ks, n) + Count(new, n)
    <3> HIDE DEF S
    <3> QED
      BY <1>1, CountInsert DEF S
  <2>2. Count(new, n) = 1
    BY <1>1, CountSame
  <2> QED
    BY <2>1, <2>2
<1>7. /\ d \in DOMAIN T.desc /\ T.desc[d].name = n /\ T.desc[d].ratio = T.ratio
      /\ T.desc[d].max \in Nat /\ Of(T, n) = T.desc[d] /\ Count(ks, n) \in Nat
  BY CountNat DEF Describes, Of
<1>8. Room(ks, T.desc[d])
  BY <1>5, <1>6, <1>7 DEF Within, Room
<1>9. d \in GetAddChild(T, ks)
  <2>1. CASE T.ratio # "choice"
    BY <1>7, <1>8, <2>1 DEF GetAddChild
  <2>2. CASE T.ratio = "choice"
    <3>1. ASSUME Len(ks) # 0
          PROVE  Count(ks, n) > 0
      <4>1. 1 \in DOMAIN ks
        BY <1>2, <3>1
      <4>2. ks[1] # Comment
        <5>1. ~(Count(ks, Comment) > 0)
          OBVIOUS
        <5> QED
          BY <4>1, <5>1, CountIs
      <4>3. /\ DOMAIN s = 1 .. Len(ks) + 1 /\ DOMAIN new = 1 .. 1
            /\ \A j \in 1 .. row : s[j] = ks[j]
            /\ \A j \in row + 1 .. row + 1 : s[j] = new[j - row]
            /\ \A j \in row + 1 + 1 .. Len(ks) + 1 : s[j] = ks[j - 1]
        BY <1>4 DEF Inserts
      <4>4. row + 1 \in DOMAIN s /\ s[row + 1] = n
        <5>1. row + 1 \in row + 1 .. row + 1 /\ (row + 1) - row = 1 /\ 1 \in DOMAIN new
          BY <1>1, <4>3
        <5>2. row + 1 \in DOMAIN s
          BY <1>1, <1>2, <4>3
        <5> QED
          BY <1>1, <4>3, <5>1, <5>2
      <4>5. \E j \in DOMAIN s : s[j] = ks[1]
        <5>1. CASE row = 0
          <6>1. 2 \in row + 1 + 1 .. Len(ks) + 1 /\ 2 - 1 = 1 /\ 2 \in DOMAIN s
            BY <1>2, <3>1, <4>3, <5>1
          <6> QED
            BY <4>3, <6>1
        <5>2. CASE row # 0
          <6>1. 1 \in 1 .. row /\ 1 \in DOMAIN s
            BY <1>1, <1>2, <4>3, <5>2
          <6> QED
            BY <4>3, <6>1
        <5> QED
          BY <5>1, <5>2
      <4>6. n # Comment
        BY DEF Describes
      <4>7. ks[1] = n
        BY <1>5, <2>2, <4>2, <4>4, <4>5, <4>6 DEF OneName
      <4> QED
        BY <4>1, <4>7, CountIs
    <3> QED
      BY <1>7, <1>8, <2>2, <3>1 DEF GetAddChild
  <2> QED
    BY <2>1, <2>2
<1> QED
  BY <1>7, <1>9 DEF NamesAt

(* The list of what may still be added leaves nothing out, in an element   *)
(* without comments, for every plain type (getAddChild, xmlschema.cpp).    *)
THEOREM AddAlwaysComplete ==
  ASSUME PlainElements, IsContent
  PROVE  AddIsComplete
<1> SUFFICES ASSUME elType \in ElementTypes, Count(content, Comment) = 0,
                    NEW n \in Names(elType), OneMore(n)
             PROVE  n \in NamesAt(elType, GetAddChild(elType, content))
  BY DEF AddIsComplete
<1>1. Plain(elType) /\ Describes(elType) /\ content \in Seq(Names(elType) \cup {Comment})
  BY ElementIs
<1>2. PICK i \in 1 .. Len(content) + 1 : Conforms(elType, InsertAt(content, i, n))
  BY DEF OneMore
<1> QED
  BY <1>1, <1>2, AddableIsOffered

-----------------------------------------------------------------------------
(* Children taken out. *)

(* What is left when the children of one name go is of the other names.    *)
LEMMA OthersAre ==
  ASSUME NEW S, NEW ks \in Seq(S), NEW n, NEW R, \A j \in DOMAIN ks : ks[j] # n => ks[j] \in R
  PROVE  Others(ks, n) \in Seq(R)
<1> DEFINE k == Len(ks)
           X == Seq(R)
           Walk(g) == [i \in 0 .. k |->
                         IF i = 0 THEN <<>>
                         ELSE IF ks[i] = n THEN g[i - 1] ELSE Append(g[i - 1], ks[i])]
           f == CHOOSE g : g = Walk(g)
           G == [q \in Nat \X X |->
                   IF q[1] \in 1 .. k THEN IF ks[q[1]] = n THEN q[2] ELSE Append(q[2], ks[q[1]])
                   ELSE <<>>]
<1>1. k \in Nat /\ DOMAIN ks = 1 .. k
  BY LenProperties
<1>2. Others(ks, n) = f[k]
  BY DEF Others
<1>3. ASSUME NEW x \in X, NEW i \in 1 .. k
      PROVE  (IF ks[i] = n THEN x ELSE Append(x, ks[i])) \in X
  <2>1. CASE ks[i] = n
    BY <2>1
  <2>2. CASE ks[i] # n
    <3>1. ks[i] \in R
      BY <1>1, <2>2
    <3>2. Append(x, ks[i]) \in X
      BY <3>1, AppendProperties
    <3> QED
      BY <2>2, <3>2
  <2> QED
    BY <2>1, <2>2
<1>4. <<>> \in X
  OBVIOUS
<1> HIDE DEF X, k
<1>5. PICK h : IsRecursive(h, X, <<>>, G, k)
  <2>1. IsStep(G, X)
    BY <1>3, <1>4 DEF IsStep
  <2> HIDE DEF G
  <2> QED
    BY <1>1, <1>4, <2>1, RecursionExists
<1>6. h \in [0 .. k -> X] /\ h[0] = <<>>
  BY <1>5 DEF IsRecursive
<1>7. ASSUME NEW i \in 1 .. k
      PROVE  h[i] = IF ks[i] = n THEN h[i - 1] ELSE Append(h[i - 1], ks[i])
  <2>1. i \in Nat /\ i - 1 \in 0 .. k
    BY <1>1
  <2>2. h[i - 1] \in X
    BY <1>6, <2>1
  <2>3. h[i] = G[<<i, h[i - 1]>>]
    BY <1>5 DEF IsRecursive
  <2>4. <<i, h[i - 1]>> \in Nat \X X
    BY <2>1, <2>2
  <2> QED
    BY <2>3, <2>4
<1> HIDE DEF G
<1>8. h = Walk(h)
  <2>1. \A i \in 0 .. k : i = 0 \/ i \in 1 .. k
    BY <1>1
  <2>2. \A i \in 1 .. k : i # 0
    BY <1>1
  <2>3. \A i \in 0 .. k : h[i] = IF i = 0 THEN <<>>
                                 ELSE IF ks[i] = n THEN h[i - 1] ELSE Append(h[i - 1], ks[i])
    BY <1>6, <1>7, <2>1, <2>2
  <2>4. h = [i \in 0 .. k |-> h[i]]
    BY <1>6
  <2> QED
    BY <2>3, <2>4
<1>9. f = Walk(f)
  <2> HIDE DEF Walk
  <2> QED
    BY <1>8
<1> HIDE DEF f
<1>10. \A i \in 0 .. k : f[i] = IF i = 0 THEN <<>>
                                ELSE IF ks[i] = n THEN f[i - 1] ELSE Append(f[i - 1], ks[i])
  BY <1>9
<1> DEFINE Good == {i \in 0 .. k : f[i] \in X}
<1>11. 0 \in Good
  <2>1. 0 \in 0 .. k
    BY <1>1
  <2> QED
    BY <1>4, <1>10, <2>1
<1>12. ASSUME NEW i \in 1 .. k, i - 1 \in Good
       PROVE  i \in Good
  <2>1. i \in 0 .. k /\ i # 0 /\ f[i - 1] \in X
    BY <1>1, <1>12
  <2> QED
    BY <1>3, <1>10, <2>1
<1>13. \A i \in 0 .. k : i \in Good
  <2> HIDE DEF Good
  <2> QED
    BY <1>1, <1>11, <1>12, StepByStep
<1>14. f[k] \in X
  <2>1. k \in 0 .. k
    BY <1>1
  <2> QED
    BY <1>13, <2>1
<1> QED
  BY <1>2, <1>14 DEF X

(* Rows may go from what conforms.                                         *)
LEMMA TakeOutConforms ==
  ASSUME NEW T, Plain(T), Describes(T), NEW ks \in Seq(Names(T) \cup {Comment}),
         Conforms(T, ks), NEW a \in 1 .. Len(ks), NEW b \in a .. Len(ks),
         NEW s, s = Without(ks, a .. b)
  PROVE  s \in Seq(Names(T) \cup {Comment}) /\ Conforms(T, s)
<1> DEFINE S == Names(T) \cup {Comment}
           L == Len(ks)
           k == b - a + 1
           m(i) == IF i < a THEN i ELSE i + k
<1>1. L \in Nat /\ DOMAIN ks = 1 .. L /\ k \in Nat
  BY LenProperties
<1>2. Within(T, ks) /\ Sorted(T, ks) /\ OneName(T, ks)
  BY ConformsIs
<1>3. s \in Seq(S) /\ TakesOut(s, ks, a, k)
  <2> HIDE DEF S
  <2> QED
    BY WithoutIs DEF S
<1>4. Within(T, s)
  <2> SUFFICES ASSUME NEW x \in Names(T)
               PROVE  Of(T, x).max = 0 \/ Count(s, x) <= Of(T, x).max
    BY DEF Within
  <2> DEFINE part == Stretch(ks, a, b)
  <2>1. Count(ks, x) = Count(s, x) + Count(part, x) /\ Count(s, x) \in Nat /\ Count(part, x) \in Nat
    <3>1. ks \in Seq(S) /\ part = Stretch(ks, a, b)
      OBVIOUS
    <3> HIDE DEF S, part
    <3>2. /\ Count(ks, x) = Count(Without(ks, a .. b), x) + Count(part, x)
          /\ Count(Without(ks, a .. b), x) \in Nat /\ Count(part, x) \in Nat
      BY <3>1, CountWithout
    <3> QED
      BY <3>2
  <2>2. Of(T, x).max = 0 \/ Count(ks, x) <= Of(T, x).max
    BY <1>2 DEF Within
  <2>3. Of(T, x).max \in Nat
    BY DEF Describes
  <2> HIDE DEF part
  <2> QED
    BY <2>1, <2>2, <2>3
<1>5. ASSUME NEW i \in DOMAIN s
      PROVE  m(i) \in DOMAIN ks /\ s[i] = ks[m(i)] /\ i \in Nat
  <2>1. /\ DOMAIN s = 1 .. L - k
        /\ \A j \in 1 .. a - 1 : s[j] = ks[j]
        /\ \A j \in a .. L - k : s[j] = ks[j + k]
    BY <1>3 DEF TakesOut
  <2>2. CASE i < a
    <3>1. i \in 1 .. a - 1 /\ i \in 1 .. L
      BY <1>1, <2>1, <2>2
    <3> QED
      BY <1>1, <2>1, <2>2, <3>1
  <2>3. CASE ~(i < a)
    <3>1. i \in a .. L - k /\ i + k \in 1 .. L /\ i \in Nat
      BY <1>1, <2>1, <2>3
    <3>2. s[i] = ks[i + k]
      BY <2>1, <3>1
    <3> QED
      BY <1>1, <2>3, <3>1, <3>2
  <2> QED
    BY <2>2, <2>3
<1>6. \A i, j \in Nat : i < j => m(i) < m(j)
  BY <1>1
<1> HIDE DEF m
<1>7. Sorted(T, s)
  BY <1>2, <1>5, <1>6 DEF Sorted
<1>8. OneName(T, s)
  BY <1>2, <1>5 DEF OneName
<1> QED
  BY <1>3, <1>4, <1>7, <1>8, ConformsIs

LEMMA MayBeEmptyIs ==
  ASSUME NEW T, Describes(T), MayBeEmpty(T)
  PROVE  \E e \in Names(T) : Of(T, e).min = 0
<1>1. PICK i \in DOMAIN T.desc : T.desc[i].min = 0
  BY DEF MayBeEmpty
<1>2. T.desc[i].name \in Names(T) /\ Of(T, T.desc[i].name) = T.desc[i]
  BY DEF Describes, Of
<1> QED
  BY <1>1, <1>2

(* Comments alone.                                                         *)
LEMMA CommentsConform ==
  ASSUME NEW T, Plain(T), Describes(T), NEW ks \in Seq({Comment})
  PROVE  /\ ks \in Seq(Names(T) \cup {Comment}) /\ Conforms(T, ks)
         /\ \A n \in Names(T) : Count(ks, n) = 0
         /\ T.ratio = "choice" /\ MayBeEmpty(T) => Valid(T, ks)
<1>1. Len(ks) \in Nat /\ DOMAIN ks = 1 .. Len(ks) /\ \A i \in DOMAIN ks : ks[i] = Comment
  BY LenProperties, ElementOfSeq
<1>2. ks \in Seq(Names(T) \cup {Comment})
  <2> DEFINE S == Names(T) \cup {Comment}
  <2>1. {Comment} \subseteq S
    OBVIOUS
  <2> HIDE DEF S
  <2>2. ks \in Seq(S)
    BY <2>1
  <2> QED
    BY <2>2 DEF S
<1>3. \A n \in Names(T) : Count(ks, n) = 0
  <2> SUFFICES ASSUME NEW n \in Names(T) PROVE Count(ks, n) = 0
    OBVIOUS
  <2>1. n # Comment
    BY DEF Describes
  <2> QED
    BY <1>1, <2>1, CountSame
<1>4. Within(T, ks) /\ Sorted(T, ks) /\ OneName(T, ks)
  <2>1. \A n \in Names(T) : Of(T, n).max \in Nat
    BY DEF Describes
  <2>2. Within(T, ks)
    BY <1>3, <2>1 DEF Within
  <2> QED
    BY <1>1, <2>2 DEF Sorted, OneName
<1>5. Conforms(T, ks)
  BY <1>2, <1>4, ConformsIs
<1>6. ASSUME T.ratio = "choice", MayBeEmpty(T)
      PROVE  Enough(T, ks)
  <2>1. \E e \in Names(T) : Of(T, e).min = 0
    BY <1>6, MayBeEmptyIs
  <2> QED
    BY <1>3, <1>6, <2>1 DEF Enough
<1> QED
  BY <1>2, <1>3, <1>5, <1>6, CompleteIs DEF Valid

(* One child goes, where isDeleted says it may.                            *)
LEMMA OneGoes ==
  ASSUME NEW T, Plain(T), Describes(T), NEW ks \in Seq(Names(T) \cup {Comment}),
         NEW i \in DOMAIN ks, ks[i] # Comment, NEW s, s = Without(ks, i .. i)
  PROVE  /\ s \in Seq(Names(T) \cup {Comment})
         /\ Conforms(T, ks) => Conforms(T, s)
         /\ \A x : Count(s, x) = IF x = ks[i] THEN Count(ks, x) - 1 ELSE Count(ks, x)
<1> DEFINE S == Names(T) \cup {Comment}
           part == Stretch(ks, i, i)
<1>1. Len(ks) \in Nat /\ i \in 1 .. Len(ks) /\ i \in i .. Len(ks)
  BY LenProperties
<1>2. s \in Seq(S)
  <2> HIDE DEF S
  <2> QED
    BY <1>1, WithoutIs DEF S
<1>3. part \in Seq(S) /\ Len(part) = 1 /\ part[1] = ks[i] /\ DOMAIN part = 1 .. 1
  <2>1. i \in 1 .. Len(ks) + 1 /\ i \in i - 1 .. Len(ks) /\ i - i + 1 = 1 /\ i + 1 - 1 = i
    BY <1>1
  <2>2. part \in Seq(S) /\ Len(part) = i - i + 1 /\ \A j \in 1 .. i - i + 1 : part[j] = ks[i + j - 1]
    BY <2>1, SubSeqIs DEF Stretch
  <2> HIDE DEF part, S
  <2>3. DOMAIN part = 1 .. 1
    BY <2>1, <2>2, LenProperties
  <2> QED
    BY <2>1, <2>2, <2>3
<1> HIDE DEF S, part
<1>4. \A x : Count(part, x) = IF x = ks[i] THEN 1 ELSE 0
  <2>1. \A j \in DOMAIN part : part[j] = ks[i]
    BY <1>3
  <2> QED
    BY <1>3, <2>1, CountSame
<1>5. ASSUME NEW x
      PROVE  Count(s, x) = IF x = ks[i] THEN Count(ks, x) - 1 ELSE Count(ks, x)
  <2>1. ks \in Seq(S) /\ part = Stretch(ks, i, i)
    BY DEF S, part
  <2>2. Count(ks, x) = Count(s, x) + Count(part, x) /\ Count(s, x) \in Nat
    <3>1. ASSUME NEW a \in 1 .. Len(ks), NEW b \in a .. Len(ks)
          PROVE  /\ Count(ks, x) = Count(Without(ks, a .. b), x) + Count(Stretch(ks, a, b), x)
                 /\ Count(Without(ks, a .. b), x) \in Nat
      BY <2>1, CountWithout
    <3> QED
      BY <1>1, <2>1, <3>1
  <2> QED
    BY <1>4, <2>2
<1>6. ASSUME Conforms(T, ks)
      PROVE  Conforms(T, s)
  BY <1>1, <1>6, TakeOutConforms
<1> QED
  BY <1>2, <1>5, <1>6 DEF S

-----------------------------------------------------------------------------
(* Removals and replacements in an element. *)

(* What isDeleted says by the names.                                       *)
LEMMA IsDeletedIs ==
  ASSUME NEW T, Describes(T), NEW ks \in Seq(Names(T) \cup {Comment}),
         NEW n \in Names(T), Count(ks, n) > 0
  PROVE  /\ IsDeleted(T, ks, n) = 1 <=>
              \/ Count(ks, n) > Of(T, n).min
              \/ T.ratio = "choice" /\ MayBeEmpty(T) /\ Count(ks, n) = 1
         /\ IsDeleted(T, ks, n) > 1 =>
              T.ratio = "choice" /\ MayBeEmpty(T) /\ IsDeleted(T, ks, n) = Count(ks, n)
         /\ IsDeleted(T, ks, n) <= 0 <=>
              /\ Count(ks, n) <= Of(T, n).min
              /\ ~(T.ratio = "choice" /\ MayBeEmpty(T))
<1>1. n # Comment /\ Of(T, n).ratio = T.ratio /\ Of(T, n).min \in Nat
  BY DEF Describes
<1>2. Count(ks, n) \in Nat
  BY CountNat
<1> DEFINE c == Count(ks, n)
           m == Of(T, n).min
<1>3. IsDeleted(T, ks, n) = IF c > m THEN 1 ELSE IF T.ratio # "choice" THEN 0
                            ELSE IF MayBeEmpty(T) THEN c ELSE -c
  BY <1>1 DEF IsDeleted, Of
<1>4. c \in Nat /\ m \in Nat /\ c > 0
  BY <1>1, <1>2
<1> HIDE DEF c, m
<1>5. -c <= 0 /\ ~(-c = 1) /\ ~(-c > 1) /\ (c > m <=> ~(c <= m)) /\ ~(c <= 0)
  BY <1>4
<1>6. CASE c > m
  BY <1>3, <1>4, <1>5, <1>6 DEF c, m
<1>7. CASE ~(c > m) /\ T.ratio # "choice"
  BY <1>3, <1>4, <1>5, <1>7 DEF c, m
<1>8. CASE ~(c > m) /\ T.ratio = "choice" /\ MayBeEmpty(T)
  BY <1>3, <1>4, <1>5, <1>8 DEF c, m
<1>9. CASE ~(c > m) /\ T.ratio = "choice" /\ ~MayBeEmpty(T)
  BY <1>3, <1>4, <1>5, <1>9 DEF c, m
<1> QED
  BY <1>6, <1>7, <1>8, <1>9

(* One child goes.                                                         *)
LEMMA OneGoesValid ==
  ASSUME NEW T, Plain(T), Describes(T), NEW ks \in Seq(Names(T) \cup {Comment}),
         Valid(T, ks), NEW i \in DOMAIN ks, IsDeleted(T, ks, ks[i]) = 1,
         NEW s, s = Without(ks, i .. i)
  PROVE  s \in Seq(Names(T) \cup {Comment}) /\ Valid(T, s)
<1> DEFINE n == ks[i]
<1>1. n # Comment
  BY DEF IsDeleted
<1>2. n \in Names(T)
  <2>1. DOMAIN ks = 1 .. Len(ks)
    BY LenProperties
  <2> QED
    BY <1>1, <2>1, ElementOfSeq
<1>3. /\ s \in Seq(Names(T) \cup {Comment})
      /\ Conforms(T, ks) => Conforms(T, s)
      /\ \A x : Count(s, x) = IF x = n THEN Count(ks, x) - 1 ELSE Count(ks, x)
  BY <1>1, OneGoes
<1>4. Count(ks, n) > 0
  BY CountIs
<1> HIDE DEF n
<1>5. \/ Count(ks, n) > Of(T, n).min
      \/ T.ratio = "choice" /\ MayBeEmpty(T) /\ Count(ks, n) = 1
  BY <1>2, <1>4, IsDeletedIs DEF n
<1>6. Enough(T, ks) /\ Conforms(T, ks)
  BY CompleteIs DEF Valid
<1>7. \A x : Count(ks, x) \in Nat
  BY CountNat
<1>8. Of(T, n).min \in Nat
  BY <1>2 DEF Describes
<1>9. ASSUME T.ratio = "choice", NEW e \in Names(T), Count(ks, e) > 0 \/ Of(T, e).min = 0
      PROVE  \E y \in Names(T) : Count(s, y) > 0 \/ Of(T, y).min = 0
  <2>1. CASE e # n
    BY <1>3, <1>9, <2>1
  <2>2. CASE e = n /\ Count(ks, n) > Of(T, n).min
    <3>1. Count(s, n) = Count(ks, n) - 1
      BY <1>3
    <3>2. Count(s, n) > 0 \/ Of(T, n).min = 0
      BY <1>7, <1>8, <2>2, <3>1
    <3> QED
      BY <1>2, <3>2
  <2>3. CASE MayBeEmpty(T)
    BY <2>3, MayBeEmptyIs
  <2> QED
    BY <1>5, <2>1, <2>2, <2>3
<1>10. Enough(T, s)
  <2> SUFFICES ASSUME NEW x \in Names(T), ~(Count(s, x) >= Of(T, x).min)
               PROVE  /\ T.ratio = "choice" /\ Count(s, x) = 0
                      /\ \E e \in Names(T) : Count(s, e) > 0 \/ Of(T, e).min = 0
    BY DEF Enough
  <2>1. CASE x # n
    <3>1. Count(s, x) = Count(ks, x)
      BY <1>3, <2>1
    <3>2. /\ T.ratio = "choice" /\ Count(ks, x) = 0
          /\ \E e \in Names(T) : Count(ks, e) > 0 \/ Of(T, e).min = 0
      BY <1>6, <3>1 DEF Enough
    <3> QED
      BY <1>9, <3>1, <3>2
  <2>2. CASE x = n
    <3>1. Count(s, n) = Count(ks, n) - 1
      BY <1>3
    <3>2. ~(Count(ks, n) > Of(T, n).min)
      BY <1>7, <1>8, <2>2, <3>1
    <3>3. T.ratio = "choice" /\ MayBeEmpty(T) /\ Count(s, n) = 0
      BY <1>5, <3>1, <3>2
    <3>4. \E e \in Names(T) : Of(T, e).min = 0
      BY <3>3, MayBeEmptyIs
    <3> QED
      BY <2>2, <3>3, <3>4
  <2> QED
    BY <2>1, <2>2
<1> QED
  BY <1>3, <1>6, <1>10, CompleteIs DEF Valid

(* All of an alternative go.                                               *)
LEMMA OnlyCommentsAreLeft ==
  ASSUME NEW T, NEW ks \in Seq(Names(T) \cup {Comment}), T.ratio = "choice", OneName(T, ks),
         NEW i \in DOMAIN ks, ks[i] # Comment
  PROVE  Others(ks, ks[i]) \in Seq({Comment})
<1>1. \A j \in DOMAIN ks : ks[j] # ks[i] => ks[j] \in {Comment}
  BY DEF OneName
<1> QED
  BY <1>1, OthersAre

(* An alternative takes the place of another.                              *)
LEMMA CopiesAre ==
  ASSUME NEW T, Describes(T), NEW n \in Names(T)
  PROVE  /\ Copies(Of(T, n)) \in Nat \ {0} /\ Copies(Of(T, n)) >= Of(T, n).min
         /\ Of(T, n).max = 0 \/ Copies(Of(T, n)) <= Of(T, n).max
         /\ T.ratio = "all" => Copies(Of(T, n)) = 1
<1>1. /\ Of(T, n).min \in Nat /\ Of(T, n).max \in Nat
      /\ Of(T, n).max = 0 \/ Of(T, n).min <= Of(T, n).max
      /\ T.ratio = "all" => Of(T, n).min <= 1
  BY DEF Describes
<1> QED
  BY <1>1 DEF Copies

LEMMA AlternativeIsValid ==
  ASSUME NEW T, Plain(T), Describes(T), T.ratio = "choice",
         NEW n \in Names(T), NEW rest \in Seq({Comment}), NEW k, k = Copies(Of(T, n)),
         NEW s, s = Repeat(n, k) \o rest
  PROVE  s \in Seq(Names(T) \cup {Comment}) /\ Valid(T, s)
<1> DEFINE S == Names(T) \cup {Comment}
           new == Repeat(n, k)
<1>1. k \in Nat \ {0} /\ k >= Of(T, n).min /\ (Of(T, n).max = 0 \/ k <= Of(T, n).max)
  BY CopiesAre
<1>2. /\ new \in Seq(S) /\ Len(new) = k /\ DOMAIN new = 1 .. k /\ \A i \in 1 .. k : new[i] = n
      /\ \A x : Count(new, x) = IF x = n THEN k ELSE 0
  <2>1. n \in S /\ k \in Nat
    BY <1>1
  <2> HIDE DEF S
  <2>2. new \in Seq(S) /\ Len(new) = k
    BY <2>1, RepeatIs
  <2>3. DOMAIN new = 1 .. k /\ \A i \in 1 .. k : new[i] = n
    BY <2>1 DEF Repeat
  <2> HIDE DEF new
  <2>4. \A x : Count(new, x) = IF x = n THEN k ELSE 0
    BY <2>2, <2>3, CountSame
  <2> QED
    BY <2>2, <2>3, <2>4
<1>3. rest \in Seq(S) /\ \A x \in Names(T) : Count(rest, x) = 0
  BY CommentsConform
<1>4. DOMAIN rest = 1 .. Len(rest) /\ Len(rest) \in Nat /\ \A i \in DOMAIN rest : rest[i] = Comment
  BY LenProperties, ElementOfSeq
<1> HIDE DEF new, S
<1>5. s = new \o rest
  BY DEF new
<1>6. s \in Seq(S) /\ DOMAIN s = 1 .. k + Len(rest)
      /\ \A i \in DOMAIN s : s[i] = IF i <= k THEN new[i] ELSE rest[i - k]
  <2>1. /\ new \o rest \in Seq(S) /\ Len(new \o rest) = Len(new) + Len(rest)
        /\ \A i \in 1 .. Len(new) + Len(rest) :
             (new \o rest)[i] = IF i <= Len(new) THEN new[i] ELSE rest[i - Len(new)]
    BY <1>2, <1>3, ConcatProperties
  <2>2. /\ s \in Seq(S) /\ Len(s) = k + Len(rest)
        /\ \A i \in 1 .. k + Len(rest) : s[i] = IF i <= k THEN new[i] ELSE rest[i - k]
    BY <1>2, <1>5, <2>1
  <2>3. DOMAIN s = 1 .. Len(s)
    BY <2>2, LenProperties
  <2> QED
    BY <2>2, <2>3
<1>7. ASSUME NEW i \in DOMAIN s
      PROVE  s[i] = n \/ s[i] = Comment
  <2>1. CASE i <= k
    <3>1. i \in 1 .. k
      BY <1>1, <1>4, <1>6, <2>1
    <3> QED
      BY <1>2, <1>6, <2>1, <3>1
  <2>2. CASE ~(i <= k)
    <3>1. i - k \in DOMAIN rest
      BY <1>1, <1>4, <1>6, <2>2
    <3> QED
      BY <1>4, <1>6, <2>2, <3>1
  <2> QED
    BY <2>1, <2>2
<1>8. \A x \in Names(T) : Count(s, x) = IF x = n THEN k ELSE 0
  <2> SUFFICES ASSUME NEW x \in Names(T) PROVE Count(s, x) = IF x = n THEN k ELSE 0
    OBVIOUS
  <2>1. Count(s, x) = Count(new, x) + Count(rest, x)
    BY <1>2, <1>3, <1>5, CountConcat
  <2> QED
    BY <1>1, <1>2, <1>3, <2>1
<1>9. Within(T, s)
  <2>1. \A x \in Names(T) : Of(T, x).max \in Nat
    BY DEF Describes
  <2> QED
    BY <1>1, <1>8, <2>1 DEF Within
<1>10. Sorted(T, s) /\ OneName(T, s)
  BY <1>7 DEF Sorted, OneName
<1>11. Enough(T, s)
  <2>1. Count(s, n) > 0 /\ Count(s, n) >= Of(T, n).min
    BY <1>1, <1>8
  <2>2. \A x \in Names(T) : x # n => Count(s, x) = 0
    BY <1>8
  <2> QED
    BY <2>1, <2>2 DEF Enough
<1> QED
  BY <1>6, <1>9, <1>10, <1>11, ConformsIs, CompleteIs DEF Valid, S

(* In <all> a child takes the place of one of another name.                *)
Exchanged(ks, i, new) == SubSeq(ks, 1, i - 1) \o new \o SubSeq(ks, i + 1, Len(ks))

LEMMA OtherChildIsValid ==
  ASSUME NEW T, Plain(T), Describes(T), T.ratio = "all",
         NEW ks \in Seq(Names(T) \cup {Comment}), Valid(T, ks),
         NEW i \in DOMAIN ks, ks[i] # Comment, Count(ks, ks[i]) > Of(T, ks[i]).min,
         NEW n \in Names(T), n # ks[i], Room(ks, Of(T, n)),
         NEW s, s = Exchanged(ks, i, Repeat(n, 1))
  PROVE  s \in Seq(Names(T) \cup {Comment}) /\ Valid(T, s)
<1> DEFINE S == Names(T) \cup {Comment}
           new == Repeat(n, 1)
           u == SubSeq(ks, 1, i - 1)
           v == SubSeq(ks, i + 1, Len(ks))
<1>1. Len(ks) \in Nat /\ i \in 1 .. Len(ks) /\ ks[i] \in Names(T)
  <2>1. Len(ks) \in Nat /\ i \in 1 .. Len(ks)
    BY LenProperties
  <2> QED
    BY <2>1, ElementOfSeq
<1>2. u \in Seq(S) /\ v \in Seq(S)
  <2>1. 1 \in 1 .. Len(ks) + 1 /\ i - 1 \in 1 - 1 .. Len(ks)
        /\ i + 1 \in 1 .. Len(ks) + 1 /\ Len(ks) \in (i + 1) - 1 .. Len(ks)
    BY <1>1
  <2>2. ks \in Seq(S)
    OBVIOUS
  <2> HIDE DEF S
  <2> QED
    BY <2>1, <2>2, SubSeqIs
<1>3. /\ new \in Seq(S) /\ \A x : Count(new, x) = IF x = n THEN 1 ELSE 0
  <2>1. n \in S /\ 1 \in Nat
    OBVIOUS
  <2> HIDE DEF S
  <2> QED
    BY <2>1, RepeatIs
<1> DEFINE w == Without(ks, i .. i)
<1>4. w = u \o v
  <2>1. Min(i .. i) = i /\ Max(i .. i) = i
    <3>1. i \in Nat /\ i <= i
      BY <1>1
    <3> QED
      BY <3>1, MinMaxIs
  <2> QED
    BY <2>1 DEF Without
<1>5. \A x : Count(w, x) = IF x = ks[i] THEN Count(ks, x) - 1 ELSE Count(ks, x)
  <2>1. w = Without(ks, i .. i)
    OBVIOUS
  <2> HIDE DEF w
  <2>2. /\ w \in Seq(Names(T) \cup {Comment})
        /\ Conforms(T, ks) => Conforms(T, w)
        /\ \A x : Count(w, x) = IF x = ks[i] THEN Count(ks, x) - 1 ELSE Count(ks, x)
    BY <2>1, OneGoes
  <2> QED
    BY <2>2
<1>6. s = (u \o new) \o v
  BY DEF Exchanged
<1>7. ks \in Seq(S)
  OBVIOUS
<1> HIDE DEF S, new, u, v, w
<1>8. s \in Seq(S) /\ \A x : Count(s, x) = Count(w, x) + Count(new, x)
  <2>1. u \o new \in Seq(S)
    BY <1>2, <1>3, ConcatProperties
  <2>2. s \in Seq(S)
    BY <1>2, <1>6, <2>1, ConcatProperties
  <2>3. ASSUME NEW x
        PROVE  Count(s, x) = Count(w, x) + Count(new, x)
    <3>1. Count((u \o new) \o v, x) = Count(u \o new, x) + Count(v, x)
      BY <1>2, <2>1, CountConcat
    <3>2. Count(u \o new, x) = Count(u, x) + Count(new, x)
      BY <1>2, <1>3, CountConcat
    <3>3. Count(w, x) = Count(u, x) + Count(v, x)
      BY <1>2, <1>4, CountConcat
    <3>4. Count(u, x) \in Nat /\ Count(v, x) \in Nat /\ Count(new, x) \in Nat
      BY <1>2, <1>3, CountNat
    <3>5. Count(s, x) = Count((u \o new) \o v, x)
      BY <1>6
    <3>6. Count(s, x) = (Count(u, x) + Count(new, x)) + Count(v, x)
      BY <3>1, <3>2, <3>5
    <3> QED
      BY <3>3, <3>4, <3>6
  <2> QED
    BY <2>2, <2>3
<1>9. Conforms(T, ks) /\ Enough(T, ks)
  BY CompleteIs DEF Valid
<1>10. Within(T, ks)
  BY <1>9, ConformsIs
<1>11. \A x : Count(ks, x) \in Nat
  BY CountNat
<1>12. \A x \in Names(T) : /\ Of(T, x).min \in Nat /\ Of(T, x).max \in Nat /\ Of(T, x).name = x
  BY DEF Describes
<1>13. \A x : Count(s, x) = IF x = ks[i] THEN Count(ks, x) - 1
                            ELSE IF x = n THEN Count(ks, x) + 1 ELSE Count(ks, x)
  <2> SUFFICES ASSUME NEW x
               PROVE  Count(s, x) = IF x = ks[i] THEN Count(ks, x) - 1
                                    ELSE IF x = n THEN Count(ks, x) + 1 ELSE Count(ks, x)
    OBVIOUS
  <2>1. /\ Count(s, x) = Count(w, x) + Count(new, x)
        /\ Count(w, x) = IF x = ks[i] THEN Count(ks, x) - 1 ELSE Count(ks, x)
        /\ Count(new, x) = IF x = n THEN 1 ELSE 0
        /\ Count(ks, x) \in Nat
    BY <1>3, <1>5, <1>8, <1>11
  <2> QED
    BY <2>1
<1>14. Within(T, s)
  <2> SUFFICES ASSUME NEW x \in Names(T)
               PROVE  Of(T, x).max = 0 \/ Count(s, x) <= Of(T, x).max
    BY DEF Within
  <2>1. Of(T, x).max = 0 \/ Count(ks, x) <= Of(T, x).max
    BY <1>10 DEF Within
  <2>2. x = n => Of(T, x).max = 0 \/ Count(ks, x) < Of(T, x).max
    BY <1>12 DEF Room
  <2>3. Count(ks, x) \in Nat /\ Of(T, x).max \in Nat
    BY <1>11, <1>12
  <2>4. Count(s, x) = IF x = ks[i] THEN Count(ks, x) - 1
                      ELSE IF x = n THEN Count(ks, x) + 1 ELSE Count(ks, x)
    BY <1>13
  <2> DEFINE c == Count(ks, x)
             e == Count(s, x)
             m == Of(T, x).max
  <2>5. /\ m = 0 \/ c <= m
        /\ x = n => m = 0 \/ c < m
        /\ c \in Nat /\ m \in Nat
        /\ e \in {c - 1, c, c + 1} /\ (e = c + 1 => x = n)
    BY <2>1, <2>2, <2>3, <2>4
  <2> HIDE DEF c, e, m
  <2>6. m = 0 \/ e <= m
    BY <2>5
  <2> QED
    BY <2>6 DEF c, e, m
<1>15. Sorted(T, s) /\ OneName(T, s)
  BY DEF Sorted, OneName
<1>16. Enough(T, s)
  <2> SUFFICES ASSUME NEW x \in Names(T)
               PROVE  Count(s, x) >= Of(T, x).min
    BY DEF Enough
  <2>1. Count(ks, x) >= Of(T, x).min
    BY <1>9 DEF Enough
  <2>2. Count(ks, x) \in Nat /\ Of(T, x).min \in Nat
    BY <1>11, <1>12
  <2>3. CASE x = ks[i]
    BY <1>13, <2>2, <2>3
  <2>4. CASE x # ks[i]
    <3>1. Count(s, x) \in {Count(ks, x), Count(ks, x) + 1}
      BY <1>13, <2>4
    <3> QED
      BY <2>1, <2>2, <3>1
  <2> QED
    BY <2>3, <2>4
<1>17. s \in Seq(Names(T) \cup {Comment})
  BY <1>8 DEF S
<1> QED
  BY <1>14, <1>15, <1>16, <1>17, ConformsIs, CompleteIs DEF Valid

(* What Replace offers.                                                    *)
LEMMA ReplaceIs ==
  ASSUME NEW T, Describes(T), NEW ks \in Seq(Names(T) \cup {Comment}),
         NEW o \in Names(T), NEW n \in Replace(T, ks, o)
  PROVE  /\ n \in Names(T) /\ n # o /\ T.ratio \in {"choice", "all"}
         /\ T.ratio = "all" => Count(ks, o) > Of(T, o).min /\ Room(ks, Of(T, n))
<1>1. Of(T, o).ratio = T.ratio /\ Of(T, o).min \in Nat /\ Count(ks, o) \in Nat
  BY CountNat DEF Describes
<1>2. PICK j \in DOMAIN T.desc : /\ n = T.desc[j].name /\ T.desc[j].name # o
                                 /\ T.ratio = "choice" \/ Room(ks, T.desc[j])
  BY <1>1 DEF Replace, Of
<1>3. T.ratio # "sequence"
        /\ ~(Count(ks, o) <= IF T.ratio = "choice" THEN 0 ELSE Of(T, o).min)
  BY <1>1 DEF Replace, Of
<1>4. n \in Names(T) /\ Of(T, n) = T.desc[j]
  BY <1>2 DEF Describes, Of
<1>5. T.ratio \in {"choice", "all"}
  BY <1>3 DEF Describes
<1> QED
  BY <1>1, <1>2, <1>3, <1>4, <1>5

(* What isDeleted, the groups it deletes and the list of replacements let  *)
(* go leaves valid content valid: for every plain type and any content     *)
(* (deditor::isDeleted, deditor.cpp; xmlschema::getReplaice,               *)
(* xmlschema.cpp).                                                         *)
THEOREM RemovalsAlwaysValid ==
  ASSUME PlainElements, IsContent
  PROVE  RemovalsStayValid
<1> DEFINE T  == elType
           ks == content
           S  == Names(T) \cup {Comment}
           New(n) == Repeat(n, Copies(T.desc[DescOf(T, n)]))
<1> SUFFICES ASSUME T \in ElementTypes, Valid(T, ks), NEW i \in DOMAIN ks
             PROVE  /\ IsDeleted(T, ks, ks[i]) = 1 => Valid(T, RemoveAt(ks, i))
                    /\ IsDeleted(T, ks, ks[i]) > 1 => Valid(T, Others(ks, ks[i]))
                    /\ ks[i] # Comment => \A n \in Replace(T, ks, ks[i]) :
                         Valid(T, IF T.ratio = "choice"
                                  THEN New(n) \o Others(ks, ks[i])
                                  ELSE SubSeq(ks, 1, i - 1) \o New(n)
                                       \o SubSeq(ks, i + 1, Len(ks)))
  BY DEF RemovalsStayValid
<1>1. Plain(T) /\ Describes(T) /\ ks \in Seq(S)
  BY ElementIs
<1>2. i \in 1 .. Len(ks) /\ Len(ks) \in Nat
  BY <1>1, LenProperties
<1> HIDE DEF T, ks
<1>3. OneName(T, ks)
  BY <1>1, ConformsIs DEF Valid
<1>4. ks[i] # Comment => ks[i] \in Names(T)
  BY <1>1, <1>2, ElementOfSeq
<1>5. Count(ks, ks[i]) > 0
  BY <1>1, CountIs
<1>6. ASSUME IsDeleted(T, ks, ks[i]) = 1
      PROVE  Valid(T, RemoveAt(ks, i))
  <2> DEFINE w == Without(ks, i .. i)
  <2>1. RemoveAt(ks, i) = w
    <3> HIDE DEF S
    <3> QED
      BY <1>1, <1>2, RemoveAtIs
  <2>2. w = Without(ks, i .. i)
    OBVIOUS
  <2> HIDE DEF w
  <2>3. Valid(T, w)
    BY <1>1, <1>6, <2>2, OneGoesValid
  <2> QED
    BY <2>1, <2>3
<1>7. ASSUME IsDeleted(T, ks, ks[i]) > 1
      PROVE  Valid(T, Others(ks, ks[i]))
  <2>1. ks[i] # Comment
    BY <1>7 DEF IsDeleted
  <2>2. T.ratio = "choice" /\ MayBeEmpty(T)
    BY <1>1, <1>4, <1>5, <1>7, <2>1, IsDeletedIs
  <2>3. Others(ks, ks[i]) \in Seq({Comment})
    BY <1>1, <1>3, <2>1, <2>2, OnlyCommentsAreLeft
  <2> QED
    BY <1>1, <2>2, <2>3, CommentsConform
<1>8. ASSUME ks[i] # Comment, NEW n \in Replace(T, ks, ks[i])
      PROVE  Valid(T, IF T.ratio = "choice"
                      THEN New(n) \o Others(ks, ks[i])
                      ELSE SubSeq(ks, 1, i - 1) \o New(n)
                           \o SubSeq(ks, i + 1, Len(ks)))
  <2>1. /\ n \in Names(T) /\ n # ks[i] /\ T.ratio \in {"choice", "all"}
        /\ T.ratio = "all" => Count(ks, ks[i]) > Of(T, ks[i]).min /\ Room(ks, Of(T, n))
    BY <1>1, <1>4, <1>8, ReplaceIs
  <2>2. CASE T.ratio = "choice"
    <3> DEFINE rest == Others(ks, ks[i])
               k == Copies(Of(T, n))
               s == Repeat(n, k) \o rest
    <3>1. rest \in Seq({Comment})
      BY <1>1, <1>3, <1>8, <2>2, OnlyCommentsAreLeft
    <3> HIDE DEF rest
    <3>2. Valid(T, s)
      <4>1. k = Copies(Of(T, n)) /\ s = Repeat(n, k) \o rest
        OBVIOUS
      <4> HIDE DEF k, s
      <4> QED
        BY <1>1, <2>1, <2>2, <3>1, <4>1, AlternativeIsValid
    <3> QED
      BY <2>2, <3>2 DEF Of, rest
  <2>3. CASE T.ratio = "all"
    <3>1. Copies(Of(T, n)) = 1
      BY <1>1, <2>1, <2>3, CopiesAre
    <3> DEFINE s == Exchanged(ks, i, Repeat(n, 1))
    <3>2. s = Exchanged(ks, i, Repeat(n, 1))
      OBVIOUS
    <3> HIDE DEF s
    <3>3. Valid(T, s)
      BY <1>1, <1>8, <2>1, <2>3, <3>2, OtherChildIsValid
    <3> QED
      BY <2>3, <3>1, <3>2, <3>3 DEF Of, Exchanged
  <2> QED
    BY <2>1, <2>2, <2>3
<1> QED
  BY <1>6, <1>7, <1>8

-----------------------------------------------------------------------------
(* All elements of a document. *)

(* An element with the names of its children.                              *)
NamesOf(s) == [i \in DOMAIN s |-> s[i].name]

Pair(e) == <<e.name, NamesOf(e.kids)>>

(* An element, all elements of a document, are of the pairs in G.          *)
OneIn(G, e) == e.name # Comment => Pair(e) \in G
AllIn(G, e) == OneIn(G, e) /\ (e.name # Comment => \A j \in DOMAIN e.kids : OneIn(G, e.kids[j]))
DocIn(G, d) == Pair(d) \in G /\ \A i \in DOMAIN d.kids : AllIn(G, d.kids[i])

LEMMA DocInIs ==
  ASSUME NEW G, NEW d
  PROVE  DocIn(G, d) <=> \A p \in Paths(d) : Pair(At(d, p)) \in G
<1>1. ASSUME DocIn(G, d), NEW p \in Paths(d)
      PROVE  Pair(At(d, p)) \in G
  <2>1. CASE p = <<>>
    BY <1>1, <2>1, PathsAre DEF DocIn
  <2>2. ASSUME NEW i \in DOMAIN d.kids, d.kids[i].name # Comment, p = <<i>>
        PROVE  Pair(At(d, p)) \in G
    BY <1>1, <2>2, PathsAre DEF DocIn, AllIn, OneIn
  <2>3. ASSUME NEW i \in DOMAIN d.kids, d.kids[i].name # Comment,
               NEW j \in DOMAIN d.kids[i].kids, d.kids[i].kids[j].name # Comment, p = <<i, j>>
        PROVE  Pair(At(d, p)) \in G
    BY <1>1, <2>3, PathsAre DEF DocIn, AllIn, OneIn
  <2> QED
    BY <2>1, <2>2, <2>3, PathsAre
<1>2. ASSUME \A p \in Paths(d) : Pair(At(d, p)) \in G
      PROVE  DocIn(G, d)
  <2>1. Pair(d) \in G
    <3>1. <<>> \in Paths(d) /\ At(d, <<>>) = d
      BY PathsAre
    <3> QED
      BY <1>2, <3>1
  <2>2. ASSUME NEW i \in DOMAIN d.kids, d.kids[i].name # Comment
        PROVE  /\ Pair(d.kids[i]) \in G
               /\ \A j \in DOMAIN d.kids[i].kids : d.kids[i].kids[j].name # Comment =>
                    Pair(d.kids[i].kids[j]) \in G
    <3>1. <<i>> \in Paths(d) /\ At(d, <<i>>) = d.kids[i]
      BY <2>2, PathsAre
    <3>2. ASSUME NEW j \in DOMAIN d.kids[i].kids, d.kids[i].kids[j].name # Comment
          PROVE  Pair(d.kids[i].kids[j]) \in G
      <4>1. <<i, j>> \in Paths(d) /\ At(d, <<i, j>>) = d.kids[i].kids[j]
        BY <2>2, <3>2, PathsAre
      <4> QED
        BY <1>2, <4>1
    <3> QED
      BY <1>2, <3>1, <3>2
  <2> QED
    BY <2>1, <2>2 DEF DocIn, AllIn, OneIn
<1> QED
  BY <1>1, <1>2

(* The children of an element are put in place of those it had.            *)
LEMMA DocInEdit ==
  ASSUME ses \in Sessions, NEW d, TidyDoc(d), NEW p \in Above(d),
         NEW G, DocIn(G, d),
         NEW os, os = At(d, p).kids, NEW ks, <<At(d, p).name, NamesOf(ks)>> \in G,
         \A i \in DOMAIN ks : (\E j \in DOMAIN os : ks[i] = os[j]) \/ AllIn(G, ks[i]),
         NEW e, e = WithKids(d, p, ks)
  PROVE  DocIn(G, e) /\ e.name = d.name
<1>1. d \in Root
  BY DEF TidyDoc
<1>2. d = [name |-> d.name, id |-> d.id, att |-> d.att, kids |-> d.kids]
      /\ d.kids \in Seq(Mid)
  BY <1>1 DEF Root, Nodes
<1>3. CASE p = <<>>
  <2>1. e = [name |-> d.name, id |-> d.id, att |-> d.att, kids |-> ks]
    BY <1>2, <1>3 DEF WithKids
  <2>2. e.name = d.name /\ e.kids = ks
    BY <2>1
  <2>3. os = d.kids /\ At(d, p).name = d.name
    BY <1>3, PathsAre
  <2>4. \A i \in DOMAIN ks : AllIn(G, ks[i])
    BY <2>3 DEF DocIn
  <2> QED
    BY <2>2, <2>3, <2>4 DEF DocIn, Pair
<1>4. ASSUME NEW m \in DOMAIN d.kids, d.kids[m].name # Comment, p = <<m>>
      PROVE  DocIn(G, e) /\ e.name = d.name
  <2> DEFINE c == d.kids[m]
             f == [c EXCEPT !.kids = ks]
             s == [d.kids EXCEPT ![m] = f]
  <2>1. <<m>> # <<>> /\ <<m>>[1] = m
    BY ShortPaths
  <2>2. e = [d EXCEPT !.kids = s]
    BY <1>4, <2>1 DEF WithKids
  <2>3. c \in Mid
    BY <1>1, KidsAre
  <2>4. c = [name |-> c.name, id |-> c.id, att |-> c.att, kids |-> c.kids]
    BY <2>3 DEF Mid, Nodes
  <2>5. f.name = c.name /\ f.kids = ks
    BY <2>4
  <2>6. DOMAIN s = DOMAIN d.kids /\ \A j \in DOMAIN d.kids : s[j] = IF j = m THEN f ELSE d.kids[j]
    BY <1>2
  <2> HIDE DEF f, s
  <2>7. e.name = d.name /\ e.kids = s
    BY <1>2, <2>2
  <2>8. At(d, p) = c /\ os = c.kids
    BY <1>4, PathsAre
  <2>9. NamesOf(s) = NamesOf(d.kids)
    <3>1. \A j \in DOMAIN d.kids : s[j].name = d.kids[j].name
      BY <2>5, <2>6
    <3> QED
      BY <2>6, <3>1 DEF NamesOf
  <2>10. Pair(e) \in G
    BY <2>7, <2>9 DEF DocIn, Pair
  <2>11. AllIn(G, c)
    BY DEF DocIn
  <2>12. AllIn(G, f)
    <3>1. Pair(f) \in G
      BY <2>5, <2>8 DEF Pair
    <3>2. \A j \in DOMAIN os : OneIn(G, os[j])
      BY <1>4, <2>8, <2>11 DEF AllIn
    <3>3. \A j \in DOMAIN ks : OneIn(G, ks[j])
      BY <3>2 DEF AllIn
    <3> QED
      BY <2>5, <3>1, <3>3 DEF AllIn, OneIn
  <2>13. \A j \in DOMAIN s : AllIn(G, s[j])
    BY <2>6, <2>12 DEF DocIn
  <2> QED
    BY <2>7, <2>10, <2>13 DEF DocIn
<1> QED
  BY <1>3, <1>4, AboveIs

LEMMA DocInSame ==
  ASSUME NEW d, NEW e, Same(d, e), NEW G, DocIn(G, d)
  PROVE  DocIn(G, e) /\ e.name = d.name
<1>1. /\ e.name = d.name /\ DOMAIN e.kids = DOMAIN d.kids
      /\ \A i \in DOMAIN d.kids :
           /\ e.kids[i].name = d.kids[i].name
           /\ DOMAIN e.kids[i].kids = DOMAIN d.kids[i].kids
           /\ \A j \in DOMAIN d.kids[i].kids :
                /\ e.kids[i].kids[j].name = d.kids[i].kids[j].name
                /\ e.kids[i].kids[j].kids = d.kids[i].kids[j].kids
  BY DEF Same
<1>2. NamesOf(e.kids) = NamesOf(d.kids)
  BY <1>1 DEF NamesOf
<1>3. Pair(e) = Pair(d)
  BY <1>1, <1>2 DEF Pair
<1>4. ASSUME NEW i \in DOMAIN d.kids
      PROVE  AllIn(G, e.kids[i])
  <2>1. NamesOf(e.kids[i].kids) = NamesOf(d.kids[i].kids)
    BY <1>1 DEF NamesOf
  <2>2. Pair(e.kids[i]) = Pair(d.kids[i])
    BY <1>1, <2>1 DEF Pair
  <2>3. \A j \in DOMAIN d.kids[i].kids : Pair(e.kids[i].kids[j]) = Pair(d.kids[i].kids[j])
    BY <1>1 DEF Pair
  <2>4. AllIn(G, d.kids[i])
    BY DEF DocIn
  <2> QED
    BY <1>1, <2>2, <2>3, <2>4 DEF AllIn, OneIn
<1> QED
  BY <1>1, <1>3, <1>4 DEF DocIn

(* The names of a sequence that was edited.                                *)
LEMMA NamesOfIs ==
  ASSUME NEW S, NEW s \in Seq(S), NEW R, \A i \in DOMAIN s : s[i].name \in R
  PROVE  NamesOf(s) \in Seq(R) /\ Len(NamesOf(s)) = Len(s) /\ DOMAIN NamesOf(s) = DOMAIN s
         /\ \A i \in DOMAIN s : NamesOf(s)[i] = s[i].name
<1> DEFINE t == NamesOf(s)
           k == Len(s)
<1>1. k \in Nat /\ DOMAIN s = 1 .. k
  BY LenProperties
<1>2. t = [i \in 1 .. k |-> s[i].name] /\ \A i \in 1 .. k : s[i].name \in R
  BY <1>1 DEF NamesOf
<1>3. DOMAIN t = 1 .. k /\ \A i \in 1 .. k : t[i] = s[i].name
  BY <1>2
<1>4. \E l \in Nat : t = [i \in 1 .. l |-> t[i]] /\ \A i \in 1 .. l : t[i] \in R
  <2>1. t = [i \in 1 .. k |-> t[i]] /\ \A i \in 1 .. k : t[i] \in R
    BY <1>2, <1>3
  <2> QED
    BY <1>1, <2>1
<1> HIDE DEF t, k
<1>5. t \in Seq(R)
  BY <1>4
<1>6. Len(t) = k
  BY <1>1, <1>3, <1>5, LenProperties
<1> QED
  BY <1>1, <1>3, <1>5, <1>6 DEF t, k

NamedIn(S, R) == \A e \in S : e.name \in R

LEMMA NamesInserted ==
  ASSUME NEW S, NEW os \in Seq(S), NEW new \in Seq(S), NEW row \in 0 .. Len(os),
         NEW R, NamedIn(S, R), NEW ks, ks = Insert(os, row, new)
  PROVE  NamesOf(ks) = Insert(NamesOf(os), row, NamesOf(new))
<1> DEFINE n == Len(new)
           s == NamesOf(ks)
           t == Insert(NamesOf(os), row, NamesOf(new))
           a == NamesOf(os)
           b == NamesOf(new)
<1>1. ks \in Seq(S) /\ Inserts(ks, os, row, new, n)
  BY InsertIs
<1>2. \A x \in Seq(S) : \A i \in DOMAIN x : x[i].name \in R
  <2> SUFFICES ASSUME NEW x \in Seq(S), NEW i \in DOMAIN x PROVE x[i].name \in R
    OBVIOUS
  <2>1. x[i] \in S
    BY LenProperties, ElementOfSeq
  <2> QED
    BY <2>1 DEF NamedIn
<1>3. /\ s \in Seq(R) /\ Len(s) = Len(ks) /\ \A i \in DOMAIN ks : s[i] = ks[i].name
      /\ a \in Seq(R) /\ Len(a) = Len(os) /\ \A i \in DOMAIN os : a[i] = os[i].name
      /\ b \in Seq(R) /\ Len(b) = n /\ \A i \in DOMAIN new : b[i] = new[i].name
  BY <1>1, <1>2, NamesOfIs
<1> HIDE DEF s, a, b
<1>4. t = Insert(a, row, b)
  BY DEF a, b
<1> HIDE DEF t
<1>5. t \in Seq(R) /\ Inserts(t, a, row, b, n)
  BY <1>3, <1>4, InsertIs
<1>6. /\ Len(ks) = Len(os) + n /\ n \in Nat /\ Len(os) \in Nat
      /\ DOMAIN os = 1 .. Len(os) /\ DOMAIN ks = 1 .. Len(os) + n /\ DOMAIN new = 1 .. n
      /\ \A i \in 1 .. row : ks[i] = os[i]
      /\ \A i \in row + 1 .. row + n : ks[i] = new[i - row]
      /\ \A i \in row + n + 1 .. Len(os) + n : ks[i] = os[i - n]
  BY <1>1 DEF Inserts
<1>7. /\ Len(t) = Len(os) + n
      /\ \A i \in 1 .. row : t[i] = a[i]
      /\ \A i \in row + 1 .. row + n : t[i] = b[i - row]
      /\ \A i \in row + n + 1 .. Len(os) + n : t[i] = a[i - n]
  BY <1>3, <1>5 DEF Inserts
<1> HIDE DEF n
<1>8. ASSUME NEW i \in 1 .. Len(os) + n
      PROVE  s[i] = t[i]
  <2>1. CASE i \in 1 .. row
    <3>1. i \in DOMAIN os /\ i \in DOMAIN ks
      BY <1>6, <2>1
    <3>2. ks[i] = os[i] /\ t[i] = a[i]
      BY <1>6, <1>7, <2>1
    <3> QED
      BY <1>3, <3>1, <3>2
  <2>2. CASE i \in row + 1 .. row + n
    <3>1. i - row \in DOMAIN new /\ i \in DOMAIN ks
      BY <1>6, <2>2
    <3> QED
      BY <1>3, <1>6, <1>7, <2>2, <3>1
  <2>3. CASE i \in row + n + 1 .. Len(os) + n
    <3>1. i - n \in DOMAIN os /\ i \in DOMAIN ks
      BY <1>6, <2>3
    <3>2. ks[i] = os[i - n] /\ t[i] = a[i - n]
      BY <1>6, <1>7, <2>3
    <3> QED
      BY <1>3, <3>1, <3>2
  <2> QED
    BY <1>6, <2>1, <2>2, <2>3
<1>9. s = t
  BY <1>3, <1>5, <1>6, <1>7, <1>8, SeqEqual
<1> QED
  BY <1>9 DEF s, t, a, b

LEMMA NamesTakenOut ==
  ASSUME NEW S, NEW os \in Seq(S), NEW a \in 1 .. Len(os), NEW b \in a .. Len(os),
         NEW R, NamedIn(S, R), NEW ks, ks = Without(os, a .. b)
  PROVE  NamesOf(ks) = Without(NamesOf(os), a .. b)
<1> DEFINE n == b - a + 1
           s == NamesOf(ks)
           t == Without(NamesOf(os), a .. b)
           u == NamesOf(os)
<1>1. ks \in Seq(S) /\ TakesOut(ks, os, a, n)
  BY WithoutIs
<1>2. \A x \in Seq(S) : \A i \in DOMAIN x : x[i].name \in R
  <2> SUFFICES ASSUME NEW x \in Seq(S), NEW i \in DOMAIN x PROVE x[i].name \in R
    OBVIOUS
  <2>1. x[i] \in S
    BY LenProperties, ElementOfSeq
  <2> QED
    BY <2>1 DEF NamedIn
<1>3. /\ s \in Seq(R) /\ Len(s) = Len(ks) /\ \A i \in DOMAIN ks : s[i] = ks[i].name
      /\ u \in Seq(R) /\ Len(u) = Len(os) /\ \A i \in DOMAIN os : u[i] = os[i].name
  BY <1>1, <1>2, NamesOfIs
<1> HIDE DEF s, u
<1>4. t = Without(u, a .. b)
  BY DEF u
<1> HIDE DEF t
<1>5. t \in Seq(R) /\ TakesOut(t, u, a, n)
  BY <1>3, <1>4, WithoutIs
<1>6. /\ Len(ks) = Len(os) - n /\ n \in Nat /\ Len(os) \in Nat
      /\ DOMAIN os = 1 .. Len(os) /\ DOMAIN ks = 1 .. Len(os) - n
      /\ \A i \in 1 .. a - 1 : ks[i] = os[i]
      /\ \A i \in a .. Len(os) - n : ks[i] = os[i + n]
  BY <1>1 DEF TakesOut
<1>7. /\ Len(t) = Len(os) - n
      /\ \A i \in 1 .. a - 1 : t[i] = u[i]
      /\ \A i \in a .. Len(os) - n : t[i] = u[i + n]
  BY <1>3, <1>5 DEF TakesOut
<1>8. ASSUME NEW i \in 1 .. Len(os) - n
      PROVE  s[i] = t[i]
  <2>1. CASE i \in 1 .. a - 1
    <3>1. i \in DOMAIN os /\ i \in DOMAIN ks
      BY <1>6, <2>1
    <3> QED
      BY <1>3, <1>6, <1>7, <2>1, <3>1
  <2>2. CASE i \in a .. Len(os) - n
    <3>1. i + n \in DOMAIN os /\ i \in DOMAIN ks
      BY <1>6, <2>2
    <3> QED
      BY <1>3, <1>6, <1>7, <2>2, <3>1
  <2> QED
    BY <1>6, <2>1, <2>2
<1>9. s = t
  BY <1>3, <1>5, <1>6, <1>7, <1>8, SeqEqual
<1> QED
  BY <1>9 DEF s, t, u

-----------------------------------------------------------------------------
(* Children of one name put in. *)

(* Names the type declares, no comments, and of a choice one alternative.  *)
InForm(T, ks) == ks \in Seq(Names(T)) /\ OneName(T, ks)

(* Several are asked for of what has no other limit only.                  *)
Even(T) == \A n \in Names(T) : Of(T, n).min <= 1 \/ Of(T, n).max \in {0, Of(T, n).min}

LEMMA Wide ==
  ASSUME NEW T, NEW ks \in Seq(Names(T))
  PROVE  ks \in Seq(Names(T) \cup {Comment})
<1> DEFINE S == Names(T) \cup {Comment}
<1>1. Names(T) \subseteq S
  OBVIOUS
<1> HIDE DEF S
<1>2. ks \in Seq(S)
  BY <1>1
<1> QED
  BY <1>2 DEF S

LEMMA InsertedFrom ==
  ASSUME NEW S, NEW ks \in Seq(S), NEW new \in Seq(S), NEW row \in 0 .. Len(ks),
         NEW s, s = Insert(ks, row, new), NEW i \in DOMAIN s
  PROVE  (\E j \in DOMAIN ks : s[i] = ks[j]) \/ (\E j \in DOMAIN new : s[i] = new[j])
<1> DEFINE n == Len(new)
<1>1. s \in Seq(S) /\ Inserts(s, ks, row, new, n)
  BY InsertIs
<1>2. /\ n \in Nat /\ Len(ks) \in Nat
      /\ DOMAIN ks = 1 .. Len(ks) /\ DOMAIN s = 1 .. Len(ks) + n /\ DOMAIN new = 1 .. n
      /\ \A j \in 1 .. row : s[j] = ks[j]
      /\ \A j \in row + 1 .. row + n : s[j] = new[j - row]
      /\ \A j \in row + n + 1 .. Len(ks) + n : s[j] = ks[j - n]
  BY <1>1 DEF Inserts
<1> HIDE DEF n
<1>3. CASE i \in 1 .. row
  <2>1. i \in DOMAIN ks /\ s[i] = ks[i]
    BY <1>2, <1>3
  <2> QED
    BY <2>1
<1>4. CASE i \in row + 1 .. row + n
  <2>1. i - row \in DOMAIN new /\ s[i] = new[i - row]
    BY <1>2, <1>4
  <2> QED
    BY <2>1
<1>5. CASE i \in row + n + 1 .. Len(ks) + n
  <2>1. i - n \in DOMAIN ks /\ s[i] = ks[i - n]
    BY <1>2, <1>5
  <2> QED
    BY <2>1
<1> QED
  BY <1>2, <1>3, <1>4, <1>5

LEMMA LeftFrom ==
  ASSUME NEW S, NEW ks \in Seq(S), NEW a \in 1 .. Len(ks), NEW b \in a .. Len(ks),
         NEW s, s = Without(ks, a .. b), NEW i \in DOMAIN s
  PROVE  \E j \in DOMAIN ks : s[i] = ks[j]
<1> DEFINE n == b - a + 1
<1>1. s \in Seq(S) /\ TakesOut(s, ks, a, n)
  BY WithoutIs
<1>2. /\ n \in Nat /\ Len(ks) \in Nat
      /\ DOMAIN ks = 1 .. Len(ks) /\ DOMAIN s = 1 .. Len(ks) - n
      /\ \A j \in 1 .. a - 1 : s[j] = ks[j]
      /\ \A j \in a .. Len(ks) - n : s[j] = ks[j + n]
  BY <1>1 DEF TakesOut
<1> HIDE DEF n
<1>3. CASE i \in 1 .. a - 1
  <2>1. i \in DOMAIN ks /\ s[i] = ks[i]
    BY <1>2, <1>3
  <2> QED
    BY <2>1
<1>4. CASE i \in a .. Len(ks) - n
  <2>1. i + n \in DOMAIN ks /\ s[i] = ks[i + n]
    BY <1>2, <1>4
  <2> QED
    BY <2>1
<1> QED
  BY <1>2, <1>3, <1>4

(* Rows of one name are put in.                                            *)
LEMMA PutInForm ==
  ASSUME NEW T, NEW ks, InForm(T, ks), NEW n \in Names(T), OnlyName(T, ks, n), Comment \notin Names(T),
         NEW k \in Nat, NEW row \in 0 .. Len(ks), NEW s, s = Insert(ks, row, Repeat(n, k))
  PROVE  InForm(T, s)
<1> DEFINE new == Repeat(n, k)
<1>1. new \in Seq(Names(T)) /\ DOMAIN new = 1 .. k /\ \A i \in 1 .. k : new[i] = n
  BY RepeatIs
<1>2. s = Insert(ks, row, new) /\ ks \in Seq(Names(T))
  BY DEF InForm
<1> HIDE DEF new
<1>3. s \in Seq(Names(T))
  BY <1>1, <1>2, InsertIs
<1>4. ASSUME T.ratio = "choice", NEW i \in DOMAIN s
      PROVE  s[i] = n
  <2>1. (\E j \in DOMAIN ks : s[i] = ks[j]) \/ (\E j \in DOMAIN new : s[i] = new[j])
    BY <1>1, <1>2, InsertedFrom
  <2>2. \A j \in DOMAIN ks : ks[j] # Comment
    BY <1>2, LenProperties, ElementOfSeq
  <2>3. \A j \in DOMAIN ks : ks[j] = n
    BY <1>4, <2>2 DEF OnlyName
  <2> QED
    BY <1>1, <2>1, <2>3
<1> QED
  BY <1>3, <1>4 DEF InForm, OneName

(* Rows are taken out.                                                     *)
LEMMA TakeOutForm ==
  ASSUME NEW T, NEW ks, InForm(T, ks), NEW a \in 1 .. Len(ks), NEW b \in a .. Len(ks),
         NEW s, s = Without(ks, a .. b)
  PROVE  InForm(T, s)
<1>1. ks \in Seq(Names(T)) /\ OneName(T, ks)
  BY DEF InForm
<1>2. s \in Seq(Names(T))
  BY <1>1, WithoutIs
<1>3. \A i \in DOMAIN s : \E j \in DOMAIN ks : s[i] = ks[j]
  BY <1>1, LeftFrom
<1> QED
  BY <1>1, <1>2, <1>3 DEF InForm, OneName

LEMMA EnoughGrows ==
  ASSUME NEW T, Describes(T), NEW ks, Enough(T, ks), \A x : Count(ks, x) \in Nat,
         NEW n \in Names(T), NEW k \in Nat, Count(ks, n) + k >= Of(T, n).min,
         NEW s, \A x : Count(s, x) = Count(ks, x) + (IF x = n THEN k ELSE 0)
  PROVE  Enough(T, s)
<1>1. \A x : Count(s, x) >= Count(ks, x) /\ Count(s, x) \in Nat
  OBVIOUS
<1>2. \A x \in Names(T) : Of(T, x).min \in Nat
  BY DEF Describes
<1> SUFFICES ASSUME NEW x \in Names(T), ~(Count(s, x) >= Of(T, x).min)
             PROVE  /\ T.ratio = "choice" /\ Count(s, x) = 0
                    /\ \E e \in Names(T) : Count(s, e) > 0 \/ Of(T, e).min = 0
  BY DEF Enough
<1>3. x # n
  OBVIOUS
<1>4. Count(s, x) = Count(ks, x)
  BY <1>3
<1>5. /\ T.ratio = "choice" /\ Count(ks, x) = 0
      /\ \E e \in Names(T) : Count(ks, e) > 0 \/ Of(T, e).min = 0
  BY <1>4 DEF Enough
<1>6. \A e : Count(ks, e) > 0 => Count(s, e) > 0
  BY <1>1
<1> QED
  BY <1>4, <1>5, <1>6

(* k of a name, between what is before and behind, where they fit.         *)
LEMMA PutInValid ==
  ASSUME NEW T, Plain(T), Describes(T), NEW ks, InForm(T, ks), Valid(T, ks),
         NEW n \in Names(T), OnlyName(T, ks, n), NEW k \in Nat, NEW row \in 0 .. Len(ks),
         Between(T, ks, row, n), Fits(T, ks, n, k), Count(ks, n) + k >= Of(T, n).min,
         NEW s, s = Insert(ks, row, Repeat(n, k))
  PROVE  Valid(T, s)
<1> DEFINE S == Names(T) \cup {Comment}
           new == Repeat(n, k)
<1>1. ks \in Seq(S) /\ n \in S
  BY Wide DEF InForm
<1>2. Conforms(T, ks) /\ Enough(T, ks)
  BY CompleteIs DEF Valid
<1>3. /\ new \in Seq(S) /\ Len(new) = k /\ DOMAIN new = 1 .. k /\ \A i \in 1 .. k : new[i] = n
      /\ \A x : Count(new, x) = IF x = n THEN k ELSE 0
  <2> HIDE DEF S
  <2> QED
    BY <1>1, RepeatIs
<1>4. s = Insert(ks, row, new)
  OBVIOUS
<1> HIDE DEF new
<1>5. s \in Seq(S) /\ Conforms(T, s)
  BY <1>1, <1>2, <1>3, <1>4, PutInConforms
<1> HIDE DEF S
<1>6. \A x : Count(s, x) = Count(ks, x) + Count(new, x)
  BY <1>1, <1>3, <1>4, CountInsert
<1>7. \A x : Count(s, x) = Count(ks, x) + (IF x = n THEN k ELSE 0)
  BY <1>3, <1>6
<1>8. \A x : Count(ks, x) \in Nat
  BY <1>1, CountNat
<1>9. Enough(T, s)
  BY <1>2, <1>7, <1>8, EnoughGrows
<1> QED
  BY <1>5, <1>9, CompleteIs DEF Valid

-----------------------------------------------------------------------------
(* What the methods do to the names of the children. *)

(* From the names ks the method makes the names s.                         *)
Keeps(T, ks, s) == InForm(T, s) /\ (Even(T) /\ Valid(T, ks) => Valid(T, s))

(* addNode.                                                                *)
LEMMA AddedKeeps ==
  ASSUME NEW T, Plain(T), Describes(T), NEW ks, InForm(T, ks),
         NEW n \in NamesAt(T, GetAddChild(T, ks)), NEW k, k = Copies(Of(T, n)),
         NEW row, row = AddRow(T, ks, n), row \in 0 .. Len(ks),
         NEW s, s = Insert(ks, row, Repeat(n, k))
  PROVE  Keeps(T, ks, s)
<1>1. ks \in Seq(Names(T) \cup {Comment}) /\ OneName(T, ks)
  BY Wide DEF InForm
<1>2. n \in Names(T) /\ OnlyName(T, ks, n) /\ Fits(T, ks, n, 1)
      /\ (Room(ks, Of(T, n)) \/ (T.ratio = "choice" /\ ks = <<>>))
  BY <1>1, OneMoreFits, OfferedIs
<1>3. /\ k \in Nat \ {0} /\ k >= Of(T, n).min /\ Of(T, n).min \in Nat /\ Of(T, n).max \in Nat
      /\ k > 1 => k = Of(T, n).min
      /\ Comment \notin Names(T) /\ Of(T, n).name = n
  BY <1>2, CopiesAre DEF Describes, Copies
<1>4. InForm(T, s)
  BY <1>2, <1>3, PutInForm
<1>5. ASSUME Even(T), Valid(T, ks)
      PROVE  Valid(T, s)
  <2>1. Sorted(T, ks) /\ Enough(T, ks)
    BY <1>1, <1>5, ConformsIs, CompleteIs DEF Valid
  <2>2. Between(T, ks, row, n)
    BY <1>1, <1>2, <2>1, AddRowBetween
  <2>3. Count(ks, n) \in Nat
    BY <1>1, CountNat
  <2>4. Fits(T, ks, n, k)
    <3>1. CASE k = 1
      BY <1>2, <3>1
    <3>2. CASE k > 1
      <4>1. Of(T, n).max = 0 \/ Of(T, n).max = k
        BY <1>2, <1>3, <1>5, <3>2 DEF Even
      <4>2. Count(ks, n) >= k \/ Count(ks, n) = 0
        BY <1>2, <1>3, <2>1, <3>2 DEF Enough
      <4>3. CASE ks = <<>>
        <5>1. DOMAIN ks = {}
          BY <4>3
        <5>2. ~(Count(ks, n) > 0)
          BY <1>1, <5>1, CountIs
        <5>3. Count(ks, n) = 0
          BY <2>3, <5>2
        <5> QED
          BY <1>3, <4>1, <5>3 DEF Fits
      <4>4. CASE Room(ks, Of(T, n))
        <5>1. Of(T, n).max = 0 \/ Count(ks, n) < Of(T, n).max
          BY <1>3, <4>4 DEF Room
        <5> QED
          BY <1>3, <2>3, <4>1, <4>2, <5>1 DEF Fits
      <4> QED
        BY <1>2, <4>3, <4>4
    <3> QED
      BY <1>3, <3>1, <3>2
  <2>5. Count(ks, n) + k >= Of(T, n).min
    BY <1>3, <2>3
  <2> QED
    BY <1>2, <1>3, <1>5, <2>2, <2>4, <2>5, PutInValid
<1> QED
  BY <1>4, <1>5 DEF Keeps

(* insertNodeBefore and insertNodeAfter: n is put into the row in front of *)
(* or behind child i.                                                      *)
LEMMA BesideKeeps ==
  ASSUME NEW T, Plain(T), Describes(T), NEW ks, InForm(T, ks), NEW i \in DOMAIN ks, NEW n, NEW row,
         \/ n \in NamesAt(T, InsBefore(T, ks, i)) /\ row = i - 1
         \/ n \in NamesAt(T, InsAfter(T, ks, i)) /\ row = i,
         NEW s, s = Insert(ks, row, Repeat(n, 1))
  PROVE  Keeps(T, ks, s)
<1>1. ks \in Seq(Names(T) \cup {Comment}) /\ OneName(T, ks) /\ ks \in Seq(Names(T))
  BY Wide DEF InForm
<1>2. DOMAIN ks = 1 .. Len(ks) /\ Len(ks) \in Nat /\ ks[i] \in Names(T) /\ Comment \notin Names(T)
  BY <1>1, LenProperties, ElementOfSeq DEF Describes
<1>3. row \in 0 .. Len(ks)
  BY <1>2
<1>4. n \in NamesAt(T, GetAddChild(T, ks))
  <2>1. InsBefore(T, ks, i) \subseteq GetAddChild(T, ks) /\ InsAfter(T, ks, i) \subseteq GetAddChild(T, ks)
    BY DEF InsBefore, InsAfter
  <2> QED
    BY <2>1 DEF NamesAt
<1>5. n \in Names(T) /\ OnlyName(T, ks, n) /\ Fits(T, ks, n, 1)
  BY <1>1, <1>4, OneMoreFits
<1>6. InForm(T, s)
  BY <1>2, <1>3, <1>5, PutInForm
<1>7. ASSUME Valid(T, ks)
      PROVE  Valid(T, s)
  <2>1. Sorted(T, ks) /\ Enough(T, ks)
    BY <1>1, <1>7, ConformsIs, CompleteIs DEF Valid
  <2>2. Between(T, ks, row, n)
    <3>1. ks[i] # Comment
      BY <1>2
    <3>2. CASE n \in NamesAt(T, InsBefore(T, ks, i)) /\ row = i - 1
      BY <1>1, <2>1, <3>1, <3>2, InsBeforeBetween
    <3>3. CASE n \in NamesAt(T, InsAfter(T, ks, i)) /\ row = i
      BY <1>1, <2>1, <3>1, <3>3, InsAfterBetween
    <3> QED
      BY <3>2, <3>3
  <2>3. Count(ks, n) \in Nat /\ Of(T, n).min \in Nat
    BY <1>1, <1>5, CountNat DEF Describes
  <2>4. T.ratio = "choice" => Count(ks, n) > 0
    <3>1. T.ratio = "choice" => ks[i] = n
      BY <1>2, <1>5 DEF OnlyName
    <3> QED
      BY <1>1, <3>1, CountIs
  <2>5. Count(ks, n) >= Of(T, n).min
    BY <1>5, <2>1, <2>3, <2>4 DEF Enough
  <2>6. Count(ks, n) + 1 >= Of(T, n).min
    BY <2>3, <2>5
  <2> QED
    BY <1>3, <1>5, <1>7, <2>2, <2>6, PutInValid
<1> QED
  BY <1>6, <1>7 DEF Keeps

(* deleteNode, of one child.                                               *)
LEMMA OneGoesKeeps ==
  ASSUME NEW T, Plain(T), Describes(T), NEW ks, InForm(T, ks), NEW i \in DOMAIN ks,
         IsDeleted(T, ks, ks[i]) = 1, NEW s, s = Without(ks, i .. i)
  PROVE  Keeps(T, ks, s)
<1>1. ks \in Seq(Names(T) \cup {Comment}) /\ ks \in Seq(Names(T))
  BY Wide DEF InForm
<1>2. i \in 1 .. Len(ks) /\ i \in i .. Len(ks)
  BY <1>1, LenProperties
<1>3. InForm(T, s)
  BY <1>2, TakeOutForm
<1> QED
  BY <1>1, <1>3, OneGoesValid DEF Keeps

(* A choice of which one alternative was taken.                            *)
LEMMA OneAlternative ==
  ASSUME NEW T, Describes(T), NEW ks, InForm(T, ks), T.ratio = "choice", NEW i \in DOMAIN ks
  PROVE  /\ \A j \in DOMAIN ks : ks[j] = ks[i]
         /\ Count(ks, ks[i]) = Len(ks) /\ Len(ks) \in Nat \ {0}
         /\ Without(ks, 1 .. Len(ks)) = <<>>
<1>1. ks \in Seq(Names(T)) /\ DOMAIN ks = 1 .. Len(ks) /\ Len(ks) \in Nat
  BY LenProperties DEF InForm
<1>2. \A j \in DOMAIN ks : ks[j] # Comment
  BY <1>1, ElementOfSeq DEF Describes
<1>3. \A j \in DOMAIN ks : ks[j] = ks[i]
  BY <1>2 DEF InForm, OneName
<1>4. Count(ks, ks[i]) = Len(ks)
  <2> DEFINE x == ks[i]
  <2>1. \A j \in DOMAIN ks : ks[j] = x
    BY <1>3
  <2> HIDE DEF x
  <2>2. Count(ks, x) = Len(ks)
    BY <1>1, <2>1, CountSame
  <2> QED
    BY <2>2 DEF x
<1>5. Without(ks, 1 .. Len(ks)) = <<>>
  <2> DEFINE w == Without(ks, 1 .. Len(ks))
             k == Len(ks)
  <2>1. 1 \in 1 .. k /\ k \in 1 .. k /\ k = k - 1 + 1
    BY <1>1
  <2>2. w \in Seq(Names(T)) /\ TakesOut(w, ks, 1, k)
    <3> HIDE DEF w
    <3>1. w = Without(ks, 1 .. k)
      BY DEF w
    <3> HIDE DEF k
    <3> QED
      BY <1>1, <2>1, <3>1, WithoutIs DEF k
  <2>3. Len(w) = 0
    BY <1>1, <2>2 DEF TakesOut
  <2> HIDE DEF w
  <2>4. w = <<>>
    BY <2>2, <2>3, EmptySeq
  <2> QED
    BY <2>4 DEF w
<1> QED
  BY <1>1, <1>3, <1>4, <1>5

(* deleteNode, of a group.                                                 *)
LEMMA AllGoKeeps ==
  ASSUME NEW T, Plain(T), Describes(T), NEW ks, InForm(T, ks), NEW i \in DOMAIN ks,
         NEW r, r = IsDeleted(T, ks, ks[i]), r > 1, NEW s, s = Without(ks, 1 .. r)
  PROVE  Keeps(T, ks, s) /\ T.ratio = "choice" /\ r = Len(ks)
<1>1. ks \in Seq(Names(T) \cup {Comment}) /\ ks \in Seq(Names(T))
  BY Wide DEF InForm
<1>2. ks[i] \in Names(T) /\ Count(ks, ks[i]) > 0
  BY <1>1, LenProperties, ElementOfSeq, CountIs
<1>3. T.ratio = "choice" /\ MayBeEmpty(T) /\ r = Count(ks, ks[i])
  BY <1>1, <1>2, IsDeletedIs
<1>4. r = Len(ks) /\ s = <<>>
  BY <1>3, OneAlternative
<1>5. s \in Seq({Comment}) /\ s \in Seq(Names(T)) /\ DOMAIN s = {}
  <2>1. <<>> \in Seq({Comment}) /\ <<>> \in Seq(Names(T)) /\ DOMAIN <<>> = {}
    OBVIOUS
  <2> QED
    BY <1>4, <2>1
<1>6. Valid(T, s)
  BY <1>3, <1>5, CommentsConform
<1>7. OneName(T, s)
  BY <1>5 DEF OneName
<1> QED
  BY <1>3, <1>4, <1>5, <1>6, <1>7 DEF Keeps, InForm

LEMMA RepeatAlone ==
  ASSUME NEW S, NEW n \in S, NEW k \in Nat
  PROVE  Insert(<<>>, 0, Repeat(n, k)) = Repeat(n, k) /\ Repeat(n, k) \o <<>> = Repeat(n, k)
<1> DEFINE new == Repeat(n, k)
<1>1. new \in Seq(S)
  BY RepeatIs
<1> HIDE DEF new
<1>2. SubSeq(<<>>, 1, 0) = <<>> /\ SubSeq(<<>>, 0 + 1, Len(<<>>)) = <<>>
  OBVIOUS
<1>3. <<>> \o new = new /\ new \o <<>> = new
  BY <1>1, ConcatEmptySeq
<1> QED
  BY <1>2, <1>3 DEF Insert, new

(* replaceNode in a choice: all the children give way to one alternative.  *)
LEMMA AlternativeKeeps ==
  ASSUME NEW T, Plain(T), Describes(T), NEW ks, InForm(T, ks), T.ratio = "choice",
         NEW i \in DOMAIN ks, NEW n \in Names(T), NEW k, k = Copies(Of(T, n)),
         NEW s, s = Insert(Without(ks, 1 .. Count(ks, ks[i])), 0, Repeat(n, k))
  PROVE  Keeps(T, ks, s)
<1>1. Without(ks, 1 .. Count(ks, ks[i])) = <<>>
  BY OneAlternative
<1>2. s = Insert(<<>>, 0, Repeat(n, k))
  BY <1>1
<1>3. k \in Nat /\ Comment \notin Names(T)
  BY CopiesAre DEF Describes
<1>4. InForm(T, <<>>) /\ OnlyName(T, <<>>, n) /\ 0 \in 0 .. Len(<<>>)
  BY DEF InForm, OneName, OnlyName
<1>5. InForm(T, s)
  BY <1>2, <1>3, <1>4, PutInForm
<1>6. s = Repeat(n, k) \o <<>>
  BY <1>2, <1>3, RepeatAlone
<1>7. <<>> \in Seq({Comment})
  OBVIOUS
<1>8. Valid(T, s)
  BY <1>6, <1>7, AlternativeIsValid
<1> QED
  BY <1>5, <1>8 DEF Keeps

(* replaceNode in <all>: one child gives way to one of another name.       *)
LEMMA OtherChildKeeps ==
  ASSUME NEW T, Plain(T), Describes(T), NEW ks, InForm(T, ks), T.ratio = "all",
         NEW i \in DOMAIN ks, NEW n \in Replace(T, ks, ks[i]), NEW k, k = Copies(Of(T, n)),
         NEW s, s = Insert(Without(ks, i .. i), i - 1, Repeat(n, k))
  PROVE  Keeps(T, ks, s)
<1> DEFINE w == Without(ks, i .. i)
<1>1. ks \in Seq(Names(T) \cup {Comment}) /\ ks \in Seq(Names(T)) /\ Comment \notin Names(T)
  BY Wide DEF InForm, Describes
<1>2. ks[i] \in Names(T) /\ Count(ks, ks[i]) > 0 /\ ks[i] # Comment
  BY <1>1, LenProperties, ElementOfSeq, CountIs
<1>3. n \in Names(T) /\ n # ks[i] /\ Count(ks, ks[i]) > Of(T, ks[i]).min /\ Room(ks, Of(T, n))
  BY <1>1, <1>2, ReplaceIs
<1>4. k = 1 /\ Of(T, n).min \in Nat /\ Of(T, n).max \in Nat /\ Of(T, n).min <= 1 /\ Of(T, n).name = n
  BY <1>3, CopiesAre DEF Describes
<1>5. IsDeleted(T, ks, ks[i]) = 1
  BY <1>1, <1>2, <1>3, IsDeletedIs
<1>6. Keeps(T, ks, w)
  BY <1>5, OneGoesKeeps
<1>7. Count(w, n) = Count(ks, n) /\ Count(ks, n) \in Nat
  BY <1>1, <1>2, <1>3, OneGoes, CountNat
<1>8. i - 1 \in 0 .. Len(w)
  <2>1. i \in 1 .. Len(ks) /\ i \in i .. Len(ks) /\ Len(ks) \in Nat
    BY <1>1, LenProperties
  <2>2. TakesOut(w, ks, i, i - i + 1)
    <3> HIDE DEF w
    <3>1. w = Without(ks, i .. i)
      BY DEF w
    <3> QED
      BY <1>1, <2>1, <3>1, WithoutIs
  <2> HIDE DEF w
  <2>3. Len(w) = Len(ks) - (i - i + 1)
    BY <2>2 DEF TakesOut
  <2>4. i \in Nat /\ i <= Len(ks) /\ i >= 1
    BY <2>1
  <2>5. Len(w) = Len(ks) - 1
    BY <2>1, <2>3, <2>4
  <2> QED
    BY <2>1, <2>4, <2>5
<1>9. s = Insert(w, i - 1, Repeat(n, k))
  OBVIOUS
<1> HIDE DEF w
<1>10. OnlyName(T, w, n) /\ Between(T, w, i - 1, n)
  BY DEF OnlyName, Between
<1>11. Fits(T, w, n, k) /\ Count(w, n) + k >= Of(T, n).min
  BY <1>3, <1>4, <1>7 DEF Fits, Room
<1>12. InForm(T, w) /\ k \in Nat
  BY <1>4, <1>6 DEF Keeps
<1>13. InForm(T, s)
  BY <1>1, <1>3, <1>8, <1>9, <1>10, <1>12, PutInForm
<1>14. ASSUME Even(T), Valid(T, ks)
       PROVE  Valid(T, s)
  <2>1. Valid(T, w)
    BY <1>6, <1>14 DEF Keeps
  <2> QED
    BY <1>3, <1>8, <1>9, <1>10, <1>11, <1>12, <2>1, PutInValid
<1> QED
  BY <1>13, <1>14 DEF Keeps

-----------------------------------------------------------------------------
(* New elements are valid. *)

(* What addNodeModel puts into a new element, description by description:  *)
(* up to the i-th of them, s is there.                                     *)
UpTo(T, s, i) ==
  /\ s \in Seq(Names(T))
  /\ \A n \in Names(T) : Count(s, n) = IF DescOf(T, n) <= i THEN Of(T, n).min ELSE 0
  /\ \A x \in DOMAIN s : DescOf(T, s[x]) <= i
  /\ \A x, y \in DOMAIN s : x < y => DescOf(T, s[x]) <= DescOf(T, s[y])

LEMMA UpToNext ==
  ASSUME NEW T, Describes(T), NEW i \in DOMAIN T.desc, NEW s, UpTo(T, s, i - 1),
         NEW t, t = s \o Repeat(T.desc[i].name, T.desc[i].min)
  PROVE  UpTo(T, t, i)
<1> DEFINE n == T.desc[i].name
           k == T.desc[i].min
           new == Repeat(n, k)
           S == Names(T)
<1>1. n \in S /\ DescOf(T, n) = i /\ Of(T, n) = T.desc[i] /\ k \in Nat /\ i \in Nat
  BY DEF Describes, Of
<1>2. \A m \in S : DescOf(T, m) \in Nat /\ T.desc[DescOf(T, m)].name = m /\ Of(T, m).min \in Nat
  BY DEF Describes, Of
<1>3. s \in Seq(S) /\ DOMAIN s = 1 .. Len(s) /\ Len(s) \in Nat /\ \A x \in DOMAIN s : s[x] \in S
  BY LenProperties, ElementOfSeq DEF UpTo
<1>4. Of(T, n).min = k
  BY <1>1
<1> HIDE DEF n, k, S
<1>5. /\ new \in Seq(S) /\ Len(new) = k /\ DOMAIN new = 1 .. k /\ \A x \in 1 .. k : new[x] = n
      /\ \A m : Count(new, m) = IF m = n THEN k ELSE 0
  BY <1>1, RepeatIs
<1>6. t = s \o new
  BY DEF n, k
<1> HIDE DEF new
<1>7. /\ t \in Seq(S) /\ Len(t) = Len(s) + k
      /\ \A x \in 1 .. Len(s) + k : t[x] = IF x <= Len(s) THEN s[x] ELSE new[x - Len(s)]
  <2>1. /\ s \o new \in Seq(S) /\ Len(s \o new) = Len(s) + Len(new)
        /\ \A x \in 1 .. Len(s) + Len(new) :
             (s \o new)[x] = IF x <= Len(s) THEN s[x] ELSE new[x - Len(s)]
    BY <1>3, <1>5, ConcatProperties
  <2> QED
    BY <1>5, <1>6, <2>1
<1>8. DOMAIN t = 1 .. Len(s) + k
  BY <1>7, LenProperties
<1>9. ASSUME NEW m \in S
      PROVE  Count(t, m) = IF DescOf(T, m) <= i THEN Of(T, m).min ELSE 0
  <2>1. Count(t, m) = Count(s, m) + Count(new, m)
    BY <1>3, <1>5, <1>6, CountConcat
  <2>2. Count(s, m) = IF DescOf(T, m) <= i - 1 THEN Of(T, m).min ELSE 0
    BY <1>9 DEF UpTo, S
  <2>3. CASE m = n
    BY <1>1, <1>4, <1>5, <2>1, <2>2, <2>3
  <2>4. CASE m # n
    <3>1. DescOf(T, m) # i
      BY <1>2, <1>9, <2>4 DEF n
    <3>2. Count(new, m) = 0
      BY <1>5, <2>4
    <3> QED
      BY <1>1, <1>2, <1>9, <2>1, <2>2, <3>1, <3>2
  <2> QED
    BY <2>3, <2>4
<1>10. ASSUME NEW x \in DOMAIN t
       PROVE  /\ x <= Len(s) => x \in DOMAIN s /\ t[x] = s[x]
              /\ ~(x <= Len(s)) => t[x] = n
              /\ DescOf(T, t[x]) <= i /\ DescOf(T, t[x]) \in Nat
  <2>1. x <= Len(s) => x \in DOMAIN s /\ t[x] = s[x]
    BY <1>3, <1>7, <1>8
  <2>2. ~(x <= Len(s)) => t[x] = n
    <3>1. ~(x <= Len(s)) => x - Len(s) \in 1 .. k
      BY <1>1, <1>3, <1>8
    <3> QED
      BY <1>5, <1>7, <1>8, <3>1
  <2>3. x \in DOMAIN s => DescOf(T, s[x]) <= i - 1 /\ s[x] \in S
    BY <1>3 DEF UpTo
  <2>4. x \in DOMAIN s => DescOf(T, s[x]) \in Nat
    BY <1>2, <2>3
  <2> QED
    BY <1>1, <2>1, <2>2, <2>3, <2>4
<1>11. ASSUME NEW x \in DOMAIN t, NEW y \in DOMAIN t, x < y
       PROVE  DescOf(T, t[x]) <= DescOf(T, t[y])
  <2>1. CASE y <= Len(s)
    <3>1. x <= Len(s)
      BY <1>1, <1>3, <1>8, <1>11, <2>1
    <3>2. x \in DOMAIN s /\ y \in DOMAIN s /\ t[x] = s[x] /\ t[y] = s[y]
      BY <1>10, <2>1, <3>1
    <3> QED
      BY <1>11, <3>2 DEF UpTo
  <2>2. CASE ~(y <= Len(s))
    <3>1. t[y] = n
      BY <1>10, <2>2
    <3> QED
      BY <1>1, <1>10, <3>1
  <2> QED
    BY <2>1, <2>2
<1> QED
  BY <1>7, <1>9, <1>10, <1>11 DEF UpTo, S

(* addNodeModel on a new element whose type is no choice.                  *)
LEMMA AllMandatory ==
  ASSUME NEW T, Plain(T), Describes(T), T.ratio # "choice"
  PROVE  UpTo(T, Mandatory(T, <<>>), Len(T.desc))
<1> DEFINE L == Len(T.desc)
           open == {i \in DOMAIN T.desc : T.desc[i].min > 0 /\ Room(<<>>, T.desc[i])}
           of(i) == Repeat(T.desc[i].name, T.desc[i].min)
           parts == [i \in DOMAIN T.desc |-> IF i \in open THEN of(i) ELSE <<>>]
           S == Names(T)
<1>1. /\ L \in Nat /\ DOMAIN T.desc = 1 .. L
      /\ \A i \in 1 .. L : /\ T.desc[i].name \in S /\ T.desc[i].min \in Nat /\ T.desc[i].max \in Nat
                           /\ T.desc[i].max = 0 \/ T.desc[i].min <= T.desc[i].max
  BY DEF Describes, Of
<1>2. Mandatory(T, <<>>) = FlattenSeq(parts)
  BY DEF Mandatory
<1>3. \A n : Count(<<>>, n) = 0
  <2>1. <<>> \in Seq({}) /\ DOMAIN <<>> = {}
    OBVIOUS
  <2> SUFFICES ASSUME NEW n PROVE Count(<<>>, n) = 0
    OBVIOUS
  <2>2. Count(<<>>, n) \in Nat
    BY <2>1, CountNat
  <2>3. ~(Count(<<>>, n) > 0)
    BY <2>1, CountIs
  <2> QED
    BY <2>2, <2>3
<1> HIDE DEF S
<1>4. ASSUME NEW i \in 1 .. L
      PROVE  of(i) \in Seq(S) /\ parts[i] = of(i)
  <2>1. T.desc[i].name \in S /\ T.desc[i].min \in Nat /\ T.desc[i].max \in Nat
        /\ (T.desc[i].max = 0 \/ T.desc[i].min <= T.desc[i].max)
    BY <1>1
  <2>2. of(i) \in Seq(S) /\ Len(of(i)) = T.desc[i].min
    <3> DEFINE x == T.desc[i].name
               m == T.desc[i].min
    <3>1. x \in S /\ m \in Nat
      BY <2>1
    <3> HIDE DEF x, m
    <3>2. Repeat(x, m) \in Seq(S) /\ Len(Repeat(x, m)) = m
      BY <3>1, RepeatIs
    <3> QED
      BY <3>2 DEF x, m
  <2>3. i \in open <=> T.desc[i].min > 0
    <3>1. T.desc[i].min > 0 => Room(<<>>, T.desc[i])
      BY <1>3, <2>1 DEF Room
    <3> QED
      BY <1>1, <3>1
  <2>4. CASE i \in open
    BY <1>1, <2>2, <2>4
  <2>5. CASE i \notin open
    <3>1. Len(of(i)) = 0
      BY <2>1, <2>2, <2>3, <2>5
    <3>2. of(i) = <<>>
      <4> HIDE DEF of
      <4> QED
        BY <2>2, <3>1, EmptySeq
    <3>3. parts[i] = <<>>
      BY <1>1, <2>5
    <3> QED
      BY <2>2, <3>2, <3>3
  <2> QED
    BY <2>4, <2>5
<1>5. parts \in Seq(Seq(S)) /\ Len(parts) = L
  <2>1. parts = [i \in 1 .. L |-> parts[i]] /\ \A i \in 1 .. L : parts[i] \in Seq(S)
    BY <1>1, <1>4
  <2> HIDE DEF parts, L
  <2>2. \E m \in Nat : parts = [i \in 1 .. m |-> parts[i]] /\ \A i \in 1 .. m : parts[i] \in Seq(S)
    BY <1>1, <2>1
  <2>3. parts \in Seq(Seq(S))
    BY <2>2
  <2>4. DOMAIN parts = 1 .. L
    BY <2>1
  <2> QED
    BY <1>1, <2>3, <2>4, LenProperties
<1> HIDE DEF parts, of, open
<1>6. PICK f : Joining(f, parts, S, L) /\ FlattenSeq(parts) = f[L]
  BY <1>5, FlattenSeqIs
<1> DEFINE Good == {i \in 0 .. L : UpTo(T, f[i], i)}
<1>7. 0 \in Good
  <2>1. f[0] = <<>> /\ <<>> \in Seq(S) /\ DOMAIN <<>> = {}
    BY <1>6 DEF Joining
  <2>2. \A n \in S : DescOf(T, n) \in 1 .. L
    BY DEF Describes, S
  <2>3. \A n \in S : ~(DescOf(T, n) <= 0)
    BY <1>1, <2>2
  <2>4. UpTo(T, <<>>, 0)
    BY <1>3, <2>1, <2>3 DEF UpTo, S
  <2> QED
    BY <1>1, <2>1, <2>4
<1>8. ASSUME NEW i \in 1 .. L, i - 1 \in Good
      PROVE  i \in Good
  <2>1. UpTo(T, f[i - 1], i - 1)
    BY <1>8
  <2>2. f[i] = f[i - 1] \o Repeat(T.desc[i].name, T.desc[i].min)
    BY <1>4, <1>6 DEF Joining, of
  <2>3. i \in DOMAIN T.desc
    BY <1>1
  <2>4. UpTo(T, f[i], i)
    BY <2>1, <2>2, <2>3, UpToNext
  <2> QED
    BY <1>1, <2>4
<1>9. \A i \in 0 .. L : i \in Good
  <2> HIDE DEF Good, L
  <2> QED
    BY <1>1, <1>7, <1>8, StepByStep
<1>10. L \in 0 .. L
  BY <1>1
<1>11. UpTo(T, f[L], L)
  BY <1>9, <1>10
<1> QED
  BY <1>2, <1>6, <1>11

(* A new element is valid as addNodeModel leaves it.                       *)
LEMMA MandatoryValid ==
  ASSUME NEW T, Plain(T), Describes(T), NEW s, s = Mandatory(T, <<>>)
  PROVE  InForm(T, s) /\ Valid(T, s)
<1>1. \A n \in Names(T) : /\ DescOf(T, n) <= Len(T.desc) /\ Of(T, n).min \in Nat /\ Of(T, n).max \in Nat
                          /\ Of(T, n).max = 0 \/ Of(T, n).min <= Of(T, n).max
  BY DEF Describes, Of
<1>2. CASE T.ratio # "choice"
  <2>1. UpTo(T, s, Len(T.desc))
    BY <1>2, AllMandatory
  <2>2. s \in Seq(Names(T)) /\ s \in Seq(Names(T) \cup {Comment})
    BY <2>1, Wide DEF UpTo
  <2>3. \A n \in Names(T) : Count(s, n) = Of(T, n).min
    BY <1>1, <2>1 DEF UpTo
  <2>4. Within(T, s) /\ Enough(T, s)
    BY <1>1, <2>3 DEF Within, Enough
  <2>5. Sorted(T, s) /\ OneName(T, s)
    BY <1>2, <2>1 DEF UpTo, Sorted, OneName
  <2> QED
    BY <2>2, <2>4, <2>5, ConformsIs, CompleteIs DEF Valid, InForm
<1>3. CASE T.ratio = "choice"
  <2> DEFINE open == {i \in DOMAIN T.desc : T.desc[i].min > 0 /\ Room(<<>>, T.desc[i])}
             m == Min(open)
  <2>1. s = IF MayBeEmpty(T) \/ open = {} THEN <<>> ELSE Repeat(T.desc[m].name, T.desc[m].min)
    BY <1>3 DEF Mandatory
  <2>2. <<>> \in Seq({Comment}) /\ <<>> \in Seq(Names(T)) /\ OneName(T, <<>>)
    BY DEF OneName
  <2>3. CASE MayBeEmpty(T)
    <3>1. s = <<>>
      BY <2>1, <2>3
    <3> QED
      BY <1>3, <2>2, <2>3, <3>1, CommentsConform DEF InForm
  <2>4. CASE ~MayBeEmpty(T) /\ open = {}
    <3>1. s = <<>>
      BY <2>1, <2>4
    <3>2. Names(T) = {}
      <4> SUFFICES ASSUME NEW i \in DOMAIN T.desc PROVE FALSE
        BY DEF Names
      <4>1. T.desc[i].min \in Nat /\ T.desc[i].max \in Nat
            /\ (T.desc[i].max = 0 \/ T.desc[i].min <= T.desc[i].max)
        BY DEF Describes, Of
      <4>2. T.desc[i].min # 0
        BY <2>4 DEF MayBeEmpty
      <4>3. Count(<<>>, T.desc[i].name) = 0
        <5>1. <<>> \in Seq({}) /\ DOMAIN <<>> = {}
          OBVIOUS
        <5>2. Count(<<>>, T.desc[i].name) \in Nat
          BY <5>1, CountNat
        <5>3. ~(Count(<<>>, T.desc[i].name) > 0)
          BY <5>1, CountIs
        <5> QED
          BY <5>2, <5>3
      <4>4. Room(<<>>, T.desc[i])
        BY <4>1, <4>2, <4>3 DEF Room
      <4>5. i \in open
        BY <4>1, <4>2, <4>4
      <4> QED
        BY <2>4, <4>5
    <3>3. Enough(T, s)
      BY <3>2 DEF Enough
    <3>4. Conforms(T, s)
      BY <2>2, <3>1, CommentsConform
    <3> QED
      BY <2>2, <3>1, <3>3, <3>4, CompleteIs DEF Valid, InForm
  <2>5. CASE ~MayBeEmpty(T) /\ open # {}
    <3>1. open \in SUBSET Nat /\ \A i \in open : i \in DOMAIN T.desc /\ T.desc[i].min > 0
      BY DEF Describes
    <3>2. m \in open
      <4> HIDE DEF open
      <4> QED
        BY <2>5, <3>1, MinIs
    <3> DEFINE n == T.desc[m].name
               k == T.desc[m].min
    <3>3. m \in DOMAIN T.desc /\ k > 0
      BY <3>1, <3>2
    <3> HIDE DEF m, open
    <3>4. n \in Names(T) /\ Of(T, n) = T.desc[m] /\ k \in Nat /\ Comment \notin Names(T)
      BY <3>3 DEF Describes, Of
    <3>5. k = Copies(Of(T, n))
      BY <3>3, <3>4 DEF Copies
    <3>6. s = Repeat(n, k)
      BY <2>1, <2>5
    <3> HIDE DEF n, k
    <3>7. s = Insert(<<>>, 0, Repeat(n, k)) /\ s = Repeat(n, k) \o <<>>
      BY <3>4, <3>6, RepeatAlone
    <3>8. InForm(T, <<>>) /\ OnlyName(T, <<>>, n) /\ 0 \in 0 .. Len(<<>>)
      BY DEF InForm, OneName, OnlyName
    <3>9. InForm(T, s)
      BY <3>4, <3>7, <3>8, PutInForm
    <3>10. Valid(T, s)
      BY <1>3, <2>2, <3>4, <3>5, <3>7, AlternativeIsValid
    <3> QED
      BY <3>9, <3>10
  <2> QED
    BY <2>3, <2>4, <2>5
<1> QED
  BY <1>2, <1>3

-----------------------------------------------------------------------------
(* Clearing. *)

(* A new element and, below it, new children as addNodeModel puts them     *)
(* there.                                                                  *)
Started(e) ==
  /\ e.name \in DOMAIN Types /\ NamesOf(e.kids) = Mandatory(Types[e.name], <<>>)
  /\ \A j \in DOMAIN e.kids :
       /\ e.kids[j].name \in DOMAIN Types
       /\ NamesOf(e.kids[j].kids) = Mandatory(Types[e.kids[j].name], <<>>)

IsSeq(s) == s \in Seq({s[i] : i \in DOMAIN s})

LEMMA KidNamesIs ==
  ASSUME NEW e
  PROVE  KidNames(e) = NamesOf(e.kids)
BY DEF KidNames, NamesOf

(* addNodeModel on an element appends new children with theirs.            *)
Growth(e, new, more) ==
  /\ Grown(e) = [e EXCEPT !.kids = e.kids \o more]
  /\ NamesOf(more) = new /\ IsSeq(more)
  /\ new = <<>> => more = <<>>
  /\ \A j \in DOMAIN more :
       /\ more[j].name \in DOMAIN Types
       /\ NamesOf(more[j].kids) = Mandatory(Types[more[j].name], <<>>)

LEMMA GrownKids ==
  ASSUME ses \in Sessions, NEW n \in DOMAIN Types, NEW e \in Fresh(n),
         NEW new, new = Mandatory(Types[n], NamesOf(e.kids))
  PROVE  \E more : Growth(e, new, more)
<1> DEFINE kids(x) == Mandatory(TypeOf(x), KidNames(x))
           below(m) == LET q == kids(NewNode(m)) IN [i \in DOMAIN q |-> NewNode(q[i])]
           leaf(m) == [NewNode(m) EXCEPT !.kids = below(m)]
           more == [i \in DOMAIN new |-> leaf(new[i])]
<1>1. e.name = n
  BY DEF Fresh, Nodes
<1>2. kids(e) = new
  BY <1>1, KidNamesIs DEF TypeOf
<1>3. Grown(e) = [e EXCEPT !.kids = e.kids \o more]
  BY <1>2 DEF Grown
<1>4. new \in Seq(Names(Types[n]))
  BY MandatoryIs
<1>5. \A i \in DOMAIN new : new[i] \in DOMAIN Types
  <2>1. \A i \in DOMAIN new : new[i] \in Names(Types[n])
    BY <1>4, LenProperties, ElementOfSeq
  <2> QED
    BY <2>1, TypesAre
<1>6. ASSUME NEW m \in DOMAIN Types
      PROVE  leaf(m).name = m /\ NamesOf(leaf(m).kids) = Mandatory(Types[m], <<>>)
  <2> DEFINE q == kids(NewNode(m))
  <2>1. NewNode(m) = [name |-> m, id |-> NoId, att |-> NewNode(m).att, kids |-> <<>>]
        /\ NewNode(m).name = m /\ NewNode(m).kids = <<>>
    BY NewNodeIs
  <2>2. NamesOf(<<>>) = <<>>
    BY DEF NamesOf
  <2>3. q = Mandatory(Types[m], <<>>)
    BY <2>1, <2>2, KidNamesIs DEF TypeOf
  <2>4. q \in Seq(Names(Types[m]))
    BY <2>3, MandatoryIs
  <2> DEFINE h == [i \in DOMAIN q |-> NewNode(q[i])]
  <2>5. below(m) = h
    OBVIOUS
  <2>6. \A i \in DOMAIN q : q[i] \in DOMAIN Types
    <3> HIDE DEF q
    <3>1. \A i \in DOMAIN q : q[i] \in Names(Types[m])
      BY <2>4, LenProperties, ElementOfSeq
    <3> QED
      BY <3>1, TypesAre
  <2> HIDE DEF below, q
  <2>7. leaf(m).name = m /\ leaf(m).kids = h
    BY <2>1, <2>5
  <2>8. \A i \in DOMAIN q : h[i].name = q[i]
    BY <2>6, NewNodeIs
  <2>9. NamesOf(h) = [i \in DOMAIN q |-> q[i]]
    BY <2>8 DEF NamesOf
  <2>10. q = [i \in DOMAIN q |-> q[i]]
    BY <2>4
  <2> QED
    BY <2>3, <2>7, <2>9, <2>10
<1> HIDE DEF leaf
<1>7. DOMAIN more = DOMAIN new /\ \A i \in DOMAIN new : more[i] = leaf(new[i])
  OBVIOUS
<1>8. new = <<>> => more = <<>>
  OBVIOUS
<1> HIDE DEF more
<1>9. \A j \in DOMAIN more : /\ more[j].name = new[j] /\ new[j] \in DOMAIN Types
                             /\ NamesOf(more[j].kids) = Mandatory(Types[more[j].name], <<>>)
  BY <1>5, <1>6, <1>7
<1>10. NamesOf(more) = new
  <2>1. NamesOf(more) = [i \in DOMAIN new |-> new[i]]
    BY <1>7, <1>9 DEF NamesOf
  <2>2. new = [i \in DOMAIN new |-> new[i]]
    BY <1>4
  <2> QED
    BY <2>1, <2>2
<1>11. IsSeq(more)
  <2> DEFINE R == {more[i] : i \in DOMAIN more}
             k == Len(new)
  <2>1. k \in Nat /\ DOMAIN new = 1 .. k
    BY <1>4, LenProperties
  <2>2. more = [i \in 1 .. k |-> more[i]] /\ \A i \in 1 .. k : more[i] \in R
    <3>1. more = [i \in DOMAIN new |-> more[i]]
      BY <1>7 DEF more
    <3> QED
      BY <1>7, <2>1, <3>1
  <2> HIDE DEF R, k
  <2>3. \E l \in Nat : more = [i \in 1 .. l |-> more[i]] /\ \A i \in 1 .. l : more[i] \in R
    BY <2>1, <2>2
  <2>4. more \in Seq(R)
    BY <2>3
  <2> QED
    BY <2>4 DEF IsSeq, R
<1> QED
  BY <1>3, <1>8, <1>9, <1>10, <1>11 DEF Growth

(* addNodeModel on a new element, and once more on what it made.           *)
LEMMA GrownIsStarted ==
  ASSUME ses \in Sessions, NEW n \in DOMAIN Types, NEW e, e = Grown(NewNode(n))
  PROVE  /\ Started(e) /\ e.name = n
         /\ Mandatory(Types[n], Mandatory(Types[n], <<>>)) = <<>> => Grown(e) = e
<1>1. NewNode(n) \in Fresh(n) /\ NewNode(n).name = n /\ NewNode(n).kids = <<>>
      /\ NewNode(n) = [name |-> n, id |-> NoId, att |-> NewNode(n).att, kids |-> <<>>]
  BY NewNodeIs
<1> DEFINE new == Mandatory(Types[n], <<>>)
<1>2. NamesOf(NewNode(n).kids) = <<>>
  BY <1>1 DEF NamesOf
<1>3. new = Mandatory(Types[n], NamesOf(NewNode(n).kids))
  BY <1>2
<1> HIDE DEF new
<1>4. PICK more : Growth(NewNode(n), new, more)
  BY <1>1, <1>3, GrownKids
<1>5. e \in Fresh(n)
  BY <1>1, GrownIs
<1>6. e.name = n /\ e.kids = <<>> \o more
  BY <1>1, <1>4 DEF Growth
<1>7. e.kids = more
  BY <1>4, <1>6, ConcatEmptySeq DEF IsSeq, Growth
<1>8. Started(e)
  BY <1>4, <1>6, <1>7 DEF Started, new, Growth
<1>9. ASSUME Mandatory(Types[n], new) = <<>>
      PROVE  Grown(e) = e
  <2>1. <<>> = Mandatory(Types[n], NamesOf(e.kids))
    BY <1>4, <1>7, <1>9 DEF Growth
  <2>2. PICK rest : Growth(e, <<>>, rest)
    BY <1>5, <2>1, GrownKids
  <2>3. Grown(e) = [e EXCEPT !.kids = e.kids \o rest] /\ e.kids \o rest = e.kids
    BY <1>4, <1>7, <2>2, ConcatEmptySeq DEF IsSeq, Growth
  <2>4. e = [name |-> e.name, id |-> e.id, att |-> e.att, kids |-> e.kids]
    BY <1>5 DEF Fresh, Nodes
  <2> QED
    BY <2>3, <2>4
<1> QED
  BY <1>6, <1>8, <1>9 DEF new

(* The new elements of addNode and replaceNode: several only of what       *)
(* gains nothing when it is cloned.                                        *)
Whole(n) == Mandatory(Types[n], Mandatory(Types[n], <<>>)) = <<>>

LEMMA NewOnesStarted ==
  ASSUME ses \in Sessions, NEW n \in DOMAIN Types, NEW k \in Nat, k > 1 => Whole(n),
         NEW new, new = NewOnes(n, k)
  PROVE  NamesOf(new) = Repeat(n, k) /\ \A i \in DOMAIN new : Started(new[i])
<1> DEFINE e == Grown(NewNode(n))
<1>1. new \in Seq(Fresh(n)) /\ Len(new) = k /\ OneByOne(new, n) /\ DOMAIN new = 1 .. k
  BY NewOnesAre, LenProperties
<1>2. NamesOf(new) = Repeat(n, k)
  <2>1. \A i \in 1 .. k : new[i].name = n
    <3> SUFFICES ASSUME NEW i \in 1 .. k PROVE new[i].name = n
      OBVIOUS
    <3>1. new[i] \in Fresh(n)
      BY <1>1, ElementOfSeq
    <3> QED
      BY <3>1, FreshIs
  <2> QED
    BY <1>1, <2>1 DEF NamesOf, Repeat
<1>3. Started(e) /\ (Whole(n) => Grown(e) = e)
  BY GrownIsStarted DEF Whole
<1> HIDE DEF e
<1>4. \A i \in 1 .. k : new[i] = IF i = 1 THEN e ELSE Grown(new[i - 1])
  BY <1>1 DEF OneByOne, e
<1> DEFINE Good == {i \in 0 .. k : i # 0 => new[i] = e}
<1>5. 0 \in Good
  OBVIOUS
<1>6. ASSUME NEW i \in 1 .. k, i - 1 \in Good
      PROVE  i \in Good
  <2>1. CASE i = 1
    BY <1>4, <2>1
  <2>2. CASE i # 1
    <3>1. new[i - 1] = e
      BY <1>6, <2>2
    <3>2. Whole(n)
      BY <2>2
    <3>3. new[i] = e
      BY <1>3, <1>4, <2>2, <3>1, <3>2
    <3> QED
      BY <3>3
  <2> QED
    BY <2>1, <2>2
<1>7. \A i \in 0 .. k : i \in Good
  <2> HIDE DEF Good
  <2> QED
    BY <1>5, <1>6, StepByStep
<1>8. \A i \in 1 .. k : new[i] = e
  BY <1>7
<1> QED
  BY <1>1, <1>2, <1>3, <1>8

-----------------------------------------------------------------------------
(* What clearNode leaves of the names. *)

(* clearNode on the names of the children: g[i] is what is left after the  *)
(* last i rows.                                                            *)
NameStep(g, T, L, i) ==
  g[i] = IF IsDeleted(T, g[i - 1], g[i - 1][L + 1 - i]) > 0
         THEN Without(g[i - 1], L + 1 - i .. L + 1 - i) ELSE g[i - 1]

NameWalk(g, T, ks, L) == g[0] = ks /\ \A i \in 1 .. L : NameStep(g, T, L, i)

(* What clearNode is to leave.                                             *)
Least(T, ks, s) ==
  /\ InForm(T, s) /\ (Valid(T, ks) => Valid(T, s))
  /\ \A j \in DOMAIN s : IsDeleted(T, s, s[j]) <= 0

(* What is left of names in form without row r.                            *)
Gone(T, w, s, r) ==
  /\ InForm(T, w) /\ Len(w) = Len(s) - 1 /\ DOMAIN w = 1 .. Len(s) - 1
  /\ \A j \in DOMAIN w : j >= r => j + 1 \in DOMAIN s /\ w[j] = s[j + 1]
  /\ \A x : Count(w, x) <= Count(s, x)

LEMMA RowGoes ==
  ASSUME NEW T, Plain(T), Describes(T), NEW s, InForm(T, s), NEW r \in 1 .. Len(s),
         NEW w, w = Without(s, r .. r)
  PROVE  Gone(T, w, s, r)
<1>1. s \in Seq(Names(T)) /\ s \in Seq(Names(T) \cup {Comment})
  BY Wide DEF InForm
<1>2. /\ Len(s) \in Nat /\ DOMAIN s = 1 .. Len(s) /\ r \in r .. Len(s) /\ r \in DOMAIN s
      /\ r - r + 1 = 1 /\ r \in Nat
  BY <1>1, LenProperties
<1>3. InForm(T, w)
  BY <1>2, TakeOutForm
<1>4. TakesOut(w, s, r, 1)
  BY <1>1, <1>2, WithoutIs
<1>5. /\ Len(w) = Len(s) - 1 /\ DOMAIN w = 1 .. Len(s) - 1
      /\ \A j \in r .. Len(s) - 1 : w[j] = s[j + 1]
  BY <1>4 DEF TakesOut
<1>6. ASSUME NEW j \in DOMAIN w, j >= r
      PROVE  j + 1 \in DOMAIN s /\ w[j] = s[j + 1]
  <2>1. j \in 1 .. Len(s) - 1
    BY <1>5
  <2>2. j \in Nat /\ j \in r .. Len(s) - 1 /\ j + 1 \in 1 .. Len(s)
    BY <1>2, <1>6, <2>1
  <2> QED
    BY <1>2, <1>5, <2>2
<1>7. s[r] # Comment
  BY <1>1, <1>2, ElementOfSeq DEF Describes
<1>8. \A x : Count(w, x) <= Count(s, x)
  <2> SUFFICES ASSUME NEW x PROVE Count(w, x) <= Count(s, x)
    OBVIOUS
  <2>1. Count(w, x) = IF x = s[r] THEN Count(s, x) - 1 ELSE Count(s, x)
    BY <1>1, <1>2, <1>7, OneGoes
  <2>2. Count(s, x) \in Nat
    BY <1>1, CountNat
  <2> QED
    BY <2>1, <2>2
<1> QED
  BY <1>3, <1>5, <1>6, <1>8 DEF Gone

(* Whether a row may go, of names in form.                                 *)
LEMMA RowMayGo ==
  ASSUME NEW T, Describes(T), NEW s, InForm(T, s), NEW r \in DOMAIN s
  PROVE  /\ s[r] \in Names(T)
         /\ IsDeleted(T, s, s[r]) <= 0 <=>
              Count(s, s[r]) <= Of(T, s[r]).min /\ ~(T.ratio = "choice" /\ MayBeEmpty(T))
         /\ ~(T.ratio = "choice" /\ MayBeEmpty(T)) /\ ~(Count(s, s[r]) <= Of(T, s[r]).min)
              => IsDeleted(T, s, s[r]) = 1
         /\ IsDeleted(T, s, s[r]) \in Int
<1>1. s \in Seq(Names(T)) /\ s \in Seq(Names(T) \cup {Comment})
  BY Wide DEF InForm
<1>2. s[r] \in Names(T) /\ Count(s, s[r]) > 0 /\ Count(s, s[r]) \in Nat /\ s[r] # Comment
  BY <1>1, LenProperties, ElementOfSeq, CountIs, CountNat DEF Describes
<1>3. Of(T, s[r]).min \in Nat
  BY <1>2 DEF Describes
<1>4. IsDeleted(T, s, s[r]) \in Int
  BY <1>2 DEF IsDeleted
<1> QED
  BY <1>1, <1>2, <1>3, <1>4, IsDeletedIs

(* In a choice of which nothing need be there, everything goes.            *)
LEMMA AllIsCleared ==
  ASSUME NEW T, Plain(T), Describes(T), T.ratio = "choice", MayBeEmpty(T),
         NEW ks, InForm(T, ks), NEW g, NameWalk(g, T, ks, Len(ks))
  PROVE  Least(T, ks, g[Len(ks)])
<1> DEFINE L == Len(ks)
           Good == {i \in 0 .. L : InForm(T, g[i]) /\ Len(g[i]) = L - i}
<1>1. L \in Nat
  BY LenProperties DEF InForm
<1>2. 0 \in Good
  BY <1>1 DEF NameWalk
<1>3. ASSUME NEW i \in 1 .. L, i - 1 \in Good
      PROVE  i \in Good
  <2> DEFINE r == L + 1 - i
             s == g[i - 1]
  <2>1. /\ i - 1 \in 0 .. L /\ i \in 0 .. L /\ L - (i - 1) = r /\ r \in 1 .. r
        /\ L - i = r - 1
    BY <1>1
  <2>2. InForm(T, s) /\ Len(s) = r
    BY <1>3, <2>1
  <2>3. g[i] = IF IsDeleted(T, s, s[r]) > 0 THEN Without(s, r .. r) ELSE s
    BY DEF NameWalk, NameStep
  <2> HIDE DEF r, s
  <2>4. r \in DOMAIN s
    BY <2>1, <2>2, LenProperties DEF InForm
  <2>5. IsDeleted(T, s, s[r]) > 0
    <3>1. ~(IsDeleted(T, s, s[r]) <= 0) /\ IsDeleted(T, s, s[r]) \in Int
      BY <2>2, <2>4, RowMayGo
    <3> QED
      BY <3>1
  <2>6. g[i] = Without(s, r .. r) /\ r \in 1 .. Len(s)
    BY <2>1, <2>2, <2>3, <2>5
  <2>7. Gone(T, g[i], s, r)
    BY <2>2, <2>6, RowGoes
  <2> QED
    BY <2>1, <2>2, <2>7 DEF Gone
<1>4. \A i \in 0 .. L : i \in Good
  <2> HIDE DEF Good, L
  <2> QED
    BY <1>1, <1>2, <1>3, StepByStep
<1>5. L \in 0 .. L
  BY <1>1
<1>6. InForm(T, g[L]) /\ Len(g[L]) = 0
  BY <1>1, <1>4, <1>5
<1> HIDE DEF L
<1>7. g[L] = <<>>
  BY <1>6, EmptySeq DEF InForm
<1>8. <<>> \in Seq({Comment}) /\ DOMAIN <<>> = {}
  OBVIOUS
<1>9. Valid(T, <<>>)
  BY <1>8, CommentsConform
<1> QED
  BY <1>6, <1>7, <1>8, <1>9 DEF Least, L

(* Otherwise what is above its minimum goes: behind the rows that are      *)
(* still to come nothing is.                                               *)
Meagre(T, s, r) == \A j \in DOMAIN s : j >= r => Count(s, s[j]) <= Of(T, s[j]).min

LEMMA RestIsCleared ==
  ASSUME NEW T, Plain(T), Describes(T), ~(T.ratio = "choice" /\ MayBeEmpty(T)),
         NEW ks, InForm(T, ks), NEW g, NameWalk(g, T, ks, Len(ks))
  PROVE  Least(T, ks, g[Len(ks)])
<1> DEFINE L == Len(ks)
           Ok(s, r) == /\ InForm(T, s) /\ (Valid(T, ks) => Valid(T, s))
                       /\ Len(s) >= r - 1 /\ Meagre(T, s, r)
           Good == {i \in 0 .. L : Ok(g[i], L + 1 - i)}
<1>1. L \in Nat /\ ks \in Seq(Names(T)) /\ DOMAIN ks = 1 .. L
  BY LenProperties DEF InForm
<1>2. 0 \in Good
  <2>1. L + 1 - 0 = L + 1 /\ (L + 1) - 1 = L /\ L >= L /\ 0 \in 0 .. L
    BY <1>1
  <2>2. \A j \in DOMAIN ks : ~(j >= L + 1)
    BY <1>1
  <2>3. Meagre(T, ks, L + 1)
    BY <2>2 DEF Meagre
  <2>4. g[0] = ks
    BY DEF NameWalk
  <2> QED
    BY <2>1, <2>3, <2>4
<1>3. ASSUME NEW i \in 1 .. L, i - 1 \in Good
      PROVE  i \in Good
  <2> DEFINE r == L + 1 - i
             s == g[i - 1]
  <2>1. /\ i - 1 \in 0 .. L /\ i \in 0 .. L /\ L + 1 - (i - 1) = r + 1 /\ r \in Nat \ {0}
        /\ (r + 1) - 1 = r
    BY <1>1
  <2>2. Ok(s, r + 1)
    BY <1>3, <2>1
  <2>3. g[i] = IF IsDeleted(T, s, s[r]) > 0 THEN Without(s, r .. r) ELSE s
    BY DEF NameWalk, NameStep
  <2> HIDE DEF r, s
  <2>4. /\ InForm(T, s) /\ (Valid(T, ks) => Valid(T, s))
        /\ Len(s) >= r /\ Meagre(T, s, r + 1)
    BY <2>1, <2>2
  <2>5. /\ s \in Seq(Names(T)) /\ s \in Seq(Names(T) \cup {Comment}) /\ DOMAIN s = 1 .. Len(s)
        /\ Len(s) \in Nat /\ r \in DOMAIN s /\ r \in 1 .. Len(s)
    <3>1. s \in Seq(Names(T)) /\ s \in Seq(Names(T) \cup {Comment})
      BY <2>4, Wide DEF InForm
    <3>2. DOMAIN s = 1 .. Len(s) /\ Len(s) \in Nat
      BY <3>1, LenProperties
    <3> QED
      BY <2>1, <2>4, <3>1, <3>2
  <2>6. CASE Count(s, s[r]) <= Of(T, s[r]).min
    <3>1. IsDeleted(T, s, s[r]) <= 0 /\ IsDeleted(T, s, s[r]) \in Int
      BY <2>4, <2>5, <2>6, RowMayGo
    <3>2. g[i] = s
      BY <2>3, <3>1
    <3>3. \A j \in DOMAIN s : j >= r => j = r \/ j >= r + 1
      BY <2>1, <2>5
    <3>4. Meagre(T, s, r)
      BY <2>4, <2>6, <3>3 DEF Meagre
    <3>5. Len(s) >= r - 1
      BY <2>1, <2>4, <2>5
    <3>6. Ok(g[i], r)
      BY <2>4, <3>2, <3>4, <3>5
    <3> QED
      BY <2>1, <3>6 DEF r
  <2>7. CASE ~(Count(s, s[r]) <= Of(T, s[r]).min)
    <3> DEFINE w == Without(s, r .. r)
    <3>1. IsDeleted(T, s, s[r]) = 1
      BY <2>4, <2>5, <2>7, RowMayGo
    <3>2. g[i] = w
      BY <2>3, <3>1
    <3>3. w = Without(s, r .. r)
      OBVIOUS
    <3> HIDE DEF w
    <3>4. /\ InForm(T, w) /\ Len(w) = Len(s) - 1
          /\ \A j \in DOMAIN w : j >= r => j + 1 \in DOMAIN s /\ w[j] = s[j + 1]
          /\ \A x : Count(w, x) <= Count(s, x)
      <4>1. InForm(T, s) /\ r \in 1 .. Len(s)
        BY <2>4, <2>5
      <4>2. Gone(T, w, s, r)
        BY <3>3, <4>1, RowGoes
      <4> QED
        BY <4>2 DEF Gone
    <3>5. Valid(T, s) => Valid(T, w)
      BY <2>5, <3>1, <3>3, OneGoesValid
    <3>6. ASSUME NEW j \in DOMAIN w, j >= r
          PROVE  Count(w, w[j]) <= Of(T, w[j]).min
      <4>1. j + 1 \in DOMAIN s /\ w[j] = s[j + 1] /\ j + 1 >= r + 1
        <5>1. j \in Nat
          BY <3>4, LenProperties DEF InForm
        <5> QED
          BY <2>1, <3>4, <3>6, <5>1
      <4>2. Count(s, w[j]) <= Of(T, w[j]).min
        BY <2>4, <4>1 DEF Meagre
      <4>3. Count(w, w[j]) <= Count(s, w[j])
        BY <3>4
      <4>4. w[j] \in Names(T)
        BY <3>4, LenProperties, ElementOfSeq DEF InForm
      <4>5. Count(w, w[j]) \in Nat /\ Count(s, w[j]) \in Nat /\ Of(T, w[j]).min \in Nat
        BY <2>5, <3>4, <4>4, CountNat DEF InForm, Describes
      <4> QED
        BY <4>2, <4>3, <4>5
    <3>7. Meagre(T, w, r)
      BY <3>6 DEF Meagre
    <3>8. Len(w) >= r - 1
      BY <2>1, <2>4, <2>5, <3>4
    <3>9. Ok(g[i], r)
      BY <2>4, <3>2, <3>4, <3>5, <3>7, <3>8
    <3> QED
      BY <2>1, <3>9 DEF r
  <2> QED
    BY <2>6, <2>7
<1>4. \A i \in 0 .. L : i \in Good
  <2> HIDE DEF Good, L
  <2> QED
    BY <1>1, <1>2, <1>3, StepByStep
<1>5. L \in 0 .. L /\ L + 1 - L = 1
  BY <1>1
<1>6. Ok(g[L], 1)
  BY <1>4, <1>5
<1> DEFINE s == g[L]
<1>7. InForm(T, s) /\ (Valid(T, ks) => Valid(T, s)) /\ Meagre(T, s, 1)
  BY <1>6
<1> HIDE DEF s
<1>8. ASSUME NEW j \in DOMAIN s
      PROVE  IsDeleted(T, s, s[j]) <= 0
  <2>1. j >= 1
    BY <1>7, LenProperties DEF InForm
  <2>2. Count(s, s[j]) <= Of(T, s[j]).min
    BY <1>7, <2>1 DEF Meagre
  <2> QED
    BY <1>7, <2>2, RowMayGo
<1> QED
  BY <1>7, <1>8 DEF Least, s

LEMMA NamesWithout ==
  ASSUME NEW S, NEW R, NamedIn(S, R), NEW s \in Seq(S), NEW r \in 1 .. Len(s)
  PROVE  NamesOf(Without(s, r .. r)) = Without(NamesOf(s), r .. r)
<1>1. ASSUME NEW a \in 1 .. Len(s), NEW b \in a .. Len(s)
      PROVE  NamesOf(Without(s, a .. b)) = Without(NamesOf(s), a .. b)
  BY NamesTakenOut
<1>2. r \in r .. Len(s)
  BY LenProperties
<1> QED
  BY <1>1, <1>2

(* clearNode on an element whose children's names are in form.             *)
LEMMA ClearedNames ==
  ASSUME NEW el, NEW T, T = TypeOf(el), Plain(T), Describes(T),
         el = [name |-> el.name, id |-> el.id, att |-> el.att, kids |-> el.kids],
         NEW S, NEW R, NamedIn(S, R), el.kids \in Seq(S), InForm(T, NamesOf(el.kids))
  PROVE  Least(T, NamesOf(el.kids), NamesOf(Cleared(el)))
<1> DEFINE os == el.kids
           ks == NamesOf(os)
           L == Len(os)
<1>1. L \in Nat /\ os \in Seq(S)
  BY LenProperties
<1>2. PICK t : Clearing(t, el, S, L) /\ Cleared(el) = t[L]
  BY <1>1, ClearedWalk
<1>3. Len(ks) = L
  <2>1. \A i \in DOMAIN os : os[i].name \in R
    BY <1>1, LenProperties, ElementOfSeq DEF NamedIn
  <2> HIDE DEF os
  <2> QED
    BY <1>1, <2>1, NamesOfIs
<1> DEFINE g == [i \in 0 .. L |-> NamesOf(t[i])]
<1>4. g[0] = ks /\ g[L] = NamesOf(Cleared(el))
  BY <1>1, <1>2 DEF Clearing
<1>5. ASSUME NEW i \in 1 .. L
      PROVE  NameStep(g, T, L, i)
  <2> DEFINE r == L + 1 - i
             s == t[i - 1]
             e == [el EXCEPT !.kids = s]
  <2>1. i - 1 \in 0 .. L /\ i \in 0 .. L /\ L - (i - 1) = r /\ r \in Nat \ {0}
    BY <1>1
  <2>2. s \in Seq(S) /\ Len(s) >= r
    BY <1>2, <2>1 DEF Clearing
  <2>3. t[i] = IF MayGo(el, s, r) THEN RemoveAt(s, r) ELSE s
    BY <1>2 DEF Clearing, ClearingAt
  <2>4. g[i] = NamesOf(t[i]) /\ g[i - 1] = NamesOf(s)
    BY <2>1
  <2>5. e.kids = s
    OBVIOUS
  <2>6. KidNames(e) = NamesOf(s)
    BY <2>5, KidNamesIs
  <2> HIDE DEF r, s, e, g
  <2>7. r \in 1 .. Len(s) /\ r \in DOMAIN s /\ r \in r .. Len(s)
    BY <2>1, <2>2, LenProperties
  <2>8. s[r].name = NamesOf(s)[r]
    BY <2>7 DEF NamesOf
  <2>9. MayGo(el, s, r) <=> IsDeleted(T, NamesOf(s), NamesOf(s)[r]) > 0
    BY <2>6, <2>8 DEF MayGo, e
  <2>10. NamesOf(RemoveAt(s, r)) = Without(NamesOf(s), r .. r)
    <3>1. RemoveAt(s, r) = Without(s, r .. r)
      BY <2>2, <2>7, RemoveAtIs
    <3> QED
      BY <2>2, <2>7, <3>1, NamesWithout
  <2> QED
    BY <2>3, <2>4, <2>9, <2>10 DEF NameStep, r
<1>6. NameWalk(g, T, ks, Len(ks))
  BY <1>3, <1>4, <1>5 DEF NameWalk
<1>7. Least(T, ks, g[Len(ks)])
  <2> HIDE DEF g, ks
  <2> QED
    BY <1>6, AllIsCleared, RestIsCleared DEF ks
<1> QED
  BY <1>3, <1>4, <1>7

-----------------------------------------------------------------------------
(* Pairs of names that the methods keep. *)

(* The types of a plain session.                                           *)
PlainTypes ==
  \A m \in DOMAIN Types :
    /\ Plain(Types[m]) /\ Describes(Types[m])
    /\ \A n \in Names(Types[m]) : Of(Types[m], n).min > 1 => Whole(n)
    /\ MenuIsModal \/ Types[m].ratio = "sequence"

EvenTypes == \A m \in DOMAIN Types : Even(Types[m])

LEMMA TypesArePlain ==
  ASSUME PlainSessions, ses \in Sessions
  PROVE  PlainTypes
<1> SUFFICES ASSUME NEW m \in DOMAIN Types
             PROVE  /\ Plain(Types[m]) /\ Describes(Types[m])
                    /\ \A n \in Names(Types[m]) : Of(Types[m], n).min > 1 => Whole(n)
                    /\ MenuIsModal \/ Types[m].ratio = "sequence"
  BY DEF PlainTypes
<1>1. /\ Plain(Types[m]) /\ ClonesAreWhole(Types, Types[m])
      /\ MenuIsModal \/ Types[m].ratio = "sequence"
  BY DEF PlainSessions, Types, MenuIsModal
<1>2. SchemaType(DOMAIN Types, Types[m])
  BY TypesAre
<1>3. Describes(Types[m])
  BY <1>1, <1>2, PlainDescribes
<1>4. ASSUME NEW n \in Names(Types[m]), Of(Types[m], n).min > 1
      PROVE  Whole(n)
  <2> DEFINE i == DescOf(Types[m], n)
  <2>1. i \in DOMAIN Types[m].desc /\ Types[m].desc[i].name = n /\ Types[m].desc[i].min > 1
    BY <1>3, <1>4 DEF Describes, Of
  <2> HIDE DEF i
  <2> QED
    BY <1>1, <2>1 DEF ClonesAreWhole, Whole
<1> QED
  BY <1>1, <1>3, <1>4

LEMMA TypesAreEven ==
  ASSUME PlainTypes, EvenSessions, ses \in Sessions
  PROVE  EvenTypes
<1> SUFFICES ASSUME NEW m \in DOMAIN Types, NEW n \in Names(Types[m])
             PROVE  Of(Types[m], n).min <= 1 \/ Of(Types[m], n).max \in {0, Of(Types[m], n).min}
  BY DEF EvenTypes, Even
<1> DEFINE i == DescOf(Types[m], n)
<1>1. i \in DOMAIN Types[m].desc
  BY DEF PlainTypes, Describes
<1> HIDE DEF i
<1>2. Types[m].desc[i].min <= 1 \/ Types[m].desc[i].max \in {0, Types[m].desc[i].min}
  BY <1>1 DEF EvenSessions, Types
<1> QED
  BY <1>2 DEF Of, i

(* An element's name with those of its children: in form, and valid.       *)
FormPairs == {q \in (DOMAIN Types) \X Seq(DOMAIN Types) : InForm(Types[q[1]], q[2])}

ValidPairs == {q \in FormPairs : Valid(Types[q[1]], q[2])}

LEMMA PairsAre ==
  ASSUME ses \in Sessions, NEW m \in DOMAIN Types, NEW s
  PROVE  /\ <<m, s>> \in FormPairs <=> InForm(Types[m], s)
         /\ <<m, s>> \in ValidPairs <=> InForm(Types[m], s) /\ Valid(Types[m], s)
<1>1. InForm(Types[m], s) => s \in Seq(DOMAIN Types)
  <2>1. Names(Types[m]) \subseteq DOMAIN Types
    BY TypesAre
  <2> QED
    BY <2>1 DEF InForm
<1> DEFINE A == DOMAIN Types
           B == Seq(DOMAIN Types)
           C == A \X B
           q == <<m, s>>
<1>2. m \in A /\ (InForm(Types[m], s) => s \in B)
  BY <1>1
<1> HIDE DEF A, B
<1>3. q \in C <=> s \in B
  BY <1>2
<1>4. q[1] = m /\ q[2] = s
  OBVIOUS
<1> HIDE DEF q, C
<1>5. FormPairs = {x \in C : InForm(Types[x[1]], x[2])}
  BY DEF FormPairs, A, B, C
<1>6. q \in FormPairs <=> InForm(Types[m], s)
  BY <1>2, <1>3, <1>4, <1>5
<1>7. q \in ValidPairs <=> InForm(Types[m], s) /\ Valid(Types[m], s)
  BY <1>4, <1>6 DEF ValidPairs
<1> QED
  BY <1>6, <1>7 DEF q

(* Pairs that the methods make only such pairs of.                         *)
Kept(G) ==
  /\ G \subseteq FormPairs
  /\ \A m \in DOMAIN Types :
       /\ \A ks, s : <<m, ks>> \in G /\ Keeps(Types[m], ks, s) => <<m, s>> \in G
       /\ <<m, Mandatory(Types[m], <<>>)>> \in G

LEMMA FormsAreKept ==
  ASSUME ses \in Sessions, PlainTypes
  PROVE  Kept(FormPairs)
<1> SUFFICES ASSUME NEW m \in DOMAIN Types
             PROVE  /\ \A ks, s : <<m, ks>> \in FormPairs /\ Keeps(Types[m], ks, s) => <<m, s>> \in FormPairs
                    /\ <<m, Mandatory(Types[m], <<>>)>> \in FormPairs
  BY DEF Kept
<1>1. \A s : InForm(Types[m], s) => <<m, s>> \in FormPairs
  BY PairsAre
<1>2. InForm(Types[m], Mandatory(Types[m], <<>>))
  BY MandatoryValid DEF PlainTypes
<1> QED
  BY <1>1, <1>2 DEF Keeps

LEMMA ValidAreKept ==
  ASSUME ses \in Sessions, PlainTypes, EvenTypes
  PROVE  Kept(ValidPairs)
<1>1. ValidPairs \subseteq FormPairs
  BY DEF ValidPairs
<1> SUFFICES ASSUME NEW m \in DOMAIN Types
             PROVE  /\ \A ks, s : <<m, ks>> \in ValidPairs /\ Keeps(Types[m], ks, s) => <<m, s>> \in ValidPairs
                    /\ <<m, Mandatory(Types[m], <<>>)>> \in ValidPairs
  BY <1>1 DEF Kept
<1>2. \A s : <<m, s>> \in ValidPairs <=> InForm(Types[m], s) /\ Valid(Types[m], s)
  BY PairsAre
<1>3. InForm(Types[m], Mandatory(Types[m], <<>>)) /\ Valid(Types[m], Mandatory(Types[m], <<>>))
  BY MandatoryValid DEF PlainTypes
<1>4. Even(Types[m])
  BY DEF EvenTypes
<1> QED
  BY <1>2, <1>3, <1>4 DEF Keeps

(* New elements are of such pairs.                                         *)
LEMMA StartedIn ==
  ASSUME NEW G, Kept(G), NEW e, Started(e)
  PROVE  AllIn(G, e)
<1>1. Pair(e) \in G
  BY DEF Started, Kept, Pair
<1>2. ASSUME NEW j \in DOMAIN e.kids
      PROVE  Pair(e.kids[j]) \in G
  <2> DEFINE x == e.kids[j]
  <2>1. x.name \in DOMAIN Types /\ NamesOf(x.kids) = Mandatory(Types[x.name], <<>>)
    BY DEF Started
  <2> HIDE DEF x
  <2>2. Pair(x) \in G
    BY <2>1 DEF Kept, Pair
  <2> QED
    BY <2>2 DEF x
<1> QED
  BY <1>1, <1>2 DEF AllIn, OneIn

(* An element that can have children, in a document of such pairs.         *)
Stands(G, el, p) ==
  /\ el.name \in DOMAIN Types /\ TypeOf(el) = Types[el.name]
  /\ el.kids \in Seq(KidLevel(p)) /\ NamedIn(KidLevel(p), AllNames)
  /\ KidNames(el) = NamesOf(el.kids)
  /\ <<el.name, KidNames(el)>> \in G /\ InForm(TypeOf(el), KidNames(el))
  /\ Len(KidNames(el)) = Len(el.kids) /\ DOMAIN KidNames(el) = DOMAIN el.kids
  /\ \A i \in DOMAIN el.kids : KidNames(el)[i] = el.kids[i].name

LEMMA ParentStands ==
  ASSUME ses \in Sessions, NEW d, TidyDoc(d), NEW G, Kept(G), DocIn(G, d),
         NEW p \in Above(d), NEW el, el = At(d, p)
  PROVE  Stands(G, el, p)
<1>1. el.name \in DOMAIN Types /\ el.kids \in Seq(KidLevel(p)) /\ p \in Paths(d)
  BY ParentIs
<1>2. TypeOf(el) = Types[el.name]
  BY DEF TypeOf
<1>3. NamedIn(KidLevel(p), AllNames)
  BY DEF NamedIn, KidLevel, Mid, Low, Nodes
<1>4. KidNames(el) = NamesOf(el.kids)
  BY KidNamesIs
<1>5. Pair(el) \in G
  BY <1>1, DocInIs
<1>6. <<el.name, KidNames(el)>> \in G
  BY <1>4, <1>5 DEF Pair
<1>7. InForm(Types[el.name], KidNames(el))
  <2>1. <<el.name, KidNames(el)>> \in FormPairs
    BY <1>6 DEF Kept
  <2> QED
    BY <1>1, <2>1, PairsAre
<1>8. /\ Len(KidNames(el)) = Len(el.kids) /\ DOMAIN KidNames(el) = DOMAIN el.kids
      /\ \A i \in DOMAIN el.kids : KidNames(el)[i] = el.kids[i].name
  BY KidNamesAre
<1> QED
  BY <1>1, <1>2, <1>3, <1>4, <1>6, <1>7, <1>8 DEF Stands

(* The children of an element are replaced, by such as were there or new.  *)
LEMMA EditKeepsDoc ==
  ASSUME ses \in Sessions, NEW d, TidyDoc(d), NEW G, Kept(G), DocIn(G, d),
         NEW p \in Above(d), NEW el, el = At(d, p),
         NEW ks, Keeps(TypeOf(el), KidNames(el), NamesOf(ks)),
         \A i \in DOMAIN ks : (\E j \in DOMAIN el.kids : ks[i] = el.kids[j]) \/ Started(ks[i]),
         NEW e, e = WithKids(d, p, ks)
  PROVE  DocIn(G, e) /\ e.name = d.name
<1> DEFINE os == el.kids
<1>1. Stands(G, el, p)
  BY ParentStands
<1>2. <<el.name, NamesOf(ks)>> \in G
  BY <1>1 DEF Stands, Kept
<1>3. os = At(d, p).kids /\ <<At(d, p).name, NamesOf(ks)>> \in G
  BY <1>2
<1>4. \A i \in DOMAIN ks : (\E j \in DOMAIN os : ks[i] = os[j]) \/ AllIn(G, ks[i])
  BY StartedIn
<1> HIDE DEF os
<1> QED
  BY <1>3, <1>4, DocInEdit

LEMMA PutInKeepsDoc ==
  ASSUME ses \in Sessions, NEW d, TidyDoc(d), NEW G, Kept(G), DocIn(G, d),
         NEW p \in Above(d), NEW el, el = At(d, p),
         NEW rest \in Seq(KidLevel(p)), SomeOf(rest, el.kids),
         NEW n \in Names(TypeOf(el)), NEW k \in Nat, k > 1 => Whole(n), NEW row \in 0 .. Len(rest),
         Keeps(TypeOf(el), KidNames(el), Insert(NamesOf(rest), row, Repeat(n, k))),
         NEW e, e = WithKids(d, p, Insert(rest, row, NewOnes(n, k)))
  PROVE  DocIn(G, e) /\ e.name = d.name
<1> DEFINE new == NewOnes(n, k)
           ks  == Insert(rest, row, new)
<1>1. Stands(G, el, p)
  BY ParentStands
<1>2. n \in DOMAIN Types
  BY <1>1, TypesAre DEF Stands
<1>3. new \in Seq(KidLevel(p))
  BY <1>2, NewOnesFit
<1>4. NamesOf(new) = Repeat(n, k) /\ \A i \in DOMAIN new : Started(new[i])
  BY <1>2, NewOnesStarted
<1>5. e = WithKids(d, p, ks)
  OBVIOUS
<1> HIDE DEF new
<1>6. NamedIn(KidLevel(p), AllNames)
  BY <1>1 DEF Stands
<1>7. NamesOf(ks) = Insert(NamesOf(rest), row, Repeat(n, k))
  BY <1>3, <1>4, <1>6, NamesInserted
<1>8. \A i \in DOMAIN ks : (\E j \in DOMAIN rest : ks[i] = rest[j]) \/ (\E j \in DOMAIN new : ks[i] = new[j])
  BY <1>3, InsertedFrom
<1> HIDE DEF ks
<1>9. \A i \in DOMAIN ks : (\E j \in DOMAIN el.kids : ks[i] = el.kids[j]) \/ Started(ks[i])
  BY <1>4, <1>8 DEF SomeOf
<1>10. Keeps(TypeOf(el), KidNames(el), NamesOf(ks))
  BY <1>7
<1> QED
  BY <1>5, <1>9, <1>10, EditKeepsDoc

-----------------------------------------------------------------------------
(* Additions. *)

(* A plain session, its document of pairs that the methods keep.           *)
InPlain(G) == InOrder /\ PlainTypes /\ Kept(G) /\ DocIn(G, doc)

(* What may be put among the children that stay.                           *)
MayPutIn(el, p, rest, n, k, row) ==
  /\ rest \in Seq(KidLevel(p)) /\ SomeOf(rest, el.kids)
  /\ n \in Names(TypeOf(el)) /\ k \in Nat /\ (k > 1 => Whole(n)) /\ row \in 0 .. Len(rest)
  /\ Keeps(TypeOf(el), KidNames(el), Insert(NamesOf(rest), row, Repeat(n, k)))

LEMMA PutInStays ==
  ASSUME NEW G, InPlain(G), NEW p \in Above(doc), NEW rest, NEW n, NEW k, NEW row,
         MayPutIn(At(doc, p), p, rest, n, k, row),
         doc' = WithKids(doc, p, Insert(rest, row, NewOnes(n, k)))
  PROVE  DocIn(G, doc') /\ doc'.name = doc.name
<1> DEFINE el == At(doc, p)
<1>1. /\ rest \in Seq(KidLevel(p)) /\ SomeOf(rest, el.kids)
      /\ n \in Names(TypeOf(el)) /\ k \in Nat /\ (k > 1 => Whole(n)) /\ row \in 0 .. Len(rest)
      /\ Keeps(TypeOf(el), KidNames(el), Insert(NamesOf(rest), row, Repeat(n, k)))
  BY DEF MayPutIn
<1>2. el = At(doc, p) /\ ses \in Sessions /\ TidyDoc(doc) /\ Kept(G) /\ DocIn(G, doc)
  BY DEF InPlain, InOrder
<1> HIDE DEF el
<1>3. ASSUME NEW e, e = WithKids(doc, p, Insert(rest, row, NewOnes(n, k)))
      PROVE  DocIn(G, e) /\ e.name = doc.name
  BY <1>1, <1>2, <1>3, PutInKeepsDoc
<1> QED
  BY <1>3

LEMMA AddNodeKeepsDoc ==
  ASSUME NEW G, InPlain(G), NEW p \in Above(doc), NEW n, NEW by, AddNode(p, n, by)
  PROVE  DocIn(G, doc') /\ doc'.name = doc.name
<1> DEFINE el  == At(doc, p)
           T   == TypeOf(el)
           ks  == KidNames(el)
           k   == Copies(T.desc[DescOf(T, n)])
           row == AddRow(T, ks, n)
           os  == el.kids
<1>1. /\ ses \in Sessions /\ TidyDoc(doc) /\ PlainTypes /\ Kept(G) /\ DocIn(G, doc)
  BY DEF InPlain, InOrder
<1>2. CASE n \notin NamesAt(T, GetAddChild(T, ks))
  BY <1>1, <1>2 DEF AddNode, Refuse
<1>3. CASE n \in NamesAt(T, GetAddChild(T, ks))
  <2>1. doc' = WithKids(doc, p, Insert(os, row, NewOnes(n, k)))
    BY <1>3 DEF AddNode
  <2>2. Stands(G, el, p)
    BY <1>1, ParentStands
  <2>3. /\ el.name \in DOMAIN Types /\ T = Types[el.name] /\ InForm(T, ks)
        /\ os \in Seq(KidLevel(p)) /\ ks = NamesOf(os) /\ Len(ks) = Len(os)
    BY <2>2 DEF Stands
  <2>4. Plain(T) /\ Describes(T) /\ \A x \in Names(T) : Of(T, x).min > 1 => Whole(x)
    BY <1>1, <2>3 DEF PlainTypes
  <2>5. n \in Names(T)
    BY <1>3, OffersAreNames
  <2>6. k = Copies(Of(T, n)) /\ Of(T, n).min \in Nat
    BY <2>4, <2>5 DEF Of, Describes
  <2>7. k \in Nat /\ (k > 1 => Whole(n))
    BY <2>4, <2>5, <2>6 DEF Copies
  <2>8. row \in 0 .. Len(ks)
    <3>1. ks \in Seq(AllNames)
      BY <1>1, KidNamesAre
    <3>2. AddRow(Types[el.name], ks, n) \in 0 .. Len(ks)
      <4> HIDE DEF el, ks
      <4> QED
        BY <1>1, <2>3, <2>5, <3>1, AddRowIs
    <3> QED
      BY <2>3, <3>2
  <2>9. SomeOf(os, os)
    BY DEF SomeOf
  <2>10. row = AddRow(T, ks, n) /\ T = TypeOf(el) /\ ks = KidNames(el) /\ el = At(doc, p) /\ os = el.kids
    OBVIOUS
  <2> HIDE DEF el, T, ks, k, row, os
  <2>11. Keeps(T, ks, Insert(ks, row, Repeat(n, k)))
    BY <1>3, <2>3, <2>4, <2>6, <2>8, <2>10, AddedKeeps
  <2>12. Keeps(TypeOf(el), KidNames(el), Insert(NamesOf(os), row, Repeat(n, k)))
    BY <2>3, <2>10, <2>11
  <2>13. row \in 0 .. Len(os) /\ SomeOf(os, el.kids) /\ n \in Names(TypeOf(el))
    BY <2>3, <2>5, <2>8, <2>9, <2>10
  <2>14. MayPutIn(At(doc, p), p, os, n, k, row)
    BY <2>3, <2>7, <2>10, <2>12, <2>13 DEF MayPutIn
  <2> QED
    BY <2>1, <2>14, PutInStays
<1> QED
  BY <1>2, <1>3

LEMMA InsertNodeKeepsDoc ==
  ASSUME NEW G, InPlain(G), NEW path \in Paths(doc), NEW n, NEW where, NEW by,
         InsertNode(path, n, where, by)
  PROVE  DocIn(G, doc') /\ doc'.name = doc.name
<1> DEFINE p    == Front(path)
           el   == At(doc, p)
           T    == TypeOf(el)
           ks   == KidNames(el)
           i    == Last(path)
           list == IF where = "before" THEN InsBefore(T, ks, i) ELSE InsAfter(T, ks, i)
           row  == IF where = "before" THEN i - 1 ELSE i
           ok   == path # <<>> /\ n \in NamesAt(T, list)
           os   == el.kids
<1>1. /\ ses \in Sessions /\ TidyDoc(doc) /\ PlainTypes /\ Kept(G) /\ DocIn(G, doc)
  BY DEF InPlain, InOrder
<1>2. CASE ~ok
  BY <1>1, <1>2 DEF InsertNode, Refuse
<1>3. CASE ok
  <2>1. doc' = WithKids(doc, p, Insert(os, row, NewOnes(n, 1)))
    BY <1>3 DEF InsertNode
  <2>2. p \in Above(doc) /\ i \in DOMAIN os
    BY <1>1, <1>3, ChildIs
  <2>3. Stands(G, el, p)
    BY <1>1, <2>2, ParentStands
  <2>4. /\ el.name \in DOMAIN Types /\ T = Types[el.name] /\ InForm(T, ks)
        /\ os \in Seq(KidLevel(p)) /\ ks = NamesOf(os) /\ Len(ks) = Len(os) /\ DOMAIN ks = DOMAIN os
    BY <2>3 DEF Stands
  <2>5. Plain(T) /\ Describes(T)
    BY <1>1, <2>4 DEF PlainTypes
  <2>6. n \in Names(T)
    BY <1>3, OffersAreNames
  <2>7. \/ n \in NamesAt(T, InsBefore(T, ks, i)) /\ row = i - 1
        \/ n \in NamesAt(T, InsAfter(T, ks, i)) /\ row = i
    BY <1>3
  <2>8. SomeOf(os, os)
    BY DEF SomeOf
  <2>9. T = TypeOf(el) /\ ks = KidNames(el) /\ el = At(doc, p) /\ os = el.kids
    OBVIOUS
  <2> HIDE DEF el, T, ks, i, p, list, row, os
  <2>10. row \in 0 .. Len(os)
    <3>1. DOMAIN os = 1 .. Len(os) /\ Len(os) \in Nat
      BY <2>4, LenProperties
    <3> QED
      BY <2>2, <2>7, <3>1
  <2>11. Keeps(T, ks, Insert(ks, row, Repeat(n, 1)))
    BY <2>2, <2>4, <2>5, <2>7, BesideKeeps
  <2>12. Keeps(TypeOf(el), KidNames(el), Insert(NamesOf(os), row, Repeat(n, 1)))
    BY <2>4, <2>9, <2>11
  <2>13. SomeOf(os, el.kids) /\ n \in Names(TypeOf(el)) /\ 1 \in Nat /\ ~(1 > 1)
    BY <2>6, <2>8, <2>9
  <2>14. MayPutIn(At(doc, p), p, os, n, 1, row)
    BY <2>4, <2>9, <2>10, <2>12, <2>13 DEF MayPutIn
  <2> QED
    BY <2>1, <2>2, <2>14, PutInStays
<1> QED
  BY <1>2, <1>3

(* Some of the children are gone, in their place stand new ones.           *)
LEMMA RestIs ==
  ASSUME NEW G, InPlain(G), NEW p \in Above(doc), NEW el, el = At(doc, p), NEW os, os = el.kids,
         NEW a \in 1 .. Len(os), NEW b \in a .. Len(os), NEW rest, rest = Without(os, a .. b)
  PROVE  /\ rest \in Seq(KidLevel(p)) /\ SomeOf(rest, os) /\ Len(rest) = Len(os) - (b - a + 1)
         /\ NamesOf(rest) = Without(KidNames(el), a .. b)
<1>1. Stands(G, el, p)
  BY ParentStands DEF InPlain, InOrder
<1>2. os \in Seq(KidLevel(p)) /\ NamedIn(KidLevel(p), AllNames) /\ KidNames(el) = NamesOf(os)
  BY <1>1 DEF Stands
<1> DEFINE m == b - a + 1
<1>3. rest \in Seq(KidLevel(p)) /\ TakesOut(rest, os, a, m)
  BY <1>2, WithoutIs
<1>4. \A i \in DOMAIN rest : \E j \in DOMAIN os : rest[i] = os[j]
  BY <1>2, LeftFrom
<1>5. NamesOf(rest) = Without(NamesOf(os), a .. b)
  BY <1>2, NamesTakenOut
<1> QED
  BY <1>2, <1>3, <1>4, <1>5 DEF SomeOf, TakesOut

-----------------------------------------------------------------------------
(* Removals. *)

(* Some of the children stay.                                              *)
LEMMA FewerStay ==
  ASSUME NEW G, InPlain(G), NEW p \in Above(doc), NEW el, el = At(doc, p),
         NEW ks, SomeOf(ks, el.kids), Keeps(TypeOf(el), KidNames(el), NamesOf(ks)),
         doc' = WithKids(doc, p, ks)
  PROVE  DocIn(G, doc') /\ doc'.name = doc.name
<1>1. ses \in Sessions /\ TidyDoc(doc) /\ Kept(G) /\ DocIn(G, doc)
  BY DEF InPlain, InOrder
<1>2. \A i \in DOMAIN ks : (\E j \in DOMAIN el.kids : ks[i] = el.kids[j]) \/ Started(ks[i])
  BY DEF SomeOf
<1>3. ASSUME NEW e, e = WithKids(doc, p, ks)
      PROVE  DocIn(G, e) /\ e.name = doc.name
  BY <1>1, <1>2, <1>3, EditKeepsDoc
<1> QED
  BY <1>3

(* An element is a record.                                                 *)
LEMMA ParentIsRecord ==
  ASSUME ses \in Sessions, NEW d, TidyDoc(d), NEW p \in Above(d), NEW el, el = At(d, p)
  PROVE  el = [name |-> el.name, id |-> el.id, att |-> el.att, kids |-> el.kids]
<1>1. d \in Root
  BY DEF TidyDoc
<1>2. el \in Root \/ el \in Mid
  <2>1. CASE p = <<>>
    BY <1>1, <2>1, PathsAre
  <2>2. CASE p # <<>>
    <3>1. PICK i \in DOMAIN d.kids : p = <<i>>
      BY <2>2, AboveIs
    <3> QED
      BY <1>1, <3>1, PathsAre, KidsAre
  <2> QED
    BY <2>1, <2>2
<1> QED
  BY <1>2 DEF Root, Mid, Nodes

(* Without comments a row of the view is one of the document.              *)
LEMMA ProxyRowIs ==
  ASSUME NEW S, NEW kids \in Seq(S), \A j \in DOMAIN kids : kids[j].name # Comment,
         NEW i \in DOMAIN kids
  PROVE  ProxyRow(kids, i) + 1 = i
<1>1. DOMAIN kids = 1 .. Len(kids) /\ Len(kids) \in Nat
  BY LenProperties
<1>2. i \in Nat /\ i - 1 \in Int /\ 1 <= i
  BY <1>1
<1>3. {j \in 1 .. i - 1 : kids[j].name # Comment} = 1 .. i - 1
  BY <1>1
<1>4. Cardinality(1 .. i - 1) = i - 1
  <2>1. ASSUME NEW a \in Int, NEW b \in Int
        PROVE  Cardinality(a .. b) = IF a > b THEN 0 ELSE b - a + 1
    BY FS_Interval
  <2> DEFINE b == i - 1
  <2>2. b \in Int /\ 1 \in Int /\ b - 1 + 1 = b /\ (1 > b => b = 0)
    BY <1>2
  <2> HIDE DEF b
  <2>3. Cardinality(1 .. b) = b
    BY <2>1, <2>2
  <2> QED
    BY <2>3 DEF b
<1>5. ProxyRow(kids, i) = i - 1
  BY <1>3, <1>4 DEF ProxyRow
<1> QED
  BY <1>2, <1>5

(* What deleteNode removes of an element that has no comments.             *)
LEMMA DeletedRowsAt ==
  ASSUME NEW G, InPlain(G), NEW p \in Above(doc), NEW el, el = At(doc, p),
         NEW i \in DOMAIN el.kids, DeletedRows(el, i) # {},
         NEW T, T = TypeOf(el), NEW ks, ks = KidNames(el), NEW r, r = IsDeleted(T, ks, ks[i])
  PROVE  \/ r = 1 /\ DeletedRows(el, i) = i .. i
         \/ r > 1 /\ DeletedRows(el, i) = 1 .. r
<1>1. Stands(G, el, p)
  BY ParentStands DEF InPlain, InOrder
<1>2. /\ InForm(T, ks) /\ el.kids \in Seq(KidLevel(p)) /\ DOMAIN ks = DOMAIN el.kids
      /\ \A j \in DOMAIN el.kids : ks[j] = el.kids[j].name
      /\ el.name \in DOMAIN Types /\ T = Types[el.name]
  BY <1>1 DEF Stands
<1>3. Comment \notin Names(T)
  BY <1>2 DEF InPlain, PlainTypes, Describes
<1>4. \A j \in DOMAIN el.kids : el.kids[j].name # Comment
  <2> SUFFICES ASSUME NEW j \in DOMAIN el.kids PROVE el.kids[j].name # Comment
    OBVIOUS
  <2>1. ks[j] \in Names(T)
    BY <1>2, LenProperties, ElementOfSeq DEF InForm
  <2> QED
    BY <1>2, <1>3, <2>1
<1>5. ProxyRow(el.kids, i) + 1 = i
  BY <1>2, <1>4, ProxyRowIs
<1>6. DeletedRows(el, i) = IF r = 1 THEN {i} ELSE IF r > 1 THEN 1 .. r ELSE {}
  BY <1>2, <1>5 DEF DeletedRows
<1>7. i .. i = {i}
  BY <1>2, LenProperties
<1> QED
  BY <1>6, <1>7

LEMMA DeleteNodeKeepsDoc ==
  ASSUME NEW G, InPlain(G), NEW path \in Paths(doc), NEW by, DeleteNode(path, by)
  PROVE  DocIn(G, doc') /\ doc'.name = doc.name
<1> DEFINE p    == Front(path)
           el   == At(doc, p)
           T    == TypeOf(el)
           ks   == KidNames(el)
           i    == Last(path)
           r    == IsDeleted(T, ks, ks[i])
           rows == DeletedRows(el, i)
           os   == el.kids
           rest == Without(os, rows)
<1>1. /\ ses \in Sessions /\ TidyDoc(doc) /\ PlainTypes /\ Kept(G) /\ DocIn(G, doc)
  BY DEF InPlain, InOrder
<1>2. path # <<>> /\ rows # {} /\ doc' = WithKids(doc, p, rest)
  BY DEF DeleteNode
<1>3. p \in Above(doc) /\ i \in DOMAIN os
  BY <1>1, <1>2, ChildIs
<1>4. Stands(G, el, p)
  BY <1>1, <1>3, ParentStands
<1>5. /\ el.name \in DOMAIN Types /\ T = Types[el.name] /\ InForm(T, ks)
      /\ os \in Seq(KidLevel(p)) /\ Len(ks) = Len(os) /\ DOMAIN ks = DOMAIN os
  BY <1>4 DEF Stands
<1>6. Plain(T) /\ Describes(T)
  BY <1>1, <1>5 DEF PlainTypes
<1>7. (r = 1 /\ rows = i .. i) \/ (r > 1 /\ rows = 1 .. r)
  BY <1>2, <1>3, DeletedRowsAt
<1>8. T = TypeOf(el) /\ ks = KidNames(el) /\ el = At(doc, p) /\ os = el.kids /\ r = IsDeleted(T, ks, ks[i])
      /\ rest = Without(os, rows)
  OBVIOUS
<1>9. DOMAIN os = 1 .. Len(os) /\ Len(os) \in Nat
  BY <1>5, LenProperties
<1> HIDE DEF el, T, ks, i, p, r, rows, os, rest
<1>10. PICK a \in 1 .. Len(os), b \in 1 .. Len(os) :
         b \in a .. Len(os) /\ rows = a .. b /\ Keeps(T, ks, Without(ks, a .. b))
  <2>1. CASE r = 1 /\ rows = i .. i
    <3>1. ASSUME NEW s, s = Without(ks, i .. i)
          PROVE  Keeps(T, ks, s)
      BY <1>3, <1>5, <1>6, <1>8, <2>1, <3>1, OneGoesKeeps
    <3>2. Keeps(T, ks, Without(ks, i .. i))
      BY <3>1
    <3>3. i \in 1 .. Len(os) /\ i \in i .. Len(os)
      BY <1>3, <1>9
    <3> QED
      BY <2>1, <3>2, <3>3
  <2>2. CASE r > 1 /\ rows = 1 .. r
    <3>1. ASSUME NEW s, s = Without(ks, 1 .. r)
          PROVE  Keeps(T, ks, s) /\ r = Len(ks)
      BY <1>3, <1>5, <1>6, <1>8, <2>2, <3>1, AllGoKeeps
    <3>2. Keeps(T, ks, Without(ks, 1 .. r)) /\ r = Len(os)
      BY <1>5, <3>1
    <3>3. 1 \in 1 .. Len(os) /\ r \in 1 .. Len(os) /\ r \in 1 .. Len(os)
      BY <1>3, <1>9, <3>2
    <3> QED
      BY <2>2, <3>2, <3>3
  <2> QED
    BY <1>7, <2>1, <2>2
<1>11. rest = Without(os, a .. b)
  BY <1>8, <1>10
<1>12. SomeOf(rest, os) /\ NamesOf(rest) = Without(ks, a .. b)
  BY <1>3, <1>8, <1>10, <1>11, RestIs
<1>13. SomeOf(rest, el.kids) /\ Keeps(TypeOf(el), KidNames(el), NamesOf(rest))
  BY <1>8, <1>10, <1>12
<1> QED
  BY <1>2, <1>3, <1>8, <1>13, FewerStay

LEMMA ClearNodeKeepsDoc ==
  ASSUME NEW G, InPlain(G), NEW p \in Above(doc), NEW by, ClearNode(p, by)
  PROVE  DocIn(G, doc') /\ doc'.name = doc.name
<1> DEFINE el == At(doc, p)
           T  == TypeOf(el)
           os == el.kids
           ks == Cleared(el)
<1>1. /\ ses \in Sessions /\ TidyDoc(doc) /\ PlainTypes /\ Kept(G) /\ DocIn(G, doc)
  BY DEF InPlain, InOrder
<1>2. doc' = WithKids(doc, p, ks)
  BY DEF ClearNode
<1>3. Stands(G, el, p)
  BY <1>1, ParentStands
<1>4. /\ el.name \in DOMAIN Types /\ T = Types[el.name] /\ InForm(T, KidNames(el))
      /\ os \in Seq(KidLevel(p)) /\ NamedIn(KidLevel(p), AllNames) /\ KidNames(el) = NamesOf(os)
  BY <1>3 DEF Stands
<1>5. Plain(T) /\ Describes(T)
  BY <1>1, <1>4 DEF PlainTypes
<1>6. Thinned(ks, os)
  BY <1>4, ClearedIs
<1>7. el = At(doc, p)
  OBVIOUS
<1>8. Least(T, KidNames(el), NamesOf(ks))
  <2>1. el = [name |-> el.name, id |-> el.id, att |-> el.att, kids |-> el.kids]
    BY <1>1, ParentIsRecord
  <2>2. el.kids \in Seq(KidLevel(p)) /\ InForm(T, NamesOf(el.kids)) /\ T = TypeOf(el)
    BY <1>4
  <2> HIDE DEF el, T
  <2>3. Least(T, NamesOf(el.kids), NamesOf(Cleared(el)))
    BY <1>4, <1>5, <2>1, <2>2, ClearedNames
  <2> QED
    BY <1>4, <2>3
<1> HIDE DEF el, ks
<1>9. SomeOf(ks, el.kids)
  BY <1>6 DEF Thinned, SomeOf
<1>10. Keeps(TypeOf(el), KidNames(el), NamesOf(ks))
  BY <1>8 DEF Least, Keeps
<1> QED
  BY <1>2, <1>7, <1>9, <1>10, FewerStay

LEMMA AttributeKeepsDoc ==
  ASSUME NEW G, InPlain(G), NEW path \in Paths(doc), NEW v \in 0 .. 2, doc' = WithAtt(doc, path, v)
  PROVE  DocIn(G, doc') /\ doc'.name = doc.name
<1>1. ses \in Sessions /\ TidyDoc(doc) /\ DocIn(G, doc)
  BY DEF InPlain, InOrder
<1>2. Same(doc, doc')
  BY <1>1, AttEdit
<1> QED
  BY <1>1, <1>2, DocInSame

-----------------------------------------------------------------------------
(* Replacements; the edits. *)

(* replaceNode, of what its list offers; in a sequence it refuses.         *)
LEMMA ReplaceNodeKeepsDoc ==
  ASSUME NEW G, InPlain(G), NEW path \in Paths(doc), NEW n, NEW by, ReplaceNode(path, n, by),
         NEW el, el = At(doc, Front(path)), NEW T, T = TypeOf(el), NEW ks, ks = KidNames(el),
         T.ratio = "sequence" \/ (path # <<>> /\ n \in Replace(T, ks, At(doc, path).name))
  PROVE  DocIn(G, doc') /\ doc'.name = doc.name
<1> DEFINE p    == Front(path)
           i    == Last(path)
           old  == At(doc, path).name
           rows == ReplacedRows(el, i)
           row  == IF T.ratio = "choice" THEN 0 ELSE i - 1
           k    == IF n \in Names(T) THEN Copies(T.desc[DescOf(T, n)]) ELSE 1
           os   == el.kids
           rest == Without(os, rows)
           mayGo == path # <<>> /\ T.ratio # "sequence"
<1>1. /\ ses \in Sessions /\ TidyDoc(doc) /\ PlainTypes /\ Kept(G) /\ DocIn(G, doc)
  BY DEF InPlain, InOrder
<1>2. \/ doc' = doc
      \/ mayGo /\ doc' = WithKids(doc, p, Insert(rest, row, NewOnes(n, k)))
  BY DEF ReplaceNode, Refuse
<1>3. CASE mayGo /\ doc' = WithKids(doc, p, Insert(rest, row, NewOnes(n, k)))
  <2>1. n \in Replace(T, ks, old) /\ T.ratio # "sequence"
    BY <1>3
  <2>2. p \in Above(doc) /\ i \in DOMAIN os /\ At(doc, path) = os[i]
    BY <1>1, <1>3, ChildIs
  <2>3. Stands(G, el, p)
    BY <1>1, <2>2, ParentStands
  <2>4. /\ el.name \in DOMAIN Types /\ T = Types[el.name] /\ InForm(T, ks)
        /\ os \in Seq(KidLevel(p)) /\ Len(ks) = Len(os) /\ DOMAIN ks = DOMAIN os
        /\ ks = NamesOf(os) /\ \A j \in DOMAIN os : ks[j] = os[j].name
    BY <2>3 DEF Stands
  <2>5. Plain(T) /\ Describes(T) /\ \A x \in Names(T) : Of(T, x).min > 1 => Whole(x)
    BY <1>1, <2>4 DEF PlainTypes
  <2>6. old = ks[i]
    BY <2>2, <2>4
  <2>7. n \in Names(T)
    BY <2>1, OffersAreNames
  <2>8. k = Copies(Of(T, n)) /\ Of(T, n).min \in Nat
    BY <2>5, <2>7 DEF Of, Describes
  <2>9. k \in Nat /\ (k > 1 => Whole(n))
    BY <2>5, <2>7, <2>8 DEF Copies
  <2>10. rows = IF T.ratio = "choice" THEN 1 .. Count(ks, ks[i]) ELSE {i}
    BY <2>2, <2>6 DEF ReplacedRows
  <2>11. DOMAIN os = 1 .. Len(os) /\ Len(os) \in Nat
    BY <2>4, LenProperties
  <2>12. row = IF T.ratio = "choice" THEN 0 ELSE i - 1
    OBVIOUS
  <2>13. rest = Without(os, rows) /\ os = el.kids
    OBVIOUS
  <2> HIDE DEF p, i, old, rows, row, k, os, rest
  <2>14. PICK a \in 1 .. Len(os), b \in 1 .. Len(os) :
           /\ b \in a .. Len(os) /\ rows = a .. b /\ row \in 0 .. Len(os) - (b - a + 1)
           /\ Keeps(T, ks, Insert(Without(ks, a .. b), row, Repeat(n, k)))
    <3>1. CASE T.ratio = "choice"
      <4> DEFINE c == Count(ks, ks[i])
      <4>1. c = Len(os) /\ c \in Nat \ {0}
        BY <2>2, <2>4, <2>5, <3>1, OneAlternative
      <4>2. ASSUME NEW s, s = Insert(Without(ks, 1 .. c), 0, Repeat(n, k))
            PROVE  Keeps(T, ks, s)
        BY <2>2, <2>4, <2>5, <2>7, <2>8, <3>1, <4>2, AlternativeKeeps
      <4>3. rows = 1 .. c /\ row = 0
        BY <2>10, <2>12, <3>1
      <4> HIDE DEF c
      <4>4. Keeps(T, ks, Insert(Without(ks, 1 .. c), row, Repeat(n, k)))
        BY <4>2, <4>3
      <4>5. 1 \in 1 .. Len(os) /\ c \in 1 .. Len(os) /\ row \in 0 .. Len(os) - (c - 1 + 1)
        BY <2>11, <4>1, <4>3
      <4> QED
        BY <4>3, <4>4, <4>5
    <3>2. CASE T.ratio # "choice"
      <4>1. T.ratio = "all"
        BY <2>1, <2>5, <3>2 DEF Describes
      <4>2. ASSUME NEW s, s = Insert(Without(ks, i .. i), i - 1, Repeat(n, k))
            PROVE  Keeps(T, ks, s)
        BY <2>1, <2>2, <2>4, <2>5, <2>6, <2>8, <4>1, <4>2, OtherChildKeeps
      <4>3. rows = i .. i /\ row = i - 1
        BY <2>2, <2>10, <2>11, <2>12, <3>2
      <4>4. Keeps(T, ks, Insert(Without(ks, i .. i), row, Repeat(n, k)))
        BY <4>2, <4>3
      <4>5. i \in 1 .. Len(os) /\ i \in i .. Len(os) /\ row \in 0 .. Len(os) - (i - i + 1)
        BY <2>2, <2>11, <4>3
      <4> QED
        BY <4>3, <4>4, <4>5
    <3> QED
      BY <3>1, <3>2
  <2>15. rest = Without(os, a .. b)
    BY <2>13, <2>14
  <2>16. /\ rest \in Seq(KidLevel(p)) /\ SomeOf(rest, os) /\ Len(rest) = Len(os) - (b - a + 1)
         /\ NamesOf(rest) = Without(ks, a .. b)
    <3>1. el = At(doc, p)
      BY DEF p
    <3> QED
      BY <2>2, <2>13, <2>14, <2>15, <3>1, RestIs
  <2>17. Keeps(TypeOf(el), KidNames(el), Insert(NamesOf(rest), row, Repeat(n, k)))
    BY <2>14, <2>16
  <2>18. row \in 0 .. Len(rest) /\ SomeOf(rest, el.kids) /\ n \in Names(TypeOf(el))
    BY <2>7, <2>13, <2>14, <2>16
  <2>19. MayPutIn(el, p, rest, n, k, row)
    BY <2>9, <2>16, <2>17, <2>18 DEF MayPutIn
  <2>20. MayPutIn(At(doc, p), p, rest, n, k, row)
    BY <2>19 DEF p
  <2> QED
    BY <1>3, <2>2, <2>20, PutInStays
<1> QED
  BY <1>1, <1>2, <1>3

(* While the program rests during a menu, the menu is what it was when it  *)
(* was opened.                                                             *)
MenuIsFresh == MenuIsModal /\ menu # NoMenu => menu = Offer(cur)

LEMMA UserEditKeepsDoc ==
  ASSUME NEW G, InPlain(G), MenuIsFresh, UserEdit
  PROVE  DocIn(G, doc') /\ doc'.name = doc.name
<1> DEFINE up == At(doc, Front(cur))
           T  == TypeOf(up)
           ks == KidNames(up)
<1>1. cur \in Paths(doc) /\ (cur \in Parents(doc) => cur \in Above(doc)) /\ menu # NoMenu
  BY ParentsAreAbove DEF InPlain, InOrder, UserEdit
<1>2. ASSUME NEW n, cur \in Parents(doc), AddNode(cur, n, "user")
      PROVE  DocIn(G, doc') /\ doc'.name = doc.name
  BY <1>1, <1>2, AddNodeKeepsDoc
<1>3. ASSUME NEW n, NEW where, InsertNode(cur, n, where, "user")
      PROVE  DocIn(G, doc') /\ doc'.name = doc.name
  BY <1>1, <1>3, InsertNodeKeepsDoc
<1>4. ASSUME NEW n \in menu.replace, ReplaceNode(cur, n, "user")
      PROVE  DocIn(G, doc') /\ doc'.name = doc.name
  <2>1. CASE cur = <<>>
    BY <1>4, <2>1 DEF ReplaceNode, Refuse, InPlain
  <2>2. CASE cur # <<>>
    <3>1. Front(cur) \in Above(doc)
      BY <1>1, <2>2, ChildIs DEF InPlain, InOrder
    <3>2. up.name \in DOMAIN Types /\ T = Types[up.name]
      BY <3>1, ParentIs DEF InPlain, InOrder, TypeOf
    <3>3. MenuIsModal \/ T.ratio = "sequence"
      BY <3>2 DEF InPlain, PlainTypes
    <3>4. MenuIsModal => menu.replace = Replace(T, ks, At(doc, cur).name)
      BY <1>1, <2>2 DEF MenuIsFresh, Offer
    <3>5. T.ratio = "sequence" \/ (cur # <<>> /\ n \in Replace(T, ks, At(doc, cur).name))
      BY <1>4, <2>2, <3>3, <3>4
    <3> HIDE DEF up
    <3> QED
      BY <1>1, <1>4, <3>5, ReplaceNodeKeepsDoc DEF up
  <2> QED
    BY <2>1, <2>2
<1>5. ASSUME DeleteNode(cur, "user")
      PROVE  DocIn(G, doc') /\ doc'.name = doc.name
  BY <1>1, <1>5, DeleteNodeKeepsDoc
<1>6. ASSUME cur \in Parents(doc), ClearNode(cur, "user")
      PROVE  DocIn(G, doc') /\ doc'.name = doc.name
  BY <1>1, <1>6, ClearNodeKeepsDoc
<1>7. ASSUME AddAttribute(cur, 1, "user") \/ DeleteAttribute(cur, "user")
      PROVE  DocIn(G, doc') /\ doc'.name = doc.name
  BY <1>1, <1>7, AttributeKeepsDoc DEF AddAttribute, DeleteAttribute, SetAttribute
<1> QED
  BY <1>2, <1>3, <1>4, <1>5, <1>6, <1>7 DEF UserEdit

LEMMA ProgramEditKeepsDoc ==
  ASSUME NEW G, InPlain(G), ProgramEdit
  PROVE  DocIn(G, doc') /\ doc'.name = doc.name
<1>1. ASSUME NEW p \in Parents(doc), NEW n, AddNode(p, n, "program")
      PROVE  DocIn(G, doc') /\ doc'.name = doc.name
  BY <1>1, ParentsAreAbove, AddNodeKeepsDoc
<1>2. ASSUME NEW p \in Paths(doc), NEW n \in Offer(p).replace, ReplaceNode(p, n, "program")
      PROVE  DocIn(G, doc') /\ doc'.name = doc.name
  <2> DEFINE up == At(doc, Front(p))
             T  == TypeOf(up)
             ks == KidNames(up)
  <2>1. p # <<>> /\ n \in Replace(T, ks, At(doc, p).name)
    BY <1>2 DEF Offer
  <2> HIDE DEF up
  <2> QED
    BY <1>2, <2>1, ReplaceNodeKeepsDoc DEF up
<1>3. ASSUME NEW p \in Paths(doc), DeleteNode(p, "program")
      PROVE  DocIn(G, doc') /\ doc'.name = doc.name
  BY <1>3, DeleteNodeKeepsDoc
<1>4. ASSUME NEW p \in Parents(doc), ClearNode(p, "program")
      PROVE  DocIn(G, doc') /\ doc'.name = doc.name
  BY <1>4, ParentsAreAbove, ClearNodeKeepsDoc
<1>5. ASSUME NEW p \in Paths(doc), AddAttribute(p, 2, "program")
      PROVE  DocIn(G, doc') /\ doc'.name = doc.name
  BY <1>5, AttributeKeepsDoc DEF AddAttribute, SetAttribute
<1> QED
  BY <1>1, <1>2, <1>3, <1>4, <1>5 DEF ProgramEdit

-----------------------------------------------------------------------------
(* The invariant of a plain session. *)

(* The invariant of a plain session: all names are in form, in the files   *)
(* too, and the menu of a modal one is fresh.                              *)
FormInv ==
  /\ DocIn(FormPairs, doc)
  /\ \A f \in File : disk[f] # NoDoc => DocIn(FormPairs, disk[f])
  /\ MenuIsFresh

LEMMA NothingInForm ==
  ASSUME ses \in Sessions, PlainTypes, NEW m \in DOMAIN Types, NEW s, s = <<>>
  PROVE  NamesOf(s) = <<>> /\ <<m, NamesOf(s)>> \in FormPairs
<1>1. <<>> \in Seq(Names(Types[m])) /\ DOMAIN <<>> = {}
  OBVIOUS
<1>2. NamesOf(s) = <<>>
  BY <1>1 DEF NamesOf
<1>3. InForm(Types[m], <<>>)
  BY <1>1 DEF InForm, OneName
<1> QED
  BY <1>2, <1>3, PairsAre

LEMMA DefaultIsInForm ==
  ASSUME ses \in Sessions, PlainTypes
  PROVE  DocIn(FormPairs, DefaultDoc)
<1> DEFINE d == DefaultDoc
<1>1. d.name = RootName /\ d.kids = <<>> /\ DOMAIN <<>> = {}
  BY DEF DefaultDoc
<1>2. RootName \in DOMAIN Types
  BY DeditorAssumption DEF RootName, Types
<1> HIDE DEF d
<1>3. Pair(d) \in FormPairs
  BY <1>1, <1>2, NothingInForm DEF Pair
<1>4. DOMAIN d.kids = {}
  BY <1>1
<1>5. DocIn(FormPairs, d)
  BY <1>3, <1>4 DEF DocIn
<1> QED
  BY <1>5 DEF d

(* An element whose children are declared and regular.                     *)
LEMMA RegularIsInForm ==
  ASSUME ses \in Sessions, NEW S, NEW e, e.kids \in Seq(S), NamedIn(S, AllNames),
         e.name \in DOMAIN Types, Declared(Types, e), Regular(Types, e)
  PROVE  Pair(e) \in FormPairs
<1> DEFINE T == Types[e.name]
           os == e.kids
           ks == NamesOf(os)
<1>1. Comment \notin DOMAIN Types
  BY TypesAre
<1>2. \A i \in DOMAIN os : os[i].name \in Names(T)
  BY <1>1 DEF Declared, Regular
<1>3. /\ ks \in Seq(Names(T)) /\ DOMAIN ks = DOMAIN os
      /\ \A i \in DOMAIN os : ks[i] = os[i].name
  <2> HIDE DEF os, T
  <2>1. os \in Seq(S)
    BY DEF os
  <2> QED
    BY <1>2, <2>1, NamesOfIs
<1>4. T.ratio = "choice" => \A x, y \in DOMAIN os : os[x].name = os[y].name
  BY DEF Regular
<1> HIDE DEF os, ks
<1>5. OneName(T, ks)
  BY <1>3, <1>4 DEF OneName
<1>6. <<e.name, ks>> \in FormPairs
  BY <1>3, <1>5, PairsAre DEF InForm
<1> QED
  BY <1>6 DEF Pair, ks, os

LEMMA OpenedIsInForm ==
  ASSUME PlainSessions, ses \in Sessions, PlainTypes, NEW d \in InitDocs
  PROVE  DocIn(FormPairs, d)
<1>1. Opened(Types, d)
  BY DeditorAssumption DEF InitDocs, Types
<1>2. /\ Regular(Types, d)
      /\ \A i \in DOMAIN d.kids : Regular(Types, d.kids[i])
  BY DEF PlainSessions, InitDocs, Types
<1> DEFINE low  == Nodes(AllNames, AnyId, {})
           mid  == Nodes(AllNames, AnyId, low)
<1>3. d \in Nodes(DOMAIN Types, AnyId, mid)
  BY <1>1 DEF Opened, Documents, AllNames, AnyId
<1>4. d.name \in DOMAIN Types /\ d.kids \in Seq(mid) /\ NamedIn(mid, AllNames) /\ NamedIn(low, AllNames)
  BY <1>3 DEF Nodes, NamedIn
<1>5. Pair(d) \in FormPairs
  <2>1. Declared(Types, d)
    BY <1>1 DEF Opened
  <2> HIDE DEF mid
  <2> QED
    BY <1>2, <1>4, <2>1, RegularIsInForm
<1>6. ASSUME NEW i \in DOMAIN d.kids
      PROVE  AllIn(FormPairs, d.kids[i])
  <2> DEFINE e == d.kids[i]
  <2>1. e \in mid
    <3> HIDE DEF mid
    <3> QED
      BY <1>4, LenProperties, ElementOfSeq
  <2>2. e.name \in AllNames /\ e.kids \in Seq(low)
    BY <2>1 DEF Nodes
  <2>3. Declared(Types, e) /\ Regular(Types, e)
    BY <1>1, <1>2 DEF Opened
  <2> HIDE DEF e
  <2>4. OneIn(FormPairs, e)
    <3> SUFFICES ASSUME e.name # Comment PROVE Pair(e) \in FormPairs
      BY DEF OneIn
    <3>1. e.name \in DOMAIN Types
      BY <2>2 DEF AllNames
    <3> HIDE DEF low
    <3> QED
      BY <1>4, <2>2, <2>3, <3>1, RegularIsInForm
  <2>5. ASSUME NEW j \in DOMAIN e.kids
        PROVE  OneIn(FormPairs, e.kids[j])
    <3> DEFINE x == e.kids[j]
    <3>1. x \in low
      <4> HIDE DEF low
      <4> QED
        BY <2>2, LenProperties, ElementOfSeq
    <3>2. x.name \in AllNames /\ x.kids \in Seq({})
      BY <3>1 DEF Nodes
    <3> HIDE DEF x
    <3>3. x.kids = <<>>
      BY <3>2
    <3>4. OneIn(FormPairs, x)
      BY <3>2, <3>3, NothingInForm DEF OneIn, Pair, AllNames
    <3> QED
      BY <3>4 DEF x
  <2>6. AllIn(FormPairs, e)
    BY <2>4, <2>5 DEF AllIn
  <2> QED
    BY <2>6 DEF e
<1> QED
  BY <1>5, <1>6 DEF DocIn

(* The names of a schema are the same while the session is.                *)
LEMMA FormStays ==
  ASSUME ses' = ses, DocIn(FormPairs, doc'),
         \A f \in File : disk'[f] # NoDoc => DocIn(FormPairs, disk'[f]), MenuIsFresh'
  PROVE  FormInv'
<1>1. FormPairs' = FormPairs
  BY DEF FormPairs, Types
<1>2. (DocIn(FormPairs, doc))'
  BY <1>1 DEF DocIn, AllIn, OneIn, Pair, NamesOf
<1>3. (\A f \in File : disk[f] # NoDoc => DocIn(FormPairs, disk[f]))'
  BY <1>1 DEF DocIn, AllIn, OneIn, Pair, NamesOf
<1> QED
  BY <1>2, <1>3 DEF FormInv

(* What every step does to the document.                                   *)
InPlainSession == SessionInv /\ FormInv /\ PlainTypes

LEMMA FormInit ==
  ASSUME PlainSessions, EditInit
  PROVE  FormInv
<1>1. ses \in Sessions /\ PlainTypes /\ menu = NoMenu
  BY TypesArePlain DEF EditInit
<1>2. DocIn(FormPairs, doc)
  BY <1>1, DefaultIsInForm, OpenedIsInForm DEF EditInit
<1>3. \A f \in File : disk[f] # NoDoc => disk[f] = doc
  BY DEF EditInit
<1> QED
  BY <1>1, <1>2, <1>3 DEF FormInv, MenuIsFresh

(* An edit.                                                                *)
EditOf ==
  \/ UserEdit
  \/ ProgramEdit
  \/ \E v \in {1, 2} : EditAttribute(v)

LEMMA EditsKeepDoc ==
  ASSUME InPlainSession, NEW G, Kept(G), DocIn(G, doc), EditOf
  PROVE  DocIn(G, doc') /\ doc'.name = doc.name
<1>1. InPlain(G) /\ MenuIsFresh
  BY DEF InPlainSession, SessionInv, FormInv, InPlain
<1>2. ASSUME NEW v \in {1, 2}, EditAttribute(v)
      PROVE  DocIn(G, doc') /\ doc'.name = doc.name
  <2>1. cur \in Paths(doc) /\ v \in 0 .. 2 /\ doc' = WithAtt(doc, cur, v)
    BY <1>1, <1>2 DEF InPlain, InOrder, EditAttribute
  <2> QED
    BY <1>1, <2>1, AttributeKeepsDoc
<1> QED
  BY <1>1, <1>2, UserEditKeepsDoc, ProgramEditKeepsDoc DEF EditOf

LEMMA FormNext ==
  ASSUME InPlainSession, EditNext
  PROVE  FormInv'
<1>1. ses \in Sessions /\ Kept(FormPairs) /\ DocIn(FormPairs, doc) /\ FilesAreTidy
  BY FormsAreKept DEF InPlainSession, SessionInv, InOrder, FormInv
<1>2. \A f \in File : disk[f] # NoDoc => DocIn(FormPairs, disk[f])
  BY DEF InPlainSession, FormInv
<1>3. CASE EditOf
  <2>1. DocIn(FormPairs, doc')
    BY <1>1, <1>3, EditsKeepDoc
  <2>2. ses' = ses /\ disk' = disk /\ (menu' = NoMenu \/ ~MenuIsModal)
    BY <1>3 DEF EditOf, UserEdit, ProgramEdit, EditAttribute
  <2>3. MenuIsFresh'
    BY <2>2 DEF MenuIsFresh, MenuIsModal
  <2> QED
    BY <1>2, <2>1, <2>2, <2>3, FormStays
<1>4. CASE OpenMenu
  <2>1. UNCHANGED <<ses, doc, cur, disk>> /\ menu' = Offer(cur)
    BY <1>4 DEF OpenMenu
  <2>2. Offer(cur)' = Offer(cur)
    BY <2>1 DEF Offer, TypeOf, Types
  <2>3. MenuIsFresh'
    BY <2>1, <2>2 DEF MenuIsFresh
  <2> QED
    BY <1>1, <1>2, <2>1, <2>3, FormStays
<1>5. CASE CloseMenu \/ \E path \in Paths(doc) : Select(path)
  <2>1. UNCHANGED <<ses, doc, disk>> /\ menu' = NoMenu
    BY <1>5 DEF CloseMenu, Select
  <2>2. MenuIsFresh'
    BY <2>1 DEF MenuIsFresh
  <2> QED
    BY <1>1, <1>2, <2>1, <2>2, FormStays
<1>6. ASSUME NEW g \in File, UNCHANGED <<ses, doc>>, menu' = NoMenu, disk' = [disk EXCEPT ![g] = doc]
      PROVE  FormInv'
  <2>1. \A f \in File : disk'[f] = IF f = g THEN doc ELSE disk[f]
    BY <1>1, <1>6 DEF FilesAreTidy
  <2>2. MenuIsFresh'
    BY <1>6 DEF MenuIsFresh
  <2> QED
    BY <1>1, <1>2, <1>6, <2>1, <2>2, FormStays
<1>7. CASE SaveCurDom
  <2>1. xmlName \in File
    BY <1>1, <1>7 DEF FilesAreTidy, SaveCurDom
  <2> QED
    BY <1>6, <1>7, <2>1 DEF SaveCurDom
<1>8. CASE \E f \in File : SaveDomAs(f)
  BY <1>6, <1>8 DEF SaveDomAs
<1>9. ASSUME NEW g \in File, SetDocument(g)
      PROVE  FormInv'
  <2> DEFINE d == IF ValidDoc(disk[g]) THEN disk[g] ELSE DefaultDoc
  <2>1. /\ UNCHANGED <<ses, menu>> /\ menu = NoMenu /\ disk[g] # NoDoc
        /\ doc' = d /\ disk' = [disk EXCEPT ![g] = d]
    BY <1>9 DEF SetDocument
  <2>2. DocIn(FormPairs, d)
    BY <1>1, <1>2, <2>1, DefaultIsInForm DEF InPlainSession
  <2> HIDE DEF d
  <2>3. \A f \in File : disk'[f] = IF f = g THEN d ELSE disk[f]
    BY <1>1, <2>1 DEF FilesAreTidy
  <2>4. MenuIsFresh'
    BY <2>1 DEF MenuIsFresh
  <2> QED
    BY <1>2, <2>1, <2>2, <2>3, <2>4, FormStays
<1> QED
  BY <1>3, <1>4, <1>5, <1>7, <1>8, <1>9 DEF EditNext, EditOf

LEMMA FormStutters ==
  ASSUME FormInv, UNCHANGED editVars
  PROVE  FormInv'
<1>1. UNCHANGED <<ses, doc, cur, menu, disk>>
  BY DEF editVars
<1>2. Offer(cur)' = Offer(cur)
  BY <1>1 DEF Offer, TypeOf, Types
<1>3. MenuIsFresh'
  BY <1>1, <1>2 DEF FormInv, MenuIsFresh, MenuIsModal
<1> QED
  BY <1>1, <1>3, FormStays DEF FormInv

-----------------------------------------------------------------------------
(* Theorems about plain sessions. *)

(* A plain session keeps its invariant: every child is declared, and of a  *)
(* choice there is one alternative.                                        *)
THEOREM NamesStayInForm ==
  ASSUME PlainSessions
  PROVE  EditSpec => []InPlainSession
<1>1. SessionInv => PlainTypes
  BY TypesArePlain DEF SessionInv, InOrder
<1>2. EditInit => FormInv
  BY FormInit
<1>3. SessionInv /\ FormInv /\ [EditNext]_editVars => FormInv'
  BY <1>1, FormNext, FormStutters DEF InPlainSession
<1>4. EditSpec => [](SessionInv /\ FormInv)
  BY <1>2, <1>3, SessionInvariant, PTL DEF EditSpec
<1>5. SessionInv /\ FormInv => InPlainSession
  BY <1>1 DEF InPlainSession
<1> QED
  BY <1>4, <1>5, PTL

LEMMA FormIsPlain ==
  ASSUME InPlainSession
  PROVE  InPlain(FormPairs)
BY FormsAreKept DEF InPlainSession, SessionInv, InOrder, FormInv, InPlain

(* What deleteNode would remove in such a session.                         *)
LEMMA DeletionIsOwn ==
  ASSUME InPlainSession, NEW path \in Paths(doc), path # <<>>,
         NEW el, el = At(doc, Front(path)), NEW rows, rows = DeletedRows(el, Last(path)), rows # {}
  PROVE  Last(path) \in rows /\ \A j \in rows : el.kids[j].name = At(doc, path).name
<1> DEFINE p  == Front(path)
           i  == Last(path)
           T  == TypeOf(el)
           ks == KidNames(el)
           r  == IsDeleted(T, ks, ks[i])
<1>1. /\ ses \in Sessions /\ TidyDoc(doc) /\ PlainTypes /\ InPlain(FormPairs)
      /\ Kept(FormPairs) /\ DocIn(FormPairs, doc)
  BY FormIsPlain DEF InPlain, InOrder
<1>2. p \in Above(doc) /\ i \in DOMAIN el.kids /\ At(doc, path) = el.kids[i]
  BY <1>1, ChildIs
<1>3. Stands(FormPairs, el, p)
  BY <1>1, <1>2, ParentStands
<1>4. /\ el.name \in DOMAIN Types /\ T = Types[el.name] /\ InForm(T, ks)
      /\ el.kids \in Seq(KidLevel(p)) /\ Len(ks) = Len(el.kids) /\ DOMAIN ks = DOMAIN el.kids
      /\ \A j \in DOMAIN el.kids : ks[j] = el.kids[j].name
  BY <1>3 DEF Stands
<1>5. Plain(T) /\ Describes(T)
  BY <1>1, <1>4 DEF PlainTypes
<1>6. (r = 1 /\ rows = i .. i) \/ (r > 1 /\ rows = 1 .. r)
  BY <1>1, <1>2, DeletedRowsAt
<1>7. DOMAIN el.kids = 1 .. Len(el.kids) /\ Len(el.kids) \in Nat
  BY <1>4, LenProperties
<1>8. r = IsDeleted(T, ks, ks[i])
  OBVIOUS
<1> HIDE DEF T, ks, p, i, r
<1>9. CASE r = 1 /\ rows = i .. i
  <2>1. i .. i = {i}
    BY <1>2, <1>7
  <2> QED
    BY <1>2, <1>9, <2>1 DEF i
<1>10. CASE r > 1 /\ rows = 1 .. r
  <2>1. ASSUME NEW s, s = Without(ks, 1 .. r)
        PROVE  T.ratio = "choice" /\ r = Len(ks)
    BY <1>2, <1>4, <1>5, <1>8, <1>10, <2>1, AllGoKeeps
  <2>2. T.ratio = "choice" /\ r = Len(el.kids)
    BY <1>4, <2>1
  <2>3. \A j \in DOMAIN ks : ks[j] = ks[i]
    BY <1>2, <1>4, <1>5, <2>2, OneAlternative
  <2>4. rows = DOMAIN el.kids
    BY <1>7, <1>10, <2>2
  <2> QED
    BY <1>2, <1>4, <2>3, <2>4 DEF i
<1> QED
  BY <1>6, <1>9, <1>10

(* deleteNode removes the node it was called for, and beside it only those *)
(* of its group, in a session without comments: the row of the view it     *)
(* takes is then the row of the document, and a group is all there is      *)
(* (ProxyRow, deditor.cpp:303).                                            *)
THEOREM DeletionsTakeTheirOwn ==
  ASSUME PlainSessions
  PROVE  EditSpec => []DeletionTakesItsOwn
<1>1. InPlainSession => DeletionTakesItsOwn
  BY DeletionIsOwn DEF DeletionTakesItsOwn
<1> QED
  BY <1>1, NamesStayInForm, PTL

(* clearNode of any element leaves nothing that may still be deleted, and  *)
(* of valid content valid content: it goes from the last row to the first, *)
(* and what it leaves behind a row stays not deletable whatever goes in    *)
(* front of it (deditor.cpp:438).                                          *)
LEMMA ClearedIsLeast ==
  ASSUME InPlainSession, NEW p \in Parents(doc), NEW el, el = At(doc, p)
  PROVE  Least(TypeOf(el), KidNames(el), NamesOf(Cleared(el)))
<1>1. /\ ses \in Sessions /\ TidyDoc(doc) /\ PlainTypes /\ Kept(FormPairs) /\ DocIn(FormPairs, doc)
  BY FormIsPlain DEF InPlain, InOrder
<1>2. p \in Above(doc)
  BY ParentsAreAbove
<1> DEFINE T == TypeOf(el)
           os == el.kids
<1>3. Stands(FormPairs, el, p)
  BY <1>1, <1>2, ParentStands
<1>4. /\ el.name \in DOMAIN Types /\ T = Types[el.name] /\ InForm(T, NamesOf(os))
      /\ os \in Seq(KidLevel(p)) /\ NamedIn(KidLevel(p), AllNames) /\ KidNames(el) = NamesOf(os)
  BY <1>3 DEF Stands
<1>5. Plain(T) /\ Describes(T)
  BY <1>1, <1>4 DEF PlainTypes
<1>6. el = [name |-> el.name, id |-> el.id, att |-> el.att, kids |-> el.kids]
  BY <1>1, <1>2, ParentIsRecord
<1>7. T = TypeOf(el)
  OBVIOUS
<1> HIDE DEF T
<1>8. Least(T, NamesOf(el.kids), NamesOf(Cleared(el)))
  BY <1>4, <1>5, <1>6, <1>7, ClearedNames
<1> QED
  BY <1>4, <1>7, <1>8

THEOREM ClearingIsMinimal ==
  ASSUME PlainSessions
  PROVE  EditSpec => []ClearIsMinimal
<1>1. ASSUME InPlainSession
      PROVE  ClearIsMinimal
  <2> SUFFICES ASSUME NEW p \in Parents(doc), NEW el, el = At(doc, p), NEW ks, ks = NamesOf(Cleared(el))
               PROVE  /\ \A i \in DOMAIN ks : IsDeleted(TypeOf(el), ks, ks[i]) <= 0
                      /\ Valid(TypeOf(el), KidNames(el)) => Valid(TypeOf(el), ks)
    BY DEF ClearIsMinimal, NamesOf
  <2>1. Least(TypeOf(el), KidNames(el), ks)
    BY <1>1, ClearedIsLeast
  <2> QED
    BY <2>1 DEF Least
<1> QED
  BY <1>1, NamesStayInForm, PTL

(* A valid document.                                                       *)
LEMMA ValidDocIs ==
  ASSUME ses \in Sessions, NEW d, TidyDoc(d), DocIn(FormPairs, d)
  PROVE  ValidDoc(d) <=> d.name = RootName /\ DocIn(ValidPairs, d)
<1>1. \A p \in Paths(d) : Pair(At(d, p)) \in FormPairs
  BY DocInIs
<1>2. DocIn(ValidPairs, d) <=> \A p \in Paths(d) : Pair(At(d, p)) \in ValidPairs
  BY DocInIs
<1>3. ASSUME NEW p \in Paths(d)
      PROVE  Pair(At(d, p)) \in ValidPairs <=> Valid(TypeOf(At(d, p)), KidNames(At(d, p)))
  <2> DEFINE el == At(d, p)
  <2>1. Pair(el) \in FormPairs
    BY <1>1
  <2>2. KidNames(el) = NamesOf(el.kids)
    BY KidNamesIs
  <2> HIDE DEF el
  <2> DEFINE q == Pair(el)
  <2>3. q[1] = el.name /\ q[2] = NamesOf(el.kids)
    BY DEF Pair
  <2> HIDE DEF q
  <2>4. q \in ValidPairs <=> Valid(Types[el.name], NamesOf(el.kids))
    BY <2>1, <2>3 DEF ValidPairs, q
  <2> QED
    BY <2>2, <2>4 DEF q, el, TypeOf
<1> QED
  BY <1>2, <1>3 DEF ValidDoc

(* An edit leaves a valid document valid.                                  *)
LEMMA EditStaysValid ==
  ASSUME InPlainSession, EvenTypes, EditOf, ValidDoc(doc)
  PROVE  ValidDoc(doc')
<1>1. ses \in Sessions /\ TidyDoc(doc) /\ DocIn(FormPairs, doc) /\ Kept(FormPairs) /\ Kept(ValidPairs)
  BY FormsAreKept, ValidAreKept DEF InPlainSession, SessionInv, InOrder, FormInv
<1>2. doc.name = RootName /\ DocIn(ValidPairs, doc)
  BY <1>1, ValidDocIs
<1>3. DocIn(FormPairs, doc') /\ doc'.name = doc.name /\ DocIn(ValidPairs, doc')
  BY <1>1, <1>2, EditsKeepDoc
<1>4. TidyDoc(doc')
  <2>1. InOrder /\ MenuOfNames
    BY DEF InPlainSession, SessionInv
  <2>2. Orderly
    BY <2>1, UserEditStep, ProgramEditStep, EditAttributeStep DEF EditOf
  <2> QED
    BY <2>2 DEF Orderly
<1> QED
  BY <1>1, <1>2, <1>3, <1>4, ValidDocIs

(* Whatever user and program do in whatever order, a valid document stays  *)
(* valid, in a plain session whose types ask for several of what has no    *)
(* other limit only: addNode puts in as many as are asked for where the    *)
(* list promised room for one (deditor.cpp:534).                           *)
THEOREM EditsStayValid ==
  ASSUME PlainSessions, EvenSessions
  PROVE  EditSpec => StaysValid
<1>1. ASSUME InPlainSession, EditNext, sig'.by # "open", ValidDoc(doc)
      PROVE  ValidDoc(doc')
  <2>1. EvenTypes
    BY <1>1, TypesAreEven DEF InPlainSession, SessionInv, InOrder
  <2>2. CASE EditOf
    BY <1>1, <2>1, <2>2, EditStaysValid
  <2>3. CASE \E f \in File : SetDocument(f)
    BY <1>1, <2>3 DEF SetDocument, Quiet
  <2>4. CASE ~EditOf /\ ~(\E f \in File : SetDocument(f))
    <3>1. doc' = doc
      BY <1>1, <2>4 DEF EditNext, EditOf, OpenMenu, CloseMenu, Select, SaveCurDom, SaveDomAs
    <3> QED
      BY <1>1, <3>1
  <2> QED
    BY <2>2, <2>3, <2>4
<1>2. InPlainSession /\ [EditNext]_editVars
        => [sig'.by # "open" /\ ValidDoc(doc) => ValidDoc(doc')]_editVars
  BY <1>1
<1> QED
  BY <1>2, NamesStayInForm, PTL DEF EditSpec, StaysValid
=============================================================================
