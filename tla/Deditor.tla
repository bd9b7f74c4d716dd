------------------------------ MODULE Deditor ------------------------------
(***************************************************************************)
(* An editing session: the document, the current element of the tree, the  *)
(* flags DataChange and manualChange, the identifiers waiting to be        *)
(* reported as deleted, the context menu and the files.  Two actors work   *)
(* on it: the user, through the context menu and the attribute table, and  *)
(* the host program, through the public methods of deditor.  All of it is  *)
(* on one thread, but the menu is modal only for input: it has its own     *)
(* event loop, in which the host program's timers and sockets go on.       *)
(*                                                                         *)
(* A node is a record: name, id (the value of its IdAttr attribute), att   *)
(* (its optional attribute: 0 absent, 1 the default, 2 edited) and kids.   *)
(* An element is named by its path from the root, a sequence of positions; *)
(* the root has children and grandchildren.  What DomModel has too has     *)
(* Edit in front of its name.                                              *)
(***************************************************************************)
EXTENDS XmlSchema

CONSTANTS
  Sessions,  (* the kinds of session: schema, documents and host, see below  *)
  FreshAtt,  (* 1 when new elements get all their attributes, 0 when only    *)
             (* the required ones (setPolicyGetAttribute)                    *)
  File,      (* file names the session may save to                           *)
  Id,        (* identifiers: values of the attribute IdAttr                  *)
  NoFile, NoDoc, NoId, NoMenu

VARIABLES
  ses,      \* what kind of session this is; chosen once
  doc,      \* document: its root element
  cur,      \* path of ui.treeView's current element
  changed,  \* DataChange
  manual,   \* manualChange
  pending,  \* deletedId
  menu,     \* what the open context menu offers
  xmlName,  \* the file of the session
  disk,     \* the files
  sig       \* the signals the last handler emitted, and who called it

editVars == <<ses, doc, cur, changed, manual, pending, menu, xmlName, disk, sig>>

(* The schema and the host program of the session.                         *)
Types       == ses.types  \* element name -> its complex type, see XmlSchema
HasAtt      == ses.att    \* element names whose type has an optional attribute
RootName    == ses.root   \* FirstElName, what a default document consists of
InitDocs    == ses.docs   \* the documents the session may open
MenuIsModal == ses.modal  \* the host program rests while a menu is open
MaxKids     == ses.max    \* bound on the number of children of an element
MaySave     == ses.files  \* the session saves
MayReopen   == ses.files  \* the session loads a file again

-----------------------------------------------------------------------------
(* The document. *)

At(d, path) ==
  CASE Len(path) = 0 -> d
    [] Len(path) = 1 -> d.kids[path[1]]
    [] Len(path) = 2 -> d.kids[path[1]].kids[path[2]]

WithKids(d, path, kids) ==
  IF path = <<>> THEN [d EXCEPT !.kids = kids]
                 ELSE [d EXCEPT !.kids[path[1]].kids = kids]

WithAtt(d, path, v) ==
  CASE Len(path) = 0 -> [d EXCEPT !.att = v]
    [] Len(path) = 1 -> [d EXCEPT !.kids[path[1]].att = v]
    [] Len(path) = 2 -> [d EXCEPT !.kids[path[1]].kids[path[2]].att = v]

KidNames(el) == [i \in DOMAIN el.kids |-> el.kids[i].name]

TypeOf(el) == Types[el.name]

(* The elements of the document: the root, its children, theirs. *)
Paths(d) ==
  LET Below(p) == {p \o <<i>> : i \in {j \in DOMAIN At(d, p).kids :
                                         At(d, p).kids[j].name # Comment}}
  IN  {<<>>} \cup Below(<<>>) \cup UNION {Below(p) : p \in Below(<<>>)}

(* Elements that can have children of their own in this model. *)
Parents(d) == {p \in Paths(d) : Len(p) <= 1 /\ TypeOf(At(d, p)).desc # <<>>}

IdsIn(n) ==
  ({n.id} \cup {n.kids[i].id : i \in DOMAIN n.kids}) \ {NoId}

DocIds(d) == UNION {IdsIn(At(d, p)) : p \in Paths(d)}

(* The documents a session may open: a root, children and grandchildren,   *)
(* of names the schema has.                                                *)
Nodes(names, ids, below) ==
  [name : names, id : ids, att : 0 .. 2, kids : Seq(below)]

Documents(names) ==
  LET all == names \cup {Comment}
      ids == Id \cup {NoId}
  IN  Nodes(names, ids, Nodes(all, ids, Nodes(all, ids, {})))

(* No identifier twice at an element, its children and theirs.             *)
Distinct(el) ==
  \A i \in DOMAIN el.kids :
    /\ el.id \notin IdsIn(el.kids[i])
    /\ \A j \in DOMAIN el.kids \ {i} : IdsIn(el.kids[i]) \cap IdsIn(el.kids[j]) = {}

(* Children the type of their parent declares; a comment has none.         *)
Declared(types, el) ==
  IF el.name = Comment THEN el.kids = <<>>
  ELSE \A i \in DOMAIN el.kids : el.kids[i].name \in Names(types[el.name]) \cup {Comment}

Opened(types, d) ==
  /\ d \in Documents(DOMAIN types)
  /\ \A el \in {d} \cup {d.kids[i] : i \in DOMAIN d.kids} :
       Distinct(el) /\ Declared(types, el)

ASSUME DeditorAssumption ==
  /\ FreshAtt \in {0, 1} /\ NoFile \notin File
  /\ \A s \in Sessions :
       /\ s.root \in DOMAIN s.types /\ Comment \notin DOMAIN s.types
       /\ \A n \in DOMAIN s.types : SchemaType(DOMAIN s.types, s.types[n])
       /\ \A d \in s.docs : Opened(s.types, d)

NewNode(n) ==
  [name |-> n, id |-> NoId, kids |-> <<>>,
   att |-> IF n \in HasAtt THEN FreshAtt ELSE 0]

(* addNodeModel on an element that may have children already. *)
Grown(el) ==
  LET kids(e) == Mandatory(TypeOf(e), KidNames(e))
      leaf(n) == [NewNode(n) EXCEPT !.kids =
                    LET m == kids(NewNode(n)) IN [i \in DOMAIN m |-> NewNode(m[i])]]
      new     == kids(el)
  IN  [el EXCEPT !.kids = @ \o [i \in DOMAIN new |-> leaf(new[i])]]

(* The elements addNode and replaceNode insert: the first is new, each     *)
(* further one a clone of the one before, with its descendants, and is     *)
(* given to addNodeModel again.                                            *)
NewOnes(n, k) ==
  LET f[i \in 1 .. k] == IF i = 1 THEN Grown(NewNode(n)) ELSE Grown(f[i - 1])
  IN  f

(* xmlschema::defaultXML: the root alone. *)
DefaultDoc == [name |-> RootName, id |-> NoId, att |-> 0, kids |-> <<>>]

Insert(kids, row, new) ==
  SubSeq(kids, 1, row) \o new \o SubSeq(kids, row + 1, Len(kids))

(* The rows that are removed are always consecutive.                       *)
Without(kids, R) ==
  SubSeq(kids, 1, Min(R) - 1) \o SubSeq(kids, Max(R) + 1, Len(kids))

(* The place, from 0, of child i in the tree view, whose proxy model hides *)
(* what is no element.                                                     *)
ProxyRow(kids, i) == Cardinality({j \in 1 .. i - 1 : kids[j].name # Comment})

(* Qt keeps the current index on its element when rows come before it. *)
Shifted(path, parent, row, k) ==
  IF /\ Len(path) > Len(parent)
     /\ IsPrefix(parent, path)
     /\ path[Len(parent) + 1] > row
  THEN [path EXCEPT ![Len(parent) + 1] = @ + k]
  ELSE path

-----------------------------------------------------------------------------
Quiet(by) == [by |-> by, add |-> FALSE, deleted |-> {}]

(* The slots of the menu set manualChange, then call the method. *)
Manual(by) == manual \/ by = "user"

(* A method that returns before it changes anything. *)
Refuse(by) ==
  /\ manual' = Manual(by)
  /\ sig' = Quiet(by)
  /\ UNCHANGED <<doc, cur, changed, pending>>

(* Mutant: manualChange is not reset once it has been announced. *)
AddedStaysManual(by) ==
  /\ manual' = Manual(by)
  /\ sig' = [Quiet(by) EXCEPT !.add = Manual(by)]
  /\ changed' = TRUE

(* The common end of addNode, replaceNode and insertNodeBefore/After. *)
Added(by) ==
  /\ manual' = FALSE
  /\ sig' = [Quiet(by) EXCEPT !.add = Manual(by)]
  /\ changed' = TRUE

(* Mutant: addNode that believes the menu. *)
AddNodeUnchecked(p, n, by) ==
  LET el  == At(doc, p)
      T   == TypeOf(el)
      k   == Copies(T.desc[DescOf(T, n)])
      row == AddRow(T, KidNames(el), n)
  IN  /\ Len(el.kids) + k <= MaxKids
      /\ n \in Names(T)
      /\ doc' = WithKids(doc, p, Insert(el.kids, row, NewOnes(n, k)))
      /\ cur' = Shifted(cur, p, row, k)
      /\ Added(by)
      /\ UNCHANGED pending

(* deditor::addNode: as many copies as minOccurs asks for. *)
AddNode(p, n, by) ==
  LET el  == At(doc, p)
      T   == TypeOf(el)
      ks  == KidNames(el)
      k   == Copies(T.desc[DescOf(T, n)])
      row == AddRow(T, ks, n)
  IN  \/ n \notin NamesAt(T, GetAddChild(T, ks)) /\ Refuse(by)
      \/ /\ n \in NamesAt(T, GetAddChild(T, ks))
         /\ Len(ks) + k <= MaxKids
         /\ doc' = WithKids(doc, p, Insert(el.kids, row, NewOnes(n, k)))
         /\ cur' = Shifted(cur, p, row, k)
         /\ Added(by)
         /\ UNCHANGED pending

(* Mutant: a group is taken to be at the end of its parent. *)
DeletedRowsFromTheEnd(el, i) ==
  LET rez == IsDeleted(TypeOf(el), KidNames(el), el.kids[i].name)
      n   == Len(el.kids)
  IN  IF rez = 1 THEN {i} ELSE IF rez > 1 THEN n - rez + 2 .. n ELSE {}

(* What deleteNode removes for child i of el: the row of its index in the  *)
(* view, taken for a row of the document; of a group, the first rows.      *)
DeletedRows(el, i) ==
  LET rez == IsDeleted(TypeOf(el), KidNames(el), el.kids[i].name)
  IN  IF rez = 1 THEN {ProxyRow(el.kids, i) + 1}
      ELSE IF rez > 1 THEN 1 .. rez ELSE {}

(* deditor::deleteNode: the current element becomes the parent; all the    *)
(* identifiers that are waiting are reported.                              *)
DeleteNode(path, by) ==
  /\ path # <<>>
  /\ LET el   == At(doc, Front(path))
         rows == DeletedRows(el, Last(path))
     IN  /\ rows # {}
         /\ doc' = WithKids(doc, Front(path), Without(el.kids, rows))
         /\ sig' = [Quiet(by) EXCEPT !.deleted =
                      pending \cup UNION {IdsIn(el.kids[i]) : i \in rows}]
  /\ cur' = Front(path)
  /\ changed' = TRUE
  /\ pending' = {}
  /\ UNCHANGED manual

(* Mutant: clearNode that walks the rows upwards. *)
ClearedUpwards(el) ==
  LET f[i \in 0 .. Len(el.kids)] ==
        IF i = 0 THEN el.kids
        ELSE LET k == f[i - 1]
                 e == [el EXCEPT !.kids = k]
             IN  IF i \in DOMAIN k
                 THEN IF IsDeleted(TypeOf(el), KidNames(e), k[i].name) > 0
                      THEN RemoveAt(k, i) ELSE k
                 ELSE k
  IN  f[Len(el.kids)]

(* deditor::clearNode: from the last row to the first, whatever may be     *)
(* deleted at that moment is.                                              *)
Cleared(el) ==
  LET f[i \in 1 .. Len(el.kids) + 1] ==
        IF i > Len(el.kids) THEN el.kids
        ELSE LET k == f[i + 1]
                 e == [el EXCEPT !.kids = k]
             IN  IF IsDeleted(TypeOf(el), KidNames(e), k[i].name) > 0
                 THEN RemoveAt(k, i) ELSE k
  IN  f[1]

ClearNode(p, by) ==
  LET el == At(doc, p)
  IN  /\ doc' = WithKids(doc, p, Cleared(el))
      /\ cur' = p
      /\ changed' = TRUE
      /\ sig' = [Quiet(by) EXCEPT !.deleted =
                   pending \cup (DocIds(doc) \ DocIds(doc'))]
      /\ pending' = {}
      /\ UNCHANGED manual

(* What replaceNode removes of its parent el for child i, and the row the  *)
(* new elements go to.                                                     *)
ReplacedRows(el, i) ==
  IF TypeOf(el).ratio = "choice"
  THEN 1 .. Count(KidNames(el), el.kids[i].name) ELSE {i}

(* Mutant: replaceNode that forgets the identifiers it removed. *)
AwaitReportNothing(el, rows) == pending

(* deletedId after replaceNode: what it removed waits for the next         *)
(* deletion to be reported.                                                *)
AwaitReport(el, rows) == pending \cup UNION {IdsIn(el.kids[i]) : i \in rows}

(* deditor::replaceNode: it does not look at the list of replacements      *)
(* again ("admissibility is not checked any more?").                       *)
ReplaceNode(path, n, by) ==
  LET el   == At(doc, Front(path))
      T    == TypeOf(el)
      old  == At(doc, path).name
      rows == ReplacedRows(el, Last(path))
      row  == IF T.ratio = "choice" THEN 0 ELSE Last(path) - 1
      k    == IF n \in Names(T) THEN Copies(T.desc[DescOf(T, n)]) ELSE 1
      mayGo == /\ path # <<>>
               /\ T.ratio # "sequence"
               /\ \/ T.ratio = "choice"
                  \/ Count(KidNames(el), old) > T.desc[DescOf(T, old)].min
  IN  \/ ~mayGo /\ Refuse(by)
      \/ /\ mayGo
         /\ Len(el.kids) - Cardinality(rows) + k <= MaxKids
         /\ doc' = WithKids(doc, Front(path),
                            Insert(Without(el.kids, rows), row, NewOnes(n, k)))
         /\ cur' = Front(path)
         /\ pending' = AwaitReport(el, rows)
         /\ Added(by)

(* deditor::insertNodeBefore and insertNodeAfter: one element beside the   *)
(* given one, which becomes the current element.                           *)
InsertNode(path, n, where, by) ==
  LET p    == Front(path)
      el   == At(doc, p)
      i    == Last(path)
      list == IF where = "before" THEN InsBefore(TypeOf(el), KidNames(el), i)
                                  ELSE InsAfter(TypeOf(el), KidNames(el), i)
      row  == IF where = "before" THEN i - 1 ELSE i
      ok   == path # <<>> /\ n \in NamesAt(TypeOf(el), list)
  IN  \/ ~ok /\ Refuse(by)
      \/ /\ ok
         /\ Len(el.kids) < MaxKids
         /\ doc' = WithKids(doc, p, Insert(el.kids, row, NewOnes(n, 1)))
         /\ cur' = Shifted(path, p, row, 1)
         /\ Added(by)
         /\ UNCHANGED pending

(* deditor::addAttribute and deleteAttribute. *)
SetAttribute(path, v, by) ==
  /\ doc' = WithAtt(doc, path, v)
  /\ sig' = Quiet(by)
  /\ UNCHANGED <<cur, changed, manual, pending>>

AddAttribute(path, v, by) ==
  /\ At(doc, path).name \in HasAtt
  /\ At(doc, path).att = 0
  /\ SetAttribute(path, v, by)

DeleteAttribute(path, by) ==
  /\ At(doc, path).att # 0
  /\ SetAttribute(path, 0, by)

(* An attribute is edited in the table: the delegate announces it when the *)
(* value differs from the one the editor was opened with.                  *)
EditAttribute(v) ==
  /\ menu = NoMenu
  /\ At(doc, cur).att \in {1, 2} \ {v}
  /\ doc' = WithAtt(doc, cur, v)
  /\ changed' = TRUE
  /\ sig' = Quiet("user")
  /\ UNCHANGED <<ses, cur, manual, pending, menu, xmlName, disk>>

-----------------------------------------------------------------------------
(* What a menu opened on path offers: the lists of names, and whether      *)
(* deletion and clearing are there at all.                                 *)
Offer(path) ==
  LET el == At(doc, path)
      up == At(doc, Front(path))
      T  == TypeOf(up)
      ks == KidNames(up)
      IfChild(S) == IF path = <<>> THEN {} ELSE S
  IN  [add     |-> NamesAt(TypeOf(el), GetAddChild(TypeOf(el), KidNames(el))),
       before  |-> IfChild(NamesAt(T, InsBefore(T, ks, Last(path)))),
       after   |-> IfChild(NamesAt(T, InsAfter(T, ks, Last(path)))),
       replace |-> IfChild(Replace(T, ks, el.name)),
       delete  |-> path # <<>> /\ IsDeleted(T, ks, el.name) > 0,
       clear   |-> ClearList(TypeOf(el), KidNames(el)) # {}]

(* showContextMenuForTreeView. *)
OpenMenu ==
  /\ menu = NoMenu
  /\ menu' = Offer(cur)
  /\ sig' = Quiet("user")
  /\ UNCHANGED <<ses, doc, cur, changed, manual, pending, xmlName, disk>>

CloseMenu ==
  /\ menu # NoMenu
  /\ menu' = NoMenu
  /\ sig' = Quiet("user")
  /\ UNCHANGED <<ses, doc, cur, changed, manual, pending, xmlName, disk>>

(* The user picks an entry: it acts on what is the current element by now. *)
UserEdit ==
  /\ menu # NoMenu
  /\ \/ \E n \in menu.add : cur \in Parents(doc) /\ AddNode(cur, n, "user")
     \/ \E n \in menu.before : InsertNode(cur, n, "before", "user")
     \/ \E n \in menu.after : InsertNode(cur, n, "after", "user")
     \/ \E n \in menu.replace : ReplaceNode(cur, n, "user")
     \/ menu.delete /\ DeleteNode(cur, "user")
     \/ menu.clear /\ cur \in Parents(doc) /\ ClearNode(cur, "user")
     \/ AddAttribute(cur, 1, "user")
     \/ DeleteAttribute(cur, "user")
  /\ menu' = NoMenu
  /\ UNCHANGED <<ses, xmlName, disk>>

(* The host program calls a public method, with names it took from the     *)
(* lists (addNodeList, replaceNodeList, ...) as its callers do.            *)
ProgramEdit ==
  /\ menu = NoMenu \/ ~MenuIsModal
  /\ \/ \E p \in Parents(doc) : \E n \in Offer(p).add : AddNode(p, n, "program")
     \/ \E p \in Paths(doc) : \E n \in Offer(p).replace : ReplaceNode(p, n, "program")
     \/ \E p \in Paths(doc) : DeleteNode(p, "program")
     \/ \E p \in Parents(doc) : ClearNode(p, "program")
     \/ \E p \in Paths(doc) : AddAttribute(p, 2, "program")
  /\ UNCHANGED <<ses, menu, xmlName, disk>>

(* A click in the tree, goParent or goElement. *)
Select(path) ==
  /\ menu = NoMenu
  /\ cur' = path
  /\ sig' = Quiet("user")
  /\ UNCHANGED <<ses, doc, changed, manual, pending, menu, xmlName, disk>>

(* saveCurDom, and saveDomAs with the session's own file.  A file that     *)
(* cannot be opened changes nothing.                                       *)
SaveCurDom ==
  /\ MaySave
  /\ menu = NoMenu
  /\ xmlName # NoFile
  /\ disk' = [disk EXCEPT ![xmlName] = doc]
  /\ changed' = FALSE
  /\ sig' = Quiet("program")
  /\ UNCHANGED <<ses, doc, cur, manual, pending, menu, xmlName>>

(* Mutant: the flag is cleared whatever file was written. *)
SaveDomAsClears(f) ==
  /\ MaySave
  /\ menu = NoMenu
  /\ f # xmlName
  /\ disk' = [disk EXCEPT ![f] = doc]
  /\ changed' = FALSE
  /\ xmlName' = IF xmlName = NoFile THEN f ELSE xmlName
  /\ sig' = Quiet("program")
  /\ UNCHANGED <<ses, doc, cur, manual, pending, menu>>

(* saveDomAs with another file: the session takes its name only when it    *)
(* has none; DataChange stays as it is either way.                         *)
SaveDomAs(f) ==
  /\ MaySave
  /\ menu = NoMenu
  /\ f # xmlName
  /\ disk' = [disk EXCEPT ![f] = doc]
  /\ xmlName' = IF xmlName = NoFile THEN f ELSE xmlName
  /\ sig' = Quiet("program")
  /\ UNCHANGED <<ses, doc, cur, changed, manual, pending, menu>>

(* Valid content at every level. *)
ValidDoc(d) ==
  /\ d.name = RootName
  /\ \A p \in Paths(d) : Valid(TypeOf(At(d, p)), KidNames(At(d, p)))

(* setDocument on a file: one that does not validate is removed and made   *)
(* anew.  DataChange is reset, manualChange and deletedId are not.         *)
SetDocument(f) ==
  /\ MayReopen
  /\ menu = NoMenu
  /\ disk[f] # NoDoc
  /\ LET d == IF ValidDoc(disk[f]) THEN disk[f] ELSE DefaultDoc
     IN  /\ doc' = d
         /\ disk' = [disk EXCEPT ![f] = d]
  /\ xmlName' = f
  /\ cur' = <<>>
  /\ changed' = FALSE
  /\ sig' = Quiet("open")
  /\ UNCHANGED <<ses, manual, pending, menu>>

(* A session on a file, or on a default document that has none yet. *)
EditInit ==
  /\ ses \in Sessions
  /\ \/ /\ xmlName = NoFile
        /\ doc = DefaultDoc
        /\ disk = [f \in File |-> NoDoc]
     \/ /\ xmlName \in File
        /\ doc \in InitDocs
        /\ disk = [f \in File |-> IF f = xmlName THEN doc ELSE NoDoc]
  /\ cur = <<>>
  /\ changed = FALSE
  /\ manual = FALSE
  /\ pending = {}
  /\ menu = NoMenu
  /\ sig = Quiet("open")

EditNext ==
  \/ OpenMenu
  \/ CloseMenu
  \/ UserEdit
  \/ ProgramEdit
  \/ \E v \in {1, 2} : EditAttribute(v)
  \/ \E path \in Paths(doc) : Select(path)
  \/ SaveCurDom
  \/ \E f \in File : SaveDomAs(f)
  \/ \E f \in File : SetDocument(f)

EditSpec == EditInit /\ [][EditNext]_editVars

-----------------------------------------------------------------------------
(* What the theorems about the lists of names assume of the sessions: the  *)
(* cases in which the lists promise what the methods do.                   *)

(* A relation inside one of another kind: the menu offers what replaceNode *)
(* refuses (xmlschema.cpp:501, deditor.cpp:1045).                          *)
Flat(types) ==
  \A n \in DOMAIN types : \A i \in DOMAIN types[n].desc :
    types[n].desc[i].ratio = types[n].ratio

FlatSessions == \A s \in Sessions : s.modal /\ ~s.files => Flat(s.types)

(* What is asked for several times gains nothing when addNode clones it    *)
(* and gives the clone to addNodeModel again (deditor.cpp:546).            *)
ClonesAreWhole(types, T) ==
  \A i \in DOMAIN T.desc :
    T.desc[i].min > 1 =>
      LET U == types[T.desc[i].name] IN Mandatory(U, Mandatory(U, <<>>)) = <<>>

(* An element without comments, and in a choice of one alternative.        *)
Regular(types, el) ==
  \A i, j \in DOMAIN el.kids :
    /\ el.kids[i].name # Comment
    /\ types[el.name].ratio = "choice" => el.kids[i].name = el.kids[j].name

(* replaceNode does not check its name again, so that it is not there to   *)
(* be called in a session in which the menu's entries may be stale; a      *)
(* comment among the children shifts the row deleteNode takes              *)
(* (deditor.cpp:1021, 303).                                                *)
PlainSessions ==
  \A s \in Sessions :
    /\ \A n \in DOMAIN s.types :
         /\ Plain(s.types[n]) /\ ClonesAreWhole(s.types, s.types[n])
         /\ s.modal \/ s.types[n].ratio = "sequence"
    /\ \A d \in s.docs :
         /\ Regular(s.types, d)
         /\ \A i \in DOMAIN d.kids :
              /\ Regular(s.types, d.kids[i])
              /\ \A j \in DOMAIN d.kids[i].kids : Regular(s.types, d.kids[i].kids[j])

(* addNode inserts minOccurs copies where the list promised room for one   *)
(* (deditor.cpp:534): what is asked for several times has no other limit.  *)
EvenSessions ==
  \A s \in Sessions : \A n \in DOMAIN s.types : \A i \in DOMAIN s.types[n].desc :
    LET d == s.types[n].desc[i] IN d.min <= 1 \/ d.max \in {0, d.min}

-----------------------------------------------------------------------------
(* Properties. *)

(* Whatever the menu and the lists of names let user and program do, in    *)
(* whatever order, a valid document stays valid ("editing in accordance    *)
(* with the rules of the schema", deditor.h:73).                           *)
StaysValid ==
  [][sig'.by # "open" /\ ValidDoc(doc) => ValidDoc(doc')]_editVars

(* Deletions are reported as they happen: an identifier that leaves the    *)
(* document waits in deletedId until the signal deleteNode reports it,     *)
(* whatever other edits and saves come between, and what is reported is    *)
(* not in the document.  Opening a document keeps deletedId, hence the     *)
(* restriction to sessions that do not (deditor.cpp:203).                  *)
DeletionsReported ==
  [][~MayReopen =>
       /\ (DocIds(doc) \cup pending) \ (DocIds(doc') \cup pending')
            \subseteq sig'.deleted
       /\ sig'.deleted \cap DocIds(doc') = {}]_editVars

(* The signal AddManualNode comes from additions the user made by hand     *)
(* ("manual addition of a node", deditor.h:117), never from the program's, *)
(* as long as the program rests while a menu is open and no document is    *)
(* opened, which keeps manualChange (deditor.cpp:203).  In a schema with a *)
(* choice inside a sequence the menu offers what replaceNode refuses, and  *)
(* the flag stays set (deditor.cpp:1045).                                  *)
ManualIsUsers == MenuIsModal /\ ~MayReopen /\ sig.add => sig.by = "user"

(* The structure of the document without its attributes. *)
Leaf(n) == [name |-> n.name, id |-> n.id]
Shape(d) ==
  [i \in DOMAIN d.kids |->
     [self |-> Leaf(d.kids[i]),
      kids |-> [j \in DOMAIN d.kids[i].kids |-> Leaf(d.kids[i].kids[j])]]]

(* While getChangeData says that nothing is unsaved, the session's file    *)
(* holds the structure of the document.                                    *)
StructureIsSaved ==
  ~changed /\ xmlName # NoFile => Shape(disk[xmlName]) = Shape(doc)

(* clearNode leaves nothing that could still be deleted ("to the minimum   *)
(* possible", deditor.cpp:438), and of valid content leaves valid content. *)
ClearIsMinimal ==
  \A p \in Parents(doc) :
    LET el == At(doc, p)
        T  == TypeOf(el)
        ks == [i \in DOMAIN Cleared(el) |-> Cleared(el)[i].name]
    IN  /\ \A i \in DOMAIN ks : IsDeleted(T, ks, ks[i]) <= 0
        /\ Valid(T, KidNames(el)) => Valid(T, ks)

(* "Deletion of a node of the tree" (deditor.cpp:287): deleteNode removes  *)
(* the node it was called for, and beside it only those of its group.  It  *)
(* rests on every row being one in the view as well: ProxyRow.             *)
DeletionTakesItsOwn ==
  \A path \in Paths(doc) \ {<<>>} :
    LET el   == At(doc, Front(path))
        rows == DeletedRows(el, Last(path))
    IN  rows # {} => /\ Last(path) \in rows
                     /\ \A r \in rows : el.kids[r].name = At(doc, path).name

=============================================================================
