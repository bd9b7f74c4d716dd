------------------------ MODULE DataCollectorProofs ------------------------
(***************************************************************************)
(* Theorems about DataCollector, for all devices, registers, values and    *)
(* configurations, and whatever the bounds: that the tables follow memDat, *)
(* and that the history covers the present values.                         *)
(***************************************************************************)
EXTENDS DataCollector, TLAPS

(* A partial function on registers. *)
LEMMA RowsOnRegisters ==
  ASSUME NEW f \in Rows
  PROVE  DOMAIN f \subseteq Reg /\ f \in [DOMAIN f -> Val]
BY DEF Rows

LEMMA RowsMade ==
  ASSUME NEW S \in SUBSET Reg, NEW f \in [S -> Val]
  PROVE  f \in Rows
BY DEF Rows

LEMMA NoneIsRows == None \in Rows
<1>1. None \in [{} -> Val]
  BY DEF None
<1> QED
  BY <1>1, RowsMade

(* A listing is a delete statement and, unless the device has no dynamic   *)
(* register, an insert statement behind it.                                *)
LEMMA ListingShape ==
  ASSUME NEW m \in Dev, NEW f \in Rows
  PROVE  /\ Listing(m, f) \in Seq(Statement)
         /\ Len(Listing(m, f)) = IF f = None THEN 1 ELSE 2
         /\ Listing(m, f)[1] = [op |-> "delete", dev |-> m, rows |-> None]
         /\ f # None => Listing(m, f)[2] = [op |-> "insert", dev |-> m, rows |-> f]
<1> DEFINE d == [op |-> "delete", dev |-> m, rows |-> None]
           i == [op |-> "insert", dev |-> m, rows |-> f]
<1>1. d \in Statement /\ i \in Statement
  BY NoneIsRows DEF Statement
<1>2. CASE f = None
  <2>1. Listing(m, f) = <<d>> \o <<>>
    BY <1>2 DEF Listing
  <2> HIDE DEF d
  <2>2. <<d>> \o <<>> = <<d>>
    BY <1>1
  <2> QED
    BY <1>1, <1>2, <2>1, <2>2 DEF d
<1>3. CASE f # None
  <2>1. Listing(m, f) = <<d>> \o <<i>>
    BY <1>3 DEF Listing
  <2> HIDE DEF d, i
  <2>2. <<d>> \in Seq(Statement) /\ <<i>> \in Seq(Statement)
    BY <1>1
  <2>3. /\ <<d>> \o <<i>> \in Seq(Statement)
        /\ Len(<<d>> \o <<i>>) = 2
        /\ (<<d>> \o <<i>>)[1] = d /\ (<<d>> \o <<i>>)[2] = i
    BY <2>2
  <2> QED
    BY <1>3, <2>1, <2>3 DEF d, i
<1> QED
  BY <1>2, <1>3

-----------------------------------------------------------------------------
(* TypeOK. *)

(* What a listing of the mirror's registers is.                            *)
LEMMA MirrorRows ==
  ASSUME TypeOK, NEW m \in Dev, NEW S \in SUBSET dyn[m]
  PROVE  [r \in S |-> mirror[m][r]] \in Rows
<1>1. S \subseteq Reg
  BY DEF TypeOK
<1>2. [r \in S |-> mirror[m][r]] \in [S -> Val]
  BY <1>1 DEF TypeOK
<1> QED
  BY <1>1, <1>2, RowsMade

LEMMA InitTypes ==
  ASSUME Init PROVE TypeOK
<1>1. [r \in Reg |-> Zero] \in [Reg -> Val]
  BY DataCollectorAssumption
<1>2. dyn \in [Dev -> SUBSET Reg]
  BY DataCollectorAssumption DEF Init
<1>3. mirror \in [Dev -> [Reg -> Val]]
  BY <1>1 DEF Init
<1>4. memDat \in [Dev -> Rows] /\ opdat \in [Dev -> Rows]
  BY NoneIsRows DEF Init
<1>5. hist \in [Dev -> [Reg -> SUBSET {"recent", "old"}]]
  BY DEF Init
<1>6. posted \in Seq(Dev) /\ queue \in Seq(Statement) /\ changes \subseteq Change
  BY DEF Init
<1>7. /\ dstatus \in [Dev -> BOOLEAN] /\ actData \in [Dev -> BOOLEAN]
      /\ act \in [Dev -> {"none", "0", "1"}]
  BY DEF Init
<1> QED
  BY <1>2, <1>3, <1>4, <1>5, <1>6, <1>7 DEF TypeOK

LEMMA SlotTypes ==
  ASSUME TypeOK, Slot PROVE TypeOK'
<1> DEFINE m == Head(posted)
<1>1. m \in Dev /\ Tail(posted) \in Seq(Dev)
  BY DEF Slot, TypeOK
<1>2. ASSUME NEW S \in SUBSET dyn[m]
      PROVE  queue \o Listing(m, [r \in S |-> mirror[m][r]]) \in Seq(Statement)
  <2>1. Listing(m, [r \in S |-> mirror[m][r]]) \in Seq(Statement)
    BY <1>1, <1>2, MirrorRows, ListingShape
  <2> QED
    BY <2>1 DEF TypeOK
<1>3. [memDat EXCEPT ![m] = [r \in dyn[m] |-> mirror[m][r]]] \in [Dev -> Rows]
  <2>1. [r \in dyn[m] |-> mirror[m][r]] \in Rows
    BY <1>1, MirrorRows
  <2> QED
    BY <2>1 DEF TypeOK
<1>4. queue' \in Seq(Statement) /\ memDat' \in [Dev -> Rows] /\ changes' \subseteq Change
  <2> HIDE DEF m
  <2>1. CASE GenDataList(m)
    BY <2>1, <1>2, <1>3 DEF GenDataList, TypeOK
  <2>2. CASE GenDataListTorn(m)
    <3>1. changes' \subseteq Change
      BY <2>2 DEF GenDataListTorn, TypeOK
    <3>2. memDat' \in [Dev -> Rows]
      BY <2>2, <1>3 DEF GenDataListTorn
    <3>3. queue' \in Seq(Statement)
      BY <2>2, <1>2 DEF GenDataListTorn
    <3> QED
      BY <3>1, <3>2, <3>3
  <2> QED
    BY <2>1, <2>2 DEF Slot, m
<1> QED
  BY <1>1, <1>4 DEF Slot, TypeOK, outer, data

(* Rows are added to a device's, with values of the new ones.              *)
LEMMA ExecuteTypes ==
  ASSUME TypeOK, NEW st \in Statement, Execute(st)
  PROVE  /\ opdat' \in [Dev -> Rows]
         /\ hist' \in [Dev -> [Reg -> SUBSET {"recent", "old"}]]
<1>1. st.dev \in Dev /\ st.rows \in Rows
  BY DEF Statement
<1>2. CASE st.op = "delete"
  BY <1>1, <1>2, NoneIsRows DEF Execute, TypeOK
<1>3. CASE st.op # "delete"
  <2> DEFINE old == opdat[st.dev]
             new(S) == [r \in DOMAIN old \cup S |-> IF r \in S THEN st.rows[r] ELSE old[r]]
  <2>1. PICK S \in Inserted(old, st.rows) :
          /\ opdat' = [opdat EXCEPT ![st.dev] = new(S)]
          /\ hist' = Recorded(hist, st.dev, S)
    BY <1>3 DEF Execute
  <2>2. old \in Rows
    BY <1>1 DEF TypeOK
  <2>3. S \subseteq DOMAIN st.rows
    BY DEF Inserted
  <2>4. S \subseteq Reg /\ DOMAIN old \subseteq Reg
    BY <1>1, <2>2, <2>3, RowsOnRegisters
  <2>5. new(S) \in [DOMAIN old \cup S -> Val]
    BY <1>1, <2>2, <2>3, RowsOnRegisters
  <2>6. new(S) \in Rows
    BY <2>4, <2>5, RowsMade
  <2>7. opdat' \in [Dev -> Rows]
    BY <2>1, <2>6 DEF TypeOK
  <2>8. hist' \in [Dev -> [Reg -> SUBSET {"recent", "old"}]]
    BY <2>1, <1>1 DEF TypeOK, Recorded
  <2> QED
    BY <2>7, <2>8
<1> QED
  BY <1>2, <1>3

LEMMA SendQuryTypes ==
  ASSUME TypeOK, SendQury PROVE TypeOK'
<1>1. CASE queue = <<>>
  BY <1>1 DEF SendQury, TypeOK, outer
<1>2. CASE queue # <<>>
  <2>1. Head(queue) \in Statement /\ Tail(queue) \in Seq(Statement) /\ queue' = Tail(queue)
    BY <1>2 DEF SendQury, TypeOK
  <2>2. /\ opdat' \in [Dev -> Rows]
        /\ hist' \in [Dev -> [Reg -> SUBSET {"recent", "old"}]]
    <3>1. CASE Execute(Head(queue))
      BY <2>1, <3>1, ExecuteTypes
    <3>2. CASE UNCHANGED <<opdat, hist>>
      BY <3>2 DEF TypeOK
    <3> QED
      BY <1>2, <3>1, <3>2 DEF SendQury
  <2> QED
    BY <2>1, <2>2 DEF SendQury, TypeOK, outer
<1> QED
  BY <1>1, <1>2

LEMMA GetListDataTypes ==
  ASSUME TypeOK, GetListData PROVE TypeOK'
<1>1. memDat' \in [Dev -> Rows] /\ changes' \subseteq Change
  <2>1. CASE UNCHANGED <<memDat, changes>>
    BY <2>1 DEF TypeOK
  <2>2. CASE ~UNCHANGED <<memDat, changes>>
    <3>1. ASSUME NEW m \in Dev
          PROVE  [r \in DOMAIN memDat[m] |->
                    IF r \in Differing(m) THEN mirror[m][r] ELSE memDat[m][r]] \in Rows
      <4>1. memDat[m] \in Rows
        BY DEF TypeOK
      <4>2. DOMAIN memDat[m] \subseteq Reg /\ memDat[m] \in [DOMAIN memDat[m] -> Val]
        BY <4>1, RowsOnRegisters
      <4>3. [r \in DOMAIN memDat[m] |->
               IF r \in Differing(m) THEN mirror[m][r] ELSE memDat[m][r]]
              \in [DOMAIN memDat[m] -> Val]
        BY <4>2 DEF TypeOK
      <4> QED
        BY <4>2, <4>3, RowsMade
    <3>2. memDat' \in [Dev -> Rows]
      BY <2>2, <3>1 DEF GetListData
    <3>3. changes' \subseteq Change
      BY <2>2 DEF GetListData, TypeOK, Change
    <3> QED
      BY <3>2, <3>3
  <2> QED
    BY <2>1, <2>2
<1> QED
  BY <1>1 DEF GetListData, TypeOK, outer, data

(* An update changes the values of rows, not which rows there are.         *)
LEMMA UpdatedProperties ==
  ASSUME TypeOK, NEW hit \in SUBSET changes
  PROVE  /\ Updated(hit) \in [Dev -> Rows]
         /\ \A m \in Dev : DOMAIN Updated(hit)[m] = DOMAIN opdat[m]
<1>1. ASSUME NEW m \in Dev
      PROVE  [r \in DOMAIN opdat[m] |->
                IF \E c \in hit : c.dev = m /\ c.reg = r
                THEN (CHOOSE c \in hit : c.dev = m /\ c.reg = r).val ELSE opdat[m][r]]
               \in Rows
  <2>1. opdat[m] \in Rows
    BY DEF TypeOK
  <2>2. DOMAIN opdat[m] \subseteq Reg /\ opdat[m] \in [DOMAIN opdat[m] -> Val]
    BY <2>1, RowsOnRegisters
  <2>3. ASSUME NEW r, \E c \in hit : c.dev = m /\ c.reg = r
        PROVE  (CHOOSE c \in hit : c.dev = m /\ c.reg = r).val \in Val
    <3>1. (CHOOSE c \in hit : c.dev = m /\ c.reg = r) \in Change
      BY <2>3 DEF TypeOK
    <3> QED
      BY <3>1 DEF Change
  <2>4. [r \in DOMAIN opdat[m] |->
           IF \E c \in hit : c.dev = m /\ c.reg = r
           THEN (CHOOSE c \in hit : c.dev = m /\ c.reg = r).val ELSE opdat[m][r]]
          \in [DOMAIN opdat[m] -> Val]
    BY <2>2, <2>3
  <2> QED
    BY <2>2, <2>4, RowsMade
<1> QED
  BY <1>1 DEF Updated

LEMMA SendDbDatTypes ==
  ASSUME TypeOK, SendDbDat PROVE TypeOK'
<1>1. PICK done \in SUBSET changes, told \in SUBSET Told :
        /\ opdat' = Updated(Hit(done))
        /\ hist' = [m \in Dev |-> [r \in Reg |->
              hist[m][r] \cup IF <<m, r>> \in Places(Hit(done)) THEN {"recent"} ELSE {}]]
        /\ act' = [m \in Dev |-> IF m \in told /\ act[m] # "none"
                                THEN State(dstatus[m]) ELSE act[m]]
  BY DEF SendDbDat
<1>2. Hit(done) \subseteq changes
  BY DEF Hit
<1>3. opdat' \in [Dev -> Rows]
  BY <1>1, <1>2, UpdatedProperties
<1>4. hist' \in [Dev -> [Reg -> SUBSET {"recent", "old"}]]
  BY <1>1 DEF TypeOK
<1>5. act' \in [Dev -> {"none", "0", "1"}]
  BY <1>1 DEF TypeOK, State
<1> QED
  BY <1>3, <1>4, <1>5 DEF SendDbDat, TypeOK, outer, main

LEMMA NextTypes ==
  ASSUME TypeOK, [Next]_vars PROVE TypeOK'
<1>1. CASE UNCHANGED vars
  BY <1>1 DEF vars, outer, main, data, TypeOK
<1>2. ASSUME NEW m \in Dev, Receive(m) PROVE TypeOK'
  BY <1>2 DEF Receive, TypeOK, main, data
<1>3. ASSUME NEW m \in Dev, GoOut(m) PROVE TypeOK'
  BY <1>3, DataCollectorAssumption DEF GoOut, TypeOK, main, data
<1>4. ASSUME NEW m \in Dev, HeadRez(m) PROVE TypeOK'
  BY <1>4 DEF HeadRez, TypeOK, data
<1>5. CASE Restart
  <2>1. [r \in Reg |-> Zero] \in [Reg -> Val]
    BY DataCollectorAssumption
  <2> QED
    BY <1>5, <2>1, NoneIsRows, DataCollectorAssumption DEF Restart, TypeOK, data
<1>6. CASE Run
  <2>1. CASE UNCHANGED <<data, actData>>
    BY <1>6, <2>1 DEF Run, TypeOK, outer, main, data
  <2>2. CASE ~UNCHANGED <<data, actData>>
    <3>1. /\ opdat' = [m \in Dev |-> None]
          /\ hist' = [m \in Dev |-> [r \in Reg |-> {}]]
          /\ act' = [m \in Dev |-> "0"]
          /\ actData' = [m \in Dev |-> FALSE]
      BY <1>6, <2>2 DEF Run
    <3>2. opdat' \in [Dev -> Rows]
      BY <3>1, NoneIsRows
    <3>3. hist' \in [Dev -> [Reg -> SUBSET {"recent", "old"}]]
      BY <3>1
    <3> QED
      BY <1>6, <3>1, <3>2, <3>3 DEF Run, TypeOK, outer, main
  <2> QED
    BY <2>1, <2>2
<1>7. CASE SetData
  BY <1>7 DEF SetData, TypeOK, outer, main, data
<1>8. CASE ClearHistT
  <2>1. hist' \in [Dev -> [Reg -> SUBSET {"recent", "old"}]]
    <3>1. CASE UNCHANGED hist
      BY <3>1 DEF TypeOK
    <3>2. CASE ~UNCHANGED hist
      <4>1. hist' = [m \in Dev |-> [r \in Reg |->
                      IF hist[m][r] \subseteq {"old"} /\ r \in DOMAIN opdat[m] /\ HasOld
                      THEN {"recent"} ELSE hist[m][r] \ {"old"}]]
        BY <1>8, <3>2 DEF ClearHistT
      <4>2. \A m \in Dev, r \in Reg : hist[m][r] \ {"old"} \in SUBSET {"recent", "old"}
        BY DEF TypeOK
      <4> QED
        BY <4>1, <4>2
    <3> QED
      BY <3>1, <3>2
  <2> QED
    BY <1>8, <2>1 DEF ClearHistT, TypeOK, outer, main
<1>9. CASE Halt
  BY <1>9 DEF Halt, TypeOK, outer, main
<1>10. CASE Age
  BY <1>10 DEF Age, TypeOK, outer, main
<1>11. CASE LoseTables
  BY <1>11, NoneIsRows DEF LoseTables, TypeOK, outer, main
<1> QED
  BY <1>1, <1>2, <1>3, <1>4, <1>5, <1>6, <1>7, <1>8, <1>9, <1>10, <1>11,
     SlotTypes, SendQuryTypes, GetListDataTypes, SendDbDatTypes DEF Next, DbThread

-----------------------------------------------------------------------------
(* The history.  A row of opdat only comes to be by an insertion, and its  *)
(* trigger writes to hidat; clearing writes again what it has taken away.  *)

LEMMA ExecuteCovers ==
  ASSUME TypeOK, HistoryCovers, NEW st \in Statement, Execute(st)
  PROVE  HistoryCovers'
<1>1. st.dev \in Dev /\ st.rows \in Rows
  BY DEF Statement
<1>2. CASE st.op = "delete"
  BY <1>1, <1>2 DEF Execute, TypeOK, HistoryCovers, None
<1>3. CASE st.op # "delete"
  <2> DEFINE old == opdat[st.dev]
             new(S) == [r \in DOMAIN old \cup S |-> IF r \in S THEN st.rows[r] ELSE old[r]]
  <2>1. PICK S \in Inserted(old, st.rows) :
          /\ opdat' = [opdat EXCEPT ![st.dev] = new(S)]
          /\ hist' = Recorded(hist, st.dev, S)
    BY <1>3 DEF Execute
  <2>2. old \in Rows /\ S \subseteq DOMAIN st.rows
    BY <1>1 DEF TypeOK, Inserted
  <2>3. S \subseteq Reg /\ DOMAIN old \subseteq Reg
    BY <1>1, <2>2, RowsOnRegisters
  <2>4. ASSUME NEW m \in Dev, NEW r \in DOMAIN opdat'[m]
        PROVE  hist'[m][r] # {}
    <3>1. CASE m = st.dev
      <4>1. opdat'[m] = new(S)
        BY <2>1, <3>1 DEF TypeOK
      <4>2. r \in DOMAIN old \cup S /\ r \in Reg
        BY <2>3, <4>1
      <4>3. hist'[m][r] = hist[m][r] \cup IF r \in S THEN {"recent"} ELSE {}
        BY <2>1, <3>1, <4>2 DEF Recorded, TypeOK
      <4>4. r \in DOMAIN old => hist[m][r] # {}
        BY <3>1 DEF HistoryCovers
      <4> QED
        BY <4>2, <4>3, <4>4
    <3>2. CASE m # st.dev
      BY <2>1, <3>2 DEF TypeOK, HistoryCovers, Recorded
    <3> QED
      BY <3>1, <3>2
  <2> QED
    BY <2>4 DEF HistoryCovers
<1> QED
  BY <1>2, <1>3

LEMMA NextCovers ==
  ASSUME TypeOK, HistoryCovers, [Next]_vars PROVE HistoryCovers'
<1>1. CASE UNCHANGED <<opdat, hist>>
  BY <1>1 DEF HistoryCovers
<1>2. CASE Run
  BY <1>2 DEF Run, HistoryCovers, None, data
<1>3. CASE SendQury
  <2>1. CASE queue = <<>>
    BY <1>1, <1>3, <2>1 DEF SendQury
  <2>2. CASE queue # <<>>
    <3>1. Head(queue) \in Statement
      BY <2>2 DEF TypeOK
    <3> QED
      BY <1>1, <1>3, <2>2, <3>1, ExecuteCovers DEF SendQury
  <2> QED
    BY <2>1, <2>2
<1>4. CASE SendDbDat
  <2>1. PICK done \in SUBSET changes :
          /\ opdat' = Updated(Hit(done))
          /\ hist' = [m \in Dev |-> [r \in Reg |->
               hist[m][r] \cup IF <<m, r>> \in Places(Hit(done)) THEN {"recent"} ELSE {}]]
    BY <1>4 DEF SendDbDat
  <2>2. Hit(done) \subseteq changes
    BY DEF Hit
  <2>3. ASSUME NEW m \in Dev, NEW r \in DOMAIN opdat'[m]
        PROVE  hist'[m][r] # {}
    <3>1. r \in DOMAIN opdat[m]
      BY <2>1, <2>2, UpdatedProperties
    <3>2. opdat[m] \in Rows
      BY DEF TypeOK
    <3>3. r \in Reg
      BY <3>1, <3>2, RowsOnRegisters
    <3>4. hist[m][r] # {}
      BY <3>1 DEF HistoryCovers
    <3> QED
      BY <2>1, <3>3, <3>4
  <2> QED
    BY <2>3 DEF HistoryCovers
<1>5. CASE ClearHistT
  <2>1. CASE UNCHANGED hist
    BY <1>1, <1>5, <2>1 DEF ClearHistT
  <2>2. CASE ~UNCHANGED hist
    <3>1. /\ opdat' = opdat
          /\ hist' = [m \in Dev |-> [r \in Reg |->
               IF hist[m][r] \subseteq {"old"} /\ r \in DOMAIN opdat[m] /\ HasOld
               THEN {"recent"} ELSE hist[m][r] \ {"old"}]]
      BY <1>5, <2>2 DEF ClearHistT
    <3>2. ASSUME NEW m \in Dev, NEW r \in DOMAIN opdat[m]
          PROVE  hist'[m][r] # {}
      <4>1. opdat[m] \in Rows
        BY DEF TypeOK
      <4>2. r \in Reg
        BY <4>1, RowsOnRegisters
      <4>3. hist[m][r] # {} /\ hist[m][r] \subseteq {"recent", "old"}
        BY <4>2 DEF HistoryCovers, TypeOK
      <4>4. CASE hist[m][r] \subseteq {"old"}
        <5>1. HasOld
          BY <4>2, <4>3, <4>4 DEF HasOld
        <5> QED
          BY <3>1, <4>2, <4>4, <5>1
      <4>5. CASE ~(hist[m][r] \subseteq {"old"})
        BY <3>1, <4>2, <4>5
      <4> QED
        BY <4>4, <4>5
    <3> QED
      BY <3>1, <3>2 DEF HistoryCovers
  <2> QED
    BY <2>1, <2>2
<1>6. CASE Age
  <2>1. PICK m \in Dev, r \in Reg : hist' = [hist EXCEPT ![m][r] = {"old"}] /\ opdat' = opdat
    BY <1>6 DEF Age
  <2>2. ASSUME NEW n \in Dev, NEW q \in DOMAIN opdat[n]
        PROVE  hist'[n][q] # {}
    <3>1. opdat[n] \in Rows
      BY DEF TypeOK
    <3>2. q \in Reg /\ hist[n][q] # {}
      BY <3>1, RowsOnRegisters DEF HistoryCovers
    <3> QED
      BY <2>1, <3>2 DEF TypeOK
  <2> QED
    BY <2>1, <2>2 DEF HistoryCovers
<1>7. CASE LoseTables
  BY <1>7 DEF LoseTables, HistoryCovers, None
<1>8. CASE \/ \E m \in Dev : Receive(m) \/ GoOut(m) \/ HeadRez(m)
           \/ Slot \/ Restart \/ SetData \/ GetListData \/ Halt \/ UNCHANGED vars
  BY <1>1, <1>8 DEF Receive, GoOut, HeadRez, Slot, Restart, SetData, GetListData, Halt,
     vars, data
<1> QED
  BY <1>2, <1>3, <1>4, <1>5, <1>6, <1>7, <1>8 DEF Next, DbThread

(* In all behaviours: the variables have their types. *)
THEOREM TypeCorrect == Spec => []TypeOK
BY InitTypes, NextTypes, PTL DEF Spec

(* In all behaviours: no register has a present value and no history       *)
(* (DBTable triggers and clear_proc).                                      *)
THEOREM HistoryAlwaysCovers == Spec => []HistoryCovers
<1>1. Init => TypeOK /\ HistoryCovers
  <2>1. Init => HistoryCovers
    BY DEF Init, HistoryCovers, None
  <2> QED
    BY <2>1, InitTypes
<1>2. TypeOK /\ HistoryCovers /\ [Next]_vars => (TypeOK /\ HistoryCovers)'
  BY NextTypes, NextCovers
<1> QED
  BY <1>1, <1>2, PTL DEF Spec

-----------------------------------------------------------------------------
(* The tables and memDat.  TablesFollowMemory says nothing of what is      *)
(* under way, so that no step follows from it; the invariant says where    *)
(* the value of memDat is to be found: in the last statement of the queue  *)
(* about the device, right behind the one that clears its rows, or else in *)
(* the row or in an update found by the comparison.                        *)

Coming(m, r, i) ==
  /\ queue[i].op = "insert" /\ queue[i].dev = m
  /\ r \in DOMAIN queue[i].rows /\ queue[i].rows[r] = memDat[m][r]
  /\ \A j \in 1 .. Len(queue) : j > i => queue[j].dev # m
  /\ IF i = 1 THEN opdat[m] = None
     ELSE queue[i - 1].op = "delete" /\ queue[i - 1].dev = m

Settled(m, r) ==
  IF Queued(m) THEN \E i \in 1 .. Len(queue) : Coming(m, r, i)
  ELSE /\ r \in DOMAIN opdat[m]
       /\ opdat[m][r] = memDat[m][r] \/ <<m, r>> \in Places(changes)

RegistersFollow ==
  \A m \in Dev : \A r \in DOMAIN memDat[m] : <<m, r>> \notin astray => Settled(m, r)

(* Updates are known to memDat, except for a device listed since.          *)
ChangesKnown ==
  /\ pc # "update" => changes = {}
  /\ \A c \in changes :
       ~Queued(c.dev) => c.reg \in DOMAIN memDat[c.dev] /\ memDat[c.dev][c.reg] = c.val

(* Before the tables are made, what is known of a device is in the queue.  *)
NothingBeforeRun == pc = "run" => \A m \in Dev : ~Queued(m) => memDat[m] = None

StatusFollows ==
  pc \notin {"run", "ended", "halted"} =>
    \A m \in Dev : <<m, "status">> \notin astray => act[m] = State(actData[m])

TablesInv ==
  /\ TypeOK
  /\ RegistersFollow
  /\ ChangesKnown
  /\ NothingBeforeRun
  /\ StatusFollows

LEMMA TablesInvSuffices ==
  ASSUME TablesInv PROVE TablesFollowMemory
BY DEF TablesInv, RegistersFollow, ChangesKnown, StatusFollows, TablesFollowMemory,
   Settled, Places

LEMMA InitTablesInv ==
  ASSUME Init PROVE TablesInv
<1>1. RegistersFollow /\ ChangesKnown /\ NothingBeforeRun /\ StatusFollows
  BY DEF Init, RegistersFollow, ChangesKnown, NothingBeforeRun, StatusFollows, None
<1> QED
  BY <1>1, InitTypes DEF TablesInv

(* A step that touches none of this, but for signs of trouble.             *)
LEMMA QuietTablesInv ==
  ASSUME TablesInv, TypeOK',
         UNCHANGED <<queue, memDat, opdat, changes>>,
         astray \subseteq astray',
         pc' # pc => pc # "update" /\ pc' \notin {"update", "run"}
  PROVE  RegistersFollow' /\ ChangesKnown' /\ NothingBeforeRun'
<1>1. RegistersFollow'
  BY DEF TablesInv, RegistersFollow, Settled, Coming, Queued, Places
<1>2. ChangesKnown'
  BY DEF TablesInv, ChangesKnown, Queued
<1>3. NothingBeforeRun'
  BY DEF TablesInv, NothingBeforeRun, Queued
<1> QED
  BY <1>1, <1>2, <1>3

-----------------------------------------------------------------------------
(* Listings. *)

LEMMA QueueGrows ==
  ASSUME TypeOK, NEW m \in Dev, NEW f \in Rows, queue' = queue \o Listing(m, f)
  PROVE  /\ \A i \in 1 .. Len(queue) : queue'[i] = queue[i]
         /\ \A i \in 1 .. Len(queue') : i > Len(queue) => queue'[i].dev = m
         /\ Len(queue') \in Nat /\ Len(queue) \in Nat /\ Len(queue') > Len(queue)
         /\ \E i \in 1 .. Len(queue') : queue'[i].dev = m
         /\ f # None =>
              /\ Len(queue') = Len(queue) + 2
              /\ queue'[Len(queue) + 1].op = "delete"
              /\ queue'[Len(queue) + 2] = [op |-> "insert", dev |-> m, rows |-> f]
<1> DEFINE l == Listing(m, f)
           n == Len(queue)
<1>0. /\ l \in Seq(Statement)
      /\ Len(l) = IF f = None THEN 1 ELSE 2
      /\ l[1] = [op |-> "delete", dev |-> m, rows |-> None]
      /\ f # None => l[2] = [op |-> "insert", dev |-> m, rows |-> f]
  <2> HIDE DEF l
  <2>1. l = Listing(m, f)
    BY DEF l
  <2> QED
    BY <2>1, ListingShape, Zenon
<1>1. l \in Seq(Statement) /\ queue \in Seq(Statement) /\ n \in Nat
  BY <1>0 DEF TypeOK
<1>2. /\ l[1].op = "delete" /\ l[1].dev = m
      /\ f # None => l[2] = [op |-> "insert", dev |-> m, rows |-> f]
      /\ Len(l) = IF f = None THEN 1 ELSE 2
  <2> HIDE DEF l
  <2> QED
    BY <1>0
<1>3. f # None => l[2].dev = m
  BY <1>2
<1> HIDE DEF l
<1>4. /\ Len(queue \o l) = n + Len(l)
      /\ \A i \in 1 .. n : (queue \o l)[i] = queue[i]
      /\ \A i \in 1 .. Len(l) : (queue \o l)[n + i] = l[i]
  BY <1>1
<1>5. queue' = queue \o l
  BY DEF l
<1>6. ASSUME NEW i \in 1 .. Len(queue'), i > n
      PROVE  queue'[i].dev = m
  <2>1. i - n \in 1 .. Len(l) /\ i = n + (i - n)
    BY <1>1, <1>2, <1>4, <1>5, <1>6
  <2>2. queue'[i] = l[i - n]
    BY <1>4, <1>5, <2>1
  <2>3. i - n = 1 \/ (i - n = 2 /\ f # None)
    BY <2>1, <1>2
  <2> QED
    BY <2>2, <2>3, <1>2, <1>3
<1>7. n + 1 \in 1 .. Len(queue') /\ Len(queue') > n /\ Len(queue') \in Nat
  BY <1>1, <1>2, <1>4, <1>5
<1>8. queue'[n + 1].op = "delete" /\ queue'[n + 1].dev = m
  <2>1. 1 \in 1 .. Len(l)
    BY <1>2
  <2> QED
    BY <1>2, <1>4, <1>5, <2>1
<1>9. f # None => /\ Len(queue') = n + 2
                  /\ queue'[n + 2] = [op |-> "insert", dev |-> m, rows |-> f]
  BY <1>1, <1>2, <1>4, <1>5
<1> QED
  BY <1>1, <1>4, <1>5, <1>6, <1>7, <1>8, <1>9

(* A listing leaves what is known of the other devices as it is.           *)
LEMMA ListingOfAnother ==
  ASSUME TypeOK, NEW m \in Dev, NEW f \in Rows, queue' = queue \o Listing(m, f),
         NEW n \in Dev, n # m, memDat'[n] = memDat[n], opdat' = opdat,
         NEW r, Settled(n, r),
         <<n, r>> \in Places(changes) => <<n, r>> \in Places(changes')
  PROVE  Settled(n, r)'
<1>1. /\ \A i \in 1 .. Len(queue) : queue'[i] = queue[i]
      /\ \A i \in 1 .. Len(queue') : i > Len(queue) => queue'[i].dev = m
      /\ Len(queue') \in Nat /\ Len(queue) \in Nat /\ Len(queue') > Len(queue)
  BY QueueGrows
<1>2. Queued(n)' <=> Queued(n)
  BY <1>1 DEF Queued
<1>3. CASE Queued(n)
  <2>1. PICK i \in 1 .. Len(queue) : Coming(n, r, i)
    BY <1>3 DEF Settled
  <2>2. i \in 1 .. Len(queue') /\ queue'[i] = queue[i] /\ (i # 1 => queue'[i - 1] = queue[i - 1])
    BY <1>1
  <2>3. \A j \in 1 .. Len(queue') : j > i => queue'[j].dev # n
    BY <1>1, <2>1 DEF Coming
  <2>4. Coming(n, r, i)'
    BY <2>1, <2>2, <2>3 DEF Coming
  <2> QED
    BY <1>2, <1>3, <2>2, <2>4 DEF Settled
<1>4. CASE ~Queued(n)
  BY <1>2, <1>4 DEF Settled
<1> QED
  BY <1>3, <1>4

LEMMA SlotTablesInv ==
  ASSUME TablesInv, Slot PROVE TablesInv'
<1>1. TypeOK /\ TypeOK'
  BY SlotTypes DEF TablesInv
<1>2. PICK m \in Dev : m = Head(posted)
  BY <1>1 DEF Slot, TypeOK
<1>3. PICK f \in Rows : f = [r \in dyn[m] |-> mirror[m][r]]
  BY <1>1, <1>2, MirrorRows
<1>4. /\ memDat' = [memDat EXCEPT ![m] = f] /\ memDat'[m] = f
      /\ \A n \in Dev : n # m => memDat'[n] = memDat[n]
  BY <1>1, <1>2, <1>3 DEF Slot, GenDataList, GenDataListTorn, TypeOK
<1>5. UNCHANGED <<pc, opdat, act, actData>>
  BY DEF Slot, data
<1>6. PICK g \in Rows : queue' = queue \o Listing(m, g) /\ (GenDataList(m) => g = f)
  <2>1. CASE GenDataList(m)
    BY <1>3, <2>1 DEF GenDataList
  <2>2. CASE ~GenDataList(m)
    <3>1. GenDataListTorn(m)
      BY <1>2, <2>2 DEF Slot
    <3>2. PICK S \in SUBSET dyn[m] : queue' = queue \o Listing(m, [r \in S |-> mirror[m][r]])
      BY <3>1 DEF GenDataListTorn
    <3>3. [r \in S |-> mirror[m][r]] \in Rows
      BY <1>1, <1>2, MirrorRows
    <3> QED
      BY <2>2, <3>2, <3>3
  <2> QED
    BY <2>1, <2>2
<1>7. /\ \A i \in 1 .. Len(queue) : queue'[i] = queue[i]
      /\ \A i \in 1 .. Len(queue') : i > Len(queue) => queue'[i].dev = m
      /\ Len(queue') \in Nat /\ Len(queue) \in Nat /\ Len(queue') > Len(queue)
      /\ \E i \in 1 .. Len(queue') : queue'[i].dev = m
      /\ g # None =>
           /\ Len(queue') = Len(queue) + 2
           /\ queue'[Len(queue) + 1].op = "delete"
           /\ queue'[Len(queue) + 2] = [op |-> "insert", dev |-> m, rows |-> g]
  BY <1>1, <1>2, <1>6, QueueGrows
<1>8. Queued(m)' /\ \A n \in Dev : n # m => (Queued(n)' <=> Queued(n))
  <2>1. Queued(m)'
    BY <1>7 DEF Queued
  <2>2. ASSUME NEW n \in Dev, n # m PROVE Queued(n)' <=> Queued(n)
    BY <1>7, <2>2 DEF Queued
  <2> QED
    BY <2>1, <2>2
<1>9. GenDataList(m) \/ GenDataListTorn(m)
  BY <1>2 DEF Slot
<1>10. RegistersFollow'
  <2>1. ASSUME NEW n \in Dev, NEW r \in DOMAIN memDat'[n], <<n, r>> \notin astray', n # m
        PROVE  Settled(n, r)'
    <3>1. /\ <<n, r>> \notin astray
          /\ <<n, r>> \in Places(changes) => <<n, r>> \in Places(changes')
      BY <1>9, <2>1 DEF GenDataList, GenDataListTorn, Registers, Places
    <3>2. Settled(n, r)
      BY <1>4, <2>1, <3>1 DEF TablesInv, RegistersFollow
    <3> QED
      BY <1>1, <1>2, <1>4, <1>5, <1>6, <2>1, <3>1, <3>2, ListingOfAnother
  <2>2. ASSUME NEW r \in DOMAIN memDat'[m], <<m, r>> \notin astray'
        PROVE  Settled(m, r)'
    <3>1. r \in Reg /\ r \in DOMAIN f
      BY <1>3, <1>4, <2>2, RowsOnRegisters
    <3>2. ~GenDataListTorn(m)
      BY <2>2, <3>1 DEF GenDataListTorn, Registers
    <3>3. g = f /\ g # None
      BY <1>6, <1>9, <3>1, <3>2 DEF None
    <3>4. PICK i \in 1 .. Len(queue') : i = Len(queue) + 2
      BY <1>7, <3>3
    <3>5. Coming(m, r, i)'
      <4>1. queue'[i].op = "insert" /\ queue'[i].dev = m /\ queue'[i].rows = f
        BY <1>7, <3>3, <3>4
      <4>2. i # 1 /\ i - 1 = Len(queue) + 1
        BY <1>7, <3>4
      <4>3. queue'[i - 1].op = "delete" /\ queue'[i - 1].dev = m
        BY <1>7, <3>3, <4>2
      <4>4. \A j \in 1 .. Len(queue') : ~(j > i)
        BY <1>7, <3>3, <3>4
      <4>5. f[r] = memDat'[m][r]
        BY <1>4
      <4> QED
        BY <3>1, <4>1, <4>2, <4>3, <4>4, <4>5 DEF Coming
    <3> QED
      BY <1>8, <3>4, <3>5 DEF Settled
  <2> QED
    BY <1>2, <2>1, <2>2 DEF RegistersFollow
<1>11. ChangesKnown'
  <2>1. changes' \subseteq changes
    BY <1>9 DEF GenDataList, GenDataListTorn
  <2>2. ASSUME NEW c \in changes', ~Queued(c.dev)'
        PROVE  c.reg \in DOMAIN memDat'[c.dev] /\ memDat'[c.dev][c.reg] = c.val
    <3>1. c \in changes /\ c.dev \in Dev
      BY <1>1, <2>1 DEF TypeOK, Change
    <3>2. c.dev # m /\ ~Queued(c.dev)
      BY <1>8, <2>2, <3>1
    <3> QED
      BY <1>4, <3>1, <3>2 DEF TablesInv, ChangesKnown
  <2> QED
    BY <1>5, <2>1, <2>2 DEF TablesInv, ChangesKnown
<1>12. NothingBeforeRun'
  BY <1>4, <1>5, <1>8 DEF TablesInv, NothingBeforeRun
<1>13. StatusFollows'
  <2>1. \A n \in Dev : <<n, "status">> \in astray => <<n, "status">> \in astray'
    BY <1>9, DataCollectorAssumption DEF GenDataList, GenDataListTorn, Registers
  <2> QED
    BY <1>5, <2>1 DEF TablesInv, StatusFollows
<1> QED
  BY <1>1, <1>10, <1>11, <1>12, <1>13 DEF TablesInv

-----------------------------------------------------------------------------
(* The database thread. *)

LEMMA QueueShrinks ==
  ASSUME TypeOK, queue # <<>>, queue' = Tail(queue)
  PROVE  /\ Len(queue') = Len(queue) - 1 /\ Len(queue) \in Nat /\ Len(queue) >= 1
         /\ \A i \in 1 .. Len(queue') : queue'[i] = queue[i + 1]
         /\ Head(queue) = queue[1] /\ Head(queue) \in Statement
BY DEF TypeOK

(* Carrying out a statement touches only its device.                       *)
LEMMA ExecuteOthers ==
  ASSUME TypeOK, NEW st \in Statement, Execute(st), NEW m \in Dev, m # st.dev
  PROVE  opdat'[m] = opdat[m]
BY DEF Execute, TypeOK, Statement

LEMMA ExecuteDelete ==
  ASSUME TypeOK, NEW st \in Statement, Execute(st), st.op = "delete"
  PROVE  opdat'[st.dev] = None
BY DEF Execute, TypeOK, Statement

(* An insertion into a device without rows puts in all of them.            *)
LEMMA ExecuteInsert ==
  ASSUME TypeOK, NEW st \in Statement, Execute(st), st.op = "insert",
         opdat[st.dev] = None, NEW r \in DOMAIN st.rows
  PROVE  r \in DOMAIN opdat'[st.dev] /\ opdat'[st.dev][r] = st.rows[r]
<1>1. st.dev \in Dev
  BY DEF Statement
<1> DEFINE old == opdat[st.dev]
           new(S) == [q \in DOMAIN old \cup S |-> IF q \in S THEN st.rows[q] ELSE old[q]]
<1>2. PICK S \in Inserted(old, st.rows) : opdat' = [opdat EXCEPT ![st.dev] = new(S)]
  BY DEF Execute
<1>3. DOMAIN old = {}
  BY DEF None
<1>4. S = DOMAIN st.rows
  BY <1>2, <1>3 DEF Inserted
<1>5. opdat'[st.dev] = new(S)
  BY <1>1, <1>2 DEF TypeOK
<1> QED
  BY <1>4, <1>5

(* What is settled stays so when the first statement is carried out.       *)
LEMMA SettledThere ==
  ASSUME TypeOK, queue # <<>>, queue' = Tail(queue), Execute(Head(queue)),
         memDat' = memDat, changes' = changes,
         NEW m \in Dev, NEW r, Settled(m, r)
  PROVE  Settled(m, r)'
<1>1. /\ Len(queue') = Len(queue) - 1 /\ Len(queue) \in Nat /\ Len(queue) >= 1
      /\ \A i \in 1 .. Len(queue') : queue'[i] = queue[i + 1]
      /\ Head(queue) = queue[1]
  BY QueueShrinks
<1>2. PICK st \in Statement : st = Head(queue)
  BY QueueShrinks
<1>3. Execute(st)
  BY <1>2
<1>4. CASE ~Queued(m)
  <2>1. ~Queued(m)'
    BY <1>1, <1>4 DEF Queued
  <2>2. m # st.dev
    BY <1>1, <1>2, <1>4 DEF Queued
  <2>3. opdat'[m] = opdat[m]
    BY <1>3, <2>2, ExecuteOthers
  <2> QED
    BY <1>4, <2>1, <2>3 DEF Settled
<1>5. CASE Queued(m)
  <2>1. PICK i \in 1 .. Len(queue) : Coming(m, r, i)
    BY <1>5 DEF Settled
  <2>2. CASE i = 1
    <3>1. ~Queued(m)'
      <4>1. \A j \in 1 .. Len(queue') : j + 1 \in 1 .. Len(queue) /\ j + 1 > 1
        BY <1>1
      <4> QED
        BY <1>1, <2>1, <2>2, <4>1 DEF Queued, Coming
    <3>2. /\ st.op = "insert" /\ st.dev = m /\ r \in DOMAIN st.rows
          /\ st.rows[r] = memDat[m][r] /\ opdat[m] = None
      BY <1>1, <1>2, <2>1, <2>2 DEF Coming
    <3>3. r \in DOMAIN opdat'[m] /\ opdat'[m][r] = memDat[m][r]
      BY <1>3, <3>2, ExecuteInsert
    <3> QED
      BY <3>1, <3>3 DEF Settled
  <2>3. CASE i # 1
    <3>1. PICK k \in 1 .. Len(queue') : k = i - 1
      BY <1>1, <2>1, <2>3
    <3>2. queue'[k] = queue[i] /\ (k # 1 => queue'[k - 1] = queue[i - 1])
      BY <1>1, <3>1
    <3>3. \A j \in 1 .. Len(queue') : j > k => queue'[j].dev # m
      <4>1. ASSUME NEW j \in 1 .. Len(queue'), j > k
            PROVE  queue'[j] = queue[j + 1] /\ j + 1 \in 1 .. Len(queue) /\ j + 1 > i
        BY <1>1, <3>1, <4>1
      <4> QED
        BY <2>1, <4>1 DEF Coming
    <3>4. k = 1 => opdat'[m] = None
      <4>1. ASSUME k = 1
            PROVE  st.op = "delete" /\ st.dev = m
        BY <1>1, <1>2, <2>1, <2>3, <3>1, <4>1 DEF Coming
      <4> QED
        BY <1>3, <4>1, ExecuteDelete
    <3>5. k # 1 => queue'[k - 1].op = "delete" /\ queue'[k - 1].dev = m
      BY <2>1, <2>3, <3>2 DEF Coming
    <3>6. Coming(m, r, k)'
      BY <2>1, <3>2, <3>3, <3>4, <3>5 DEF Coming
    <3>7. Queued(m)'
      BY <3>6 DEF Queued, Coming
    <3> QED
      BY <3>6, <3>7 DEF Settled
  <2> QED
    BY <2>2, <2>3
<1> QED
  BY <1>4, <1>5

(* What is settled of another device stays so when it fails.               *)
LEMMA SettledBehind ==
  ASSUME TypeOK, queue # <<>>, queue' = Tail(queue), opdat' = opdat,
         memDat' = memDat, changes' = changes,
         NEW m \in Dev, m # Head(queue).dev, NEW r, Settled(m, r)
  PROVE  Settled(m, r)'
<1>1. /\ Len(queue') = Len(queue) - 1 /\ Len(queue) \in Nat /\ Len(queue) >= 1
      /\ \A i \in 1 .. Len(queue') : queue'[i] = queue[i + 1]
      /\ Head(queue) = queue[1]
  BY QueueShrinks
<1>2. CASE ~Queued(m)
  <2>1. ~Queued(m)'
    BY <1>1, <1>2 DEF Queued
  <2> QED
    BY <1>2, <2>1 DEF Settled
<1>3. CASE Queued(m)
  <2>1. PICK i \in 1 .. Len(queue) : Coming(m, r, i)
    BY <1>3 DEF Settled
  <2>2. i # 1 /\ i # 2
    BY <1>1, <2>1 DEF Coming
  <2>3. PICK k \in 1 .. Len(queue') : k = i - 1
    BY <1>1, <2>1, <2>2
  <2>4. queue'[k] = queue[i] /\ k # 1 /\ queue'[k - 1] = queue[i - 1]
    BY <1>1, <2>2, <2>3
  <2>5. \A j \in 1 .. Len(queue') : j > k => queue'[j].dev # m
    <3>1. ASSUME NEW j \in 1 .. Len(queue'), j > k
          PROVE  queue'[j] = queue[j + 1] /\ j + 1 \in 1 .. Len(queue) /\ j + 1 > i
      BY <1>1, <2>3, <3>1
    <3> QED
      BY <2>1, <3>1 DEF Coming
  <2>6. Coming(m, r, k)'
    BY <2>1, <2>2, <2>4, <2>5 DEF Coming
  <2>7. Queued(m)'
    BY <2>6 DEF Queued, Coming
  <2> QED
    BY <2>6, <2>7 DEF Settled
<1> QED
  BY <1>2, <1>3

LEMMA SendQuryTablesInv ==
  ASSUME TablesInv, SendQury PROVE TablesInv'
<1>1. TypeOK /\ TypeOK' /\ changes = {} /\ pc = "sendQury"
  BY SendQuryTypes DEF TablesInv, ChangesKnown, SendQury
<1>2. UNCHANGED <<memDat, changes, act, actData>>
  BY DEF SendQury
<1>3. pc' \in {"sendQury", "getListData"}
  BY <1>1 DEF SendQury
<1>4. \A m \in Dev : <<m, "status">> \in astray <=> <<m, "status">> \in astray'
  <2>1. astray' = astray \/ astray' = astray \cup Registers(Head(queue).dev)
    BY DEF SendQury
  <2> QED
    BY <2>1, DataCollectorAssumption DEF Registers
<1>5. ChangesKnown' /\ NothingBeforeRun' /\ StatusFollows'
  BY <1>1, <1>2, <1>3, <1>4 DEF TablesInv, ChangesKnown, NothingBeforeRun, StatusFollows
<1>6. ASSUME NEW m \in Dev, NEW r \in DOMAIN memDat'[m], <<m, r>> \notin astray'
      PROVE  Settled(m, r)'
  <2>1. CASE queue = <<>>
    <3>1. UNCHANGED <<queue, opdat, astray>>
      BY <2>1 DEF SendQury
    <3>2. Settled(m, r)
      BY <1>2, <1>6, <3>1 DEF TablesInv, RegistersFollow
    <3> QED
      BY <1>2, <3>1, <3>2 DEF Settled, Coming, Queued, Places
  <2>2. CASE queue # <<>>
    <3>1. queue' = Tail(queue) /\ astray \subseteq astray'
      BY <2>2 DEF SendQury
    <3>2. Settled(m, r)
      BY <1>2, <1>6, <3>1 DEF TablesInv, RegistersFollow
    <3>3. CASE Execute(Head(queue))
      BY <1>1, <1>2, <2>2, <3>1, <3>2, <3>3, SettledThere
    <3>4. CASE opdat' = opdat /\ astray' = astray \cup Registers(Head(queue).dev)
      <4>1. memDat[m] \in Rows
        BY <1>1 DEF TypeOK
      <4>2. r \in Reg
        BY <1>2, <1>6, <4>1, RowsOnRegisters
      <4>3. m # Head(queue).dev
        BY <1>6, <3>4, <4>2 DEF Registers
      <4> QED
        BY <1>1, <1>2, <2>2, <3>1, <3>2, <3>4, <4>3, SettledBehind
    <3> QED
      BY <2>2, <3>3, <3>4 DEF SendQury
  <2> QED
    BY <2>1, <2>2
<1>7. RegistersFollow'
  BY <1>6 DEF RegistersFollow
<1> QED
  BY <1>1, <1>5, <1>7 DEF TablesInv

LEMMA GetListDataTablesInv ==
  ASSUME TablesInv, GetListData PROVE TablesInv'
<1>1. TypeOK /\ TypeOK' /\ changes = {} /\ pc = "getListData"
  BY GetListDataTypes DEF TablesInv, ChangesKnown, GetListData
<1>2. UNCHANGED <<queue, opdat, act, actData>>
  BY DEF GetListData, data
<1>3. pc' \in {"idle", "clearHistT", "update"}
  BY DEF GetListData
<1>4. NothingBeforeRun'
  BY <1>3 DEF NothingBeforeRun
<1>5. CASE UNCHANGED <<memDat, changes, astray>>
  <2>1. pc' # "run" /\ UNCHANGED <<queue, memDat, opdat, changes>> /\ astray \subseteq astray'
    BY <1>2, <1>3, <1>5
  <2>2. RegistersFollow'
    BY <1>1, <1>2, <1>5 DEF TablesInv, RegistersFollow, Settled, Coming, Queued, Places
  <2>3. ChangesKnown' /\ StatusFollows'
    BY <1>1, <1>2, <1>3, <1>5 DEF TablesInv, ChangesKnown, StatusFollows
  <2> QED
    BY <1>1, <1>4, <2>2, <2>3 DEF TablesInv
<1>6. CASE ~UNCHANGED <<memDat, changes, astray>>
  <2>1. /\ pc' = "update"
        /\ changes' = {[dev |-> c[1], reg |-> c[2], val |-> mirror[c[1]][c[2]]] :
                         c \in {d \in Dev \X Reg : d[2] \in Differing(d[1])}}
        /\ memDat' = [m \in Dev |->
                        [r \in DOMAIN memDat[m] |->
                           IF r \in Differing(m) THEN mirror[m][r] ELSE memDat[m][r]]]
        /\ astray' = astray \cup {c \in Dev \X Reg : /\ c[2] \in Differing(c[1])
                                                     /\ Queued(c[1])}
    BY <1>6 DEF GetListData
  <2>2. ASSUME NEW m \in Dev
        PROVE  DOMAIN memDat[m] \subseteq Reg /\ Differing(m) \subseteq DOMAIN memDat[m]
    <3>1. memDat[m] \in Rows
      BY <1>1 DEF TypeOK
    <3> QED
      BY <3>1, RowsOnRegisters DEF Differing
  <2>3. ASSUME NEW m \in Dev, NEW r \in Differing(m)
        PROVE  <<m, r>> \in Places(changes')
    <3>1. PICK c : c = [dev |-> m, reg |-> r, val |-> mirror[m][r]]
      OBVIOUS
    <3>2. <<m, r>> \in {d \in Dev \X Reg : d[2] \in Differing(d[1])}
      BY <2>2, <2>3
    <3>3. c \in changes'
      BY <2>1, <3>1, <3>2
    <3>4. c.dev = m /\ c.reg = r
      BY <3>1
    <3> QED
      BY <3>3, <3>4 DEF Places
  <2>4. ASSUME NEW m \in Dev, NEW r \in DOMAIN memDat'[m], <<m, r>> \notin astray'
        PROVE  Settled(m, r)'
    <3>1. r \in DOMAIN memDat[m] /\ r \in Reg
      BY <2>1, <2>2, <2>4
    <3>2. Settled(m, r)
      BY <2>1, <2>4, <3>1 DEF TablesInv, RegistersFollow
    <3>3. CASE Queued(m)
      <4>1. r \notin Differing(m)
        BY <2>1, <2>4, <3>1, <3>3
      <4>2. memDat'[m][r] = memDat[m][r]
        BY <2>1, <3>1, <4>1
      <4>3. PICK i \in 1 .. Len(queue) : Coming(m, r, i)
        BY <3>2, <3>3 DEF Settled
      <4>4. Coming(m, r, i)'
        BY <1>2, <4>2, <4>3 DEF Coming
      <4> QED
        BY <1>2, <3>3, <4>3, <4>4 DEF Settled, Queued
    <3>4. CASE ~Queued(m)
      <4>1. r \in DOMAIN opdat[m] /\ opdat[m][r] = memDat[m][r]
        BY <1>1, <3>2, <3>4 DEF Settled, Places
      <4>2. CASE r \in Differing(m)
        BY <1>2, <2>3, <3>4, <4>1, <4>2 DEF Settled, Queued
      <4>3. CASE r \notin Differing(m)
        <5>1. memDat'[m][r] = memDat[m][r]
          BY <2>1, <3>1, <4>3
        <5> QED
          BY <1>2, <3>4, <4>1, <5>1 DEF Settled, Queued
      <4> QED
        BY <4>2, <4>3
    <3> QED
      BY <3>3, <3>4
  <2>5. RegistersFollow'
    BY <2>4 DEF RegistersFollow
  <2>6. ASSUME NEW c \in changes'
        PROVE  c.reg \in DOMAIN memDat'[c.dev] /\ memDat'[c.dev][c.reg] = c.val
    <3>1. PICK m \in Dev, r \in Reg :
            r \in Differing(m) /\ c = [dev |-> m, reg |-> r, val |-> mirror[m][r]]
      BY <2>1, <2>6
    <3>2. r \in DOMAIN memDat[m]
      BY <2>2, <3>1
    <3>3. r \in DOMAIN memDat'[m] /\ memDat'[m][r] = mirror[m][r]
      BY <2>1, <3>1, <3>2
    <3> QED
      BY <3>1, <3>3
  <2>7. ChangesKnown'
    BY <2>1, <2>6 DEF ChangesKnown
  <2>8. StatusFollows'
    <3>1. \A m \in Dev : <<m, "status">> \in astray => <<m, "status">> \in astray'
      BY <2>1
    <3> QED
      BY <1>1, <1>2, <3>1 DEF TablesInv, StatusFollows
  <2> QED
    BY <1>1, <1>4, <2>5, <2>7, <2>8 DEF TablesInv
<1> QED
  BY <1>5, <1>6

(* The updates that hit bring the rows of their registers to memDat's.     *)
LEMMA SendDbDatTablesInv ==
  ASSUME TablesInv, SendDbDat PROVE TablesInv'
<1>1. TypeOK /\ TypeOK'
  BY SendDbDatTypes DEF TablesInv
<1>2. UNCHANGED <<queue, memDat>> /\ changes' = {} /\ actData' = dstatus
  BY DEF SendDbDat, main
<1>3. pc = "update" /\ pc' \in {"idle", "clearHistT"}
  BY DEF SendDbDat
<1>4. PICK done \in SUBSET changes, told \in SUBSET Told :
        /\ opdat' = Updated(Hit(done))
        /\ act' = [m \in Dev |-> IF m \in told /\ act[m] # "none"
                                THEN State(dstatus[m]) ELSE act[m]]
        /\ astray' = (astray \ (Places({c \in Hit(done) : ~Queued(c.dev)})
                                 \cup ({m \in told : act[m] # "none"} \X {"status"})))
                     \cup (Places(changes \ done) \cup ((Told \ told) \X {"status"}))
  BY DEF SendDbDat
<1> DEFINE hit == Hit(done)
<1>5. hit \subseteq done /\ hit \subseteq changes
  BY DEF Hit
<1>6. \A c \in hit : c.reg \in DOMAIN opdat[c.dev]
  BY DEF Hit
<1>7. \A m \in Dev : DOMAIN opdat'[m] = DOMAIN opdat[m]
  BY <1>1, <1>4, <1>5, UpdatedProperties
<1>8. \A c \in changes : c.dev \in Dev /\ c.reg \in Reg
  BY <1>1 DEF TypeOK, Change
<1>9. ASSUME NEW m \in Dev, NEW r \in DOMAIN opdat[m]
      PROVE  opdat'[m][r] = IF \E c \in hit : c.dev = m /\ c.reg = r
               THEN (CHOOSE c \in hit : c.dev = m /\ c.reg = r).val ELSE opdat[m][r]
  BY <1>4, <1>9 DEF Updated
<1> HIDE DEF hit
<1>10. ASSUME NEW m \in Dev, ~Queued(m), NEW c \in hit, c.dev = m
       PROVE  /\ c.reg \in DOMAIN opdat'[m] /\ opdat'[m][c.reg] = memDat[m][c.reg]
  <2> DEFINE d == CHOOSE d \in hit : d.dev = m /\ d.reg = c.reg
  <2>1. d \in hit /\ d.dev = m /\ d.reg = c.reg
    BY <1>10
  <2>2. memDat[m][c.reg] = d.val
    BY <1>5, <1>10, <2>1 DEF TablesInv, ChangesKnown
  <2>3. c.reg \in DOMAIN opdat[m]
    BY <1>6, <1>10
  <2>4. opdat'[m][c.reg] = d.val
    BY <1>9, <1>10, <2>3
  <2> QED
    BY <1>7, <2>2, <2>3, <2>4
<1>11. ASSUME NEW m \in Dev, NEW r \in DOMAIN memDat'[m], <<m, r>> \notin astray'
       PROVE  Settled(m, r)'
  <2>1. memDat[m] \in Rows
    BY <1>1 DEF TypeOK
  <2>2. r \in DOMAIN memDat[m] /\ r \in Reg /\ r # "status"
    BY <1>2, <1>11, <2>1, RowsOnRegisters, DataCollectorAssumption
  <2>3. <<m, r>> \notin Places(changes \ done)
    BY <1>4, <1>11
  <2>4. <<m, r>> \in astray => \E c \in hit : ~Queued(c.dev) /\ <<m, r>> = <<c.dev, c.reg>>
    BY <1>4, <1>11, <2>2 DEF Places, hit
  <2>5. CASE Queued(m)
    <3>1. <<m, r>> \notin astray
      BY <2>4, <2>5
    <3>2. Settled(m, r)
      BY <2>2, <3>1 DEF TablesInv, RegistersFollow
    <3>3. PICK i \in 1 .. Len(queue) : Coming(m, r, i)
      BY <2>5, <3>2 DEF Settled
    <3>4. opdat[m] = None => opdat'[m] = None
      <4>1. ASSUME opdat[m] = None PROVE opdat'[m] = None
        <5>1. DOMAIN opdat'[m] = {} /\ opdat'[m] \in Rows
          BY <1>1, <1>7, <4>1 DEF None, TypeOK
        <5>2. opdat'[m] \in [{} -> Val]
          BY <5>1, RowsOnRegisters
        <5> QED
          BY <5>2 DEF None
      <4> QED
        BY <4>1
    <3>5. Coming(m, r, i)'
      BY <1>2, <3>3, <3>4 DEF Coming
    <3> QED
      BY <1>2, <2>5, <3>3, <3>5 DEF Settled, Queued
  <2>6. CASE ~Queued(m)
    <3>1. CASE \E c \in hit : c.dev = m /\ c.reg = r
      BY <1>2, <1>10, <2>6, <3>1 DEF Settled, Queued
    <3>2. CASE ~\E c \in hit : c.dev = m /\ c.reg = r
      <4>1. <<m, r>> \notin astray
        BY <2>4, <3>2
      <4>2. Settled(m, r)
        BY <2>2, <4>1 DEF TablesInv, RegistersFollow
      <4>3. r \in DOMAIN opdat[m]
        BY <2>6, <4>2 DEF Settled
      <4>4. <<m, r>> \notin Places(changes)
        <5>1. ASSUME NEW c \in changes, c.dev = m, c.reg = r PROVE FALSE
          <6>1. c \in done
            BY <2>3, <5>1 DEF Places
          <6>2. c \in hit
            BY <4>3, <5>1, <6>1 DEF hit, Hit
          <6> QED
            BY <3>2, <5>1, <6>2
        <5> QED
          BY <5>1 DEF Places
      <4>5. opdat[m][r] = memDat[m][r]
        BY <2>6, <4>2, <4>4 DEF Settled
      <4>6. opdat'[m][r] = opdat[m][r]
        BY <1>9, <3>2, <4>3
      <4> QED
        BY <1>2, <1>7, <2>6, <4>3, <4>5, <4>6 DEF Settled, Queued
    <3> QED
      BY <3>1, <3>2
  <2> QED
    BY <2>5, <2>6
<1>12. RegistersFollow'
  BY <1>11 DEF RegistersFollow
<1>13. ChangesKnown' /\ NothingBeforeRun'
  BY <1>2, <1>3 DEF ChangesKnown, NothingBeforeRun
<1>14. StatusFollows'
  <2>1. ASSUME NEW m \in Dev, <<m, "status">> \notin astray'
        PROVE  act'[m] = State(actData'[m])
    <3>1. m \notin Told \ told
      BY <1>4, <2>1
    <3>2. <<m, "status">> \notin Places({c \in Hit(done) : ~Queued(c.dev)})
      BY <1>5, <1>8, DataCollectorAssumption DEF Places, hit
    <3>3. CASE m \in told /\ act[m] # "none"
      BY <1>2, <1>4, <3>3
    <3>4. CASE ~(m \in told /\ act[m] # "none")
      <4>1. <<m, "status">> \notin astray
        BY <1>4, <2>1, <3>2, <3>4
      <4>2. act[m] = State(actData[m])
        BY <1>3, <4>1 DEF TablesInv, StatusFollows
      <4>3. act[m] # "none"
        BY <4>2 DEF State
      <4>4. m \notin told /\ m \notin Told
        BY <3>1, <3>4, <4>3
      <4>5. actData'[m] = actData[m]
        BY <1>2, <4>4 DEF Told
      <4> QED
        BY <1>4, <4>2, <4>4, <4>5
    <3> QED
      BY <3>3, <3>4
  <2> QED
    BY <2>1 DEF StatusFollows
<1> QED
  BY <1>1, <1>12, <1>13, <1>14 DEF TablesInv

LEMMA RunTablesInv ==
  ASSUME TablesInv, Run PROVE TablesInv'
<1>1. TypeOK'
  BY NextTypes DEF TablesInv, Next, DbThread
<1>2. UNCHANGED <<queue, memDat, changes>> /\ pc = "run" /\ changes = {}
  BY DEF Run, main, TablesInv, ChangesKnown
<1>3. pc' \in {"idle", "ended"} /\ astray \subseteq astray'
  BY DEF Run
<1>4. \A m \in Dev : opdat'[m] = opdat[m] \/ opdat'[m] = None
  BY DEF Run, data
<1>5. ASSUME NEW m \in Dev, NEW r \in DOMAIN memDat'[m], <<m, r>> \notin astray'
      PROVE  Settled(m, r)'
  <2>1. r \in DOMAIN memDat[m] /\ <<m, r>> \notin astray
    BY <1>2, <1>3, <1>5
  <2>2. Settled(m, r) /\ memDat[m] # None
    BY <2>1 DEF TablesInv, RegistersFollow, None
  <2>3. Queued(m)
    BY <1>2, <2>2 DEF TablesInv, NothingBeforeRun
  <2>4. PICK i \in 1 .. Len(queue) : Coming(m, r, i)
    BY <2>2, <2>3 DEF Settled
  <2>5. Coming(m, r, i)'
    BY <1>2, <1>4, <2>4 DEF Coming
  <2> QED
    BY <1>2, <2>3, <2>4, <2>5 DEF Settled, Queued
<1>6. RegistersFollow'
  BY <1>5 DEF RegistersFollow
<1>7. ChangesKnown' /\ NothingBeforeRun'
  BY <1>2, <1>3 DEF ChangesKnown, NothingBeforeRun
<1>8. StatusFollows'
  BY DEF Run, StatusFollows, State
<1> QED
  BY <1>1, <1>6, <1>7, <1>8 DEF TablesInv

LEMMA NextTablesInv ==
  ASSUME TablesInv, [Next]_vars PROVE TablesInv'
<1>1. TypeOK'
  BY NextTypes DEF TablesInv
<1>2. CASE \/ \E m \in Dev : Receive(m) \/ GoOut(m) \/ HeadRez(m)
           \/ SetData \/ ClearHistT \/ Halt \/ Age \/ UNCHANGED vars
  <2>1. UNCHANGED <<queue, memDat, opdat, changes, astray>>
    BY <1>2 DEF Receive, GoOut, HeadRez, SetData, ClearHistT, Halt, Age, vars, main, data
  <2>2. pc' # pc => pc # "update" /\ pc' \notin {"update", "run"}
    BY <1>2 DEF Receive, GoOut, HeadRez, SetData, ClearHistT, Halt, Age, vars, main, data
  <2>3. pc' \in {"run", "ended", "halted"} \/
        (UNCHANGED <<act, actData>> /\ (pc \in {"run", "ended", "halted"} =>
                                          pc' \in {"run", "ended", "halted"}))
    BY <1>2 DEF Receive, GoOut, HeadRez, SetData, ClearHistT, Halt, Age, vars, main, data
  <2>4. StatusFollows'
    BY <2>1, <2>3 DEF TablesInv, StatusFollows
  <2> QED
    BY <1>1, <2>1, <2>2, <2>4, QuietTablesInv DEF TablesInv
<1>3. CASE Restart
  <2>1. RegistersFollow' /\ ChangesKnown' /\ NothingBeforeRun' /\ StatusFollows'
    BY <1>3 DEF Restart, RegistersFollow, ChangesKnown, NothingBeforeRun, StatusFollows, None
  <2> QED
    BY <1>1, <2>1 DEF TablesInv
<1>4. CASE LoseTables
  <2>1. UNCHANGED <<queue, memDat, changes, pc>> /\ astray' = Dev \X (Reg \cup {"status"})
    BY <1>4 DEF LoseTables, main
  <2>2. \A m \in Dev : DOMAIN memDat'[m] \subseteq Reg
    BY <1>1, RowsOnRegisters DEF TypeOK
  <2>3. RegistersFollow' /\ StatusFollows'
    BY <2>1, <2>2 DEF RegistersFollow, StatusFollows
  <2>4. ChangesKnown' /\ NothingBeforeRun'
    BY <2>1 DEF TablesInv, ChangesKnown, NothingBeforeRun, Queued
  <2> QED
    BY <1>1, <2>3, <2>4 DEF TablesInv
<1> QED
  BY <1>2, <1>3, <1>4, SlotTablesInv, SendQuryTablesInv, GetListDataTablesInv,
     SendDbDatTablesInv, RunTablesInv DEF Next, DbThread

(* In all behaviours: what was neither lost nor overtaken is in the        *)
(* database as memDat has it, whatever the threads do in between           *)
(* (dataCollector.cpp 396-417, 441-483, 561-576).                          *)
THEOREM TablesAlwaysFollow == Spec => []TablesFollowMemory
<1>1. Init => TablesInv
  BY InitTablesInv
<1>2. TablesInv /\ [Next]_vars => TablesInv'
  BY NextTablesInv
<1>3. TablesInv => TablesFollowMemory
  BY TablesInvSuffices
<1> QED
  BY <1>1, <1>2, <1>3, PTL DEF Spec

=============================================================================
