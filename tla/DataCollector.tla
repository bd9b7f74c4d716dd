--------------------------- MODULE DataCollector ---------------------------
(***************************************************************************)
(* The copy of the devices' registers in a database (dataCollector).  It   *)
(* keeps the values it has written, memDat, compares them with the mirror  *)
(* of the registers once a second and updates the rows that differ; it     *)
(* never reads the database.                                               *)
(*                                                                         *)
(* Two threads share it.  The main thread lists a device's registers anew  *)
(* (genDinamic) each time the device comes into service, and leaves        *)
(* statements in a queue; the database thread first carries out the queue  *)
(* and then compares and updates.  memDat and the queue have a mutex each. *)
(* The connection may fail at every statement, and what fails is not       *)
(* repeated.                                                               *)
(*                                                                         *)
(* The tables stdat and dist, which are only written through the queue,    *)
(* are left out, and so are the statements about them.                     *)
(***************************************************************************)
EXTENDS Integers, Sequences, FiniteSets

CONSTANTS
  Dev,       (* devices                                                    *)
  Reg,       (* registers of a device                                      *)
  Val,       (* their values                                               *)
  Zero,      (* the value of a register before the first answer            *)
  Configs,   (* which registers a device may have as dynamic ones          *)
  MaxPosted, (* bound on the calls posted to the main thread               *)
  MaxQueue,  (* bound on the queue                                         *)
  MaxFaults, (* bound on failures of the database                          *)
  MaxStarts  (* bound on the starts of the server                          *)

ASSUME DataCollectorAssumption ==
  /\ Zero \in Val /\ "status" \notin Reg
  /\ Configs \subseteq SUBSET Reg
  /\ {MaxPosted, MaxQueue, MaxFaults, MaxStarts} \subseteq Nat

VARIABLES
  mirror,    \* mMap: the registers as the pollers have them
  dyn,       \* the dynamic registers in the device's configuration
  dstatus,   \* MArray::dstatus: the device is in service
  posted,    \* devices whose call of genDinamic is posted to the main thread
  memDat,    \* values written last; no register for a device not listed
  actData,   \* dstatus as written last
  queue,     \* queQuery
  pc,        \* where the database thread is
  changes,   \* what testData has found to be written
  opdat,     \* rows of the table of present values
  act,       \* rows of the table status
  hist,      \* rows of hidat: recent ones, and ones to be cleared
  astray,    \* history: what was lost or overtaken on its way into a row
  faults, starts

main  == <<posted, queue, memDat>>
outer == <<mirror, dyn, dstatus>>
data  == <<opdat, act, hist>>
vars  == <<outer, main, actData, pc, changes, data, astray, faults, starts>>

Rows  == UNION {[S -> Val] : S \in SUBSET Reg}
None  == [r \in {} |-> Zero]

Statement == [op : {"delete", "insert"}, dev : Dev, rows : Rows]
Change    == [dev : Dev, reg : Reg, val : Val]

(* The types of the variables. *)
TypeOK ==
  /\ mirror \in [Dev -> [Reg -> Val]]
  /\ dyn \in [Dev -> SUBSET Reg]
  /\ dstatus \in [Dev -> BOOLEAN]
  /\ posted \in Seq(Dev)
  /\ memDat \in [Dev -> Rows]
  /\ actData \in [Dev -> BOOLEAN]
  /\ queue \in Seq(Statement)
  /\ changes \subseteq Change
  /\ opdat \in [Dev -> Rows]
  /\ act \in [Dev -> {"none", "0", "1"}]
  /\ hist \in [Dev -> [Reg -> SUBSET {"recent", "old"}]]

Init ==
  /\ mirror = [m \in Dev |-> [r \in Reg |-> Zero]]
  /\ dyn \in [Dev -> Configs]
  /\ dstatus = [m \in Dev |-> FALSE]
  /\ posted = <<>> /\ queue = <<>> /\ changes = {}
  /\ memDat = [m \in Dev |-> None]
  /\ actData = [m \in Dev |-> FALSE]
  /\ pc = "run"
  /\ opdat = [m \in Dev |-> None]
  /\ act = [m \in Dev |-> "none"]
  /\ hist = [m \in Dev |-> [r \in Reg |-> {}]]
  /\ astray = {}
  /\ faults = 0 /\ starts = 1

-----------------------------------------------------------------------------
(* Pollers. *)

(* An answer of the device changes a register of the mirror. *)
Receive(m) ==
  \E r \in Reg, v \in Val :
    /\ mirror' = [mirror EXCEPT ![m][r] = v]
    /\ UNCHANGED <<dyn, dstatus, main, actData, pc, changes, data, astray, faults, starts>>

(* exitRun: the polling has stopped, and the device is asked for its       *)
(* configuration before it is polled again.                                *)
GoOut(m) ==
  \E c \in Configs :
    /\ dstatus' = [dstatus EXCEPT ![m] = FALSE]
    /\ dyn' = [dyn EXCEPT ![m] = c]
    /\ UNCHANGED <<mirror, main, actData, pc, changes, data, astray, faults, starts>>

(* headRez: all dynamic registers of a device out of service were read.    *)
HeadRez(m) ==
  /\ ~dstatus[m] /\ Len(posted) < MaxPosted
  /\ posted' = Append(posted, m)
  /\ dstatus' = [dstatus EXCEPT ![m] = TRUE]
  /\ UNCHANGED <<mirror, dyn, queue, memDat, actData, pc, changes, data, astray,
                 faults, starts>>

-----------------------------------------------------------------------------
(* The main thread. *)

(* Mutant: the rows of the former listing stay. *)
ListingOnly(m, f) ==
  IF f = None THEN <<>> ELSE <<[op |-> "insert", dev |-> m, rows |-> f]>>

(* The device's rows are replaced by those of the registers in f.  The     *)
(* statement that inserts nothing is not SQL and changes nothing.          *)
Listing(m, f) ==
  <<[op |-> "delete", dev |-> m, rows |-> None]>>
    \o IF f = None THEN <<>> ELSE <<[op |-> "insert", dev |-> m, rows |-> f]>>

Queued(m) == \E i \in 1..Len(queue) : queue[i].dev = m

Registers(m) == {m} \X Reg

(* genDataList, under both mutexes: the old values, and by the statements  *)
(* also the rows, are replaced by what the mirror has now.                 *)
GenDataList(m) ==
  LET f == [r \in dyn[m] |-> mirror[m][r]]
  IN /\ memDat' = [memDat EXCEPT ![m] = f]
     /\ queue' = queue \o Listing(m, f)
     /\ astray' = astray \ Registers(m)
     /\ UNCHANGED changes

(* Both threads build their statements in the column values of the same    *)
(* table object, with no mutex.  A listing that falls between the          *)
(* comparison and its updates may spoil what either sends: an update       *)
(* carries a row of the listing instead of its own, or the insertion lacks *)
(* rows.                                                                   *)
GenDataListTorn(m) ==
  /\ pc = "update"
  /\ memDat' = [memDat EXCEPT ![m] = [r \in dyn[m] |-> mirror[m][r]]]
  /\ \E c \in changes :
       /\ changes' = changes \ {c}
       /\ astray' = astray \cup Registers(m) \cup {<<c.dev, c.reg>>}
  /\ \E S \in SUBSET dyn[m] :
       queue' = queue \o Listing(m, [r \in S |-> mirror[m][r]])

Slot ==
  /\ posted # <<>>
  /\ Len(queue) + 2 <= MaxQueue
  /\ posted' = Tail(posted)
  /\ GenDataList(Head(posted)) \/ GenDataListTorn(Head(posted))
  /\ UNCHANGED <<outer, actData, pc, data, faults, starts>>

(* server::stop and start once the thread has halted or ended by itself: a *)
(* new collector, nothing known of any device.  The tables stay.           *)
Restart ==
  /\ pc \in {"halted", "ended"}
  /\ starts < MaxStarts /\ starts' = starts + 1
  /\ mirror' = [m \in Dev |-> [r \in Reg |-> Zero]]
  /\ dyn' \in [Dev -> Configs]
  /\ dstatus' = [m \in Dev |-> FALSE]
  /\ actData' = [m \in Dev |-> FALSE]
  /\ memDat' = [m \in Dev |-> None]
  /\ posted' = <<>> /\ queue' = <<>> /\ changes' = {} /\ astray' = {}
  /\ pc' = "run"
  /\ UNCHANGED <<data, faults>>
-----------------------------------------------------------------------------
(* The database thread. *)

(* A statement has an effect, or fails, within the bound on failures. *)
Succeeds == UNCHANGED faults
Fails    == faults < MaxFaults /\ faults' = faults + 1

(* run and iniTable: no connection, and the thread ends; a connection that *)
(* fails afterwards, and the tables stay as an earlier start left them; or *)
(* all of them are dropped and made anew, with a row of status for each    *)
(* device.                                                                 *)
Run ==
  /\ pc = "run"
  /\ \/ /\ Fails /\ pc' = "ended"
        /\ UNCHANGED <<data, actData, astray>>
     \/ /\ Fails /\ pc' = "idle"
        /\ astray' = astray \cup (Dev \X {"status"})
        /\ UNCHANGED <<data, actData>>
     \/ /\ Succeeds /\ pc' = "idle"
        /\ opdat' = [m \in Dev |-> None]
        /\ hist' = [m \in Dev |-> [r \in Reg |-> {}]]
        /\ act' = [m \in Dev |-> "0"]
        /\ actData' = [m \in Dev |-> FALSE]
        /\ UNCHANGED astray
  /\ UNCHANGED <<outer, main, changes, starts>>

(* setData: once a second, the queue first. *)
SetData ==
  /\ pc = "idle" /\ pc' = "sendQury"
  /\ UNCHANGED <<outer, main, actData, changes, data, astray, faults, starts>>

(* The triggers put each row that is inserted or updated into hidat, too. *)
Recorded(h, m, S) ==
  [h EXCEPT ![m] = [r \in Reg |-> h[m][r] \cup IF r \in S THEN {"recent"} ELSE {}]]

(* An insertion that meets rows of the same key fails, as a whole or, in a *)
(* table without transactions, after some of its rows.                     *)
Inserted(old, new) ==
  IF DOMAIN old \cap DOMAIN new = {} THEN {DOMAIN new}
  ELSE SUBSET (DOMAIN new \ DOMAIN old)

Execute(st) ==
  IF st.op = "delete"
  THEN /\ opdat' = [opdat EXCEPT ![st.dev] = None]
       /\ UNCHANGED hist
  ELSE LET old == opdat[st.dev]
       IN \E S \in Inserted(old, st.rows) :
            /\ opdat' = [opdat EXCEPT ![st.dev] =
                           [r \in DOMAIN old \cup S |->
                              IF r \in S THEN st.rows[r] ELSE old[r]]]
            /\ hist' = Recorded(hist, st.dev, S)

(* sendQury: what is taken out of the queue is gone, carried out or not. *)
SendQury ==
  /\ pc = "sendQury"
  /\ \/ /\ queue = <<>> /\ pc' = "getListData"
        /\ UNCHANGED <<queue, opdat, hist, astray, faults>>
     \/ /\ queue # <<>> /\ queue' = Tail(queue) /\ UNCHANGED pc
        /\ \/ Succeeds /\ Execute(Head(queue)) /\ UNCHANGED astray
           \/ /\ Fails
              /\ astray' = astray \cup Registers(Head(queue).dev)
              /\ UNCHANGED <<opdat, hist>>
  /\ UNCHANGED <<outer, posted, memDat, actData, changes, act, starts>>

(* testData for a device in service. *)
Differing(m) == IF dstatus[m]
                THEN {r \in DOMAIN memDat[m] : memDat[m][r] # mirror[m][r]} ELSE {}

(* sendDbDat up to getListData.  A listing may have come in since the      *)
(* queue was empty: its insertion, with the older value, will be carried   *)
(* out after the update.                                                   *)
GetListData ==
  /\ pc = "getListData"
  /\ \/ /\ Fails /\ pc' \in {"idle", "clearHistT"}
        /\ UNCHANGED <<memDat, changes, astray>>
     \/ /\ Succeeds /\ pc' = "update"
        /\ changes' = {[dev |-> c[1], reg |-> c[2], val |-> mirror[c[1]][c[2]]] :
                         c \in {d \in Dev \X Reg : d[2] \in Differing(d[1])}}
        /\ memDat' = [m \in Dev |->
                        [r \in DOMAIN memDat[m] |->
                           IF r \in Differing(m) THEN mirror[m][r] ELSE memDat[m][r]]]
        /\ astray' = astray \cup {c \in Dev \X Reg : /\ c[2] \in Differing(c[1])
                                                     /\ Queued(c[1])}
  /\ UNCHANGED <<outer, posted, queue, actData, data, starts>>

(* getListStat. *)
Told == {m \in Dev : dstatus[m] # actData[m]}

(* Mutant: the updates are sent only together with one of status. *)
HitIfTold(done) == {c \in done : Told # {} /\ c.reg \in DOMAIN opdat[c.dev]}

(* Update statements change the rows that are there. *)
Hit(done) == {c \in done : c.reg \in DOMAIN opdat[c.dev]}

Updated(hit) ==
  [m \in Dev |-> [r \in DOMAIN opdat[m] |->
     IF \E c \in hit : c.dev = m /\ c.reg = r
     THEN (CHOOSE c \in hit : c.dev = m /\ c.reg = r).val ELSE opdat[m][r]]]

State(b) == IF b THEN "1" ELSE "0"

Places(S) == {<<c.dev, c.reg>> : c \in S}

(* The rest of sendDbDat: a transaction with the updates found, and those  *)
(* of status.  Updates may fail, one by one or together with the commit;   *)
(* nobody looks at the results.  Every so many rounds, hidat is cleared.   *)
SendDbDat ==
  /\ pc = "update" /\ pc' \in {"idle", "clearHistT"}
  /\ changes' = {} /\ actData' = dstatus
  /\ \E done \in SUBSET changes, told \in SUBSET Told :
       LET hit  == Hit(done)
           lost == Places(changes \ done) \cup ((Told \ told) \X {"status"})
           kept == Places({c \in hit : ~Queued(c.dev)})
                     \cup ({m \in told : act[m] # "none"} \X {"status"})
       IN /\ IF lost = {} THEN Succeeds ELSE Fails
          /\ opdat' = Updated(hit)
          /\ hist' = [m \in Dev |-> [r \in Reg |->
                       hist[m][r] \cup IF <<m, r>> \in Places(hit) THEN {"recent"} ELSE {}]]
          /\ act' = [m \in Dev |-> IF m \in told /\ act[m] # "none"
                                  THEN State(dstatus[m]) ELSE act[m]]
          /\ astray' = (astray \ kept) \cup lost
  /\ UNCHANGED <<outer, main, starts>>

HasOld == \E m \in Dev, r \in Reg : "old" \in hist[m][r]

(* Mutant: the registers left without any row get none. *)
DeleteOld ==
  /\ pc = "clearHistT" /\ pc' = "idle"
  /\ \/ Fails /\ UNCHANGED hist
     \/ /\ Succeeds
        /\ hist' = [m \in Dev |-> [r \in Reg |-> hist[m][r] \ {"old"}]]
  /\ UNCHANGED <<outer, main, actData, changes, opdat, act, astray, starts>>

(* The stored procedure: when there are old rows it deletes them, and      *)
(* registers left without any row get one with their present value.        *)
ClearHistT ==
  /\ pc = "clearHistT" /\ pc' = "idle"
  /\ \/ Fails /\ UNCHANGED hist
     \/ /\ Succeeds
        /\ hist' = [m \in Dev |-> [r \in Reg |->
             IF hist[m][r] \subseteq {"old"} /\ r \in DOMAIN opdat[m] /\ HasOld
             THEN {"recent"} ELSE hist[m][r] \ {"old"}]]
  /\ UNCHANGED <<outer, main, actData, changes, opdat, act, astray, starts>>

(* halt and closeACT. *)
Halt ==
  /\ pc = "idle" /\ pc' = "halted"
  /\ \/ /\ Succeeds
        /\ act' = [m \in Dev |-> IF act[m] = "none" THEN "none" ELSE "0"]
     \/ Fails /\ UNCHANGED act
  /\ UNCHANGED <<outer, main, actData, changes, opdat, hist, astray, starts>>

-----------------------------------------------------------------------------
(* The database. *)

(* Rows of hidat grow old. *)
Age ==
  \E m \in Dev, r \in Reg :
    /\ "recent" \in hist[m][r]
    /\ hist' = [hist EXCEPT ![m][r] = {"old"}]
    /\ UNCHANGED <<outer, main, actData, pc, changes, opdat, act, astray, faults, starts>>

(* opdat, status and hidat live in the memory of the database server.  Its *)
(* restart leaves them empty, and the connection is opened anew by the     *)
(* next statement.                                                         *)
LoseTables ==
  /\ Fails
  /\ opdat' = [m \in Dev |-> None]
  /\ act' = [m \in Dev |-> "none"]
  /\ hist' = [m \in Dev |-> [r \in Reg |-> {}]]
  /\ astray' = Dev \X (Reg \cup {"status"})
  /\ UNCHANGED <<outer, main, actData, pc, changes, starts>>

(* The database thread, but for its end. *)
DbThread == Run \/ SetData \/ SendQury \/ GetListData \/ SendDbDat \/ ClearHistT

Next ==
  \/ \E m \in Dev : Receive(m) \/ GoOut(m) \/ HeadRez(m)
  \/ Slot \/ Restart
  \/ DbThread \/ Halt
  \/ Age \/ LoseTables

Spec == Init /\ [][Next]_vars

(* The thread's timer goes on and each statement is answered or fails.     *)
FairSpec == Spec /\ WF_vars(DbThread)

-----------------------------------------------------------------------------
(* Unless something was lost or overtaken, a register's row has the value  *)
(* that memDat keeps as the one written last, as soon as no statement of   *)
(* its device is under way (dataCollector.cpp 396-417): the comparison may *)
(* then do without reading the table.  The same of a device's status.      *)
TablesFollowMemory ==
  pc \in {"idle", "sendQury", "getListData", "clearHistT"} =>
    \A m \in Dev :
      /\ <<m, "status">> \notin astray => act[m] = State(actData[m])
      /\ \A r \in DOMAIN memDat[m] :
           <<m, r>> \notin astray /\ ~Queued(m) =>
             /\ r \in DOMAIN opdat[m]
             /\ opdat[m][r] = memDat[m][r]

(* No row of opdat is without a row of hidat, however the triggers and the *)
(* clearing alternate: the history always shows a value for each register. *)
HistoryCovers ==
  \A m \in Dev : \A r \in DOMAIN opdat[m] : hist[m][r] # {}

(* A register that keeps a value while its device stays in service comes   *)
(* to have it in the database, unless its row is astray for good.          *)
ValuesArrive ==
  \A m \in Dev, r \in Reg, v \in Val :
    <>[](/\ pc \notin {"halted", "ended"} /\ \A n \in Dev : dstatus[n]
         /\ mirror[m][r] = v /\ r \in DOMAIN memDat[m]
         /\ <<m, r>> \notin astray)
    => <>[](r \in DOMAIN opdat[m] /\ opdat[m][r] = v)

=============================================================================
