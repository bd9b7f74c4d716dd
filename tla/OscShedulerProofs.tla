------------------------- MODULE OscShedulerProofs -------------------------
(***************************************************************************)
(* Theorems about the collector of oscillograms and about the scheduler    *)
(* that announces its jobs.  About OscCollector, for every set of threads  *)
(* and devices and every set of configurations: what is proved of the      *)
(* threads does not depend on the lists of jobs, since testRun keeps them  *)
(* apart whatever a job names.  About Sheduler, for every length of        *)
(* minutes, hours and days, every set of schedules and every bound: a job  *)
(* is armed for the next moment of its schedule, runs when it had one, and *)
(* never runs twice.                                                       *)
(***************************************************************************)
EXTENDS OscCollector, Sheduler, SequenceTheorems, WellFoundedInduction, TLAPS

-----------------------------------------------------------------------------
(* A thread that talks to a device is recorded with it.                    *)
Recorded ==
  \A t \in Thread :
    polls[t] # {} => t \in DOMAIN runList /\ polls[t] \subseteq runList[t].devs

(* The two records of the threads name the same ones, each once.           *)
ListsAgree ==
  /\ \A t \in Thread : t \in DOMAIN runList <=> \E i \in DOMAIN TredList : TredList[i] = t
  /\ \A i, j \in DOMAIN TredList : TredList[i] = TredList[j] => i = j

(* A collector that is gone has left nothing behind.                       *)
GoneIsEmpty == life = "gone" => TredList = <<>>

ClearerHasThreads == clearing => TredList # <<>>

OscInv ==
  /\ TypeOK
  /\ Recorded
  /\ ListsAgree
  /\ GoneIsEmpty
  /\ ClearerHasThreads
  /\ StatusHasThread

-----------------------------------------------------------------------------
(* What is left of a list when one of its members is taken out.            *)
LEMMA WithoutProperties ==
  ASSUME NEW S, NEW list \in Seq(S), NEW t \in S,
         \E i \in DOMAIN list : list[i] = t,
         \A i, j \in DOMAIN list : list[i] = list[j] => i = j
  PROVE  /\ Without(list, t) \in Seq(S)
         /\ \A u \in S : (\E i \in DOMAIN Without(list, t) : Without(list, t)[i] = u)
                         <=> u # t /\ \E i \in DOMAIN list : list[i] = u
         /\ \A i, j \in DOMAIN Without(list, t) :
              Without(list, t)[i] = Without(list, t)[j] => i = j
<1> DEFINE p == CHOOSE i \in DOMAIN list : list[i] = t
           n == Len(list)
           a == SubSeq(list, 1, p - 1)
           b == SubSeq(list, p + 1, n)
           w == Without(list, t)
           old(i) == IF i < p THEN i ELSE i + 1
<1>1. p \in 1 .. n /\ list[p] = t /\ n \in Nat /\ DOMAIN list = 1 .. n
  OBVIOUS
<1>2. w = a \o b
  BY DEF Without, RemoveAt
<1> HIDE DEF w, p
<1>3. /\ a \in Seq(S) /\ Len(a) = p - 1
      /\ \A i \in 1 .. p - 1 : a[i] = list[i]
  BY <1>1, SubSeqProperties
<1>4. /\ b \in Seq(S) /\ Len(b) = n - p
      /\ \A i \in 1 .. n - p : b[i] = list[p + i]
  <2>1. /\ p + 1 \in Int /\ n \in Int
        /\ \A i \in p + 1 .. n : list[i] \in S
    BY <1>1
  <2> HIDE DEF n
  <2>2. /\ b \in Seq(S)
        /\ Len(b) = IF p + 1 <= n THEN n - (p + 1) + 1 ELSE 0
        /\ \A i \in 1 .. n - (p + 1) + 1 : b[i] = list[p + 1 + i - 1]
    BY <2>1, SubSeqProperties
  <2>3. QED
    BY <2>2, <1>1
<1> HIDE DEF a, b
<1>5. /\ w \in Seq(S)
      /\ Len(w) = Len(a) + Len(b)
      /\ \A i \in 1 .. Len(a) + Len(b) : w[i] = IF i <= Len(a) THEN a[i] ELSE b[i - Len(a)]
  <2>1. a \in Seq(S) /\ b \in Seq(S)
    BY <1>3, <1>4
  <2>2. QED
    BY <1>2, <2>1, ConcatProperties
<1> HIDE DEF n
<1>6. Len(w) = n - 1 /\ DOMAIN w = 1 .. n - 1
  BY <1>1, <1>3, <1>4, <1>5
<1>7. ASSUME NEW i \in 1 .. n - 1
      PROVE  w[i] = list[old(i)] /\ old(i) \in 1 .. n /\ old(i) # p
  <2>1. CASE i < p
    <3>1. w[i] = a[i]
      BY <2>1, <1>1, <1>3, <1>4, <1>5
    <3>2. QED
      BY <2>1, <3>1, <1>1, <1>3
  <2>2. CASE i >= p
    <3>1. w[i] = b[i - (p - 1)]
      BY <2>2, <1>1, <1>3, <1>4, <1>5
    <3>2. b[i - (p - 1)] = list[i + 1]
      BY <2>2, <1>1, <1>4
    <3>3. QED
      BY <2>2, <3>1, <3>2, <1>1
  <2>3. QED
    BY <2>1, <2>2, <1>1
<1>8. ASSUME NEW u \in S
      PROVE  (\E i \in DOMAIN w : w[i] = u) <=> u # t /\ \E i \in DOMAIN list : list[i] = u
  <2>1. ASSUME NEW i \in DOMAIN w, w[i] = u
        PROVE  u # t /\ \E k \in DOMAIN list : list[k] = u
    <3> HIDE DEF old
    <3>1. old(i) \in DOMAIN list /\ list[old(i)] = u /\ old(i) # p
      BY <2>1, <1>1, <1>6, <1>7
    <3>2. QED
      BY <3>1, <1>1
  <2>2. ASSUME u # t, NEW k \in DOMAIN list, list[k] = u
        PROVE  \E i \in DOMAIN w : w[i] = u
    <3>1. CASE k < p
      <4>1. k \in DOMAIN w /\ old(k) = k
        BY <3>1, <1>1, <1>6
      <4>2. QED
        BY <4>1, <2>2, <1>6, <1>7
    <3>2. CASE k > p
      <4>1. k - 1 \in DOMAIN w /\ old(k - 1) = k
        BY <3>2, <1>1, <1>6
      <4>2. QED
        BY <4>1, <2>2, <1>6, <1>7
    <3>3. QED
      BY <3>1, <3>2, <2>2, <1>1
  <2>3. QED
    BY <2>1, <2>2
<1>9. ASSUME NEW i \in DOMAIN w, NEW j \in DOMAIN w, w[i] = w[j]
      PROVE  i = j
  <2>1. old(i) = old(j)
    <3> HIDE DEF old
    <3>1. QED
      BY <1>9, <1>1, <1>6, <1>7
  <2>2. i \in Nat /\ j \in Nat
    BY <1>1, <1>6
  <2>3. QED
    BY <2>1, <2>2, <1>1
<1>10. QED
  BY <1>5, <1>8, <1>9 DEF w

-----------------------------------------------------------------------------
LEMMA StatusStays ==
  ASSUME NEW list \in Seq({-1, 0, 1}), NEW i, NEW v \in {-1, 0, 1}
  PROVE  [list EXCEPT ![i] = v] \in Seq({-1, 0, 1})
<1>1. CASE i \in DOMAIN list
  <2>1. i \in 1 .. Len(list)
    BY <1>1
  <2>2. QED
    BY <2>1, ExceptSeq
<1>2. CASE i \notin DOMAIN list
  <2>1. [list EXCEPT ![i] = v] = list
    BY <1>2
  <2>2. QED
    BY <2>1
<1>3. QED
  BY <1>1, <1>2

LEMMA InitOscInv == Init => OscInv
<1> SUFFICES ASSUME Init PROVE OscInv
  OBVIOUS
<1>1. DOMAIN runList = {} /\ DOMAIN TredList = {} /\ DOMAIN statusList = {}
  BY DEF Init
<1>2. statusList \in Seq({-1, 0, 1}) /\ TredList \in Seq(Thread)
  BY DEF Init
<1>3. TypeOK
  BY <1>1, <1>2 DEF Init, TypeOK
<1>4. QED
  BY <1>1, <1>3 DEF Init, OscInv, Recorded, ListsAgree, GoneIsEmpty, ClearerHasThreads,
                    StatusHasThread

(* A new collector starts with no thread.                                  *)
LEMMA StartOscInv ==
  ASSUME OscInv, NEW c \in Configs, Start(c)
  PROVE  OscInv'
<1>1. DOMAIN runList = {}
  <2>1. DOMAIN TredList = {}
    BY DEF OscInv, GoneIsEmpty, Start
  <2>2. QED
    BY <2>1 DEF OscInv, TypeOK, ListsAgree
<1>2. c.jobs \in Seq([devs : Seq(Dev), sched : BOOLEAN]) /\ c.known \subseteq Dev
  BY OscCollectorAssumption DEF OscCollectorAssumption
<1>3. statusList' \in Seq({-1, 0, 1})
  <2>1. DOMAIN c.jobs = 1 .. Len(c.jobs) /\ Len(c.jobs) \in Nat
    BY <1>2
  <2>2. statusList' \in [1 .. Len(c.jobs) -> {-1, 0, 1}]
    BY <2>1 DEF Start
  <2>3. QED
    BY <2>1, <2>2
<1>4. TypeOK'
  BY <1>2, <1>3 DEF OscInv, TypeOK, Start
<1>5. StatusHasThread'
  BY <1>1 DEF StatusHasThread, Start
<1>6. QED
  BY <1>4, <1>5 DEF OscInv, Recorded, ListsAgree, GoneIsEmpty, ClearerHasThreads, Start

(* A new thread is recorded, with what it talks to, in both lists.         *)
LEMMA RunJobOscInv ==
  ASSUME OscInv, NEW n \in DOMAIN shed, RunJob(n)
  PROVE  OscInv'
<1> DEFINE devs == Askable(jobList[n])
           job == jobList[n].id
<1>1. PICK t \in Thread \ DOMAIN runList :
        /\ runList' = [u \in DOMAIN runList \cup {t} |->
                         IF u = t THEN [devs |-> devs, id |-> job] ELSE runList[u]]
        /\ TredList' = Append(TredList, t)
        /\ polls' = [polls EXCEPT ![t] = devs]
  BY DEF RunJob
<1>2. devs \subseteq Dev
  BY DEF OscInv, TypeOK, Askable
<1>3. /\ statusList' = [statusList EXCEPT ![job] = 1]
      /\ life' = "started"
      /\ UNCHANGED <<config, clearing>>
  BY DEF RunJob
<1> HIDE DEF devs, job
<1>4. /\ DOMAIN runList' = DOMAIN runList \cup {t}
      /\ runList'[t] = [devs |-> devs, id |-> job]
      /\ \A u \in DOMAIN runList : runList'[u] = runList[u]
  BY <1>1
<1>5. /\ TredList' \in Seq(Thread)
      /\ Len(TredList') = Len(TredList) + 1
      /\ DOMAIN TredList = 1 .. Len(TredList)
      /\ DOMAIN TredList' = 1 .. Len(TredList) + 1
      /\ Len(TredList) \in Nat
      /\ TredList'[Len(TredList) + 1] = t
      /\ \A i \in 1 .. Len(TredList) : TredList'[i] = TredList[i]
  BY <1>1, AppendProperties DEF OscInv, TypeOK
<1>6. TypeOK'
  <2>1. statusList' \in Seq({-1, 0, 1})
    BY <1>3, StatusStays DEF OscInv, TypeOK
  <2>2. QED
    BY <2>1, <1>1, <1>2, <1>3, <1>4, <1>5 DEF OscInv, TypeOK
<1>7. Recorded'
  BY <1>1, <1>4 DEF OscInv, TypeOK, Recorded
<1>8. ListsAgree'
  <2>1. ASSUME NEW u \in Thread
        PROVE  u \in DOMAIN runList' <=> \E i \in DOMAIN TredList' : TredList'[i] = u
    BY <1>4, <1>5 DEF OscInv, ListsAgree
  <2>2. ASSUME NEW i \in DOMAIN TredList', NEW j \in DOMAIN TredList',
               TredList'[i] = TredList'[j]
        PROVE  i = j
    <3>1. \A k \in 1 .. Len(TredList) : TredList[k] # t
      BY <1>1, <1>5 DEF OscInv, ListsAgree
    <3>2. QED
      BY <2>2, <3>1, <1>5 DEF OscInv, ListsAgree
  <2>3. QED
    BY <2>1, <2>2 DEF ListsAgree
<1>9. GoneIsEmpty' /\ ClearerHasThreads'
  BY <1>3, <1>5 DEF GoneIsEmpty, ClearerHasThreads
<1>10. StatusHasThread'
  <2> SUFFICES ASSUME NEW i \in DOMAIN statusList'
               PROVE  /\ statusList'[i] = 1 => \E u \in DOMAIN runList' : runList'[u].id = i
                      /\ statusList'[i] = -1 => \A u \in DOMAIN runList' : runList'[u].id # i
    BY DEF StatusHasThread
  <2>1. i \in DOMAIN statusList
    BY <1>3
  <2>2. CASE i = job
    <3>1. statusList'[i] = 1
      BY <2>1, <2>2, <1>3 DEF OscInv, TypeOK
    <3>2. QED
      BY <3>1, <2>2, <1>4
  <2>3. CASE i # job
    <3>1. statusList'[i] = statusList[i]
      BY <2>1, <2>3, <1>3 DEF OscInv, TypeOK
    <3>2. QED
      BY <3>1, <2>1, <2>3, <1>4 DEF OscInv, StatusHasThread
  <2>4. QED
    BY <2>2, <2>3
<1>11. QED
  BY <1>6, <1>7, <1>8, <1>9, <1>10 DEF OscInv

(* A thread that has ended leaves both lists.                              *)
LEMMA ReleaseOscInv ==
  ASSUME OscInv, NEW t \in Thread, t \in DOMAIN runList, Release(t),
         UNCHANGED <<life, config, polls>>
  PROVE  OscInv'
<1>1. \E i \in DOMAIN TredList : TredList[i] = t
  BY DEF OscInv, ListsAgree
<1>2. /\ TredList' \in Seq(Thread)
      /\ \A u \in Thread : (\E i \in DOMAIN TredList' : TredList'[i] = u)
                           <=> u # t /\ \E i \in DOMAIN TredList : TredList[i] = u
      /\ \A i, j \in DOMAIN TredList' : TredList'[i] = TredList'[j] => i = j
  <2>1. TredList \in Seq(Thread)
    BY DEF OscInv, TypeOK
  <2>2. \A i, j \in DOMAIN TredList : TredList[i] = TredList[j] => i = j
    BY DEF OscInv, ListsAgree
  <2>3. TredList' = Without(TredList, t)
    BY DEF Release
  <2>4. QED
    BY <1>1, <2>1, <2>2, <2>3, WithoutProperties
<1>3. /\ DOMAIN runList' = DOMAIN runList \ {t}
      /\ \A u \in DOMAIN runList' : runList'[u] = runList[u]
  BY DEF Release
<1>4. TypeOK'
  <2>1. statusList' \in Seq({-1, 0, 1})
    BY StatusStays DEF OscInv, TypeOK, Release
  <2>2. clearing' \in BOOLEAN
    BY DEF Release
  <2>3. QED
    BY <2>1, <2>2, <1>2, <1>3 DEF OscInv, TypeOK
<1>5. Recorded'
  BY <1>3 DEF OscInv, Recorded, Release
<1>6. ListsAgree'
  BY <1>2, <1>3 DEF OscInv, ListsAgree
<1>7. GoneIsEmpty'
  <2>1. TredList # <<>>
    BY <1>1
  <2>2. QED
    BY <2>1 DEF OscInv, GoneIsEmpty
<1>8. ClearerHasThreads'
  BY DEF ClearerHasThreads, Release
<1>9. StatusHasThread'
  <2> SUFFICES ASSUME NEW i \in DOMAIN statusList'
               PROVE  /\ statusList'[i] = 1 => \E u \in DOMAIN runList' : runList'[u].id = i
                      /\ statusList'[i] = -1 => \A u \in DOMAIN runList' : runList'[u].id # i
    BY DEF StatusHasThread
  <2>1. i \in DOMAIN statusList /\ statusList' = [statusList EXCEPT ![runList[t].id] = 0]
    BY DEF Release
  <2>2. CASE i = runList[t].id
    <3>1. statusList'[i] = 0
      BY <2>1, <2>2 DEF OscInv, TypeOK
    <3>2. QED
      BY <3>1
  <2>3. CASE i # runList[t].id
    <3>1. statusList'[i] = statusList[i]
      BY <2>1, <2>3 DEF OscInv, TypeOK
    <3>2. QED
      BY <3>1, <2>1, <2>3, <1>3 DEF OscInv, StatusHasThread
  <2>4. QED
    BY <2>2, <2>3
<1>10. QED
  BY <1>4, <1>5, <1>6, <1>7, <1>8, <1>9 DEF OscInv

-----------------------------------------------------------------------------
(* Every step keeps the invariant.                                         *)
LEMMA NextOscInv ==
  ASSUME OscInv, [Next]_vars
  PROVE  OscInv'
<1>1. CASE \E c \in Configs : Start(c)
  BY <1>1, StartOscInv
<1>2. CASE \E n \in DOMAIN shed : RunJob(n)
  BY <1>2, RunJobOscInv
<1>3. ASSUME NEW t \in Thread, DeleteThred(t)
      PROVE  OscInv'
  <2>1. t \in DOMAIN runList
    BY <1>3 DEF DeleteThred, ToSet, OscInv, ListsAgree
  <2>2. QED
    BY <1>3, <2>1, ReleaseOscInv DEF DeleteThred
<1>4. CASE DestroyLast
  <2>1. Last(TredList) \in Thread /\ \E i \in DOMAIN TredList : TredList[i] = Last(TredList)
    BY <1>4 DEF DestroyLast, Last, OscInv, TypeOK
  <2>2. Last(TredList) \in DOMAIN runList
    BY <2>1 DEF OscInv, ListsAgree
  <2>3. QED
    BY <1>4, <2>1, <2>2, ReleaseOscInv DEF DestroyLast
<1>5. ASSUME NEW t \in Thread, ThreadEnds(t)
      PROVE  OscInv'
  BY <1>5 DEF ThreadEnds, OscInv, TypeOK, Recorded, ListsAgree, GoneIsEmpty,
              ClearerHasThreads, StatusHasThread
<1>6. CASE \E d \in Dev : Ready(d)
  BY <1>6 DEF Ready, OscInv, TypeOK, Recorded, ListsAgree, GoneIsEmpty,
              ClearerHasThreads, StatusHasThread
<1>7. CASE ClearerEnds
  <2>1. clearing' = FALSE
    BY <1>7 DEF ClearerEnds
  <2>2. UNCHANGED <<life, config, statusList, runList, TredList, polls>>
    BY <1>7 DEF ClearerEnds
  <2>3. TypeOK' /\ ClearerHasThreads'
    BY <2>1, <2>2 DEF OscInv, TypeOK, ClearerHasThreads
  <2>4. QED
    BY <2>2, <2>3 DEF OscInv, Recorded, ListsAgree, GoneIsEmpty, StatusHasThread
<1>10. CASE StopAll
  BY <1>10 DEF StopAll, OscInv, TypeOK, Recorded, ListsAgree, GoneIsEmpty,
               ClearerHasThreads, StatusHasThread
<1>11. CASE Destroy
  BY <1>11 DEF Destroy, OscInv, TypeOK, Recorded, ListsAgree, GoneIsEmpty,
               ClearerHasThreads, StatusHasThread
<1>12. CASE Destroyed
  BY <1>12 DEF Destroyed, OscInv, TypeOK, Recorded, ListsAgree, GoneIsEmpty,
               ClearerHasThreads, StatusHasThread
<1>8. CASE UNCHANGED vars
  BY <1>8 DEF vars, OscInv, TypeOK, Recorded, ListsAgree, GoneIsEmpty,
              ClearerHasThreads, StatusHasThread
<1>9. QED
  BY <1>1, <1>2, <1>3, <1>4, <1>5, <1>6, <1>7, <1>8, <1>10, <1>11, <1>12
  DEF Next

(* What the threads are and what is recorded of them always agree.         *)
THEOREM OscInductive ==
  Spec => []OscInv
<1>1. Init => OscInv
  BY InitOscInv
<1>2. OscInv /\ [Next]_vars => OscInv'
  BY NextOscInv
<1>3. QED
  BY <1>1, <1>2, PTL DEF Spec

(* The types of the collector's variables.                                 *)
THEOREM TypeCorrect ==
  Spec => []TypeOK
<1>1. OscInv => TypeOK
  BY DEF OscInv
<1>2. QED
  BY <1>1, OscInductive, PTL

(* A job shown as running has a thread, and one that is off has none.      *)
THEOREM StatusAlwaysHasThread ==
  Spec => []StatusHasThread
<1>1. OscInv => StatusHasThread
  BY DEF OscInv
<1>2. QED
  BY <1>1, OscInductive, PTL

(* The clearer of files never outlives the collector.                      *)
THEOREM ClearerAlwaysHasOwner ==
  Spec => []ClearerHasOwner
<1>1. OscInv => ClearerHasOwner
  BY DEF OscInv, ClearerHasThreads, GoneIsEmpty, ClearerHasOwner
<1>2. QED
  BY <1>1, OscInductive, PTL

-----------------------------------------------------------------------------
(* A step of the collector is a step of the lease or leaves it alone.      *)
LEMMA LeaseStep ==
  ASSUME OscInv, [Next]_vars
  PROVE  [Lease!Next]_polls
<1>1. ASSUME NEW n \in DOMAIN shed, RunJob(n)
      PROVE  Lease!Next
  <2> DEFINE devs == Askable(jobList[n])
  <2>1. PICK t \in Thread \ DOMAIN runList : polls' = [polls EXCEPT ![t] = devs]
    BY <1>1 DEF RunJob
  <2>2. devs # {} /\ devs \subseteq Dev
    BY <1>1 DEF RunJob, OscInv, TypeOK, Askable
  <2>3. polls[t] = {}
    BY <2>1 DEF OscInv, Recorded
  <2>4. devs \subseteq Lease!Free
    <3> SUFFICES ASSUME NEW d \in devs, NEW u \in Thread, d \in polls[u]
                 PROVE  FALSE
      BY <2>2 DEF Lease!Free
    <3>1. u \in DOMAIN runList /\ d \in runList[u].devs
      BY DEF OscInv, Recorded
    <3>2. ~TestRun(d)
      BY DEF Askable
    <3>3. QED
      BY <3>1, <3>2 DEF TestRun
  <2>5. Lease!Take(t, devs)
    BY <2>1, <2>2, <2>3, <2>4 DEF Lease!Take
  <2>6. QED
    BY <2>2, <2>5 DEF Lease!Next
<1>2. ASSUME NEW t \in Thread, ThreadEnds(t)
      PROVE  Lease!Next
  BY <1>2 DEF ThreadEnds, Lease!Next, Lease!GiveBack
<1>3. CASE UNCHANGED polls
  BY <1>3
<1>4. QED
  BY <1>1, <1>2, <1>3 DEF Next, vars, Start, Ready, DeleteThred, ClearerEnds, StopAll,
                          Destroy, DestroyLast, Destroyed

(* "Creates non-contradictory threads": the collector implements the       *)
(* lease, for any number of threads and devices and any configurations.    *)
THEOREM Implements ==
  Spec => Noncontradictory
<1>1. Init => Lease!Init
  BY DEF Init, Lease!Init
<1>2. OscInv /\ [Next]_vars => [Lease!Next]_polls
  BY LeaseStep
<1>3. QED
  BY <1>1, <1>2, OscInductive, PTL DEF Spec, Noncontradictory, Lease!Spec

(* The lease is worth having: no step of it gives a device to two threads. *)
LEMMA LeaseExcludes ==
  ASSUME TypeOK, Lease!Exclusive, [Lease!Next]_polls
  PROVE  Lease!Exclusive'
<1> SUFFICES ASSUME NEW t \in Thread, NEW u \in Thread, t # u
             PROVE  polls'[t] \cap polls'[u] = {}
  BY DEF Lease!Exclusive
<1>1. polls[t] \cap polls[u] = {} /\ polls \in [Thread -> SUBSET Dev]
  BY DEF Lease!Exclusive, TypeOK
<1>2. ASSUME NEW v \in Thread, Lease!GiveBack(v)
      PROVE  polls'[t] \cap polls'[u] = {}
  BY <1>1, <1>2 DEF Lease!GiveBack
<1>3. ASSUME NEW v \in Thread, NEW D \in SUBSET Dev, Lease!Take(v, D)
      PROVE  polls'[t] \cap polls'[u] = {}
  <2>1. polls' = [polls EXCEPT ![v] = D]
    BY <1>3 DEF Lease!Take
  <2>2. \A w \in Thread : D \cap polls[w] = {}
    BY <1>3 DEF Lease!Take, Lease!Free
  <2>3. QED
    BY <1>1, <2>1, <2>2
<1>4. QED
  BY <1>1, <1>2, <1>3 DEF Lease!Next

(* Two threads of the collector never talk to the same device.             *)
THEOREM DevicesExclusive ==
  Spec => []Lease!Exclusive
<1>1. Init => Lease!Exclusive
  BY DEF Init, Lease!Exclusive
<1>2. OscInv /\ [Next]_vars /\ Lease!Exclusive => Lease!Exclusive'
  BY LeaseStep, LeaseExcludes DEF OscInv
<1>3. QED
  BY <1>1, <1>2, OscInductive, PTL DEF Spec

-----------------------------------------------------------------------------
Job == [min : SUBSET (0 .. Minutes - 1), hour : SUBSET (0 .. Hours - 1), testDT : Nat]

(* What ArmedForNext says of a job with the latest time it was tested at.  *)
Armed(job, last) ==
  job.testDT # 0 =>
    /\ Scheduled(job, job.testDT)
    /\ job.testDT > last
    /\ \A t \in last + 1 .. job.testDT - 1 : ~Scheduled(job, t)

(* A job that is not armed has not been tested yet, or never will be armed. *)
Unarmed(job, last) == job.testDT = 0 => Moments(job) = {} \/ last = 0

ShedInv ==
  /\ ShedTypeOK
  /\ \A i \in DOMAIN shedList : Armed(shedList[i], seen[i]) /\ Unarmed(shedList[i], seen[i])

-----------------------------------------------------------------------------
(* Numbers.                                                                *)
LEMMA MinOfNaturals ==
  ASSUME NEW S \in SUBSET Nat, S # {}
  PROVE  Min(S) \in S /\ \A y \in S : Min(S) <= y
<1>1. \E x \in S : \A y \in S : ~ (<<y, x>> \in OpToRel(<, Nat))
  BY NatLessThanWellFounded, WFMin
<1>2. PICK x \in S : \A y \in S : ~ (y < x)
  BY <1>1 DEF OpToRel
<1>3. \A y \in S : x <= y
  BY <1>2
<1>4. QED
  BY <1>3 DEF Min

LEMMA Residue ==
  ASSUME NEW a \in Int, NEW D \in Int, D > 0, NEW q \in Int, NEW r \in 0 .. D - 1,
         a = q * D + r
  PROVE  a % D = r
  OBVIOUS

LEMMA Quotient ==
  ASSUME NEW a \in Nat, NEW D \in Nat, D > 0
  PROVE  /\ a % D \in 0 .. D - 1
         /\ \E q \in Nat : a = q * D + (a % D)
<1>1. a = (a \div D) * D + (a % D)
  BY SMT
<1>2. a \div D \in Nat
  OBVIOUS
<1>3. a % D \in 0 .. D - 1
  OBVIOUS
<1>4. \E q \in Nat : a = q * D + (a % D)
  <2> WITNESS a \div D \in Nat
  <2>1. QED
    BY <1>1
<1>5. QED
  BY <1>3, <1>4

(* A moment of the day lies within it.                                     *)
LEMMA MomentInDay ==
  ASSUME NEW m \in 0 .. Minutes - 1, NEW h \in 0 .. Hours - 1
  PROVE  (h * Minutes + m) * Ticks \in 0 .. Day - 1
<1>1. /\ Minutes \in Nat /\ Hours \in Nat /\ Ticks \in Nat
      /\ Minutes > 0 /\ Hours > 0 /\ Ticks > 0
  BY ShedulerAssumption DEF ShedulerAssumption
<1> DEFINE a == h * Minutes + m
           b == Hours * Minutes
<1>2. a + 1 <= b /\ a \in Nat /\ b \in Nat
  <2>1. PICK k \in Nat : Hours = h + 1 + k
    BY <1>1
  <2>2. Hours * Minutes = h * Minutes + Minutes + k * Minutes
    BY <1>1, <2>1
  <2>3. k * Minutes \in Nat /\ h * Minutes \in Nat
    BY <1>1
  <2>4. QED
    BY <1>1, <2>2, <2>3
<1> HIDE DEF a, b
<1>3. PICK k \in Nat : b = a + 1 + k
  BY <1>2
<1>4. b * Ticks = a * Ticks + Ticks + k * Ticks
  BY <1>1, <1>2, <1>3
<1>5. k * Ticks \in Nat /\ a * Ticks \in Nat
  BY <1>1, <1>2
<1>6. a * Ticks \in 0 .. b * Ticks - 1
  BY <1>1, <1>2, <1>4, <1>5
<1>7. QED
  BY <1>6 DEF a, b, Day

LEMMA MomentsInDay ==
  ASSUME NEW job \in Job
  PROVE  Moments(job) \subseteq 0 .. Day - 1
<1> SUFFICES ASSUME NEW s \in Moments(job) PROVE s \in 0 .. Day - 1
  OBVIOUS
<1>1. PICK h \in job.hour, m \in job.min : s = (h * Minutes + m) * Ticks
  BY DEF Moments
<1>2. h \in 0 .. Hours - 1 /\ m \in 0 .. Minutes - 1
  BY DEF Job
<1>3. QED
  BY <1>1, <1>2, MomentInDay

LEMMA DayPositive == Day \in Nat /\ Day > 0
<1>1. /\ Minutes \in Nat /\ Hours \in Nat /\ Ticks \in Nat
      /\ Minutes > 0 /\ Hours > 0 /\ Ticks > 0
  BY ShedulerAssumption DEF ShedulerAssumption
<1>2. 0 \in 0 .. Minutes - 1 /\ 0 \in 0 .. Hours - 1
  BY <1>1
<1>3. (0 * Minutes + 0) * Ticks \in 0 .. Day - 1
  BY <1>2, MomentInDay
<1>4. Hours * Minutes * Ticks \in Nat
  BY <1>1
<1>5. QED
  BY <1>3, <1>4 DEF Day

LEMMA ScheduledIsMoment ==
  ASSUME NEW job, NEW t
  PROVE  Scheduled(job, t) <=> t % Day \in Moments(job)
  BY DEF Scheduled, Moments

(* newDT gives the first moment of the schedule after t.                   *)
LEMMA NewDTIsNext ==
  ASSUME NEW job \in Job, Moments(job) # {}, NEW t \in Nat
  PROVE  /\ NewDT(job, t) \in Nat
         /\ NewDT(job, t) > t
         /\ Scheduled(job, NewDT(job, t))
         /\ \A u \in t + 1 .. NewDT(job, t) - 1 : ~Scheduled(job, u)
<1> DEFINE M     == Moments(job)
           D     == Day
           tod   == t % D
           later == {s \in M : s > tod}
           d     == NewDT(job, t)
<1>1. M \subseteq 0 .. D - 1 /\ M # {} /\ D \in Nat /\ D > 0
  BY MomentsInDay, DayPositive
<1>2. tod \in 0 .. D - 1
  BY <1>1, Quotient
<1>3. PICK q \in Nat : t = q * D + tod
  BY <1>1, Quotient
<1>4. d = t - tod + (IF later # {} THEN Min(later) ELSE D + Min(M))
  BY DEF NewDT
<1>5. \A u : Scheduled(job, u) <=> u % D \in M
  BY ScheduledIsMoment
<1> HIDE DEF M, D, tod, d
<1>6. q * D \in Nat /\ (q + 1) * D = q * D + D /\ t - tod = q * D
  BY <1>1, <1>2, <1>3
<1>7. ASSUME NEW r \in 0 .. D - 1, NEW u \in Int
      PROVE  /\ u = q * D + r => u % D = r
             /\ u = q * D + D + r => u % D = r
  <2>1. u = q * D + r => u % D = r
    BY <1>1, <1>7, Residue
  <2>2. u = q * D + D + r => u = (q + 1) * D + r
    BY <1>1, <1>6, <1>7
  <2>3. u = (q + 1) * D + r => u % D = r
    BY <1>1, <1>7, Residue
  <2>4. QED
    BY <2>1, <2>2, <2>3
<1>8. CASE later # {}
  <2>1. Min(later) \in later /\ \A y \in later : Min(later) <= y
    BY <1>1, <1>8, MinOfNaturals
  <2> DEFINE s == Min(later)
  <2>2. s \in M /\ s > tod /\ s \in 0 .. D - 1 /\ d = q * D + s
    BY <1>1, <1>4, <1>6, <1>8, <2>1
  <2>6. \A y \in M : y > tod => s <= y
    BY <2>1
  <2>3. d \in Nat /\ d > t /\ d % D = s
    BY <1>2, <1>3, <1>6, <1>7, <2>2
  <2>4. ASSUME NEW u \in t + 1 .. d - 1
        PROVE  u % D \notin M
    <3> DEFINE r == u - q * D
    <3> HIDE DEF s
    <3>1. u \in Int /\ r \in 0 .. D - 1 /\ u = q * D + r /\ tod < r /\ r < s
      BY <1>1, <1>2, <1>3, <1>6, <2>2, <2>3
    <3>2. u % D = r
      BY <1>7, <3>1
    <3>3. r \notin M
      <4>1. s \in Int /\ r \in Int /\ tod \in Int
        BY <1>2, <2>2, <3>1
      <4> HIDE DEF r
      <4>2. QED
        BY <2>6, <3>1, <4>1
    <3>4. QED
      BY <3>2, <3>3
  <2>5. QED
    BY <1>5, <2>2, <2>3, <2>4 DEF d
<1>9. CASE later = {}
  <2>1. Min(M) \in M /\ \A y \in M : Min(M) <= y
    BY <1>1, MinOfNaturals
  <2> DEFINE s == Min(M)
  <2>2. s \in M /\ s \in 0 .. D - 1 /\ d = q * D + D + s
    <3>1. d = t - tod + (D + Min(M))
      BY <1>4, <1>9
    <3>2. Min(M) \in M /\ Min(M) \in 0 .. D - 1
      BY <1>1, <2>1
    <3>3. QED
      BY <1>1, <1>6, <3>1, <3>2
  <2>5. \A y \in M : s <= y
    BY <2>1
  <2>3. d \in Nat /\ d > t /\ d % D = s
    BY <1>1, <1>2, <1>3, <1>6, <1>7, <2>2
  <2>4. ASSUME NEW u \in t + 1 .. d - 1
        PROVE  u % D \notin M
    <3> HIDE DEF s
    <3>1. CASE u < q * D + D
      <4> DEFINE r == u - q * D
      <4>1. u \in Int /\ r \in 0 .. D - 1 /\ u = q * D + r /\ tod < r
        BY <1>1, <1>2, <1>3, <1>6, <2>2, <2>3, <3>1
      <4>2. u % D = r
        BY <1>7, <4>1
      <4>3. QED
        BY <1>9, <4>1, <4>2
    <3>2. CASE u >= q * D + D
      <4> DEFINE r == u - (q * D + D)
      <4>1. u \in Int /\ r \in 0 .. D - 1 /\ u = q * D + D + r /\ r < s
        BY <1>1, <1>2, <1>3, <1>6, <2>2, <2>3, <3>2
      <4>2. u % D = r
        BY <1>7, <4>1
      <4>3. s \in Int /\ r \in Int
        BY <2>2, <4>1
      <4> HIDE DEF r
      <4>4. QED
        BY <2>5, <4>1, <4>2, <4>3
    <3>3. QED
      BY <1>1, <1>6, <2>2, <2>3, <3>1, <3>2
  <2>6. QED
    BY <1>5, <2>2, <2>3, <2>4 DEF d
<1>10. QED
  BY <1>8, <1>9

-----------------------------------------------------------------------------
(* A schedule that can be read names minutes and hours that there are.     *)
LEMMA ParsedInRange ==
  ASSUME NEW l \in Lists, NEW max \in Nat, max > 0
  PROVE  Parsed(l, max).set \subseteq 0 .. max - 1
<1>1. ASSUME NEW i \in DOMAIN l, NEW k \in Marked(l[i], max)
      PROVE  k \in 0 .. max - 1
  <2>1. /\ l[i].kind \in {"all", "every", "one", "range"}
        /\ l[i].kind = "one" => l[i].a \in Nat
        /\ l[i].kind = "range" => l[i].a \in Nat /\ l[i].b \in Nat
    BY ShedulerAssumption DEF ShedulerAssumption, CharMax
  <2>2. CASE l[i].kind \in {"all", "every"}
    BY <1>1, <2>2 DEF Marked
  <2>3. CASE l[i].kind = "one"
    <3>1. k = l[i].a % max
      BY <1>1, <2>3 DEF Marked
    <3>2. QED
      BY <2>1, <2>3, <3>1, Quotient
  <2>4. CASE l[i].kind = "range"
    <3>1. PICK j \in l[i].a .. l[i].b : k = j % max
      BY <1>1, <2>4 DEF Marked
    <3>2. j \in Nat
      BY <2>1, <2>4
    <3>3. QED
      BY <3>1, <3>2, Quotient
  <2>5. QED
    BY <2>1, <2>2, <2>3, <2>4
<1>2. QED
  BY <1>1 DEF Parsed

(* A schedule that can be read, without a step in a range, is read as it   *)
(* is written.                                                             *)
LEMMA ParsedIsNames ==
  ASSUME NEW l \in Lists, NEW max \in Nat, max > 0, Parsed(l, max).ok,
         \A i \in DOMAIN l : l[i].kind = "range" => l[i].n = 1
  PROVE  Parsed(l, max).set = Names(l, max)
<1> DEFINE Named(i, k) ==
             LET item == l[i]
             IN  CASE item.kind = "all"   -> TRUE
                   [] item.kind = "every" -> \E j \in 0 .. max : k = j * item.n
                   [] item.kind = "one"   -> item.a \in {k, k + max}
                   [] item.kind = "range" -> \E j \in {k, k + max} : item.a <= j /\ j <= item.b
<1>1. ASSUME NEW j \in Nat, j <= max, NEW k \in 0 .. max - 1
      PROVE  j % max = k <=> j \in {k, k + max}
  <2>1. CASE j < max
    <3>1. j = 0 * max + j /\ j \in 0 .. max - 1
      BY <1>1, <2>1
    <3>2. j % max = j
      BY <3>1, Residue
    <3>3. QED
      BY <2>1, <3>2
  <2>2. CASE j = max
    <3>1. j = 1 * max + 0 /\ 0 \in 0 .. max - 1
      BY <2>2
    <3>2. j % max = 0
      BY <3>1, Residue
    <3>3. QED
      BY <2>2, <3>2
  <2>3. QED
    BY <1>1, <2>1, <2>2
<1>2. ASSUME NEW i \in DOMAIN l, NEW k \in 0 .. max - 1
      PROVE  k \in Marked(l[i], max) <=> Named(i, k)
  <2>1. /\ l[i].kind \in {"all", "every", "one", "range"}
        /\ l[i].kind = "every" => l[i].n \in Nat \ {0}
        /\ l[i].kind = "one" => l[i].a \in Nat
        /\ l[i].kind = "range" => l[i].a \in Nat /\ l[i].b \in Nat
    BY ShedulerAssumption DEF ShedulerAssumption, CharMax
  <2>2. ~Rejected(l[i], l, max)
    BY DEF Parsed
  <2>3. CASE l[i].kind = "all"
    BY <2>3 DEF Marked
  <2>4. CASE l[i].kind = "every"
    <3> DEFINE n == l[i].n
    <3>1. n \in Nat /\ n > 0
      BY <2>1, <2>4
    <3>2. (k \in Marked(l[i], max) <=> k % n = 0) /\ (Named(i, k) <=> \E j \in 0 .. max : k = j * n)
      BY <2>4 DEF Marked
    <3> HIDE DEF n
    <3>3. ASSUME NEW j \in 0 .. max, k = j * n
          PROVE  k % n = 0
      <4>1. k = j * n + 0 /\ 0 \in 0 .. n - 1 /\ j \in Int /\ n \in Int
        BY <3>1, <3>3
      <4>2. QED
        BY <3>1, <4>1, Residue
    <3>4. ASSUME k % n = 0
          PROVE  \E j \in 0 .. max : k = j * n
      <4>1. PICK j \in Nat : k = j * n + (k % n)
        BY <3>1, Quotient
      <4>2. k = j * n
        BY <3>1, <3>4, <4>1
      <4>3. j <= k
        <5>1. n = 1 + (n - 1) /\ n - 1 \in Nat
          BY <3>1
        <5>2. j * n = j + j * (n - 1) /\ j * (n - 1) \in Nat
          BY <5>1
        <5>3. QED
          BY <4>2, <5>2
      <4>4. QED
        BY <4>2, <4>3
    <3>5. QED
      BY <3>2, <3>3, <3>4
  <2>5. CASE l[i].kind = "one"
    <3>1. l[i].a \in Nat /\ l[i].a <= max
      BY <2>1, <2>2, <2>5 DEF Rejected
    <3>2. /\ k \in Marked(l[i], max) <=> k = l[i].a % max
          /\ Named(i, k) <=> l[i].a \in {k, k + max}
      BY <2>5 DEF Marked
    <3>3. QED
      BY <1>1, <3>1, <3>2
  <2>6. CASE l[i].kind = "range"
    <3> DEFINE a == l[i].a
               b == l[i].b
    <3>1. a \in Nat /\ b \in Nat /\ b <= max
      BY <2>1, <2>2, <2>6 DEF Rejected
    <3>2. /\ k \in Marked(l[i], max) <=> \E j \in a .. b : k = j % max
          /\ Named(i, k) <=> \E j \in {k, k + max} : a <= j /\ j <= b
      BY <2>6 DEF Marked
    <3> HIDE DEF a, b, Named
    <3>3. \A j \in a .. b : k = j % max <=> j \in {k, k + max}
      BY <1>1, <3>1
    <3>4. QED
      BY <3>1, <3>2, <3>3
  <2>7. QED
    BY <2>1, <2>3, <2>4, <2>5, <2>6
<1>3. Names(l, max) = {k \in 0 .. max - 1 : \E i \in DOMAIN l : Named(i, k)}
  BY DEF Names
<1>4. Parsed(l, max).set = UNION {Marked(l[i], max) : i \in DOMAIN l}
  BY DEF Parsed
<1>5. Parsed(l, max).set \subseteq 0 .. max - 1
  BY ParsedInRange
<1> HIDE DEF Named
<1>6. QED
  BY <1>2, <1>3, <1>4, <1>5

(* A test arms a job for its next moment, or leaves it armed for it.       *)
LEMMA TestedIsArmed ==
  ASSUME NEW job \in Job, NEW last \in Nat, NEW t \in Nat, Armed(job, last), Unarmed(job, last)
  PROVE  /\ Tested(job, t) \in Job
         /\ Armed(Tested(job, t), Later(last, t))
         /\ Unarmed(Tested(job, t), Later(last, t))
<1>1. job.testDT \in Nat
  BY DEF Job
<1>2. CASE Due(job, t)
  <2>1. Moments(job) # {} /\ job.testDT <= t
    BY <1>2 DEF Due
  <2>2. Later(last, t) = t
    BY <1>1, <2>1 DEF Armed, Unarmed, Later
  <2> DEFINE d   == NewDT(job, t)
             new == [job EXCEPT !.testDT = d]
  <2>3. /\ d \in Nat /\ d > t /\ Scheduled(job, d)
        /\ \A u \in t + 1 .. d - 1 : ~Scheduled(job, u)
    BY <2>1, NewDTIsNext
  <2> HIDE DEF d
  <2>4. /\ Tested(job, t) = new /\ new \in Job
        /\ new.testDT = d /\ new.min = job.min /\ new.hour = job.hour
    BY <1>2, <2>3 DEF Tested, d, Job
  <2>5. \A u : Scheduled(new, u) <=> Scheduled(job, u)
    BY <2>4 DEF Scheduled
  <2>6. Armed(new, t) /\ Unarmed(new, t)
    BY <2>3, <2>4, <2>5 DEF Armed, Unarmed
  <2>7. QED
    BY <2>2, <2>4, <2>6
<1>3. CASE ~Due(job, t)
  <2>1. Tested(job, t) = job
    BY <1>3 DEF Tested
  <2>2. CASE Moments(job) = {}
    <3>1. \A u : ~Scheduled(job, u)
      BY <2>2, ScheduledIsMoment
    <3>2. job.testDT = 0
      BY <3>1 DEF Armed
    <3>3. QED
      BY <2>1, <2>2, <3>2 DEF Armed, Unarmed
  <2>3. CASE job.testDT > t
    <3>1. job.testDT # 0
      BY <1>1, <2>3
    <3>2. Later(last, t) \in Nat /\ Later(last, t) >= last /\ job.testDT > Later(last, t)
      BY <1>1, <2>3, <3>1 DEF Later, Armed
    <3>3. \A u \in Later(last, t) + 1 .. job.testDT - 1 : u \in last + 1 .. job.testDT - 1
      BY <1>1, <3>2
    <3>4. QED
      BY <2>1, <3>1, <3>2, <3>3 DEF Armed, Unarmed
  <2>4. QED
    BY <1>1, <1>3, <2>2, <2>3 DEF Due
<1>4. QED
  BY <1>2, <1>3

LEMMA InitShedInv == ShedInit => ShedInv
<1> SUFFICES ASSUME ShedInit PROVE ShedInv
  OBVIOUS
<1>1. DOMAIN shedList = {}
  BY DEF ShedInit
<1>2. shedList \in Seq(Job) /\ seen \in Seq(Nat) /\ Len(seen) = Len(shedList)
  BY DEF ShedInit
<1>3. QED
  BY <1>1, <1>2 DEF ShedInit, ShedInv, ShedTypeOK, Job

LEMMA AppendJobKeeps ==
  ASSUME ShedInv, NEW m \in Lists, NEW h \in Lists, AppendJob(m, h)
  PROVE  ShedInv'
<1> DEFINE job == [min |-> Parsed(m, Minutes).set, hour |-> Parsed(h, Hours).set, testDT |-> 0]
           n   == Len(shedList)
<1>1. job \in Job
  <2>1. Minutes \in Nat /\ Minutes > 0 /\ Hours \in Nat /\ Hours > 0
    BY ShedulerAssumption DEF ShedulerAssumption
  <2>2. Parsed(m, Minutes).set \subseteq 0 .. Minutes - 1 /\ Parsed(h, Hours).set \subseteq 0 .. Hours - 1
    BY <2>1, ParsedInRange
  <2>3. QED
    BY <2>2 DEF Job
<1>2. shedList' = Append(shedList, job) /\ seen' = Append(seen, 0) /\ started' = {}
  BY DEF AppendJob
<1>3. job.testDT = 0
  OBVIOUS
<1> HIDE DEF job
<1>4. /\ shedList \in Seq(Job) /\ seen \in Seq(Nat) /\ Len(seen) = n
      /\ n \in Nat /\ DOMAIN shedList = 1 .. n
  BY DEF ShedInv, ShedTypeOK, Job
<1>5. /\ shedList' \in Seq(Job) /\ Len(shedList') = n + 1
      /\ DOMAIN shedList' = 1 .. n + 1
      /\ shedList'[n + 1] = job /\ \A i \in 1 .. n : shedList'[i] = shedList[i]
  BY <1>1, <1>2, <1>4, AppendProperties
<1>6. /\ seen' \in Seq(Nat) /\ Len(seen') = n + 1
      /\ seen'[n + 1] = 0 /\ \A i \in 1 .. n : seen'[i] = seen[i]
  BY <1>2, <1>4, AppendProperties
<1>7. ShedTypeOK'
  BY <1>2, <1>5, <1>6 DEF ShedInv, ShedTypeOK, AppendJob, Job
<1>8. ASSUME NEW i \in DOMAIN shedList'
      PROVE  Armed(shedList'[i], seen'[i]) /\ Unarmed(shedList'[i], seen'[i])
  <2>1. CASE i = n + 1
    BY <1>3, <1>5, <1>6, <2>1 DEF Armed, Unarmed
  <2>2. CASE i \in 1 .. n
    <3>1. shedList'[i] = shedList[i] /\ seen'[i] = seen[i]
      BY <1>5, <1>6, <2>2
    <3>2. Armed(shedList[i], seen[i]) /\ Unarmed(shedList[i], seen[i])
      BY <1>4, <2>2 DEF ShedInv
    <3>3. QED
      BY <3>1, <3>2
  <2>3. QED
    BY <1>4, <1>5, <2>1, <2>2
<1>9. QED
  BY <1>7, <1>8 DEF ShedInv

LEMMA TestKeeps ==
  ASSUME ShedInv, Test
  PROVE  ShedInv'
<1> DEFINE n == Len(shedList)
<1>1. /\ shedList \in Seq(Job) /\ seen \in Seq(Nat) /\ Len(seen) = n
      /\ n \in Nat /\ DOMAIN shedList = 1 .. n /\ DOMAIN seen = 1 .. n
      /\ now \in Nat
  BY ShedulerAssumption DEF ShedulerAssumption, ShedInv, ShedTypeOK, Job
<1>2. ASSUME NEW i \in 1 .. n
      PROVE  /\ shedList[i] \in Job /\ seen[i] \in Nat
             /\ Armed(shedList[i], seen[i]) /\ Unarmed(shedList[i], seen[i])
  BY <1>1 DEF ShedInv
<1>3. /\ shedList' = [i \in 1 .. n |-> Tested(shedList[i], now)]
      /\ seen' = [i \in 1 .. n |-> Later(seen[i], now)]
      /\ started' \subseteq 1 .. n
      /\ UNCHANGED <<on, now>>
  BY <1>1 DEF Test
<1>4. ASSUME NEW i \in 1 .. n
      PROVE  /\ shedList'[i] \in Job /\ seen'[i] \in Nat
             /\ Armed(shedList'[i], seen'[i]) /\ Unarmed(shedList'[i], seen'[i])
  <2>1. shedList'[i] = Tested(shedList[i], now) /\ seen'[i] = Later(seen[i], now)
    BY <1>3
  <2>2. Later(seen[i], now) \in Nat
    BY <1>1, <1>2 DEF Later
  <2>3. QED
    BY <1>1, <1>2, <2>1, <2>2, TestedIsArmed
<1>5. shedList' \in [1 .. n -> Job] /\ seen' \in [1 .. n -> Nat]
  BY <1>3, <1>4
<1>6. /\ shedList' \in Seq(Job) /\ seen' \in Seq(Nat)
      /\ Len(shedList') = n /\ Len(seen') = n /\ DOMAIN shedList' = 1 .. n
  <2>1. \A S : \A f \in [1 .. n -> S] : f \in Seq(S) /\ Len(f) = n /\ DOMAIN f = 1 .. n
    BY <1>1
  <2> HIDE DEF n
  <2>2. QED
    BY <1>5, <2>1
<1>7. ShedTypeOK'
  BY <1>3, <1>6 DEF ShedInv, ShedTypeOK, Job
<1>8. QED
  BY <1>4, <1>6, <1>7 DEF ShedInv

LEMMA NextShedInv ==
  ASSUME ShedInv, [ShedNext]_shedVars
  PROVE  ShedInv'
<1>1. CASE \E m \in Lists, h \in Lists : AppendJob(m, h)
  BY <1>1, AppendJobKeeps
<1>2. CASE Test
  BY <1>2, TestKeeps
<1>3. CASE Clear
  <2>1. DOMAIN shedList' = {} /\ shedList' \in Seq(Job) /\ seen' \in Seq(Nat)
        /\ Len(seen') = Len(shedList')
    BY <1>3 DEF Clear
  <2>2. ShedTypeOK'
    BY <1>3, <2>1 DEF Clear, ShedInv, ShedTypeOK, Job
  <2>3. QED
    BY <2>1, <2>2 DEF ShedInv
<1>4. ASSUME UNCHANGED <<shedList, seen>>, ShedTypeOK'
      PROVE  ShedInv'
  BY <1>4 DEF ShedInv, Armed, Unarmed, Moments, Scheduled
<1>5. CASE StartTimer
  BY <1>4, <1>5 DEF StartTimer, ShedInv, ShedTypeOK
<1>6. ASSUME NEW t \in 0 .. Horizon, Clock(t)
      PROVE  ShedInv'
  BY <1>4, <1>6 DEF Clock, ShedInv, ShedTypeOK
<1>7. CASE UNCHANGED shedVars
  BY <1>4, <1>7 DEF shedVars, ShedInv, ShedTypeOK
<1>8. QED
  BY <1>1, <1>2, <1>3, <1>5, <1>6, <1>7 DEF ShedNext

-----------------------------------------------------------------------------
(* Jobs are armed as the latest test left them.                            *)
THEOREM ShedInductive ==
  ShedSpec => []ShedInv
<1>1. ShedInit => ShedInv
  BY InitShedInv
<1>2. ShedInv /\ [ShedNext]_shedVars => ShedInv'
  BY NextShedInv
<1>3. QED
  BY <1>1, <1>2, PTL DEF ShedSpec

(* The types of the scheduler's variables.                                 *)
THEOREM ShedTypeCorrect ==
  ShedSpec => []ShedTypeOK
<1>1. ShedInv => ShedTypeOK
  BY DEF ShedInv
<1>2. QED
  BY <1>1, ShedInductive, PTL

(* Once armed, a job is armed for the first moment of its schedule after   *)
(* the latest time it was tested at, for any day and any schedule          *)
(* (Sheduler.cpp:31).                                                      *)
THEOREM AlwaysArmedForNext ==
  ShedSpec => []ArmedForNext
<1>1. ShedInv => ArmedForNext
  BY DEF ShedInv, Armed, ArmedForNext
<1>2. QED
  BY <1>1, ShedInductive, PTL

-----------------------------------------------------------------------------
(* A test announces a job whose moment came since the last one, and        *)
(* nothing else announces any.                                             *)
LEMMA StartedByTest ==
  ASSUME ShedInv, ShedNext, NEW i \in started'
  PROVE  Test /\ i \in DOMAIN shedList /\ Runs(shedList[i], now)
<1>1. Test
  BY DEF ShedNext, AppendJob, StartTimer, Clear, Clock
<1>2. QED
  BY <1>1 DEF Test

LEMMA RunsAfterSeen ==
  ASSUME NEW job \in Job, NEW last \in Nat, NEW t \in Nat, Armed(job, last), Runs(job, t)
  PROVE  t > last
<1>1. job.testDT \in Nat /\ job.testDT <= t /\ job.testDT # 0
  BY ShedulerAssumption DEF ShedulerAssumption, Job, Runs, Due
<1>2. QED
  BY <1>1 DEF Armed

(* A job tested after 1970 runs if and only if it had a moment since.      *)
LEMMA RunsIfMoment ==
  ASSUME NEW job \in Job, NEW last \in Nat, NEW t \in Nat, last >= Epoch,
         Armed(job, last), Unarmed(job, last)
  PROVE  Runs(job, t) <=> \E u \in last + 1 .. t : Scheduled(job, u)
<1>1. job.testDT \in Nat /\ Epoch \in Nat /\ last # 0
  BY ShedulerAssumption DEF ShedulerAssumption, Job
<1>2. CASE job.testDT = 0
  <2>1. Moments(job) = {}
    BY <1>1, <1>2 DEF Unarmed
  <2>2. \A u : ~Scheduled(job, u)
    BY <2>1, ScheduledIsMoment
  <2>3. QED
    BY <2>1, <2>2 DEF Runs, Due
<1>3. CASE job.testDT # 0
  <2>1. /\ Scheduled(job, job.testDT) /\ job.testDT > last
        /\ \A u \in last + 1 .. job.testDT - 1 : ~Scheduled(job, u)
    BY <1>3 DEF Armed
  <2>2. Moments(job) # {}
    BY <2>1, ScheduledIsMoment
  <2>3. Runs(job, t) <=> job.testDT <= t
    BY <1>1, <2>1, <2>2 DEF Runs, Due
  <2>4. ASSUME job.testDT <= t
        PROVE  \E u \in last + 1 .. t : Scheduled(job, u)
    BY <1>1, <2>1, <2>4
  <2>5. ASSUME NEW u \in last + 1 .. t, Scheduled(job, u)
        PROVE  job.testDT <= t
    BY <1>1, <2>1, <2>5
  <2>6. QED
    BY <2>3, <2>4, <2>5
<1>4. QED
  BY <1>2, <1>3

(* A clock that is set back runs nothing again (Sheduler.cpp:22).          *)
THEOREM RunsNeverAgain ==
  ShedSpec => NeverAgain
<1>1. ASSUME ShedInv, ShedNext, NEW i \in started'
      PROVE  now > seen[i]
  <2>1. i \in DOMAIN shedList /\ Runs(shedList[i], now)
    BY <1>1, StartedByTest
  <2>2. shedList[i] \in Job /\ seen[i] \in Nat /\ Armed(shedList[i], seen[i]) /\ now \in Nat
    <3>1. /\ shedList \in Seq(Job) /\ seen \in Seq(Nat) /\ Len(seen) = Len(shedList)
          /\ now \in 0 .. Horizon
      BY <1>1 DEF ShedInv, ShedTypeOK, Job
    <3>2. i \in DOMAIN seen
      BY <2>1, <3>1
    <3>3. shedList[i] \in Job /\ seen[i] \in Nat
      BY <2>1, <3>1, <3>2
    <3>4. QED
      BY <1>1, <2>1, <3>1, <3>3, ShedulerAssumption DEF ShedulerAssumption, ShedInv
  <2>3. QED
    BY <2>1, <2>2, RunsAfterSeen
<1>2. ShedInv /\ [ShedNext]_shedVars => [\A i \in started' : now > seen[i]]_shedVars
  BY <1>1
<1>3. QED
  BY <1>2, ShedInductive, PTL DEF NeverAgain, ShedSpec

(* After 1970 a test announces exactly the jobs that had a moment since    *)
(* the latest test before it, however late it is.                          *)
THEOREM RunsExactlyWhatIsDue ==
  ShedSpec => RunsWhatIsDue
<1> DEFINE Due1970(i) ==
             seen[i] >= Epoch /\ seen'[i] # seen[i] =>
               (i \in started' <=> \E t \in seen[i] + 1 .. now : Scheduled(shedList[i], t))
<1>1. ASSUME ShedInv, ShedNext, NEW i \in DOMAIN seen \cap DOMAIN seen',
             seen[i] >= Epoch, seen'[i] # seen[i]
      PROVE  i \in started' <=> \E t \in seen[i] + 1 .. now : Scheduled(shedList[i], t)
  <2>1. /\ shedList \in Seq(Job) /\ seen \in Seq(Nat) /\ Len(seen) = Len(shedList)
        /\ DOMAIN seen = 1 .. Len(seen) /\ DOMAIN shedList = 1 .. Len(seen) /\ now \in Nat
    <3>1. ShedTypeOK
      BY <1>1 DEF ShedInv
    <3>2. QED
      BY <3>1, ShedulerAssumption DEF ShedulerAssumption, ShedTypeOK, Job
  <2>2. Test
    <3>1. ASSUME NEW m \in Lists, NEW h \in Lists, AppendJob(m, h)
          PROVE  seen'[i] = seen[i]
      BY <1>1, <2>1, <3>1, AppendProperties DEF AppendJob
    <3>2. ~Clear
      BY <1>1 DEF Clear
    <3>3. QED
      BY <1>1, <3>1, <3>2 DEF ShedNext, StartTimer, Clock
  <2>3. /\ shedList[i] \in Job /\ seen[i] \in Nat
        /\ Armed(shedList[i], seen[i]) /\ Unarmed(shedList[i], seen[i])
    BY <1>1, <2>1 DEF ShedInv
  <2>4. i \in started' <=> Runs(shedList[i], now)
    BY <1>1, <2>1, <2>2 DEF Test
  <2>5. QED
    BY <1>1, <2>1, <2>3, <2>4, RunsIfMoment
<1>2. ShedInv /\ [ShedNext]_shedVars => [\A i \in DOMAIN seen \cap DOMAIN seen' : Due1970(i)]_shedVars
  BY <1>1
<1>3. QED
  BY <1>2, ShedInductive, PTL DEF RunsWhatIsDue, ShedSpec

(* A schedule that is taken means what it says, be it of minutes or of     *)
(* hours (Sheduler.cpp:69), if it gives no step to a range.                *)
THEOREM AlwaysParsedAsWritten ==
  ShedSpec => ParsedAsWritten
<1> DEFINE Written(m, h) ==
             /\ AppendJob(m, h)
             /\ \A l \in {m, h} : \A i \in DOMAIN l : l[i].kind = "range" => l[i].n = 1
             => \E job \in {shedList'[Len(shedList')]} :
                  job.min = Names(m, Minutes) /\ job.hour = Names(h, Hours)
<1>1. ASSUME ShedInv, NEW m \in Lists, NEW h \in Lists, AppendJob(m, h),
             \A l \in {m, h} : \A i \in DOMAIN l : l[i].kind = "range" => l[i].n = 1
      PROVE  \E job \in {shedList'[Len(shedList')]} :
               job.min = Names(m, Minutes) /\ job.hour = Names(h, Hours)
  <2>1. Minutes \in Nat /\ Minutes > 0 /\ Hours \in Nat /\ Hours > 0
    BY ShedulerAssumption DEF ShedulerAssumption
  <2>2. Parsed(m, Minutes).set = Names(m, Minutes) /\ Parsed(h, Hours).set = Names(h, Hours)
    BY <1>1, <2>1, ParsedIsNames DEF AppendJob
  <2> DEFINE job == [min |-> Parsed(m, Minutes).set, hour |-> Parsed(h, Hours).set, testDT |-> 0]
  <2>3. job.min = Names(m, Minutes) /\ job.hour = Names(h, Hours)
    BY <2>2
  <2>4. shedList' = Append(shedList, job) /\ shedList \in Seq(Job)
    BY <1>1 DEF AppendJob, ShedInv, ShedTypeOK, Job
  <2> HIDE DEF job
  <2>5. shedList'[Len(shedList')] = job
    BY <2>4
  <2>6. QED
    BY <2>3, <2>5
<1>2. ShedInv /\ [ShedNext]_shedVars => [\A m, h \in Lists : Written(m, h)]_shedVars
  BY <1>1
<1>3. QED
  BY <1>2, ShedInductive, PTL DEF ParsedAsWritten, ShedSpec

=============================================================================
