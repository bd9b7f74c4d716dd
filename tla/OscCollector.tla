---------------------------- MODULE OscCollector ----------------------------
(***************************************************************************)
(* The collector of oscillograms.  It reads a list of jobs, each with its  *)
(* devices and its schedule, and gives the good ones to a scheduler.  When *)
(* the scheduler announces a job, the collector makes a thread that        *)
(* fetches the oscillograms of those of the job's devices that can be      *)
(* asked now.  When a thread has ended, a clearer of old files is started  *)
(* in a thread of its own.                                                 *)
(*                                                                         *)
(* One action is one event of the main thread's loop with all that its     *)
(* handler calls, the end of a collecting thread, or the end of the        *)
(* clearer.  Between the end of a thread and the slot that removes it      *)
(* anything may happen.  The server may stop the collector, delete it and  *)
(* start a new one with another configuration.                             *)
(***************************************************************************)
EXTENDS Integers, Sequences, FiniteSets, SequencesExt

CONSTANTS
  Thread,   (* collecting threads (ExeThread)                              *)
  Dev,      (* addresses of devices                                        *)
  Conn,     (* device -> its connection: transport tip and address adr     *)
  Raw,      (* devices on the serial line that do not speak plain Modbus   *)
  Configs   (* configurations: the known devices, and the jobs, each its   *)
            (* devices devs in order and whether its schedule is readable  *)

ASSUME OscCollectorAssumption ==
  /\ Conn \in [Dev -> [tip : {"TCP", "UDP", "COM485"}, adr : Nat]]
  /\ Raw \subseteq Dev
  /\ \A c \in Configs :
       /\ c.known \subseteq Dev
       /\ c.jobs \in Seq([devs : Seq(Dev), sched : BOOLEAN])

VARIABLES
  life,       \* of the object: gone, started, stopped, dying
  config,     \* what it was started with
  shed,       \* the scheduler's jobs, as places in the configuration
  jobList,    \* the collector's jobs
  statusList, \* per job of the configuration: -1 off, 0 waiting, 1 runs
  runList,    \* thread -> the devices it was made for, and its job
  TredList,   \* the threads that have not been deleted
  polls,      \* the devices a thread talks to, {} when it has ended
  clearing,   \* old files are being removed (futureClearF)
  work,       \* the collector is started
  ready       \* devices that are polled for data and have channels

vars == <<life, config, shed, jobList, statusList, runList, TredList, polls,
          clearing, work, ready>>

-----------------------------------------------------------------------------
(* All of a list are reached over one connection: the address counts for   *)
(* TCP only.                                                               *)
SameLine(d, e) ==
  /\ Conn[d].tip = Conn[e].tip
  /\ Conn[d].tip = "TCP" => Conn[d].adr = Conn[e].adr

OneLine(devs) == \A i \in DOMAIN devs : SameLine(devs[1], devs[i])

(* start: the devices of a job, none if they do not go together.           *)
DevList(c, i) ==
  LET devs == SelectSeq(c.jobs[i].devs, LAMBDA d : d \in c.known)
  IN  IF /\ OneLine(devs)
         /\ devs # <<>> =>
              ~(Conn[devs[1]].tip = "COM485" /\ devs[1] \in Raw)
      THEN devs ELSE <<>>

(* Places of the jobs the scheduler has accepted.                          *)
Accepted(c) ==
  SelectSeq([i \in DOMAIN c.jobs |-> i],
            LAMBDA i : DevList(c, i) # <<>> /\ c.jobs[i].sched)

(* The list of jobs that goes with the scheduler's.                        *)
Listed(c) ==
  [k \in DOMAIN Accepted(c) |->
     [id |-> Accepted(c)[k], devs |-> DevList(c, Accepted(c)[k])]]

-----------------------------------------------------------------------------
Init ==
  /\ life = "gone"
  /\ config = [known |-> {}, jobs |-> <<>>]
  /\ shed = <<>> /\ jobList = <<>> /\ statusList = <<>>
  /\ runList = <<>> /\ TredList = <<>>
  /\ polls = [t \in Thread |-> {}]
  /\ clearing = FALSE /\ work = FALSE
  /\ ready = {}

(* The constructor and start, which the server calls one after the other.  *)
Start(c) ==
  /\ life = "gone"
  /\ life' = "started"
  /\ config' = c
  /\ shed' = Accepted(c)
  /\ jobList' = Listed(c)
  /\ statusList' = [i \in DOMAIN c.jobs |->
                      IF \E k \in DOMAIN Accepted(c) : Accepted(c)[k] = i
                      THEN 0 ELSE -1]
  /\ work' = (Listed(c) # <<>>)
  /\ ready' = {}
  /\ UNCHANGED <<runList, TredList, polls, clearing>>

(* A device's poller begins or ceases to fetch its data.                   *)
Ready(d) ==
  /\ ready' = IF d \in ready THEN ready \ {d} ELSE ready \cup {d}
  /\ UNCHANGED <<life, config, shed, jobList, statusList, runList, TredList,
                 polls, clearing, work>>

(* Mutant: the loop over the threads returns after the first.              *)
TestRunFirst(d) ==
  DOMAIN runList # {} /\ d \in runList[CHOOSE t \in DOMAIN runList : TRUE].devs

(* testRun: some thread was made for the device.                           *)
TestRun(d) == \E t \in DOMAIN runList : d \in runList[t].devs

(* getOSC: the devices of a job that can be asked now.                     *)
Askable(job) ==
  {d \in ToSet(job.devs) : d \in config.known /\ d \in ready /\ ~TestRun(d)}

(* runJob, called by the scheduler with its number of a job.  It does      *)
(* nothing when no device can be asked or the directory cannot be made.    *)
RunJob(n) ==
  /\ life = "started"
  /\ n \in DOMAIN shed /\ n \in DOMAIN jobList
  /\ OneLine(jobList[n].devs)
  /\ Askable(jobList[n]) # {}
  /\ \E t \in Thread \ DOMAIN runList :
       /\ runList' = [u \in DOMAIN runList \cup {t} |->
                        IF u = t THEN [devs |-> Askable(jobList[n]), id |-> jobList[n].id]
                                 ELSE runList[u]]
       /\ TredList' = Append(TredList, t)
       /\ polls' = [polls EXCEPT ![t] = Askable(jobList[n])]
  /\ statusList' = [statusList EXCEPT ![jobList[n].id] = 1]
  /\ UNCHANGED <<life, config, shed, jobList, clearing, work, ready>>

(* A thread's tape has come to its end, or it was told to stop.            *)
ThreadEnds(t) ==
  /\ polls[t] # {}
  /\ polls' = [polls EXCEPT ![t] = {}]
  /\ UNCHANGED <<life, config, shed, jobList, statusList, runList, TredList,
                 clearing, work, ready>>

Without(list, t) ==
  RemoveAt(list, CHOOSE i \in DOMAIN list : list[i] = t)

(* Mutant: the status is taken after the record is removed, as job 1's.    *)
ReleaseFirst(t) ==
  /\ polls[t] = {}
  /\ runList' = [u \in DOMAIN runList \ {t} |-> runList[u]]
  /\ statusList' = [statusList EXCEPT ![1] = 0]
  /\ TredList' = Without(TredList, t)
  /\ clearing' = (TredList' # <<>> /\ (work \/ clearing))

(* deleteThred(thread), which waits for the thread and, when it was the    *)
(* last, for the clearer it may have just started.                         *)
Release(t) ==
  /\ polls[t] = {}
  /\ runList' = [u \in DOMAIN runList \ {t} |-> runList[u]]
  /\ statusList' = [statusList EXCEPT ![runList[t].id] = 0]
  /\ TredList' = Without(TredList, t)
  /\ clearing' = (TredList' # <<>> /\ (work \/ clearing))

(* The slot for the thread's signal finished.                              *)
DeleteThred(t) ==
  /\ life \in {"started", "stopped"}
  /\ t \in ToSet(TredList)
  /\ Release(t)
  /\ UNCHANGED <<life, config, shed, jobList, polls, work, ready>>

ClearerEnds ==
  /\ clearing
  /\ clearing' = FALSE
  /\ UNCHANGED <<life, config, shed, jobList, statusList, runList, TredList,
                 polls, work, ready>>

(* stopAll; the threads are told, and end when they do.                    *)
StopAll ==
  /\ life = "started"
  /\ life' = "stopped"
  /\ shed' = <<>> /\ jobList' = <<>>
  /\ work' = FALSE
  /\ UNCHANGED <<config, statusList, runList, TredList, polls, clearing, ready>>

(* The destructor, begun by deleteLater: it blocks the main thread until   *)
(* the last thread of the list has ended, again and again.                 *)
Destroy ==
  /\ life = "stopped"
  /\ life' = "dying"
  /\ UNCHANGED <<config, shed, jobList, statusList, runList, TredList, polls,
                 clearing, work, ready>>

DestroyLast ==
  /\ life = "dying"
  /\ TredList # <<>>
  /\ Release(Last(TredList))
  /\ UNCHANGED <<life, config, shed, jobList, polls, work, ready>>

Destroyed ==
  /\ life = "dying"
  /\ TredList = <<>>
  /\ life' = "gone"
  /\ UNCHANGED <<config, shed, jobList, statusList, runList, TredList, polls,
                 clearing, work, ready>>

Next ==
  \/ \E c \in Configs : Start(c)
  \/ \E d \in Dev : Ready(d)
  \/ \E n \in DOMAIN shed : RunJob(n)
  \/ \E t \in Thread : ThreadEnds(t) \/ DeleteThred(t)
  \/ ClearerEnds
  \/ StopAll
  \/ Destroy
  \/ DestroyLast
  \/ Destroyed

Spec == Init /\ [][Next]_vars

-----------------------------------------------------------------------------
(* The threads as the abstract specification has them: "creates            *)
(* non-contradictory threads for collecting oscillograms".                 *)
Lease == INSTANCE DeviceLease WITH lease <- polls

(* The collector implements it: runList, which outlives the threads and is *)
(* kept by jobs, and the choice of devices by what is ready when a job is  *)
(* announced, never let two threads talk to one device, across stops,      *)
(* deletions and new starts (testRun, oscCollector.cpp:229).               *)
Noncontradictory == Lease!Spec

(* The types of the variables.                                             *)
TypeOK ==
  /\ config.known \subseteq Dev
  /\ DOMAIN runList \subseteq Thread
  /\ \A t \in DOMAIN runList : runList[t].devs \subseteq Dev
  /\ polls \in [Thread -> SUBSET Dev]
  /\ statusList \in Seq({-1, 0, 1})
  /\ TredList \in Seq(Thread)
  /\ clearing \in BOOLEAN

(* What is shown of the jobs (getStatusOSCCol): a job shown as running has *)
(* a thread, and one that is off has none.                                 *)
StatusHasThread ==
  \A i \in DOMAIN statusList :
    LET threads == {t \in DOMAIN runList : runList[t].id = i}
    IN  /\ statusList[i] = 1 => threads # {}
        /\ statusList[i] = -1 => threads = {}

(* The clearer works on the collector's fields: it never outlives the      *)
(* collector (deleteThred, oscCollector.cpp:262; the destructor waits only *)
(* through it).                                                            *)
ClearerHasOwner == clearing => life # "gone" /\ TredList # <<>>

=============================================================================
