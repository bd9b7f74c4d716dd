------------------------------ MODULE Sheduler ------------------------------
(***************************************************************************)
(* The cron-like scheduler that starts the collection of oscillograms and  *)
(* diagnostics: a list of jobs, each with the minutes and the hours it     *)
(* runs at and the moment testDT it is armed for.  A timer tests all the   *)
(* jobs again and again; a job whose moment has come is announced by the   *)
(* signal startJob and armed for its next one.                             *)
(*                                                                         *)
(* Time is counted in ticks from the start of 1970, "Ticks" of them to the *)
(* minute.  The wall clock goes on while the event loop is busy, so that   *)
(* any number of moments may pass between two tests, and it may be set     *)
(* back.  A schedule is the list of the items between its commas.          *)
(* What the collectors have too is named with Shed in front.               *)
(***************************************************************************)
EXTENDS Integers, Sequences, FiniteSets, FiniteSetsExt

CONSTANTS
  Minutes, Hours, (* 60 and 24                                               *)
  Ticks,          (* clock ticks of a minute                                 *)
  Epoch,          (* the tick at which 1970 is over                          *)
  Lists,          (* the minute and hour schedules of a configuration        *)
  MaxJobs,        (* bound on the number of jobs                             *)
  Horizon         (* bound on the clock                                      *)

(* Numbers are kept as char: above this they are negative. *)
CharMax == 127

ASSUME ShedulerAssumption ==
  /\ {Minutes, Hours, Ticks} \subseteq Nat \ {0}
  /\ {Epoch, MaxJobs, Horizon} \subseteq Nat
  /\ Epoch > 0
  /\ \A l \in Lists : \A i \in DOMAIN l :
       /\ l[i].kind \in {"all", "every", "one", "range"}
       /\ l[i].kind = "every" => l[i].n \in 1 .. CharMax  \* a step of 0 never ends
       /\ l[i].kind = "one" => l[i].a \in 0 .. CharMax
       /\ l[i].kind = "range" => {l[i].a, l[i].b, l[i].n} \subseteq 0 .. CharMax

VARIABLES
  shedList, \* the jobs
  on,       \* the timer runs
  now,      \* the wall clock
  started,  \* the jobs the last test announced
  seen      \* the latest time each job was tested at; not in the program

shedVars == <<shedList, on, now, started, seen>>

-----------------------------------------------------------------------------
(* Schedules.  An item is "*", "*" with a step, a number or a range with a *)
(* step; only a schedule of one item may be one of the first two.          *)
Rejected(item, l, max) ==
  CASE item.kind = "all"   -> Len(l) # 1
    [] item.kind = "every" -> Len(l) # 1 \/ item.n > max
    [] item.kind = "one"   -> item.a > max
    [] item.kind = "range" -> \/ item.b < item.a \/ item.b > max
                              \/ item.n \notin 1 .. max

(* Mutant: max is not taken for 0. *)
MarkedPastEnd(item, max) ==
  CASE item.kind = "all"   -> 0 .. max - 1
    [] item.kind = "every" -> {k \in 0 .. max - 1 : k % item.n = 0}
    [] item.kind = "one"   -> {item.a}
    [] item.kind = "range" -> item.a .. item.b

(* What an item switches on; max itself is 0.  The step of a range has no  *)
(* effect: the loop that takes it is followed by one that does not.        *)
Marked(item, max) ==
  CASE item.kind = "all"   -> 0 .. max - 1
    [] item.kind = "every" -> {k \in 0 .. max - 1 : k % item.n = 0}
    [] item.kind = "one"   -> {item.a % max}
    [] item.kind = "range" -> {k % max : k \in item.a .. item.b}

(* JobT::parser. *)
Parsed(l, max) ==
  [ok  |-> \A i \in DOMAIN l : ~Rejected(l[i], l, max),
   set |-> UNION {Marked(l[i], max) : i \in DOMAIN l}]

-----------------------------------------------------------------------------
Day == Hours * Minutes * Ticks

(* The moments of a day a job runs at. *)
Moments(job) == {(h * Minutes + m) * Ticks : h \in job.hour, m \in job.min}

(* Mutant: a moment that is now is taken for one to come. *)
NewDTNow(job, t) ==
  LET tod   == t % Day
      later == {s \in Moments(job) : s >= tod}
  IN  t - tod + (IF later # {} THEN Min(later) ELSE Day + Min(Moments(job)))

(* JobT::newDT: the next moment today, or else the first one tomorrow. *)
NewDT(job, t) ==
  LET tod   == t % Day
      later == {s \in Moments(job) : s > tod}
  IN  t - tod + (IF later # {} THEN Min(later) ELSE Day + Min(Moments(job)))

(* JobT::test.  A moment in 1970 stands for none: a new job is armed for   *)
(* tick 0.                                                                 *)
Due(job, t) == Moments(job) # {} /\ job.testDT <= t
Runs(job, t) == Due(job, t) /\ job.testDT >= Epoch
Tested(job, t) == IF Due(job, t) THEN [job EXCEPT !.testDT = NewDT(job, t)] ELSE job

Later(t, u) == IF t > u THEN t ELSE u

ShedInit ==
  /\ shedList = <<>>
  /\ on = FALSE
  /\ now \in 0 .. Horizon
  /\ started = {}
  /\ seen = <<>>

(* append: a schedule that cannot be read is not taken. *)
AppendJob(m, h) ==
  /\ Len(shedList) < MaxJobs
  /\ Parsed(m, Minutes).ok /\ Parsed(h, Hours).ok
  /\ shedList' = Append(shedList, [min    |-> Parsed(m, Minutes).set,
                                   hour   |-> Parsed(h, Hours).set,
                                   testDT |-> 0])
  /\ seen' = Append(seen, 0)
  /\ started' = {}
  /\ UNCHANGED <<on, now>>

StartTimer ==
  /\ ~on
  /\ on' = TRUE
  /\ started' = {}
  /\ UNCHANGED <<shedList, now, seen>>

(* clear. *)
Clear ==
  /\ shedList # <<>>
  /\ on' = FALSE
  /\ shedList' = <<>>
  /\ seen' = <<>>
  /\ started' = {}
  /\ UNCHANGED now

(* test, the slot of the timer. *)
Test ==
  /\ on
  /\ shedList' = [i \in DOMAIN shedList |-> Tested(shedList[i], now)]
  /\ started' = {i \in DOMAIN shedList : Runs(shedList[i], now)}
  /\ seen' = [i \in DOMAIN seen |-> Later(seen[i], now)]
  /\ UNCHANGED <<on, now>>

(* The clock goes on, or is set back. *)
Clock(t) ==
  /\ t # now
  /\ now' = t
  /\ started' = {}
  /\ UNCHANGED <<shedList, on, seen>>

ShedNext ==
  \/ \E m \in Lists, h \in Lists : AppendJob(m, h)
  \/ StartTimer
  \/ Clear
  \/ Test
  \/ \E t \in 0 .. Horizon : Clock(t)

ShedSpec == ShedInit /\ [][ShedNext]_shedVars

-----------------------------------------------------------------------------
ShedTypeOK ==
  /\ shedList \in Seq([min : SUBSET (0 .. Minutes - 1), hour : SUBSET (0 .. Hours - 1),
                       testDT : Nat])
  /\ seen \in Seq(Nat) /\ Len(seen) = Len(shedList)
  /\ on \in BOOLEAN
  /\ now \in 0 .. Horizon
  /\ started \subseteq DOMAIN shedList

(* Reference definitions. *)

(* t is a moment of the job's schedule. *)
Scheduled(job, t) ==
  \E h \in job.hour, m \in job.min : t % Day = (h * Minutes + m) * Ticks

(* What a schedule means that gives no step to a range: each item names    *)
(* the numbers it names, and max is another name of 0.                     *)
Names(l, max) ==
  {k \in 0 .. max - 1 : \E i \in DOMAIN l :
     LET item == l[i]
     IN  CASE item.kind = "all"   -> TRUE
           [] item.kind = "every" -> \E j \in 0 .. max : k = j * item.n
           [] item.kind = "one"   -> item.a \in {k, k + max}
           [] item.kind = "range" -> \E j \in {k, k + max} : item.a <= j /\ j <= item.b}

-----------------------------------------------------------------------------
(* A schedule that is taken means what it says, be it of minutes or of     *)
(* hours (Sheduler.cpp:69), if it gives no step to a range.                *)
ParsedAsWritten ==
  [][\A m, h \in Lists :
       /\ AppendJob(m, h)
       /\ \A l \in {m, h} : \A i \in DOMAIN l : l[i].kind = "range" => l[i].n = 1
       => \E job \in {shedList'[Len(shedList')]} :
            job.min = Names(m, Minutes) /\ job.hour = Names(h, Hours)]_shedVars

(* Once armed, a job is armed for the first moment of its schedule after   *)
(* the latest time it was tested at: over midnight, however long the event *)
(* loop was busy, and whenever the clock was set back (Sheduler.cpp:31).   *)
ArmedForNext ==
  \A i \in DOMAIN shedList :
    LET job == shedList[i]
    IN  job.testDT # 0 =>
          /\ Scheduled(job, job.testDT)
          /\ job.testDT > seen[i]
          /\ \A t \in seen[i] + 1 .. job.testDT - 1 : ~Scheduled(job, t)

(* After 1970 a test announces exactly the jobs that had a moment since    *)
(* the latest test before it: none is missed when the timer is late, and   *)
(* none is run twice when the clock is set back and comes by again.        *)
RunsWhatIsDue ==
  [][\A i \in DOMAIN seen \cap DOMAIN seen' :
       seen[i] >= Epoch /\ seen'[i] # seen[i] =>
         (i \in started' <=> \E t \in seen[i] + 1 .. now : Scheduled(shedList[i], t))]_shedVars

(* A job is announced only for a moment that no test had seen yet: a clock *)
(* that is set back runs nothing again (Sheduler.cpp:22).                  *)
NeverAgain ==
  [][\A i \in started' : now > seen[i]]_shedVars

=============================================================================
