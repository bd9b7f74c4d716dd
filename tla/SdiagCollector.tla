--------------------------- MODULE SdiagCollector ---------------------------
(***************************************************************************)
(* The collector of diagnostics.  On the scheduler's signal it writes a    *)
(* tape and gives it to a thread.  For each setting and each channel the   *)
(* tape first orders all devices to measure a spectrum, then waits for     *)
(* each in turn and fetches ranges of its spectrum, a range in pieces of   *)
(* at most MaxM registers.  The thread posts every piece to the main       *)
(* thread, which puts it into the bins of its range and, on the last       *)
(* piece, computes a value into a register of the mirror.  The bins of a   *)
(* range are shared by all devices and channels of the setting.            *)
(*                                                                         *)
(* One action is one command of the thread's tape, one slot of the main    *)
(* thread, or a device that has done its measurement.  A value is what it  *)
(* is computed from; a tape is written in one step.                        *)
(***************************************************************************)
EXTENDS SdiagPieces, Sequences, FiniteSets, SequencesExt

CONSTANTS
  Dev,       (* addresses of devices                                       *)
  NChan,     (* channels of a device (bazeList), numbered from 0           *)
  Kind,      (* device -> channel -> type of its sensor, as the mirror     *)
             (* has it                                                     *)
  MaxS,      (* lines of a spectrum (maxSizeS, 2048)                       *)
  Nsz,       (* how often a device is asked again for its status (nsz, 36) *)
  Settings,  (* configurations: the known devices, whether the schedule is *)
             (* readable, the settings with their devices, kind, passes    *)
             (* and ranges; no devices stands for all of them              *)
  MaxRuns,   (* bound: tapes that are written                              *)
  MaxLost    (* bound: commands that are not answered                      *)

ASSUME SdiagAssumption ==
  /\ NChan \in Nat /\ MaxS \in Nat \ {0}
  /\ Nsz \in Nat /\ MaxRuns \in Nat /\ MaxLost \in Nat
  /\ \A c \in Settings :
       /\ c.known \subseteq Dev
       /\ \A i \in DOMAIN c.sets :
            c.sets[i].ranges \in Seq([start : 1 .. MaxS, size : Nat \ {0}])

VARIABLES
  life,      \* of the object: gone, started, stopped, or undefined
  config,    \* what it was started with
  JList,     \* the settings that are on
  work,      \* the scheduler runs
  run,       \* a thread works, or its end has not been noticed
  thread,    \* none, works, told to halt, ended
  tape,      \* the commands it has left
  tries,     \* how often the device was asked again (n of dFOR)
  posted,    \* pieces on their way to the main thread
  bins,      \* <<setting, range>> -> its bins (vecBins)
  last,      \* what the last value was computed from
  meas,      \* devices that are measuring
  spectrum,  \* device -> the spectrum its registers hold
  next,      \* device -> the spectrum it is measuring
  clean,     \* device -> its last order and all since have been answered
  due, done, \* ranges fetched to the last line, and those computed, this run
  runs, lost \* counters for the bounds

main == <<life, config, JList, work>>
devs == <<meas, spectrum, next>>
vars == <<main, run, thread, tape, tries, posted, bins, last, devs, clean,
          due, done, runs, lost>>

-----------------------------------------------------------------------------
(* start: the configuration as settings.                                   *)

(* A range is cut at the end of the spectrum.                              *)
Rms(c, i, d) ==
  LET r == c.sets[i].ranges[d]
  IN  [start |-> r.start,
       size  |-> IF r.start + r.size > MaxS THEN MaxS - r.start ELSE r.size]

(* The settings that are on, in the order of the configuration.            *)
On(c) ==
  LET on == {i \in DOMAIN c.sets : c.sets[i].ranges # <<>> /\ c.sets[i].passes > 0}
  IN  {s \in [1 .. Cardinality(on) -> on] : \A k \in DOMAIN s : \A n \in 1 .. k - 1 : s[n] < s[k]}

JobList(c, on) ==
  [k \in DOMAIN on |->
     LET s == c.sets[on[k]]
     IN  [devs |-> IF s.devs = <<>> THEN SetToSeq(c.known)
                   ELSE SelectSeq(s.devs, LAMBDA m : m \in c.known),
          kind |-> s.kind,
          rms  |-> [d \in DOMAIN s.ranges |-> Rms(c, on[k], d)]]]

-----------------------------------------------------------------------------
(* exe_SDiag: the tape.  SdiagPieces has the pieces of a range.            *)

(* A command: its setting and channel, the place of its device m in the    *)
(* setting's list, its range and piece (0 where it is about none).         *)
Order(i, nk, j) ==
  [op |-> "order", i |-> i, nk |-> nk, j |-> j, m |-> JList[i].devs[j], d |-> 0, c |-> 0]

(* The answer to the status must begin with what the command before it,    *)
(* and not this one, is answered with (addTest(di->getAF())).              *)
Wait(i, nk, j, af) ==
  [op |-> "wait", i |-> i, nk |-> nk, j |-> j, m |-> JList[i].devs[j], d |-> 0, c |-> 0,
   af |-> af]

Fetch(i, nk, j, d, c) ==
  [op |-> "read", i |-> i, nk |-> nk, j |-> j, m |-> JList[i].devs[j], d |-> d, c |-> c,
   piece |-> Piece(JList[i].rms[d], c)]

(* The devices of a setting that are in service and have a channel of its  *)
(* kind.                                                                   *)
Targets(i, nk, service) ==
  LET ms == JList[i].devs
  IN  {j \in 1 .. Len(ms) : ms[j] \in service /\ Kind[ms[j]][nk] = JList[i].kind}

(* What the command before the wait for j is answered with.                *)
Previous(i, js, j) ==
  LET gs == {g \in js : g < j}
  IN  IF gs = {} THEN <<JList[i].devs[Max(js)], "spectrum">>
      ELSE <<JList[i].devs[Max(gs)], "read">>

Round(i, nk, service) ==
  LET js == Targets(i, nk, service)
  IN  {Order(i, nk, j) : j \in js}
      \cup {Wait(i, nk, j, Previous(i, js, j)) : j \in js}
      \cup UNION {{Fetch(i, nk, j, d, c) : j \in js, c \in 0 .. Pieces(JList[i].rms[d]) - 1} :
                    d \in DOMAIN JList[i].rms}

ExeSDiag(service) ==
  UNION {Round(i, nk, service) : i \in DOMAIN JList, nk \in 0 .. NChan - 1}

(* The tape runs through the settings and their channels: first all the    *)
(* orders, then for each device the wait, its ranges and their pieces.     *)
Place(h) == <<h.i, h.nk, IF h.op = "order" THEN 0 ELSE 1, h.j, h.d, h.c>>

Before(g, h) ==
  \E n \in 1 .. 6 : /\ Place(g)[n] < Place(h)[n]
                     /\ \A k \in 1 .. n - 1 : Place(g)[k] = Place(h)[k]

-----------------------------------------------------------------------------
NoSpectrum == [r |-> 0, i |-> 0, nk |-> 0]
NoBin == [m |-> "nobody", of |-> NoSpectrum, pos |-> 0]

Init ==
  /\ life = "gone"
  /\ config = [known |-> {}, sched |-> FALSE, sets |-> <<>>]
  /\ JList = <<>> /\ work = FALSE
  /\ run = FALSE /\ thread = "none" /\ tape = {} /\ tries = 0
  /\ posted = <<>> /\ bins = <<>> /\ last = <<>>
  /\ meas = {}
  /\ spectrum = [m \in Dev |-> NoSpectrum]
  /\ next = [m \in Dev |-> NoSpectrum]
  /\ clean = [m \in Dev |-> FALSE]
  /\ due = {} /\ done = {}
  /\ runs = 0 /\ lost = 0

(* The constructor and start.                                              *)
Start(c) ==
  /\ life = "gone"
  /\ life' = "started"
  /\ config' = c
  /\ \E on \in On(c) : JList' = JobList(c, on)
  /\ work' = (JList' # <<>> /\ c.sched)
  /\ bins' = [x \in UNION {{<<i, d>> : d \in DOMAIN JList'[i].rms} : i \in DOMAIN JList'} |->
                [v \in 1 .. JList'[x[1]].rms[x[2]].size |-> NoBin]]
  /\ UNCHANGED <<run, thread, tape, tries, posted, last, devs, clean,
                 due, done, runs, lost>>

(* runDiag with getSDiag, on the scheduler's signal, when the devices of   *)
(* service are in service (dstatus).  Nothing happens while a thread works *)
(* or when there is nothing to do.                                         *)
RunDiag(service) ==
  /\ work /\ ~run
  /\ runs < MaxRuns
  /\ ExeSDiag(service) # {}
  /\ run' = TRUE /\ thread' = "works"
  /\ tape' = ExeSDiag(service)
  /\ tries' = 0
  /\ due' = {} /\ done' = {}
  /\ runs' = runs + 1
  /\ UNCHANGED <<main, posted, bins, last, devs, clean, lost>>

-----------------------------------------------------------------------------
(* The thread: one command, with its repeats, as the processor has it done.*)

(* The next command of the tape.                                           *)
Command(op, h) ==
  /\ thread \in {"works", "told"}
  /\ h.op = op
  /\ \A g \in tape \ {h} : Before(h, g)

(* A command that is not answered, after all repeats.                      *)
Unanswered == lost < MaxLost /\ lost' = lost + 1

Ordered(h) ==
  /\ Command("order", h)
  /\ \/ /\ meas' = meas \cup {h.m}
        /\ next' = [next EXCEPT ![h.m] = [r |-> runs, i |-> h.i, nk |-> h.nk]]
        /\ clean' = [clean EXCEPT ![h.m] = TRUE]
        /\ UNCHANGED lost
     \/ /\ Unanswered
        /\ clean' = [clean EXCEPT ![h.m] = FALSE]
        /\ UNCHANGED <<meas, next>>
  /\ tape' = tape \ {h}
  /\ UNCHANGED <<main, run, thread, tries, posted, bins, last,
                 spectrum, due, done, runs>>

Measured(m) ==
  /\ m \in meas
  /\ meas' = meas \ {m}
  /\ spectrum' = [spectrum EXCEPT ![m] = next[m]]
  /\ next' = [next EXCEPT ![m] = NoSpectrum]
  /\ UNCHANGED <<main, run, thread, tape, tries, posted, bins,
                 last, clean, due, done, runs, lost>>

(* What a device says of itself.                                           *)
Status(m) == IF m \in meas THEN "busy" ELSE "ready"

(* The tests of the answer: who answers what, and 00 for ready.            *)
TestsPass(h) == h.af = <<h.m, "spectrum">> /\ Status(h.m) = "ready"

(* Mutant: the counter of dFOR is set anew by each answer.                 *)
PollForever(h) ==
  /\ ~TestsPass(h)
  /\ UNCHANGED <<tries, tape, clean, lost>>

(* dFOR: while the tests fail the device is asked again, at most Nsz times.*)
PollAgain(h) ==
  /\ ~TestsPass(h) /\ tries < Nsz
  /\ tries' = tries + 1
  /\ UNCHANGED <<tape, clean, lost>>

(* A wait that has failed goes on to the next command all the same: stBAD  *)
(* is a text, the jump would be goBAD_L.                                   *)
PollEnds(h) ==
  /\ \/ /\ TestsPass(h) \/ tries = Nsz
        /\ UNCHANGED lost
     \/ Unanswered
  /\ clean' = [clean EXCEPT ![h.m] = @ /\ h.m \notin meas]
  /\ tries' = 0
  /\ tape' = tape \ {h}

Poll(h) ==
  /\ Command("wait", h)
  /\ PollAgain(h) \/ PollEnds(h)
  /\ UNCHANGED <<main, run, thread, posted, bins, last, devs, due,
                 done, runs>>

(* The lines of a piece, as the device has them.                           *)
Lines(h) ==
  [v \in 1 .. h.piece.n |->
     [m |-> h.m, of |-> spectrum[h.m], pos |-> h.piece.at + v - 1]]

(* The last line of the range has been asked for.                          *)
ToTheEnd(h) ==
  LET r == JList[h.i].rms[h.d] IN h.piece.at + h.piece.n = r.start + r.size

(* exeRez: an answer is posted.  A device refuses to read no registers.    *)
Read(h) ==
  /\ Command("read", h)
  /\ \/ /\ h.piece.n > 0
        /\ posted' = Append(posted,
             [i |-> h.i, nk |-> h.nk, m |-> h.m, d |-> h.d, c |-> h.c,
              dat |-> Lines(h), whole |-> clean[h.m], r |-> runs,
              late |-> life # "started"])
        /\ due' = IF clean[h.m] /\ life = "started" /\ ToTheEnd(h)
                  THEN due \cup {<<h.i, h.nk, h.m, h.d>>} ELSE due
        /\ UNCHANGED <<clean, lost>>
     \/ /\ h.piece.n = 0
        /\ UNCHANGED <<posted, due, clean, lost>>
     \/ /\ Unanswered
        /\ clean' = [clean EXCEPT ![h.m] = FALSE]
        /\ UNCHANGED <<posted, due>>
  /\ tape' = tape \ {h}
  /\ UNCHANGED <<main, run, thread, tries, bins, last, devs,
                 done, runs>>

(* The tape is at its end, or the processor has obeyed halt.               *)
ThreadEnds ==
  /\ \/ thread = "works" /\ tape = {}
     \/ thread = "told"
  /\ thread' = "ended"
  /\ tape' = {} /\ tries' = 0
  /\ UNCHANGED <<main, run, posted, bins, last, devs, clean,
                 due, done, runs, lost>>

ThreadStep == (\E h \in tape : Ordered(h) \/ Poll(h) \/ Read(h)) \/ ThreadEnds

-----------------------------------------------------------------------------
(* The main thread.                                                        *)

(* The slot for the thread's end.  Pieces posted before it come before it. *)
DeleteThred ==
  /\ life \in {"started", "stopped"}
  /\ thread = "ended" /\ posted = <<>>
  /\ thread' = "none" /\ run' = FALSE
  /\ UNCHANGED <<main, tape, tries, posted, bins, last, devs,
                 clean, due, done, runs, lost>>

(* Mutant: all pieces are put at the beginning.                            *)
FilledAtStart(p) ==
  [v \in DOMAIN bins[<<p.i, p.d>>] |->
     IF v \in DOMAIN p.dat THEN p.dat[v] ELSE bins[<<p.i, p.d>>][v]]

(* The bins of a range with a piece in its place.                          *)
Filled(p) ==
  [v \in DOMAIN bins[<<p.i, p.d>>] |->
     IF v - MaxM * p.c \in DOMAIN p.dat THEN p.dat[v - MaxM * p.c]
     ELSE bins[<<p.i, p.d>>][v]]

(* Mutant: pieces are taken to be counted from 1.                          *)
LastPieceFrom1(p) == p.c = Pieces(JList[p.i].rms[p.d])

LastPiece(p) == p.c = Pieces(JList[p.i].rms[p.d]) - 1

(* setDate.                                                                *)
SetDate ==
  /\ life = "started" /\ posted # <<>>
  /\ LET p == Head(posted)
     IN /\ bins' = [bins EXCEPT ![<<p.i, p.d>>] = Filled(p)]
        /\ IF LastPiece(p)
           THEN /\ last' = <<[i |-> p.i, nk |-> p.nk, m |-> p.m, start |-> JList[p.i].rms[p.d].start,
                              bins |-> Filled(p), whole |-> p.whole, r |-> p.r]>>
                /\ done' = done \cup {<<p.i, p.nk, p.m, p.d>>}
           ELSE UNCHANGED <<last, done>>
  /\ posted' = Tail(posted)
  /\ UNCHANGED <<main, run, thread, tape, tries, devs, clean,
                 due, runs, lost>>

(* setDate after stopAll takes a job from an empty list: whatever follows  *)
(* is undefined, and the model ends.                                       *)
SetDateLate ==
  /\ life = "stopped" /\ posted # <<>>
  /\ life' = "undefined"
  /\ thread' = "none" /\ tape' = {} /\ meas' = {}
  /\ UNCHANGED <<config, JList, work, run, tries, posted, bins, last,
                 spectrum, next, clean, due, done, runs, lost>>

StopAll ==
  /\ life = "started"
  /\ life' = "stopped"
  /\ JList' = <<>> /\ bins' = <<>> /\ work' = FALSE
  /\ thread' = IF thread = "works" THEN "told" ELSE thread
  /\ due' = {} /\ done' = {}
  /\ UNCHANGED <<config, run, tape, tries, posted, last, devs,
                 clean, runs, lost>>

(* The destructor, behind what was posted before it was asked for.  It     *)
(* does not wait for the thread, which is left to itself; what the thread  *)
(* posts from then on goes nowhere.                                        *)
Destroy ==
  /\ life = "stopped"
  /\ \A k \in DOMAIN posted : posted[k].late
  /\ life' = "gone"
  /\ thread' = "none" /\ run' = FALSE /\ tape' = {} /\ tries' = 0
  /\ posted' = <<>> /\ last' = <<>>
  /\ clean' = [m \in Dev |-> FALSE]
  /\ UNCHANGED <<config, JList, work, bins, devs, due, done, runs, lost>>

Next ==
  \/ \E c \in Settings : Start(c)
  \/ \E m \in Dev : Measured(m)
  \/ \E service \in SUBSET config.known : RunDiag(service)
  \/ ThreadStep
  \/ DeleteThred
  \/ SetDate
  \/ SetDateLate
  \/ StopAll
  \/ Destroy

Spec == Init /\ [][Next]_vars

FairSpec == Spec /\ WF_vars(ThreadStep) /\ WF_vars(DeleteThred) /\ WF_vars(SetDate)

-----------------------------------------------------------------------------
(* A value is computed from its own lines: when the order, the measurement *)
(* and all the pieces went well, each bin holds the line of its place in   *)
(* the spectrum this run ordered of this device's channel for this setting *)
(* (setDate, sdiagCollector.cpp:336), though the bins are shared by all    *)
(* devices, channels and runs and the pieces come through a queue.         *)
ValueIsOwn ==
  \A k \in DOMAIN last : last[k].whole =>
    \A v \in DOMAIN last[k].bins :
      LET b == last[k].bins[v]
      IN  /\ b.m = last[k].m /\ b.pos = last[k].start + v - 1
          /\ b.of.r = last[k].r /\ b.of.i = last[k].i /\ b.of.nk = last[k].nk

(* Whatever a run has fetched to the last line is computed before its end  *)
(* is noticed and the next may begin (deleteThred, sdiagCollector.cpp:284),*)
(* ranges of a multiple of MaxM lines apart (section 6 of the README): the *)
(* last of their pieces is empty, and a device refuses to read nothing.    *)
WholeIsComputed ==
  ~run => \A x \in due :
            JList[x[1]].rms[x[4]].size % MaxM # 0 => x \in done

(* A run ends, and its end is noticed, so that the scheduler's next signal *)
(* is not refused for ever ("already working!", sdiagCollector.cpp:330).   *)
EndsAgain == run ~> (~run \/ life # "started")

=============================================================================
