---------------------------- MODULE ExecutProofs ----------------------------
(***************************************************************************)
(* What Execut guarantees for any number of Pollers, Jobs and Clients, any *)
(* tapes and any answers.  Processors are not stopped from outside, but    *)
(* for the Jobs, which are stopped at any moment (OnlyJobsStop).           *)
(*                                                                         *)
(* The invariant is a statement about the record of all variables, so that *)
(* it can be stated of the records between the calls of a handler: one     *)
(* lemma for each operator of Execut, then one for each action.            *)
(***************************************************************************)
EXTENDS Execut, TLAPS, FiniteSetTheorems, SequenceTheorems

-----------------------------------------------------------------------------
(* What a processor is. *)
Processor ==
  [run : BOOLEAN, transp : {"NONE", "TCP", "EXT"}, tape : Nat, pc : Nat,
   cur : Command \cup {NoCmd}, queue : Seq(Command), taut : BOOLEAN,
   tautS : BOOLEAN, pend : BOOLEAN, wake : BOOLEAN, rep : Nat, tcpErr : Nat,
   done : BOOLEAN]

Answer == [rez : {"OK", "BAD", "CON", "GW", "NOSL", "EMPTY"},
           what : What \cup {NoCmd}]

Request == [id : 0 .. IdMod - 1, what : What]

Typed(s) ==
  s \in [exe : [Exe -> Processor], idtran : 0 .. IdMod - 1,
         wire : SUBSET Request, box : [Child -> Seq(Answer)],
         asked : SUBSET Client, matched : BOOLEAN]

(* The commands of c that processor x holds, in its queue or as the current *)
(* one; one at most.                                                       *)
Queued(x, c) == {i \in DOMAIN x.queue : x.queue[i].from = c}
Current(x, c) == x.cur # NoCmd /\ x.cur.from = c
Commands(x, c) ==
  {x.queue[i] : i \in Queued(x, c)} \cup {cmd \in {x.cur} : Current(x, c)}
Once(x, c) ==
  /\ \A i, j \in Queued(x, c) : i = j
  /\ Current(x, c) => Queued(x, c) = {}

(* A processor that has sent its command up and waits for the answer.      *)
Waits(x) == x.transp = "EXT" /\ x.cur # NoCmd

(* Where a processor is: on its tape, or stopped.                          *)
Sound(e, x) ==
  /\ x.tape \in DOMAIN Tape[e]
  /\ x.pc # 0 => x.pc \in DOMAIN Tape[e][x.tape].cmds
  /\ x.pc = 0 => ~x.run /\ x.transp = "NONE" /\ x.cur = NoCmd
  /\ x.done => x.pc = 0
  /\ x.transp # (IF e = Master THEN "EXT" ELSE "TCP")

(* Its own command is in one place: to come after the delay, in the queue  *)
(* or in flight.  A Job that was stopped leaves its timers as they were.   *)
Alone(e, x) ==
  /\ x.pc = 0 /\ e \notin Stoppable =>
       ~x.tautS /\ ~x.taut /\ Commands(x, e) = {}
  /\ x.pc # 0 =>
       /\ Once(x, e)
       /\ x.tautS => Commands(x, e) = {}
       /\ x.taut => x.cur # NoCmd
       /\ x.run \/ e \in Stoppable
  /\ x.taut /\ e # Master => x.transp = "NONE"

(* What it holds of others was sent through it, and it is connected.       *)
Foreign(e, cmd) ==
  /\ cmd.from \in Child \cup Client
  /\ Up[cmd.from] = e
  /\ cmd.type \in {"IF", "BROADCAST"}

Hosts(e, x) ==
  \A c \in Exe \cup Client :
    \A cmd \in Commands(x, c) : c # e => Foreign(e, cmd) /\ x.transp # "NONE"

(* The command cmd, or the answer res, is to the one that x waits for.     *)
Awaited(x, cmd) ==
  /\ Waits(x)
  /\ cmd.what = x.cur.what
  /\ cmd.type = "BROADCAST" <=> x.cur.type = "BROADCAST"

Meant(x, res) ==
  res.rez \in {"OK", "BAD", "CON"} =>
     x.cur.what = res.what /\ x.cur.type # "BROADCAST"

(* A Job that was stopped from outside while it waited.                    *)
Gone(e, x) == x.pc = 0 /\ e \in Stoppable

(* Between c and the processor u that it sends through: what c waits for   *)
(* is in one place, a command at u or an answer on its way.                *)
Link(c, u, x, answers) ==
  /\ Once(u, c)
  /\ \A cmd \in Commands(u, c) : Awaited(x, cmd) /\ answers = <<>>
  /\ Len(answers) <= 1
  /\ answers # <<>> =>
       /\ Waits(x) \/ Gone(c, x)
       /\ Waits(x) => Meant(x, answers[1])

(* Whose commands are never lost. *)
Kept == IF SocketFails THEN Job ELSE Child

Linked(s, c) == Link(c, s.exe[Up[c]], s.exe[c], s.box[c])
Remains(s, c) ==
  Waits(s.exe[c]) => Commands(s.exe[Up[c]], c) # {} \/ s.box[c] # <<>>
Answerable(s, k) == k \in s.asked => Commands(s.exe[Up[k]], k) # {}

(* The numbers of the requests on the wire: none is older than WireCap.    *)
WireOK(x, w, id) ==
  /\ x.transp = "NONE" => w = {}
  /\ \A r \in w : (id - r.id) % IdMod < WireCap

LastSent(x, w, id) ==
  \A r \in w : r.id = id /\ x.cur # NoCmd => r.what = x.cur.what

(* All of it.  H are those whose command a handler holds in its hands.     *)
Inv(s, H) ==
  /\ Typed(s)
  /\ \A e \in Exe : /\ Sound(e, s.exe[e])
                     /\ Alone(e, s.exe[e])
                     /\ Hosts(e, s.exe[e])
  /\ \A c \in Child : Linked(s, c)
  /\ \A c \in Kept \ H : Remains(s, c)
  /\ \A k \in Client \ H : Answerable(s, k)
  /\ WireOK(s.exe[Master], s.wire, s.idtran)
  /\ Master \notin H => LastSent(s.exe[Master], s.wire, s.idtran)
  /\ s.matched

IInv == Inv(State, {})
-----------------------------------------------------------------------------
(* Who sends through whom. *)
LEMMA Roles ==
  /\ Master \in Exe /\ Poller \subseteq Child /\ Job \subseteq Child
  /\ Child \subseteq Exe /\ \A e \in Exe : e = Master \/ e \in Child
  /\ Master \notin Child /\ Master \notin Client
  /\ \A c \in Child : c \in Poller <=> c \notin Job
  /\ \A c \in Child : c \notin Client
  /\ \A c \in Child \cup Client : /\ Up[c] \in Exe /\ Up[c] \notin Job /\ Up[c] # c
                                  /\ Up[c] = Master <=> c \in Poller
  /\ NoCmd \notin Command
BY ExecutAssumption DEF Exe, Child

(* The parts of a state that is typed. *)
LEMMA Parts ==
  ASSUME NEW s, Typed(s), NEW e \in Exe
  PROVE  /\ s.exe[e] \in Processor
         /\ s.exe[e].queue \in Seq(Command)
         /\ s.exe[e].cur = NoCmd \/ s.exe[e].cur \in Command
         /\ DOMAIN s.exe = Exe
         /\ s.wire \subseteq Request /\ s.idtran \in 0 .. IdMod - 1
         /\ s.asked \subseteq Client
         /\ DOMAIN s.box = Child
         /\ \A c \in Child : s.box[c] \in Seq(Answer)
BY DEF Typed, Processor

(* The state in which processor e is x. *)
Put(s, e, x) == [s EXCEPT !.exe[e] = x]

LEMMA PutIs ==
  ASSUME NEW s, Typed(s), NEW e \in Exe, NEW x \in Processor
  PROVE  /\ Typed(Put(s, e, x))
         /\ Put(s, e, x).exe[e] = x
         /\ \A d \in Exe : d # e => Put(s, e, x).exe[d] = s.exe[d]
         /\ Put(s, e, x).idtran = s.idtran /\ Put(s, e, x).wire = s.wire
         /\ Put(s, e, x).box = s.box
         /\ Put(s, e, x).asked = s.asked /\ Put(s, e, x).matched = s.matched
BY DEF Typed, Put

-----------------------------------------------------------------------------
(* The commands a processor holds when its queue and current command are   *)
(* the same, when a command joins the queue, when the first of the queue   *)
(* becomes the current one, and when the current one is let go.            *)
LEMMA SameCommands ==
  ASSUME NEW x, NEW y, NEW c, y.cur = x.cur, y.queue = x.queue
  PROVE  Commands(y, c) = Commands(x, c) /\ (Once(y, c) <=> Once(x, c))
BY DEF Commands, Once, Queued, Current

LEMMA Joined ==
  ASSUME NEW x \in Processor, NEW y, NEW cmd \in Command, NEW c,
         y.cur = x.cur, y.queue = Append(x.queue, cmd)
  PROVE  /\ cmd.from # c => /\ Commands(y, c) = Commands(x, c)
                            /\ Once(y, c) <=> Once(x, c)
         /\ cmd.from = c => /\ Commands(y, c) = Commands(x, c) \cup {cmd}
                            /\ Commands(x, c) = {} => Once(y, c)
<1>1. x.queue \in Seq(Command)
  BY DEF Processor
<1>2. /\ DOMAIN y.queue = DOMAIN x.queue \cup {Len(x.queue) + 1}
      /\ Len(x.queue) + 1 \notin DOMAIN x.queue
      /\ \A i \in DOMAIN x.queue : y.queue[i] = x.queue[i]
      /\ y.queue[Len(x.queue) + 1] = cmd
  BY <1>1
<1>3. Queued(y, c) = IF cmd.from = c THEN Queued(x, c) \cup {Len(x.queue) + 1}
                     ELSE Queued(x, c)
  BY <1>2 DEF Queued
<1>4. Queued(x, c) \subseteq DOMAIN x.queue
  BY DEF Queued
<1>5. CASE cmd.from # c
  BY <1>2, <1>3, <1>4, <1>5 DEF Commands, Once, Current
<1>6. CASE cmd.from = c
  <2>1. Commands(y, c) = Commands(x, c) \cup {cmd}
    BY <1>2, <1>3, <1>4, <1>6 DEF Commands, Current
  <2>2. ASSUME Commands(x, c) = {} PROVE Once(y, c)
    <3>1. Queued(x, c) = {} /\ ~Current(x, c)
      BY <2>2 DEF Commands
    <3> QED
      BY <1>3, <1>6, <3>1 DEF Once, Current
  <2> QED
    BY <1>6, <2>1, <2>2
<1> QED
  BY <1>5, <1>6

LEMMA Taken ==
  ASSUME NEW x \in Processor, NEW y, NEW c, x.queue # <<>>, x.cur = NoCmd,
         y.cur = Head(x.queue), y.queue = Tail(x.queue)
  PROVE  Commands(y, c) = Commands(x, c) /\ (Once(x, c) => Once(y, c))
<1>1. x.queue \in Seq(Command)
  BY DEF Processor
<1>2. /\ 1 \in DOMAIN x.queue /\ y.cur = x.queue[1] /\ y.cur # NoCmd
      /\ DOMAIN y.queue \subseteq Nat \ {0}
      /\ \A i \in DOMAIN y.queue : i + 1 \in DOMAIN x.queue /\ y.queue[i] = x.queue[i + 1]
      /\ \A i \in DOMAIN x.queue : i = 1 \/ i - 1 \in DOMAIN y.queue
      /\ DOMAIN x.queue \subseteq Nat
  BY <1>1, Roles
<1>3. ~Current(x, c)
  BY DEF Current
<1>4. Commands(y, c) \subseteq Commands(x, c)
  BY <1>2 DEF Commands, Queued, Current
<1>5. Commands(x, c) \subseteq Commands(y, c)
  <2>1. ASSUME NEW i \in Queued(x, c) PROVE x.queue[i] \in Commands(y, c)
    <3>1. CASE i = 1
      BY <1>2, <2>1, <3>1 DEF Commands, Queued, Current
    <3>2. CASE i # 1
      <4>1. i - 1 \in DOMAIN y.queue /\ y.queue[i - 1] = x.queue[i]
        BY <1>2, <2>1, <3>2 DEF Queued
      <4> QED
        BY <2>1, <4>1 DEF Commands, Queued
    <3> QED
      BY <3>1, <3>2
  <2> QED
    BY <1>3, <2>1 DEF Commands
<1>6. ASSUME Once(x, c) PROVE Once(y, c)
  <2>1. \A i, j \in Queued(y, c) : i = j
    <3> SUFFICES ASSUME NEW i \in Queued(y, c), NEW j \in Queued(y, c) PROVE i = j
      OBVIOUS
    <3>1. i + 1 \in Queued(x, c) /\ j + 1 \in Queued(x, c) /\ i \in Nat /\ j \in Nat
      BY <1>2 DEF Queued
    <3> QED
      BY <1>6, <3>1 DEF Once
  <2>2. ASSUME Current(y, c), NEW i \in Queued(y, c) PROVE FALSE
    <3>1. i + 1 \in Queued(x, c) /\ i \in Nat \ {0} /\ 1 \in Queued(x, c)
      BY <1>2, <2>2 DEF Queued, Current
    <3> QED
      BY <1>6, <3>1 DEF Once
  <2> QED
    BY <2>1, <2>2 DEF Once
<1> QED
  BY <1>4, <1>5, <1>6

LEMMA LetGo ==
  ASSUME NEW x, NEW y, NEW c, y.cur = NoCmd, y.queue = x.queue
  PROVE  /\ Commands(y, c) \subseteq Commands(x, c)
         /\ ~Current(x, c) => Commands(y, c) = Commands(x, c)
         /\ Once(x, c) => /\ Once(y, c)
                          /\ Current(x, c) => Commands(y, c) = {}
<1>1. Queued(y, c) = Queued(x, c) /\ ~Current(y, c)
  BY DEF Queued, Current
<1> QED
  BY <1>1 DEF Commands, Once

LEMMA HoldsNone ==
  ASSUME NEW y, NEW c, y.cur = NoCmd, y.queue = <<>>
  PROVE  Commands(y, c) = {} /\ Once(y, c)
BY DEF Commands, Once, Queued, Current

(* What a processor holds of c is a command, and c's.                      *)
LEMMA HeldBelongs ==
  ASSUME NEW x \in Processor, NEW c, NEW cmd \in Commands(x, c)
  PROVE  cmd \in Command /\ cmd.from = c /\ c \in Exe \cup Client
<1>1. x.queue \in Seq(Command) /\ (x.cur = NoCmd \/ x.cur \in Command)
  BY DEF Processor
<1>2. cmd \in Command /\ cmd.from = c
  BY <1>1 DEF Commands, Queued, Current
<1> QED
  BY <1>2 DEF Command

-----------------------------------------------------------------------------
(* What a handler of processor e leaves alone. *)
Frame(s, t, e) ==
  /\ \A d \in Exe : d # e => t.exe[d] = s.exe[d]
  /\ \A c \in Child : Up[c] # e => t.box[c] = s.box[c]
  /\ \A k \in Client : Up[k] # e => (k \in t.asked <=> k \in s.asked)
  /\ t.asked \subseteq s.asked
  /\ e # Master => t.wire = s.wire /\ t.idtran = s.idtran

LEMMA FrameStep ==
  ASSUME NEW s, NEW t, NEW u, NEW e, Frame(s, t, e), Frame(t, u, e)
  PROVE  Frame(s, u, e)
BY DEF Frame

(* A change to one processor and to those that send through it is to be    *)
(* looked at there only.                                                   *)
LEMMA Local ==
  ASSUME NEW s, NEW t, NEW H, NEW G, NEW e \in Exe,
         Inv(s, H), Typed(t), Frame(s, t, e),
         Sound(e, t.exe[e]), Alone(e, t.exe[e]), Hosts(e, t.exe[e]),
         \A c \in Child : Up[c] = e \/ c = e => Linked(t, c),
         \A c \in Kept \ G : Up[c] = e \/ c = e => Remains(t, c),
         \A k \in Client \ G : Up[k] = e => Answerable(t, k),
         \A h \in H \ G : h = e \/ (h # Master /\ Up[h] = e),
         WireOK(t.exe[Master], t.wire, t.idtran),
         Master \notin G => LastSent(t.exe[Master], t.wire, t.idtran),
         t.matched
  PROVE  Inv(t, G)
<1>1. \A d \in Exe : Sound(d, t.exe[d]) /\ Alone(d, t.exe[d]) /\ Hosts(d, t.exe[d])
  BY DEF Inv, Frame
<1>2. ASSUME NEW c \in Child, Up[c] # e, c # e
      PROVE  /\ t.exe[c] = s.exe[c] /\ t.exe[Up[c]] = s.exe[Up[c]]
             /\ t.box[c] = s.box[c]
  BY <1>2, Roles DEF Frame
<1>3. \A c \in Child : Linked(t, c)
  <2> SUFFICES ASSUME NEW c \in Child, Up[c] # e, c # e PROVE Linked(t, c)
    OBVIOUS
  <2>1. Linked(s, c)
    BY DEF Inv
  <2> QED
    BY <2>1, <1>2 DEF Linked
<1>4. \A c \in Kept \ G : Remains(t, c)
  <2> SUFFICES ASSUME NEW c \in Kept \ G, Up[c] # e, c # e PROVE Remains(t, c)
    OBVIOUS
  <2>1. c \in Child
    BY Roles DEF Kept
  <2>2. Remains(s, c)
    BY <2>1, Roles DEF Inv
  <2> QED
    BY <2>1, <2>2, <1>2 DEF Remains
<1>5. \A k \in Client \ G : Answerable(t, k)
  <2> SUFFICES ASSUME NEW k \in Client \ G, Up[k] # e PROVE Answerable(t, k)
    OBVIOUS
  <2>1. k \notin H
    BY Roles DEF Exe, Child
  <2>2. Answerable(s, k)
    BY <2>1 DEF Inv
  <2>3. t.exe[Up[k]] = s.exe[Up[k]] /\ (k \in t.asked => k \in s.asked)
    BY Roles DEF Frame
  <2> QED
    BY <2>2, <2>3 DEF Answerable
<1> QED
  BY <1>1, <1>3, <1>4, <1>5 DEF Inv

-----------------------------------------------------------------------------
(* Reply: an answer goes to the owner of a command that nobody holds any   *)
(* more.                                                                   *)
LEMMA ReplyOK ==
  ASSUME NEW s, NEW e \in Exe, NEW cmd \in Command, NEW res \in Answer,
         Inv(s, {cmd.from}), Foreign(e, cmd),
         cmd.from \in Child => /\ Waits(s.exe[cmd.from])
                               /\ Commands(s.exe[e], cmd.from) = {}
                               /\ s.box[cmd.from] = <<>>
                               /\ Meant(s.exe[cmd.from], res),
         NEW t, t = Reply(s, cmd, res)
  PROVE  Inv(t, {}) /\ Frame(s, t, e) /\ t.exe = s.exe
<1> DEFINE o == cmd.from
<1>1. o \in Child \cup Client /\ Up[o] = e /\ o # Master /\ o # e
  BY Roles DEF Foreign
<1>2. Typed(s) /\ s.matched /\ WireOK(s.exe[Master], s.wire, s.idtran)
      /\ LastSent(s.exe[Master], s.wire, s.idtran)
  BY <1>1 DEF Inv
<1>3. Sound(e, s.exe[e]) /\ Alone(e, s.exe[e]) /\ Hosts(e, s.exe[e])
  BY DEF Inv
<1>4. CASE o \in Client
  <2>1. t = [s EXCEPT !.asked = @ \ {o}]
    BY <1>4 DEF Reply
  <2>2. /\ Typed(t) /\ t.exe = s.exe /\ t.box = s.box /\ t.wire = s.wire
        /\ t.idtran = s.idtran /\ t.matched = s.matched /\ t.asked = s.asked \ {o}
    BY ONLY <2>1, <1>2 DEF Typed
  <2>3. Frame(s, t, e)
    BY <1>1, <2>2 DEF Frame
  <2>4. \A c \in Child : Linked(t, c)
    BY <2>2 DEF Inv, Linked
  <2>5. \A c \in Kept : Remains(t, c)
    <3> SUFFICES ASSUME NEW c \in Kept PROVE Remains(t, c)
      OBVIOUS
    <3>1. c # o
      BY <1>4, Roles DEF Kept
    <3> QED
      BY <2>2, <3>1 DEF Inv, Remains
  <2>6. \A k \in Client : Answerable(t, k)
    BY <2>2 DEF Inv, Answerable
  <2>7. Inv(t, {})
    BY <2>2, <2>4, <2>5, <2>6, <1>2 DEF Inv
  <2> QED
    BY <2>2, <2>3, <2>7
<1>5. CASE o \in Child
  <2>1. t = [s EXCEPT !.box[o] = Append(@, res)]
    BY <1>5, Roles DEF Reply, Waits
  <2>0. s.box[o] = <<>>
    BY <1>5
  <2>2. /\ s.box[o] = <<>> /\ Append(<<>>, res) = <<res>>
        /\ <<res>> \in Seq(Answer) /\ <<res>> # <<>>
    BY <2>0
  <2>3. /\ Typed(t) /\ t.exe = s.exe /\ t.asked = s.asked /\ t.wire = s.wire
        /\ t.idtran = s.idtran /\ t.matched = s.matched
        /\ t.box[o] = <<res>> /\ \A c \in Child : c # o => t.box[c] = s.box[c]
    BY ONLY <2>1, <2>2, <1>2, <1>5 DEF Typed
  <2>4. Frame(s, t, e)
    BY <1>1, <2>3 DEF Frame
  <2>5. \A c \in Child : Linked(t, c)
    <3> SUFFICES ASSUME NEW c \in Child PROVE Linked(t, c)
      OBVIOUS
    <3>1. Linked(s, c)
      BY DEF Inv
    <3>2. CASE c # o
      BY <2>3, <3>1, <3>2 DEF Linked
    <3>3. CASE c = o
      <4>1. Once(s.exe[e], o) /\ Commands(s.exe[e], o) = {}
        BY <1>1, <1>5, <3>1, <3>3 DEF Linked, Link
      <4>2. Len(<<res>>) <= 1 /\ <<res>>[1] = res
        OBVIOUS
      <4>3. Waits(s.exe[o]) /\ Meant(s.exe[o], res)
        BY <1>5
      <4> QED
        BY <1>1, <2>3, <3>3, <4>1, <4>2, <4>3 DEF Linked, Link
    <3> QED
      BY <3>2, <3>3
  <2>6. \A c \in Kept : Remains(t, c)
    <3> SUFFICES ASSUME NEW c \in Kept PROVE Remains(t, c)
      OBVIOUS
    <3>1. c \in Child
      BY Roles DEF Kept
    <3>2. CASE c # o
      BY <2>3, <3>1, <3>2 DEF Inv, Remains
    <3>3. CASE c = o
      BY <2>2, <2>3, <3>3 DEF Remains
    <3> QED
      BY <3>2, <3>3
  <2>7. \A k \in Client : Answerable(t, k)
    <3> SUFFICES ASSUME NEW k \in Client PROVE Answerable(t, k)
      OBVIOUS
    <3>1. k # o
      BY <1>5, Roles
    <3> QED
      BY <2>3, <3>1 DEF Inv, Answerable
  <2>8. Inv(t, {})
    BY <2>3, <2>5, <2>6, <2>7, <1>2 DEF Inv
  <2> QED
    BY <2>3, <2>4, <2>8
<1> QED
  BY <1>1, <1>4, <1>5

-----------------------------------------------------------------------------
(* Disconnect.  The answers that those get whose commands are in the queue *)
(* of x.                                                                   *)
Returned(x, c) == [i \in 1 .. Cardinality(Queued(x, c)) |-> Empty]

Answered(s, e, t) ==
  /\ \A c \in Child :
       t.box[c] = IF c # e /\ s.exe[c].transp = "EXT"
                  THEN s.box[c] \o Returned(s.exe[e], c) ELSE s.box[c]
  /\ t.asked = {k \in s.asked : Queued(s.exe[e], k) = {}}

LEMMA ReturnedIs ==
  ASSUME NEW x \in Processor, NEW c
  PROVE  /\ Returned(x, c) \in Seq(Answer)
         /\ Queued(x, c) = {} => Returned(x, c) = <<>>
         /\ Once(x, c) /\ Queued(x, c) # {} => Returned(x, c) = <<Empty>>
<1>1. x.queue \in Seq(Command) /\ Queued(x, c) \subseteq 1 .. Len(x.queue)
  BY DEF Processor, Queued
<1>2. IsFiniteSet(Queued(x, c)) /\ Cardinality(Queued(x, c)) \in Nat
  <2>1. IsFiniteSet(1 .. Len(x.queue))
    BY <1>1, FS_Interval
  <2> QED
    BY <1>1, <2>1, FS_Subset, FS_CardinalityType
<1>3. Empty \in Answer
  BY DEF Empty, Answer
<1>4. Returned(x, c) \in Seq(Answer)
  BY <1>2, <1>3, IsASeq DEF Returned
<1>5. ASSUME Queued(x, c) = {} PROVE Returned(x, c) = <<>>
  <2>1. Cardinality(Queued(x, c)) = 0
    BY <1>5, FS_EmptySet
  <2> QED
    BY <2>1 DEF Returned
<1>6. ASSUME Once(x, c), Queued(x, c) # {} PROVE Returned(x, c) = <<Empty>>
  <2>1. PICK i : i \in Queued(x, c)
    BY <1>6
  <2>2. Queued(x, c) = {i}
    BY <1>6, <2>1 DEF Once
  <2>3. Cardinality(Queued(x, c)) = 1
    BY <2>2, FS_Singleton
  <2> QED
    BY <2>3 DEF Returned
<1> QED
  BY <1>4, <1>5, <1>6

LEMMA UnpluggedIs ==
  ASSUME NEW x \in Processor
  PROVE  /\ Unplugged(x) \in Processor
         /\ Unplugged(x).transp = "NONE" /\ Unplugged(x).queue = <<>>
         /\ ~Unplugged(x).taut /\ ~Unplugged(x).tautS
         /\ Unplugged(x).run = x.run /\ Unplugged(x).tape = x.tape
         /\ Unplugged(x).pc = x.pc /\ Unplugged(x).cur = x.cur
         /\ Unplugged(x).done = x.done
<1>1. <<>> \in Seq(Command)
  OBVIOUS
<1> QED
  BY <1>1 DEF Processor, Unplugged

LEMMA DisconnectIs ==
  ASSUME NEW s, Typed(s), NEW e \in Exe, NEW t, t = Disconnect(s, e)
  PROVE  /\ Typed(t)
         /\ t.exe[e] = Unplugged(s.exe[e])
         /\ \A d \in Exe : d # e => t.exe[d] = s.exe[d]
         /\ t.wire = IF e = Master THEN {} ELSE s.wire
         /\ t.idtran = s.idtran /\ t.matched = s.matched
         /\ Answered(s, e, t)
<1> DEFINE x == s.exe[e]
           u == Unplugged(x)
           w == IF e = Master THEN {} ELSE s.wire
           b == [c \in Child |-> IF c # e /\ s.exe[c].transp = "EXT"
                                 THEN s.box[c] \o Returned(x, c) ELSE s.box[c]]
           a == {k \in s.asked : Queued(x, k) = {}}
<1>1. x \in Processor
  BY Parts
<1>2. u \in Processor
  BY <1>1, UnpluggedIs
<1>3. b \in [Child -> Seq(Answer)]
  <2> SUFFICES ASSUME NEW c \in Child
               PROVE  (IF c # e /\ s.exe[c].transp = "EXT"
                       THEN s.box[c] \o Returned(x, c) ELSE s.box[c]) \in Seq(Answer)
    OBVIOUS
  <2>1. s.box[c] \in Seq(Answer)
    BY Parts
  <2>2. Returned(x, c) \in Seq(Answer)
    BY <1>1, ReturnedIs
  <2>3. s.box[c] \o Returned(x, c) \in Seq(Answer)
    BY <2>1, <2>2, ConcatProperties
  <2> QED
    BY <2>1, <2>3
<1>4. t = [s EXCEPT !.exe[e] = u, !.wire = w, !.box = b, !.asked = a]
  BY DEF Disconnect, Returned, Queued, Typed
<1> HIDE DEF u, w, b, a
<1>5. /\ Typed(t)
      /\ t.exe[e] = u
      /\ \A d \in Exe : d # e => t.exe[d] = s.exe[d]
      /\ t.wire = w /\ t.box = b /\ t.asked = a
      /\ t.idtran = s.idtran /\ t.matched = s.matched
  <2>1. w \subseteq Request /\ a \subseteq Client
    BY Parts DEF w, a
  <2> QED
    BY ONLY <1>2, <1>3, <1>4, <2>1, Typed(s), e \in Exe DEF Typed
<1> QED
  BY <1>5 DEF u, w, b, a, Answered

(* A processor that lets go of all it holds, and answers what was queued.  *)
LEMMA DropOK ==
  ASSUME NEW s, NEW e \in Exe, NEW t, Inv(s, {}) \/ Inv(s, {e}), Typed(t),
         \A d \in Exe : d # e => t.exe[d] = s.exe[d],
         t.wire = IF e = Master THEN {} ELSE s.wire,
         t.idtran = s.idtran, t.matched = s.matched,
         Answered(s, e, t),
         t.exe[e].transp = "NONE", t.exe[e].queue = <<>>, t.exe[e].cur = NoCmd,
         ~t.exe[e].tautS, ~t.exe[e].taut,
         Sound(e, t.exe[e]), t.exe[e].pc # 0 => t.exe[e].run \/ e \in Stoppable,
         e \in Child => /\ Commands(s.exe[Up[e]], e) = {}
                        /\ s.box[e] = <<>> \/ Gone(e, t.exe[e]),
         \/ s.exe[e].cur = NoCmd
         \/ s.exe[e].cur.from = e
         \/ e = Master /\ SocketFails
  PROVE  Inv(t, {}) /\ Frame(s, t, e)
<1> DEFINE x == s.exe[e]
           y == t.exe[e]
<1>0. /\ \A c \in Child :
           t.box[c] = IF c # e /\ s.exe[c].transp = "EXT"
                      THEN s.box[c] \o Returned(x, c) ELSE s.box[c]
      /\ t.asked = {k \in s.asked : Queued(x, k) = {}}
  BY DEF Answered
<1>1. /\ Typed(s) /\ s.matched /\ WireOK(s.exe[Master], s.wire, s.idtran)
      /\ e # Master => LastSent(s.exe[Master], s.wire, s.idtran)
      /\ \A c \in Child : Linked(s, c)
      /\ \A c \in Kept : c # e => Remains(s, c)
      /\ \A k \in Client : Answerable(s, k)
      /\ Hosts(e, x)
  BY Roles DEF Inv
<1>2. x \in Processor
  BY <1>1, Parts
<1>3. \A c : Commands(y, c) = {} /\ Once(y, c)
  BY HoldsNone
<1>4. Alone(e, y) /\ Hosts(e, y)
  BY <1>3 DEF Alone, Hosts
<1>5. ASSUME NEW c, Queued(x, c) # {} PROVE Commands(x, c) # {}
  <2>1. PICK i : i \in Queued(x, c)
    BY <1>5
  <2>2. x.queue[i] \in Commands(x, c)
    BY <2>1 DEF Commands
  <2> QED
    BY <2>2
<1>6. ASSUME NEW c \in Child \cup Client, c # e, Up[c] # e PROVE Queued(x, c) = {}
  <2>1. c \in Exe \cup Client
    BY Roles
  <2>2. \A cmd \in Commands(x, c) : cmd.from = c
    <3> SUFFICES ASSUME NEW cmd \in Commands(x, c) PROVE cmd.from = c
      OBVIOUS
    <3> QED
      BY <1>2, HeldBelongs
  <2>3. Commands(x, c) = {}
    BY <1>1, <1>6, <2>1, <2>2 DEF Hosts, Foreign
  <2> QED
    BY <1>5, <2>3
<1>7. ASSUME NEW c \in Child, Queued(x, c) = {} PROVE t.box[c] = s.box[c]
  <2>1. Returned(x, c) = <<>>
    BY <1>2, <1>7, ReturnedIs
  <2>2. s.box[c] \in Seq(Answer) /\ s.box[c] \o <<>> = s.box[c]
    BY <1>1, Parts
  <2> QED
    BY <1>0, <2>1, <2>2
<1>8. ASSUME NEW c \in Child, Up[c] = e, Queued(x, c) # {}
      PROVE  Waits(s.exe[c]) /\ t.box[c] = <<Empty>>
  <2>1. Linked(s, c)
    BY <1>1
  <2>2. Once(x, c) /\ Waits(s.exe[c]) /\ s.box[c] = <<>>
    BY <1>5, <1>8, <2>1 DEF Linked, Link, Awaited
  <2>3. Returned(x, c) = <<Empty>>
    BY <1>2, <1>8, <2>2, ReturnedIs
  <2>4. c # e /\ s.exe[c].transp = "EXT"
    BY <1>8, <2>2, Roles DEF Waits
  <2>5. <<>> \o <<Empty>> = <<Empty>>
    BY DEF Empty
  <2> QED
    BY <1>0, <2>2, <2>3, <2>4, <2>5
<1>9. Frame(s, t, e)
  <2>1. \A c \in Child : Up[c] # e => t.box[c] = s.box[c]
    BY <1>0, <1>6, <1>7
  <2>2. \A k \in Client : Up[k] # e => (k \in t.asked <=> k \in s.asked)
    BY <1>0, <1>6, Roles DEF Exe, Child
  <2> QED
    BY <1>0, <2>1, <2>2 DEF Frame
<1>10. \A c \in Child : Up[c] = e \/ c = e => Linked(t, c)
  <2> SUFFICES ASSUME NEW c \in Child, Up[c] = e \/ c = e PROVE Linked(t, c)
    OBVIOUS
  <2>1. Link(c, s.exe[Up[c]], s.exe[c], s.box[c])
    BY <1>1 DEF Linked
  <2>2. CASE c = e
    <3>1. t.exe[Up[c]] = s.exe[Up[c]] /\ Commands(s.exe[Up[c]], c) = {}
      BY <2>2, Roles
    <3>2. t.box[c] = s.box[c] /\ ~Waits(y) /\ (s.box[c] = <<>> \/ Gone(e, y))
      BY <1>0, <2>2 DEF Waits
    <3> QED
      BY <2>1, <2>2, <3>1, <3>2 DEF Linked, Link
  <2>3. CASE c # e
    <3>1. Up[c] = e /\ t.exe[c] = s.exe[c]
      BY <2>3, Roles
    <3>2. CASE Queued(x, c) = {}
      BY <1>3, <1>7, <2>1, <3>1, <3>2 DEF Linked, Link
    <3>3. CASE Queued(x, c) # {}
      <4>1. Waits(s.exe[c]) /\ t.box[c] = <<Empty>>
        BY <1>8, <3>1, <3>3
      <4>2. Len(<<Empty>>) <= 1 /\ <<Empty>>[1] = Empty
        OBVIOUS
      <4>3. Meant(s.exe[c], Empty)
        BY DEF Meant, Empty
      <4> QED
        BY <1>3, <3>1, <4>1, <4>2, <4>3 DEF Linked, Link
    <3> QED
      BY <3>2, <3>3
  <2> QED
    BY <2>2, <2>3
<1>11. \A c \in Kept : Up[c] = e \/ c = e => Remains(t, c)
  <2> SUFFICES ASSUME NEW c \in Kept, Up[c] = e \/ c = e PROVE Remains(t, c)
    OBVIOUS
  <2>1. c \in Child
    BY Roles DEF Kept
  <2>2. CASE c = e
    BY <2>2 DEF Remains, Waits
  <2>3. CASE c # e
    <3>1. Up[c] = e /\ t.exe[c] = s.exe[c] /\ Remains(s, c)
      BY <1>1, <2>1, <2>3, Roles
    <3>2. CASE Queued(x, c) # {}
      <4>1. t.box[c] = <<Empty>> /\ <<Empty>> # <<>>
        BY <1>8, <2>1, <3>1, <3>2
      <4> QED
        BY <4>1 DEF Remains
    <3>3. CASE Queued(x, c) = {}
      <4>1. ~Current(x, c)
        BY <2>1, <2>3, <3>1, Roles DEF Current, Kept
      <4>2. Commands(x, c) = {}
        BY <3>3, <4>1 DEF Commands
      <4>3. t.box[c] = s.box[c]
        BY <1>7, <2>1, <3>3
      <4> QED
        BY <3>1, <4>2, <4>3 DEF Remains
    <3> QED
      BY <3>2, <3>3
  <2> QED
    BY <2>2, <2>3
<1>12. \A k \in Client : Up[k] = e => Answerable(t, k)
  <2> SUFFICES ASSUME NEW k \in Client, Up[k] = e, k \in t.asked PROVE FALSE
    BY DEF Answerable
  <2>1. k \in s.asked /\ Queued(x, k) = {} /\ Answerable(s, k)
    BY <1>0, <1>1
  <2>2. k # e /\ e # Master
    BY Roles, ExecutAssumption
  <2>3. ~Current(x, k)
    BY <2>2 DEF Current
  <2> QED
    BY <2>1, <2>3 DEF Answerable, Commands
<1>13. /\ WireOK(t.exe[Master], t.wire, t.idtran)
       /\ LastSent(t.exe[Master], t.wire, t.idtran)
  <2>1. CASE e = Master
    BY <2>1 DEF WireOK, LastSent
  <2>2. CASE e # Master
    BY <1>1, <2>2, Roles
  <2> QED
    BY <2>1, <2>2
<1>14. t.matched
  BY <1>1
<1> HIDE DEF x, y
<1>15. ASSUME NEW H, Inv(s, H), H \subseteq {e} PROVE Inv(t, {})
  BY <1>4, <1>9, <1>10, <1>11, <1>12, <1>13, <1>14, <1>15, Local DEF y
<1> QED
  BY <1>9, <1>15

-----------------------------------------------------------------------------
(* Stop and Next.  A processor that stops lets go of all it holds; one     *)
(* that is not connected holds nothing of others.                          *)
LEMMA HaltOK ==
  ASSUME NEW s, NEW e \in Exe, Inv(s, {}) \/ Inv(s, {e}),
         s.exe[e].transp # "NONE" =>
           /\ e \in Child => Commands(s.exe[Up[e]], e) = {}
           /\ \/ s.exe[e].cur = NoCmd
              \/ s.exe[e].cur.from = e
              \/ e = Master /\ SocketFails,
         s.exe[e].transp = "NONE" =>
           \/ e \in Stoppable
           \/ ~s.exe[e].tautS /\ ~s.exe[e].taut /\ Commands(s.exe[e], e) = {},
         e \in Child => s.box[e] = <<>> \/ e \in Stoppable,
         NEW t, t = Halt(s, e)
  PROVE  Inv(t, {}) /\ Frame(s, t, e)
<1> DEFINE x == s.exe[e]
           xr == [x EXCEPT !.run = FALSE]
           r == Put(s, e, xr)
           d == IF x.transp # "NONE" THEN Disconnect(r, e) ELSE r
           y == [d.exe[e] EXCEPT !.pc = 0, !.cur = NoCmd, !.done = TRUE]
<1>1. Typed(s) /\ x \in Processor
  BY Parts DEF Inv
<1>2. xr \in Processor /\ xr.queue = x.queue /\ xr.tape = x.tape /\ xr.taut = x.taut
      /\ xr.tautS = x.tautS /\ xr.transp = x.transp /\ xr.run = FALSE
  BY <1>1 DEF Processor
<1>3. [s EXCEPT !.exe[e].run = FALSE] = r
  BY <1>1 DEF Put, Typed
<1> HIDE DEF xr
<1>4. /\ Typed(r) /\ r.exe[e] = xr /\ \A c \in Exe : c # e => r.exe[c] = s.exe[c]
      /\ r.idtran = s.idtran /\ r.wire = s.wire /\ r.box = s.box
      /\ r.asked = s.asked /\ r.matched = s.matched
  BY <1>1, <1>2, PutIs DEF r
<1>5. t = [d EXCEPT !.exe[e].pc = 0, !.exe[e].cur = NoCmd, !.exe[e].done = TRUE]
  BY <1>3 DEF Halt
<1> HIDE DEF r
<1>6. CASE x.transp # "NONE"
  <2>1. d = Disconnect(r, e)
    BY <1>6
  <2> HIDE DEF d
  <2>2. /\ Typed(d)
        /\ d.exe[e] = Unplugged(xr)
        /\ \A c \in Exe : c # e => d.exe[c] = s.exe[c]
        /\ d.wire = IF e = Master THEN {} ELSE s.wire
        /\ d.idtran = s.idtran /\ d.matched = s.matched
    BY <1>4, <2>1, DisconnectIs
  <2>3. Answered(r, e, d)
    BY <1>4, <2>1, DisconnectIs
  <2>4. \A c : Queued(xr, c) = Queued(x, c) /\ Returned(xr, c) = Returned(x, c)
    BY <1>2 DEF Queued, Returned
  <2>5. Answered(s, e, d)
    BY <1>4, <2>3, <2>4, Roles DEF Answered
  <2>6. d.exe[e] \in Processor
    BY <2>2, Parts
  <2>7. t = Put(d, e, y)
    BY <1>5, <2>2 DEF Put, Typed
  <2>8. /\ y \in Processor /\ y.pc = 0 /\ y.cur = NoCmd /\ y.done = TRUE
        /\ y.run = d.exe[e].run /\ y.transp = d.exe[e].transp
        /\ y.queue = d.exe[e].queue /\ y.tape = d.exe[e].tape
        /\ y.taut = d.exe[e].taut /\ y.tautS = d.exe[e].tautS
    BY <2>6 DEF Processor
  <2> HIDE DEF y
  <2>9. /\ y.transp = "NONE" /\ y.queue = <<>> /\ ~y.taut /\ ~y.tautS
        /\ y.run = FALSE /\ y.tape = x.tape
    BY <1>2, <2>2, <2>8, UnpluggedIs
  <2>10. /\ Typed(t) /\ t.exe[e] = y /\ \A c \in Exe : c # e => t.exe[c] = s.exe[c]
         /\ t.wire = IF e = Master THEN {} ELSE s.wire
         /\ t.idtran = s.idtran /\ t.matched = s.matched
         /\ t.box = d.box /\ t.asked = d.asked
    BY <2>2, <2>7, <2>8, PutIs
  <2>11. Sound(e, y)
    <3>1. Sound(e, x)
      BY DEF Inv
    <3> QED
      BY <2>8, <2>9, <3>1, Roles DEF Sound
  <2>12. /\ t.exe[e].transp = "NONE" /\ t.exe[e].queue = <<>>
         /\ t.exe[e].cur = NoCmd /\ ~t.exe[e].tautS /\ ~t.exe[e].taut
         /\ Sound(e, t.exe[e]) /\ t.exe[e].pc = 0
         /\ e \in Child => s.box[e] = <<>> \/ Gone(e, t.exe[e])
    BY <2>8, <2>9, <2>10, <2>11 DEF Gone
  <2>13. Answered(s, e, t)
    BY <2>5, <2>10 DEF Answered
  <2> HIDE DEF x
  <2> QED
    BY <1>6, <2>10, <2>12, <2>13, DropOK DEF x
<1>7. CASE x.transp = "NONE"
  <2>0. d = r
    BY <1>7
  <2> HIDE DEF d
  <2>1. t = Put(d, e, y)
    <3>1. Typed(d)
      BY <1>4, <2>0
    <3> QED
      BY ONLY <1>5, <3>1, e \in Exe DEF Put, Typed
  <2>2. /\ y \in Processor /\ y.pc = 0 /\ y.cur = NoCmd /\ y.done = TRUE
        /\ y.run = xr.run /\ y.transp = xr.transp
        /\ y.queue = xr.queue /\ y.tape = xr.tape
        /\ y.taut = xr.taut /\ y.tautS = xr.tautS
    BY <1>2, <1>4, <2>0 DEF Processor
  <2> HIDE DEF y
  <2>3. /\ y.pc = 0 /\ y.cur = NoCmd /\ y.done = TRUE /\ y.run = FALSE
        /\ y.transp = "NONE" /\ y.queue = x.queue /\ y.tape = x.tape
        /\ y.taut = x.taut /\ y.tautS = x.tautS
    BY <1>2, <1>7, <2>2
  <2>4. /\ Typed(t) /\ t.exe[e] = y /\ \A c \in Exe : c # e => t.exe[c] = s.exe[c]
        /\ t.wire = s.wire /\ t.idtran = s.idtran /\ t.matched = s.matched
        /\ t.box = s.box /\ t.asked = s.asked
    BY <1>4, <2>0, <2>1, <2>2, PutIs
  <2>5. /\ \A c \in Child : Linked(s, c)
        /\ \A c \in Kept : c # e => Remains(s, c)
        /\ \A k \in Client : Answerable(s, k)
        /\ Sound(e, x) /\ Alone(e, x) /\ Hosts(e, x)
        /\ WireOK(s.exe[Master], s.wire, s.idtran) /\ s.matched
        /\ e # Master => LastSent(s.exe[Master], s.wire, s.idtran)
    BY Roles DEF Inv
  <2>6. \A c : Commands(y, c) \subseteq Commands(x, c) /\ (Once(x, c) => Once(y, c))
    BY <2>3, LetGo
  <2>7. ASSUME NEW c \in Child \cup Client, c # e
        PROVE  Commands(x, c) = {} /\ Commands(y, c) = {}
    <3>1. c \in Exe \cup Client
      BY Roles
    <3> QED
      BY <1>7, <2>5, <2>6, <2>7, <3>1 DEF Hosts
  <2>8. Frame(s, t, e)
    BY <2>4 DEF Frame
  <2>9. Sound(e, y) /\ Alone(e, y) /\ Hosts(e, y)
    <3>1. Sound(e, y)
      BY <2>3, <2>5, Roles DEF Sound
    <3>2. Alone(e, y)
      BY <1>7, <2>3, <2>6 DEF Alone
    <3>3. Hosts(e, y)
      BY <1>7, <2>5, <2>6 DEF Hosts
    <3> QED
      BY <3>1, <3>2, <3>3
  <2>10. \A c \in Child : Up[c] = e \/ c = e => Linked(t, c)
    <3> SUFFICES ASSUME NEW c \in Child, Up[c] = e \/ c = e PROVE Linked(t, c)
      OBVIOUS
    <3>1. Link(c, s.exe[Up[c]], s.exe[c], s.box[c])
      BY <2>5 DEF Linked
    <3>2. CASE c = e
      <4>1. t.exe[Up[c]] = s.exe[Up[c]] /\ t.exe[c] = y
        BY <2>4, <3>2, Roles
      <4>2. Commands(s.exe[Up[c]], c) = {}
        BY <1>7, <3>1, <3>2 DEF Link, Awaited, Waits
      <4>3. ~Waits(y) /\ (s.box[c] = <<>> \/ Gone(c, y))
        BY <2>3, <3>2 DEF Waits, Gone
      <4> QED
        BY <2>4, <3>1, <4>1, <4>2, <4>3 DEF Linked, Link
    <3>3. CASE c # e
      <4>1. Up[c] = e /\ t.exe[c] = s.exe[c] /\ Commands(y, c) = {}
        BY <2>4, <2>7, <3>3, Roles
      <4>2. Once(y, c)
        BY <2>6, <3>1, <4>1 DEF Link
      <4> QED
        BY <2>4, <3>1, <4>1, <4>2 DEF Linked, Link
    <3> QED
      BY <3>2, <3>3
  <2>11. \A c \in Kept : Up[c] = e \/ c = e => Remains(t, c)
    <3> SUFFICES ASSUME NEW c \in Kept, Up[c] = e \/ c = e PROVE Remains(t, c)
      OBVIOUS
    <3>1. c \in Child
      BY Roles DEF Kept
    <3>2. CASE c = e
      BY <2>3, <2>4, <3>2 DEF Remains, Waits
    <3>3. CASE c # e
      BY <2>4, <2>5, <2>7, <3>1, <3>3, Roles DEF Remains
    <3> QED
      BY <3>2, <3>3
  <2>12. \A k \in Client : Up[k] = e => Answerable(t, k)
    <3> SUFFICES ASSUME NEW k \in Client, Up[k] = e PROVE Answerable(t, k)
      OBVIOUS
    <3>1. k # e
      BY Roles
    <3> QED
      BY <2>4, <2>5, <2>7, <3>1 DEF Answerable
  <2>13. /\ WireOK(t.exe[Master], t.wire, t.idtran)
         /\ LastSent(t.exe[Master], t.wire, t.idtran)
    <3>1. CASE e = Master
      BY <1>7, <2>3, <2>4, <2>5, <3>1 DEF WireOK, LastSent
    <3>2. CASE e # Master
      BY <2>4, <2>5, <3>2, Roles
    <3> QED
      BY <3>1, <3>2
  <2>14. t.matched
    BY <2>4, <2>5
  <2>15. ASSUME NEW H, Inv(s, H), H \subseteq {e} PROVE Inv(t, {})
    BY <2>4, <2>8, <2>9, <2>10, <2>11, <2>12, <2>13, <2>14, <2>15, Local
  <2> QED
    BY <2>8, <2>15
<1> QED
  BY <1>6, <1>7

-----------------------------------------------------------------------------
(* A change to a processor alone: what it holds of others, and what it     *)
(* waits for, is to be looked at.                                          *)
Fits(s, H, G, e, y) ==
  /\ Sound(e, y) /\ Alone(e, y) /\ Hosts(e, y)
  /\ \A h \in H \ G : h = e \/ (h # Master /\ Up[h] = e)
  /\ \A c \in Child : Up[c] = e => Link(c, y, s.exe[c], s.box[c])
  /\ e \in Child => Link(e, s.exe[Up[e]], y, s.box[e])
  /\ \A c \in (Child \cup Client) \ G :
       c # e /\ Up[c] = e /\ (c \in H \/ Commands(s.exe[e], c) # {})
         => Commands(y, c) # {}
  /\ e \in Kept \ G /\ Waits(y) =>
       Commands(s.exe[Up[e]], e) # {} \/ s.box[e] # <<>>
  /\ e = Master => /\ y.transp = "NONE" => s.wire = {}
                   /\ e \notin G => LastSent(y, s.wire, s.idtran)

LEMMA PutOK ==
  ASSUME NEW s, NEW H, NEW G, NEW e \in Exe, Inv(s, H), NEW y \in Processor,
         Fits(s, H, G, e, y), NEW t, t = Put(s, e, y)
  PROVE  Inv(t, G) /\ Frame(s, t, e)
<1>0. /\ Sound(e, y) /\ Alone(e, y) /\ Hosts(e, y)
      /\ \A h \in H \ G : h = e \/ (h # Master /\ Up[h] = e)
      /\ \A c \in Child : Up[c] = e => Link(c, y, s.exe[c], s.box[c])
      /\ e \in Child => Link(e, s.exe[Up[e]], y, s.box[e])
      /\ \A c \in (Child \cup Client) \ G :
           c # e /\ Up[c] = e /\ (c \in H \/ Commands(s.exe[e], c) # {})
             => Commands(y, c) # {}
      /\ e \in Kept \ G /\ Waits(y) =>
           Commands(s.exe[Up[e]], e) # {} \/ s.box[e] # <<>>
      /\ e = Master => /\ y.transp = "NONE" => s.wire = {}
                       /\ e \notin G => LastSent(y, s.wire, s.idtran)
  BY DEF Fits
<1>1. /\ Typed(s) /\ s.matched /\ WireOK(s.exe[Master], s.wire, s.idtran)
      /\ Master \notin H => LastSent(s.exe[Master], s.wire, s.idtran)
      /\ \A c \in Child : Linked(s, c)
      /\ \A c \in Kept \ H : Remains(s, c)
      /\ \A k \in Client \ H : Answerable(s, k)
  BY DEF Inv
<1>2. /\ Typed(t) /\ t.exe[e] = y /\ \A d \in Exe : d # e => t.exe[d] = s.exe[d]
      /\ t.idtran = s.idtran /\ t.wire = s.wire /\ t.box = s.box
      /\ t.asked = s.asked /\ t.matched = s.matched
  <2> DEFINE u == Put(s, e, y)
  <2>1. /\ Typed(u) /\ u.exe[e] = y /\ \A d \in Exe : d # e => u.exe[d] = s.exe[d]
        /\ u.idtran = s.idtran /\ u.wire = s.wire /\ u.box = s.box
        /\ u.asked = s.asked /\ u.matched = s.matched
    <3>1. Typed(s)
      BY <1>1
    <3> QED
      BY ONLY <3>1, PutIs, e \in Exe, y \in Processor
  <2> HIDE DEF u
  <2>2. t = u
    BY DEF u
  <2> QED
    BY <2>1, <2>2
<1>3. Frame(s, t, e)
  BY <1>2 DEF Frame
<1>4. \A c \in Child : Up[c] = e \/ c = e => Linked(t, c)
  <2> SUFFICES ASSUME NEW c \in Child, Up[c] = e \/ c = e PROVE Linked(t, c)
    OBVIOUS
  <2>1. CASE c = e
    <3>1. Up[c] \in Exe /\ Up[c] # c
      BY Roles
    <3>2. t.exe[Up[c]] = s.exe[Up[c]] /\ t.exe[c] = y
      BY <1>2, <2>1, <3>1
    <3> QED
      BY <1>0, <1>2, <2>1, <3>2 DEF Linked
  <2>2. CASE c # e
    <3>1. t.exe[Up[c]] = y /\ t.exe[c] = s.exe[c]
      BY <1>2, <2>2, Roles
    <3> QED
      BY <1>0, <1>2, <2>2, <3>1 DEF Linked
  <2> QED
    BY <2>1, <2>2
<1>5. \A c \in Kept \ G : Up[c] = e \/ c = e => Remains(t, c)
  <2> SUFFICES ASSUME NEW c \in Kept \ G, Up[c] = e \/ c = e PROVE Remains(t, c)
    OBVIOUS
  <2>0. c \in Child
    BY Roles DEF Kept
  <2>1. CASE c = e
    <3>1. Up[c] \in Exe /\ Up[c] # c
      BY <2>0, Roles
    <3>2. t.exe[Up[c]] = s.exe[Up[c]] /\ t.exe[c] = y
      BY <1>2, <2>1, <3>1
    <3> QED
      BY <1>0, <1>2, <2>1, <3>2 DEF Remains
  <2>2. CASE c # e
    <3>1. t.exe[Up[c]] = y /\ t.exe[c] = s.exe[c] /\ (c \in H \/ Remains(s, c))
      BY <1>1, <1>2, <2>0, <2>2, Roles
    <3>2. c \in H \/ Commands(s.exe[Up[c]], c) # {} => Commands(y, c) # {}
      BY <1>0, <2>0, <2>2
    <3> QED
      BY <1>2, <3>1, <3>2 DEF Remains
  <2> QED
    BY <2>1, <2>2
<1>6. \A k \in Client \ G : Up[k] = e => Answerable(t, k)
  <2> SUFFICES ASSUME NEW k \in Client \ G, Up[k] = e PROVE Answerable(t, k)
    OBVIOUS
  <2>1. k # e
    BY Roles
  <2>2. k \in H \/ Answerable(s, k)
    BY <1>1
  <2> QED
    BY <1>0, <1>2, <2>1, <2>2 DEF Answerable
<1>7. /\ WireOK(t.exe[Master], t.wire, t.idtran)
      /\ Master \notin G => LastSent(t.exe[Master], t.wire, t.idtran)
  <2>1. CASE e = Master
    BY <1>0, <1>1, <1>2, <2>1 DEF WireOK
  <2>2. CASE e # Master
    BY <1>0, <1>1, <1>2, <2>2, Roles
  <2> QED
    BY <2>1, <2>2
<1>8. \A h \in H \ G : h = e \/ (h # Master /\ Up[h] = e)
  BY <1>0
<1>9. t.matched
  BY <1>1, <1>2
<1> QED
  BY <1>0, <1>2, <1>3, <1>4, <1>5, <1>6, <1>7, <1>8, <1>9, Local

(* One that holds and waits for the same as before.                        *)
LEMMA QuietOK ==
  ASSUME NEW s, NEW H, NEW e \in Exe, Inv(s, H), H \subseteq {e}, NEW y \in Processor,
         y.cur = s.exe[e].cur, y.queue = s.exe[e].queue, y.transp = s.exe[e].transp,
         Sound(e, y), Alone(e, y),
         e \in Child => Waits(y) \/ Gone(e, y) \/ s.box[e] = <<>>,
         NEW t, t = Put(s, e, y)
  PROVE  Inv(t, H) /\ Frame(s, t, e)
<1> DEFINE x == s.exe[e]
<1>1. /\ Hosts(e, x) /\ WireOK(s.exe[Master], s.wire, s.idtran)
      /\ Master \notin H => LastSent(s.exe[Master], s.wire, s.idtran)
      /\ \A c \in Child : Linked(s, c)
      /\ \A c \in Kept \ H : Remains(s, c)
  BY DEF Inv
<1>2. \A c : Commands(y, c) = Commands(x, c) /\ (Once(y, c) <=> Once(x, c))
  BY SameCommands
<1>3. Hosts(e, y)
  BY <1>1, <1>2 DEF Hosts
<1>4. ASSUME NEW c \in Child, Up[c] = e PROVE Link(c, y, s.exe[c], s.box[c])
  BY <1>1, <1>2, <1>4 DEF Linked, Link
<1>5. Waits(y) <=> Waits(x)
  BY DEF Waits
<1>6. ASSUME e \in Child PROVE Link(e, s.exe[Up[e]], y, s.box[e])
  <2>1. Link(e, s.exe[Up[e]], x, s.box[e])
    BY <1>1, <1>6 DEF Linked
  <2>2. \A cmd : Awaited(x, cmd) => Awaited(y, cmd)
    BY <1>5 DEF Awaited
  <2>3. \A res : Meant(x, res) => Meant(y, res)
    BY DEF Meant
  <2> QED
    BY <1>5, <1>6, <2>1, <2>2, <2>3 DEF Link
<1>7. e \in Kept \ H => (Waits(y) => Commands(s.exe[Up[e]], e) # {} \/ s.box[e] # <<>>)
  BY <1>1, <1>5 DEF Remains
<1>8. e = Master => /\ y.transp = "NONE" => s.wire = {}
                    /\ e \notin H => LastSent(y, s.wire, s.idtran)
  BY <1>1 DEF WireOK, LastSent
<1>9. Fits(s, H, H, e, y)
  BY <1>2, <1>3, <1>4, <1>6, <1>7, <1>8 DEF Fits
<1> QED
  BY <1>9, PutOK

(* One whose pend, wake or tcpErr alone differs. *)
LEMMA SilentOK ==
  ASSUME NEW s, NEW e \in Exe, Inv(s, {}), NEW y \in Processor,
         y.cur = s.exe[e].cur, y.queue = s.exe[e].queue, y.transp = s.exe[e].transp,
         y.run = s.exe[e].run, y.tape = s.exe[e].tape, y.pc = s.exe[e].pc,
         y.taut = s.exe[e].taut, y.tautS = s.exe[e].tautS, y.done = s.exe[e].done,
         NEW t, t = Put(s, e, y)
  PROVE  Inv(t, {})
<1> DEFINE x == s.exe[e]
<1>1. Sound(e, x) /\ Alone(e, x) /\ (e \in Child => Linked(s, e))
  BY DEF Inv
<1>2. \A c : Commands(y, c) = Commands(x, c) /\ (Once(y, c) <=> Once(x, c))
  BY SameCommands
<1>3. Sound(e, y)
  BY <1>1 DEF Sound
<1>4. Alone(e, y)
  BY <1>1, <1>2 DEF Alone
<1>5. e \in Child => Waits(y) \/ Gone(e, y) \/ s.box[e] = <<>>
  BY <1>1 DEF Linked, Link, Waits, Gone
<1> QED
  BY <1>3, <1>4, <1>5, QuietOK

(* Without a current command it waits for nothing.                         *)
LEMMA IdleOK ==
  ASSUME NEW s, NEW e \in Exe, Inv(s, {}) \/ Inv(s, {e}), s.exe[e].cur = NoCmd
  PROVE  Inv(s, {})
<1>1. ASSUME e \in Kept PROVE Remains(s, e)
  BY DEF Remains, Waits
<1>2. ASSUME e = Master PROVE LastSent(s.exe[Master], s.wire, s.idtran)
  BY <1>2 DEF LastSent
<1> QED
  BY <1>1, <1>2, Roles DEF Inv

(* The lines of the tape a processor runs. *)
LEMMA TapeIs ==
  ASSUME NEW e \in Exe, NEW x \in Processor, Sound(e, x)
  PROVE  /\ Tape[e][x.tape].cmds \in Seq(TapeLine)
         /\ 1 \in DOMAIN Tape[e][x.tape].cmds
         /\ 0 \notin DOMAIN Tape[e][x.tape].cmds
         /\ x.pc # 0 => /\ Tape[e][x.tape].cmds[x.pc].ok \in Nat
                        /\ Tape[e][x.tape].cmds[x.pc].bad \in Nat
                        /\ Tape[e][x.tape].cmds[x.pc].type \in Kinds
<1> DEFINE tapes == Tape[e]
           S == [maxRepeat : Nat, cmds : Seq(TapeLine) \ {<<>>}]
<1>1. tapes \in Seq(S) /\ x.tape \in DOMAIN tapes
  BY ExecutAssumption DEF Sound
<1> HIDE DEF tapes, S
<1>2. tapes[x.tape] \in S
  BY ONLY <1>1
<1> DEFINE q == Tape[e][x.tape].cmds
<1>3. q \in Seq(TapeLine) /\ q # <<>>
  BY <1>2 DEF tapes, S
<1>4. x.pc # 0 => x.pc \in DOMAIN q
  BY DEF Sound
<1> HIDE DEF q
<1>5. 1 \in DOMAIN q /\ 0 \notin DOMAIN q
  BY <1>3
<1>6. x.pc # 0 => q[x.pc] \in TapeLine
  BY <1>3, <1>4
<1>7. x.pc # 0 => q[x.pc].ok \in Nat /\ q[x.pc].bad \in Nat /\ q[x.pc].type \in Kinds
  BY <1>6 DEF TapeLine
<1> QED
  BY <1>3, <1>5, <1>7 DEF q

(* Next: a processor with nothing in flight goes to another place of its   *)
(* tape, or stops.                                                         *)
LEMMA GoToOK ==
  ASSUME NEW s, NEW e \in Exe, Inv(s, {}) \/ Inv(s, {e}), NEW poz \in Nat,
         s.exe[e].cur = NoCmd, Commands(s.exe[e], e) = {},
         ~s.exe[e].taut, ~s.exe[e].tautS, s.exe[e].pc # 0,
         NEW t, t = GoTo(s, e, poz)
  PROVE  Inv(t, {}) /\ Frame(s, t, e)
<1> DEFINE x == s.exe[e]
           y == [x EXCEPT !.pc = poz, !.tautS = TRUE]
<1>0. Inv(s, {})
  BY IdleOK
<1>1. /\ Typed(s) /\ Sound(e, x) /\ Alone(e, x)
      /\ e \in Child => Linked(s, e)
  BY <1>0 DEF Inv
<1>2. x \in Processor
  BY <1>1, Parts
<1>3. ~Waits(x)
  BY DEF Waits
<1>4. ASSUME e \in Child
      PROVE  Commands(s.exe[Up[e]], e) = {} /\ s.box[e] = <<>>
  BY <1>1, <1>3, <1>4 DEF Linked, Link, Awaited, Gone
<1>5. CASE x.run /\ poz \in DOMAIN Cmds(s, e)
  <2>1. t = Put(s, e, y)
    <3>1. t = [s EXCEPT !.exe[e].pc = poz, !.exe[e].tautS = TRUE]
      BY <1>5 DEF GoTo
    <3> QED
      BY ONLY <3>1, <1>1, e \in Exe DEF Put, Typed
  <2>2. /\ y \in Processor /\ y.pc = poz /\ y.tautS = TRUE /\ y.taut = x.taut
        /\ y.cur = x.cur /\ y.queue = x.queue /\ y.transp = x.transp
        /\ y.run = x.run /\ y.tape = x.tape /\ y.done = x.done
    BY <1>2 DEF Processor
  <2> HIDE DEF y
  <2>3. poz \in DOMAIN Tape[e][x.tape].cmds /\ poz # 0
    BY <1>1, <1>2, <1>5, TapeIs DEF Cmds
  <2>4. Sound(e, y)
    BY <1>1, <2>2, <2>3 DEF Sound
  <2>5. Commands(y, e) = {} /\ (Once(x, e) => Once(y, e))
    BY <2>2, SameCommands
  <2>6. Alone(e, y)
    BY <1>1, <1>5, <2>2, <2>3, <2>5 DEF Alone
  <2>7. e \in Child => Waits(y) \/ Gone(e, y) \/ s.box[e] = <<>>
    BY <1>4
  <2> QED
    BY <1>0, <2>1, <2>2, <2>4, <2>6, <2>7, QuietOK
<1>6. CASE ~(x.run /\ poz \in DOMAIN Cmds(s, e))
  <2>1. t = Halt(s, e)
    BY <1>6 DEF GoTo
  <2> QED
    BY <1>0, <1>4, <2>1, HaltOK
<1> QED
  BY <1>5, <1>6

-----------------------------------------------------------------------------
(* The answer to a command is at hand: it was not at the processor above,  *)
(* and is on its way no more.                                              *)
AtHand(s, e) ==
  /\ s.exe[e].cur # NoCmd
  /\ e \in Child => Commands(s.exe[Up[e]], e) = {} /\ s.box[e] = <<>>

(* y is x when it has let go of its current command.                       *)
Off(x, y) ==
  /\ y \in Processor
  /\ y.cur = NoCmd /\ y.taut = FALSE
  /\ y.queue = x.queue /\ y.transp = x.transp /\ y.run = x.run
  /\ y.tape = x.tape /\ y.pc = x.pc /\ y.tautS = x.tautS /\ y.done = x.done

(* What is then so of the command cmd that was let go, in the state t.     *)
Released(s, t, e, y, cmd) ==
  /\ Inv(t, {cmd.from}) /\ Frame(s, t, e) /\ Typed(s)
  /\ t.exe[e] = y /\ cmd \in Command /\ y.pc # 0 /\ Sound(e, y)
  /\ cmd.from = e => Commands(y, e) = {} /\ ~y.tautS
  /\ cmd.from # e => Foreign(e, cmd)
  /\ cmd.from \in Child /\ cmd.from # e =>
       /\ Awaited(t.exe[cmd.from], cmd)
       /\ Commands(y, cmd.from) = {}
       /\ t.box[cmd.from] = <<>>

LEMMA OffOK ==
  ASSUME NEW s, NEW e \in Exe, Inv(s, {}) \/ Inv(s, {e}), AtHand(s, e),
         NEW y, Off(s.exe[e], y)
  PROVE  Released(s, Put(s, e, y), e, y, s.exe[e].cur)
<1>t. PICK t : t = Put(s, e, y)
  OBVIOUS
<1>c. PICK cmd : cmd = s.exe[e].cur
  OBVIOUS
<1> SUFFICES Released(s, t, e, y, cmd)
  BY <1>t, <1>c
<1> DEFINE x == s.exe[e]
           o == cmd.from
<1>1. /\ Typed(s) /\ Sound(e, x) /\ Alone(e, x) /\ Hosts(e, x)
      /\ \A c \in Child : Linked(s, c)
      /\ WireOK(s.exe[Master], s.wire, s.idtran)
  BY DEF Inv
<1>2. x \in Processor /\ y \in Processor
  BY <1>1, Parts DEF Off
<1>3. /\ cmd \in Command /\ cmd # NoCmd /\ o \in Exe \cup Client
      /\ cmd \in Commands(x, o) /\ Current(x, o) /\ \A c : Current(x, c) => c = o
  BY <1>2, <1>c DEF Processor, AtHand, Command, Commands, Current
<1>4. x.pc # 0 /\ y.pc # 0
  BY <1>1 DEF Sound, AtHand, Off
<1>5. /\ \A c : Commands(y, c) \subseteq Commands(x, c) /\ (Once(x, c) => Once(y, c))
      /\ \A c : c # o => Commands(y, c) = Commands(x, c)
      /\ Once(x, o) => Commands(y, o) = {}
  BY <1>3, LetGo DEF Off
<1>6. Sound(e, y)
  BY <1>1, <1>4 DEF Sound, Off
<1>7. Alone(e, y)
  <2>1. /\ Once(y, e) /\ (y.tautS => Commands(y, e) = {}) /\ ~y.taut
        /\ y.run \/ e \in Stoppable
    BY <1>1, <1>4, <1>5 DEF Alone, Off
  <2> QED
    BY <1>4, <2>1 DEF Alone
<1>8. Hosts(e, y)
  BY <1>1, <1>5 DEF Hosts, Off
<1>9. ASSUME o # e PROVE Foreign(e, cmd)
  BY <1>1, <1>3, <1>9 DEF Hosts
<1>10. ASSUME NEW c \in Child, Up[c] = e PROVE Link(c, y, s.exe[c], s.box[c])
  <2>1. Link(c, x, s.exe[c], s.box[c])
    BY <1>1, <1>10 DEF Linked
  <2> QED
    BY <1>5, <2>1 DEF Link
<1>11. ASSUME e \in Child PROVE Link(e, s.exe[Up[e]], y, s.box[e])
  <2>1. Link(e, s.exe[Up[e]], x, s.box[e])
    BY <1>1, <1>11 DEF Linked
  <2>2. Commands(s.exe[Up[e]], e) = {} /\ s.box[e] = <<>>
    BY <1>11 DEF AtHand
  <2> QED
    BY <2>1, <2>2 DEF Link
<1>12. ~Waits(y)
  BY DEF Waits, Off
<1>13. e = Master => /\ y.transp = "NONE" => s.wire = {}
                     /\ e \notin {o} => LastSent(y, s.wire, s.idtran)
  BY <1>1 DEF WireOK, LastSent, Off
<1>14. Inv(t, {o}) /\ Frame(s, t, e)
  <2>1. ASSUME NEW H, Inv(s, H), H \subseteq {o} \cup {e}
        PROVE  Inv(t, {o}) /\ Frame(s, t, e)
    <3>0. PICK G : G = {o}
      OBVIOUS
    <3>1. \A h \in H \ G : h = e \/ (h # Master /\ Up[h] = e)
      BY <2>1, <3>0
    <3>2. \A c \in (Child \cup Client) \ G :
            c # e /\ Up[c] = e /\ (c \in H \/ Commands(s.exe[e], c) # {})
              => Commands(y, c) # {}
      BY <1>5, <2>1, <3>0
    <3>3. e \in Kept \ G =>
            (Waits(y) => Commands(s.exe[Up[e]], e) # {} \/ s.box[e] # <<>>)
      BY <1>12
    <3>4. e = Master => /\ y.transp = "NONE" => s.wire = {}
                        /\ e \notin G => LastSent(y, s.wire, s.idtran)
      BY <1>13, <3>0
    <3>5. Inv(t, G) /\ Frame(s, t, e)
      <4>1. y \in Processor
        BY <1>2
      <4>2. Fits(s, H, G, e, y)
        BY <1>6, <1>7, <1>8, <1>10, <1>11, <3>1, <3>2, <3>3, <3>4 DEF Fits
      <4> QED
        BY <1>t, <2>1, <4>1, <4>2, PutOK
    <3> QED
      BY <3>0, <3>5
  <2> QED
    BY <2>1
<1>15. t.exe[e] = y /\ t.box = s.box /\ \A d \in Exe : d # e => t.exe[d] = s.exe[d]
  BY <1>1, <1>2, <1>t, PutIs
<1>16. ASSUME o = e PROVE Commands(y, e) = {} /\ ~y.tautS
  <2>1. Once(x, e) /\ ~x.tautS
    BY <1>1, <1>3, <1>4, <1>16 DEF Alone
  <2> QED
    BY <1>5, <1>16, <2>1 DEF Off
<1>17. ASSUME o \in Child, o # e
       PROVE  Awaited(t.exe[o], cmd) /\ Commands(y, o) = {} /\ t.box[o] = <<>>
  <2>1. Up[o] = e
    BY <1>9, <1>17 DEF Foreign
  <2>2. Link(o, x, s.exe[o], s.box[o])
    BY <1>1, <1>17, <2>1 DEF Linked
  <2>3. Awaited(s.exe[o], cmd) /\ s.box[o] = <<>> /\ Once(x, o)
    BY <1>3, <2>2 DEF Link
  <2>4. t.exe[o] = s.exe[o]
    BY <1>15, <1>17, Roles
  <2> QED
    BY <1>5, <1>15, <2>3, <2>4
<1> QED
  BY <1>1, <1>3, <1>4, <1>6, <1>9, <1>14, <1>15, <1>16, <1>17 DEF Released

LEMMA PutRep ==
  ASSUME NEW s, Typed(s), NEW e \in Exe, NEW y \in Processor, NEW n \in Nat
  PROVE  /\ [Put(s, e, y) EXCEPT !.exe[e].rep = n] = Put(s, e, [y EXCEPT !.rep = n])
         /\ [y EXCEPT !.rep = n] \in Processor
BY DEF Put, Typed, Processor

LEMMA OffRep ==
  ASSUME NEW x, NEW y, Off(x, y), NEW n \in Nat
  PROVE  Off(x, [y EXCEPT !.rep = n])
BY DEF Off, Processor

(* An own command that was let go is followed by another one.              *)
LEMMA OwnGoesOn ==
  ASSUME NEW s, NEW e \in Exe, Inv(s, {}) \/ Inv(s, {e}), AtHand(s, e),
         NEW y, Off(s.exe[e], y), s.exe[e].cur.from = e, NEW poz \in Nat,
         NEW t, t = GoTo(Put(s, e, y), e, poz)
  PROVE  Inv(t, {}) /\ Frame(s, t, e)
<1> DEFINE p == Put(s, e, y)
<1>1. /\ Inv(p, {e}) /\ Frame(s, p, e)
      /\ p.exe[e] = y /\ y.pc # 0 /\ Commands(y, e) = {} /\ ~y.tautS
  <2>1. Released(s, p, e, y, s.exe[e].cur)
    BY OffOK
  <2> HIDE DEF p
  <2> QED
    BY <2>1 DEF Released
<1>2. y.cur = NoCmd /\ ~y.taut
  BY DEF Off
<1> HIDE DEF p
<1>3. t = GoTo(p, e, poz)
  BY DEF p
<1>4. Inv(t, {}) /\ Frame(p, t, e)
  BY <1>1, <1>2, <1>3, GoToOK
<1> QED
  BY <1>1, <1>4, FrameStep

(* ttaut. *)
LEMMA TimedOutOK ==
  ASSUME NEW s, NEW e \in Exe, Inv(s, {}) \/ Inv(s, {e}), AtHand(s, e),
         NEW y, Off(s.exe[e], y), NEW noSlave \in BOOLEAN,
         NEW t, t = TimedOut(Put(s, e, y), e, s.exe[e].cur, noSlave)
  PROVE  Inv(t, {}) /\ Frame(s, t, e)
<1> DEFINE p == Put(s, e, y)
           cmd == s.exe[e].cur
<1>1. /\ Inv(p, {cmd.from}) /\ Frame(s, p, e) /\ Typed(s)
      /\ p.exe[e] = y /\ cmd \in Command /\ y.pc # 0 /\ Sound(e, y)
      /\ cmd.from # e => Foreign(e, cmd)
      /\ cmd.from \in Child /\ cmd.from # e =>
           /\ Awaited(p.exe[cmd.from], cmd)
           /\ Commands(y, cmd.from) = {}
           /\ p.box[cmd.from] = <<>>
  <2>1. Released(s, p, e, y, cmd)
    BY OffOK
  <2> HIDE DEF p, cmd
  <2> QED
    BY <2>1 DEF Released
<1>2. y \in Processor
  BY DEF Off
<1>3. CASE cmd.from # e
  <2>1. t = Reply(p, cmd, Empty)
    BY <1>3 DEF TimedOut
  <2> HIDE DEF p, cmd
  <2>2. Empty \in Answer /\ \A x : Meant(x, Empty)
    BY DEF Empty, Answer, Meant
  <2>3. cmd.from \in Child =>
          /\ Waits(p.exe[cmd.from])
          /\ Commands(p.exe[e], cmd.from) = {}
          /\ p.box[cmd.from] = <<>>
          /\ Meant(p.exe[cmd.from], Empty)
    BY <1>1, <1>3, <2>2 DEF Awaited
  <2>4. Inv(t, {}) /\ Frame(p, t, e)
    BY <1>1, <1>3, <2>1, <2>2, <2>3, ReplyOK
  <2> QED
    BY <1>1, <2>4, FrameStep DEF p
<1>4. CASE cmd.from = e
  <2>1. /\ y.rep \in Nat /\ y.rep + 1 \in Nat /\ y.pc \in Nat
        /\ Cmds(p, e)[y.pc].ok \in Nat /\ Cmds(p, e)[y.pc].bad \in Nat
    <3>1. Cmds(p, e) = Tape[e][y.tape].cmds
      BY <1>1 DEF Cmds
    <3>2. y.rep \in Nat /\ y.pc \in Nat
      BY <1>2 DEF Processor
    <3> HIDE DEF p
    <3> QED
      BY <1>1, <1>2, <3>1, <3>2, TapeIs
  <2>2. \/ t = GoTo(p, e, Cmds(p, e)[y.pc].ok)
        \/ t = GoTo([p EXCEPT !.exe[e].rep = y.rep + 1], e, y.pc)
        \/ t = GoTo([p EXCEPT !.exe[e].rep = 0], e, Cmds(p, e)[y.pc].bad)
    <3>1. t = TimedOut(p, e, cmd, noSlave)
      OBVIOUS
    <3> HIDE DEF p, cmd
    <3> QED
      BY <1>1, <1>4, <3>1 DEF TimedOut
  <2>3. CASE t = GoTo(p, e, Cmds(p, e)[y.pc].ok)
    BY <1>4, <2>1, <2>3, OwnGoesOn
  <2>4. ASSUME NEW n \in Nat, NEW poz \in Nat,
               t = GoTo([p EXCEPT !.exe[e].rep = n], e, poz)
        PROVE  Inv(t, {}) /\ Frame(s, t, e)
    <3> DEFINE z == [y EXCEPT !.rep = n]
    <3>1. [p EXCEPT !.exe[e].rep = n] = Put(s, e, z)
      BY <1>1, <1>2, PutRep
    <3>2. Off(s.exe[e], z)
      BY OffRep
    <3>3. t = GoTo(Put(s, e, z), e, poz)
      BY <2>4, <3>1
    <3> HIDE DEF z
    <3> QED
      BY <1>4, <3>2, <3>3, OwnGoesOn
  <2> QED
    BY <2>1, <2>2, <2>3, <2>4
<1> QED
  BY <1>3, <1>4

(* RScharmanka. *)
LEMMA ExamineOK ==
  ASSUME NEW s, NEW e \in Exe, Inv(s, {}) \/ Inv(s, {e}), AtHand(s, e),
         NEW y, Off(s.exe[e], y), NEW res \in Answer,
         res.rez \in {"OK", "BAD", "CON"}, Meant(s.exe[e], res),
         NEW t, t = Examine(Put(s, e, y), e, s.exe[e].cur, res)
  PROVE  Inv(t, {}) /\ Frame(s, t, e)
<1> DEFINE p == Put(s, e, y)
           cmd == s.exe[e].cur
<1>1. /\ Inv(p, {cmd.from}) /\ Frame(s, p, e) /\ Typed(s)
      /\ p.exe[e] = y /\ cmd \in Command /\ y.pc # 0 /\ Sound(e, y)
      /\ cmd.from # e => Foreign(e, cmd)
      /\ cmd.from \in Child /\ cmd.from # e =>
           /\ Awaited(p.exe[cmd.from], cmd)
           /\ Commands(y, cmd.from) = {}
           /\ p.box[cmd.from] = <<>>
  <2>1. Released(s, p, e, y, cmd)
    BY OffOK
  <2> HIDE DEF p, cmd
  <2> QED
    BY <2>1 DEF Released
<1>2. y \in Processor
  BY DEF Off
<1>3. CASE cmd.from # e
  <2>1. t = Reply(p, cmd, res)
    BY <1>3 DEF Examine
  <2>2. cmd.what = res.what /\ cmd.type # "BROADCAST"
    BY DEF Meant
  <2> HIDE DEF p, cmd
  <2>3. \A x : Awaited(x, cmd) => Waits(x) /\ Meant(x, res)
    BY <2>2 DEF Meant, Awaited
  <2>4. cmd.from \in Child =>
          /\ Waits(p.exe[cmd.from])
          /\ Commands(p.exe[e], cmd.from) = {}
          /\ p.box[cmd.from] = <<>>
          /\ Meant(p.exe[cmd.from], res)
    BY <1>1, <1>3, <2>3
  <2>5. Inv(t, {}) /\ Frame(p, t, e)
    BY <1>1, <1>3, <2>1, <2>4, ReplyOK
  <2> QED
    BY <1>1, <2>5, FrameStep DEF p
<1>4. CASE cmd.from = e
  <2>1. /\ y.pc \in Nat
        /\ Cmds(p, e)[y.pc].ok \in Nat /\ Cmds(p, e)[y.pc].bad \in Nat
    <3>1. Cmds(p, e) = Tape[e][y.tape].cmds
      BY <1>1 DEF Cmds
    <3>2. y.pc \in Nat
      BY <1>2 DEF Processor
    <3> HIDE DEF p
    <3> QED
      BY <1>1, <1>2, <3>1, <3>2, TapeIs
  <2>2. \E poz \in Nat : \/ t = GoTo(p, e, poz)
                         \/ t = GoTo([p EXCEPT !.exe[e].rep = 0], e, poz)
    <3>1. t = Examine(p, e, cmd, res)
      OBVIOUS
    <3> HIDE DEF p, cmd
    <3>2. PICK poz : poz = IF res.rez = "BAD" THEN Cmds(p, e)[y.pc].bad
                           ELSE IF res.rez = "CON" /\ cmd.type = "FOR" THEN y.pc
                           ELSE Cmds(p, e)[y.pc].ok
      OBVIOUS
    <3>3. poz \in Nat
      BY <2>1, <3>2
    <3>4. t = GoTo(IF y.transp = "TCP" THEN p ELSE [p EXCEPT !.exe[e].rep = 0], e, poz)
      BY <1>1, <1>4, <3>1, <3>2 DEF Examine
    <3> QED
      BY <3>3, <3>4
  <2>3. PICK poz \in Nat : \/ t = GoTo(p, e, poz)
                           \/ t = GoTo([p EXCEPT !.exe[e].rep = 0], e, poz)
    BY <2>2
  <2>4. CASE t = GoTo(p, e, poz)
    BY <1>4, <2>4, OwnGoesOn
  <2>5. CASE t = GoTo([p EXCEPT !.exe[e].rep = 0], e, poz)
    <3>0. PICK n \in Nat : n = 0
      OBVIOUS
    <3> DEFINE z == [y EXCEPT !.rep = n]
    <3>1. [p EXCEPT !.exe[e].rep = n] = Put(s, e, z)
      BY <1>1, <1>2, PutRep
    <3>2. Off(s.exe[e], z)
      BY OffRep
    <3>3. t = GoTo(Put(s, e, z), e, poz)
      BY <2>5, <3>0, <3>1
    <3> HIDE DEF z
    <3> QED
      BY <1>4, <3>2, <3>3, OwnGoesOn
  <2> QED
    BY <2>3, <2>4, <2>5
<1> QED
  BY <1>3, <1>4

(* While the server polls, only ExeThread stops a processor from outside   *)
(* (ExeThread.cpp:69-82): a Job.                                           *)
OnlyJobsStop == Stoppable \subseteq Job

(* The state and the processor when an answer has come. *)
Got(s, e, n) ==
  [s EXCEPT !.exe[e].pend = TRUE, !.exe[e].tcpErr = n, !.matched = TRUE]
Asking(y, n) == [y EXCEPT !.pend = TRUE, !.tcpErr = n]

LEMMA PutGot ==
  ASSUME NEW s, Typed(s), s.matched, NEW e \in Exe, NEW y \in Processor, NEW n \in Nat
  PROVE  Got(Put(s, e, y), e, n) = Put(s, e, Asking(y, n))
<1> DEFINE u == Put(s, e, y)
           y1 == [y EXCEPT !.pend = TRUE]
           u1 == Put(s, e, y1)
           y2 == [y1 EXCEPT !.tcpErr = n]
           u2 == Put(s, e, y2)
<1>1. y1 \in Processor
  BY DEF Processor
<1>2. [u EXCEPT !.exe[e].pend = TRUE] = u1
  BY DEF Put, Typed
<1>3. [u1 EXCEPT !.exe[e].tcpErr = n] = u2
  <2> HIDE DEF y1
  <2> QED
    BY <1>1 DEF Put, Typed
<1>4. [u2 EXCEPT !.matched = TRUE] = u2
  <2>1. y2 \in Processor
    BY <1>1 DEF Processor
  <2> HIDE DEF y2
  <2>2. Typed(u2) /\ u2.matched = TRUE
    <3>1. s.matched = TRUE
      BY DEF Typed
    <3> QED
      BY <2>1, <3>1, PutIs
  <2> HIDE DEF u2
  <2> QED
    BY <2>2 DEF Typed
<1>5. y2 = Asking(y, n)
  BY DEF Asking
<1> HIDE DEF u, u1, u2, y1, y2
<1>6. [u EXCEPT !.exe[e].pend = TRUE, !.exe[e].tcpErr = n, !.matched = TRUE] = u2
  BY ONLY <1>2, <1>3, <1>4
<1> QED
  BY <1>5, <1>6 DEF u, u2, Got

LEMMA ReceiveOK ==
  ASSUME OnlyJobsStop, NEW s, NEW e \in Exe, Inv(s, {}) \/ Inv(s, {e}),
         e \in Child => Commands(s.exe[Up[e]], e) = {} /\ s.box[e] = <<>>,
         NEW res \in Answer,
         s.exe[e].cur # NoCmd =>
           \/ e \in Child /\ Meant(s.exe[e], res)
           \/ /\ e = Master /\ Inv(s, {})
              /\ res.rez \in {"OK", "BAD", "CON"} => s.exe[e].cur.what = res.what,
         NEW t, t = Receive(s, e, res)
  PROVE  Inv(t, {}) /\ Frame(s, t, e)
<1> DEFINE x == s.exe[e]
           cmd == x.cur
           y == [x EXCEPT !.taut = FALSE, !.cur = NoCmd]
           off == [s EXCEPT !.exe[e].taut = FALSE, !.exe[e].cur = NoCmd]
           n == IF x.transp = "TCP" THEN 0 ELSE x.tcpErr
           z == Asking(y, n)
           got == [off EXCEPT !.exe[e].pend = TRUE,
                              !.exe[e].tcpErr = IF x.transp = "TCP" THEN 0 ELSE @,
                              !.matched = @ /\ cmd.what = res.what]
<1>1. /\ Typed(s) /\ Sound(e, x) /\ Alone(e, x) /\ Hosts(e, x) /\ s.matched
  BY DEF Inv
<1>2. x \in Processor
  BY <1>1, Parts
<1>3. Off(x, y) /\ y \in Processor
  BY <1>2 DEF Off, Processor
<1>4. off = Put(s, e, y)
  BY ONLY <1>1, e \in Exe DEF Put, Typed
<1>5. Frame(s, s, e)
  BY DEF Frame
<1>6. CASE cmd = NoCmd
  <2>1. t = s
    BY <1>6 DEF Receive
  <2> QED
    BY <1>5, <1>6, <2>1, IdleOK
<1>7. ASSUME cmd # NoCmd PROVE AtHand(s, e)
  BY <1>7 DEF AtHand
<1>8. CASE cmd # NoCmd /\ res.rez \in {"EMPTY", "GW", "NOSL"}
  <2>1. t = TimedOut(off, e, cmd, res.rez = "NOSL")
    BY <1>8 DEF Receive
  <2> DEFINE ns == res.rez = "NOSL"
  <2>2. ns \in BOOLEAN
    OBVIOUS
  <2>3. t = TimedOut(Put(s, e, y), e, cmd, ns)
    BY <1>4, <2>1
  <2> HIDE DEF ns, y
  <2> QED
    BY <1>3, <1>7, <1>8, <2>2, <2>3, TimedOutOK
<1>9. CASE /\ cmd # NoCmd /\ res.rez \notin {"EMPTY", "GW", "NOSL"}
           /\ x.transp = "EXT" /\ ~x.run
  <2>1. t = Halt(s, e)
    BY <1>9 DEF Receive, Stop
  <2>2. e \in Child /\ x.pc # 0
    BY <1>1, <1>9, Roles DEF Sound
  <2>3. e \in Job
    BY <1>1, <1>9, <2>2 DEF Alone, OnlyJobsStop
  <2>4. cmd.from = e
    <3>1. /\ cmd \in Command /\ cmd.from \in Exe \cup Client
          /\ cmd \in Commands(x, cmd.from)
      BY <1>2, <1>9 DEF Processor, Command, Commands, Current
    <3>2. cmd.from # e => Foreign(e, cmd)
      BY <1>1, <3>1 DEF Hosts
    <3> QED
      BY <2>3, <3>2, Roles DEF Foreign
  <2> QED
    BY <1>9, <2>1, <2>2, <2>4, HaltOK
<1>10. CASE /\ cmd # NoCmd /\ res.rez \notin {"EMPTY", "GW", "NOSL"}
            /\ ~(x.transp = "EXT" /\ ~x.run)
  <2>1. res.rez \in {"OK", "BAD", "CON"}
    BY <1>10 DEF Answer
  <2>2. CASE cmd.type = "BROADCAST"
    <3>1. t = s
      BY <1>10, <2>2 DEF Receive
    <3>2. Inv(s, {})
      BY <1>10, <2>1, <2>2 DEF Meant
    <3> QED
      BY <1>5, <3>1, <3>2
  <2>3. CASE cmd.type # "BROADCAST"
    <3>1. t = Examine(got, e, cmd, res)
      BY <1>10, <2>3 DEF Receive
    <3>2. Meant(x, res)
      BY <1>10, <2>1, <2>3 DEF Meant
    <3>3. cmd.what = res.what
      BY <2>1, <3>2 DEF Meant
    <3>4. got = Put(s, e, z)
      <4>1. y \in Processor /\ s.matched /\ y.tcpErr = x.tcpErr
        BY <1>1, <1>2, <1>3 DEF Processor
      <4>2. n \in Nat
        BY <1>2 DEF Processor
      <4> HIDE DEF y
      <4>3. off.exe[e] = y /\ off.matched = s.matched
        <5>1. Typed(s) /\ y \in Processor
          BY <1>1, <4>1
        <5>2. Put(s, e, y).exe[e] = y /\ Put(s, e, y).matched = s.matched
          BY ONLY <5>1, PutIs, e \in Exe
        <5> HIDE DEF off
        <5> QED
          BY <1>4, <5>2
      <4> HIDE DEF off
      <4>4. (IF x.transp = "TCP" THEN 0 ELSE off.exe[e].tcpErr) = n
        BY <4>1, <4>3
      <4>5. (off.matched /\ cmd.what = res.what) = TRUE
        <5>1. off.matched \in BOOLEAN
          BY <1>1, <4>3 DEF Typed
        <5> QED
          BY <1>1, <3>3, <4>3, <5>1
      <4> HIDE DEF n, cmd, x
      <4>6. got = Got(off, e, n)
        BY ONLY <4>4, <4>5 DEF Got
      <4> HIDE DEF got
      <4>7. Got(Put(s, e, y), e, n) = Put(s, e, z)
        <5>1. Typed(s) /\ s.matched
          BY <1>1
        <5>2. y \in Processor
          BY <4>1
        <5> QED
          BY ONLY <5>1, <5>2, <4>2, PutGot, e \in Exe
      <4> QED
        BY <1>4, <4>6, <4>7
    <3>5. Off(x, z)
      <4>1. n \in Nat
        BY <1>2 DEF Processor
      <4> HIDE DEF n, y
      <4> QED
        BY <1>3, <4>1 DEF Off, Processor, Asking
    <3>6. t = Examine(Put(s, e, z), e, cmd, res)
      BY <3>1, <3>4
    <3> HIDE DEF z
    <3> QED
      BY <1>7, <1>10, <2>1, <3>2, <3>5, <3>6, ExamineOK
  <2> QED
    BY <2>2, <2>3
<1> QED
  BY <1>6, <1>8, <1>9, <1>10

-----------------------------------------------------------------------------
(* exeCommandE. *)
LEMMA EnqueueOK ==
  ASSUME NEW s, NEW c \in Child \cup Client, Inv(s, {c}), NEW cmd \in Command,
         cmd.from = c, Foreign(Up[c], cmd), s.exe[Up[c]].transp # "NONE",
         c \in Child => /\ Awaited(s.exe[c], cmd)
                        /\ Commands(s.exe[Up[c]], c) = {}
                        /\ s.box[c] = <<>>,
         NEW t, t = Enqueue(s, cmd, Up[c])
  PROVE  Inv(t, {}) /\ \A d \in Exe : d # Up[c] => t.exe[d] = s.exe[d]
<1> DEFINE e == Up[c]
           x == s.exe[e]
           q == [x EXCEPT !.queue = Append(@, cmd)]
<1>1. e \in Exe /\ c # e /\ c # Master
  BY Roles
<1>2. /\ Typed(s) /\ Sound(e, x) /\ Alone(e, x) /\ Hosts(e, x)
      /\ \A d \in Child : Linked(s, d)
      /\ WireOK(s.exe[Master], s.wire, s.idtran)
      /\ LastSent(s.exe[Master], s.wire, s.idtran)
      /\ e \in Kept => Remains(s, e)
  BY <1>1 DEF Inv
<1>3. x \in Processor
  BY <1>1, <1>2, Parts
<1>4. q \in Processor
  <2>1. Append(x.queue, cmd) \in Seq(Command)
    BY <1>3 DEF Processor
  <2> QED
    BY <1>3, <2>1 DEF Processor
<1>5. [s EXCEPT !.exe[e].queue = Append(@, cmd)] = Put(s, e, q)
  BY ONLY <1>1, <1>2 DEF Put, Typed
<1>6. PICK y \in Processor :
        /\ t = Put(s, e, y)
        /\ y.queue = Append(x.queue, cmd) /\ y.cur = x.cur /\ y.transp = x.transp
        /\ y.run = x.run /\ y.tape = x.tape /\ y.pc = x.pc /\ y.taut = x.taut
        /\ y.tautS = x.tautS /\ y.done = x.done
  <2> DEFINE y1 == [q EXCEPT !.wake = TRUE]
             y2 == [q EXCEPT !.pend = TRUE]
  <2>1. y1 \in Processor /\ y2 \in Processor
    BY <1>4 DEF Processor
  <2>2. [Put(s, e, q) EXCEPT !.exe[e].wake = TRUE] = Put(s, e, y1)
    BY ONLY <1>1, <1>2 DEF Put, Typed
  <2>3. [Put(s, e, q) EXCEPT !.exe[e].pend = TRUE] = Put(s, e, y2)
    BY ONLY <1>1, <1>2 DEF Put, Typed
  <2>4. t = Put(s, e, y1) \/ t = Put(s, e, y2)
    BY <1>5, <2>2, <2>3 DEF Enqueue
  <2>5. /\ y1.queue = Append(x.queue, cmd) /\ y1.cur = x.cur /\ y1.transp = x.transp
        /\ y1.run = x.run /\ y1.tape = x.tape /\ y1.pc = x.pc /\ y1.taut = x.taut
        /\ y1.tautS = x.tautS /\ y1.done = x.done
    BY <1>3 DEF Processor
  <2>6. /\ y2.queue = Append(x.queue, cmd) /\ y2.cur = x.cur /\ y2.transp = x.transp
        /\ y2.run = x.run /\ y2.tape = x.tape /\ y2.pc = x.pc /\ y2.taut = x.taut
        /\ y2.tautS = x.tautS /\ y2.done = x.done
    BY <1>3 DEF Processor
  <2> HIDE DEF y1, y2
  <2> QED
    BY <2>1, <2>4, <2>5, <2>6
<1>7. /\ \A d : d # c => /\ Commands(y, d) = Commands(x, d)
                         /\ Once(y, d) <=> Once(x, d)
      /\ Commands(y, c) = Commands(x, c) \cup {cmd}
      /\ Commands(x, c) = {} => Once(y, c)
  <2>1. y.cur = x.cur /\ y.queue = Append(x.queue, cmd)
    BY <1>6
  <2> HIDE DEF x
  <2>2. ASSUME NEW d
        PROVE  /\ cmd.from # d => /\ Commands(y, d) = Commands(x, d)
                                  /\ Once(y, d) <=> Once(x, d)
               /\ cmd.from = d => /\ Commands(y, d) = Commands(x, d) \cup {cmd}
                                  /\ Commands(x, d) = {} => Once(y, d)
    BY ONLY <1>3, <2>1, cmd \in Command, Joined
  <2> QED
    BY <2>2
<1>8. Sound(e, y)
  BY <1>2, <1>6 DEF Sound
<1>9. Alone(e, y)
  BY <1>1, <1>2, <1>6, <1>7 DEF Alone
<1>10. Hosts(e, y)
  <2> SUFFICES ASSUME NEW d \in Exe \cup Client, NEW a \in Commands(y, d), d # e
               PROVE  Foreign(e, a) /\ y.transp # "NONE"
    BY DEF Hosts
  <2>1. CASE a \in Commands(x, d)
    BY <1>2, <1>6, <2>1 DEF Hosts
  <2>2. CASE a = cmd
    BY <1>6, <2>2
  <2> QED
    BY <1>7, <2>1, <2>2
<1>11. ASSUME NEW d \in Child, Up[d] = e PROVE Link(d, y, s.exe[d], s.box[d])
  <2>1. Link(d, x, s.exe[d], s.box[d])
    BY <1>2, <1>11 DEF Linked
  <2>2. CASE d # c
    BY <1>7, <2>1, <2>2 DEF Link
  <2>3. CASE d = c
    <3>1. /\ Awaited(s.exe[c], cmd) /\ s.box[c] = <<>>
          /\ Commands(y, c) = {cmd} /\ Once(y, c)
      BY <1>7, <1>11, <2>3
    <3> QED
      BY <2>1, <2>3, <3>1 DEF Link
  <2> QED
    BY <2>2, <2>3
<1>12. (Waits(y) <=> Waits(x)) /\ y.cur = x.cur /\ y.pc = x.pc
  BY <1>6 DEF Waits
<1>13. ASSUME e \in Child PROVE Link(e, s.exe[Up[e]], y, s.box[e])
  <2>1. Link(e, s.exe[Up[e]], x, s.box[e])
    BY <1>2, <1>13 DEF Linked
  <2>2. \A a : Awaited(x, a) => Awaited(y, a)
    BY <1>12 DEF Awaited
  <2>3. \A res : Meant(x, res) => Meant(y, res)
    BY <1>12 DEF Meant
  <2> QED
    BY <1>12, <2>1, <2>2, <2>3 DEF Link, Gone
<1>14. \A d \in (Child \cup Client) \ {} :
         d # e /\ Up[d] = e /\ (d \in {c} \/ Commands(x, d) # {}) => Commands(y, d) # {}
  BY <1>7
<1>15. e \in Kept \ {} =>
         (Waits(y) => Commands(s.exe[Up[e]], e) # {} \/ s.box[e] # <<>>)
  BY <1>2, <1>12 DEF Remains
<1>16. e = Master => /\ y.transp = "NONE" => s.wire = {}
                     /\ e \notin {} => LastSent(y, s.wire, s.idtran)
  BY <1>2, <1>6, <1>12 DEF WireOK, LastSent
<1>17. \A h \in {c} \ {} : h = e \/ (h # Master /\ Up[h] = e)
  BY <1>1
<1> HIDE DEF e
<1>18. Inv(t, {})
  <2>1. y \in Processor /\ t = Put(s, e, y)
    BY <1>6
  <2>2. \A d \in (Child \cup Client) \ {} :
          d # e /\ Up[d] = e /\ (d \in {c} \/ Commands(s.exe[e], d) # {})
            => Commands(y, d) # {}
    BY <1>14
  <2>3. Fits(s, {c}, {}, e, y)
    BY <1>8, <1>9, <1>10, <1>11, <1>13, <1>15, <1>16, <1>17, <2>2 DEF Fits
  <2> HIDE DEF x
  <2> QED
    BY <1>1, <2>1, <2>3, PutOK
<1>19. \A d \in Exe : d # e => t.exe[d] = s.exe[d]
  BY ONLY <1>1, <1>2, <1>6, PutIs
<1> QED
  BY <1>18, <1>19 DEF e

-----------------------------------------------------------------------------
(* Send.  The next identifier is not one of those on the wire.             *)
LEMMA NextId ==
  ASSUME NEW a \in 0 .. IdMod - 1, NEW id, id = (a + 1) % IdMod
  PROVE  id \in 0 .. IdMod - 1 /\ (a - id) % IdMod = IdMod - 1
<1>1. IdMod \in Nat /\ IdMod > 0
  BY ExecutAssumption
<1>2. CASE a + 1 < IdMod
  <2>1. id = a + 1 /\ a - id = -1
    BY <1>1, <1>2
  <2>2. (-1) % IdMod = IdMod - 1
    BY <1>1
  <2> QED
    BY <1>1, <2>1, <2>2
<1>3. CASE a + 1 = IdMod
  <2>1. id = 0 /\ a - id = IdMod - 1
    BY <1>1, <1>3
  <2>2. (IdMod - 1) % IdMod = IdMod - 1
    BY <1>1
  <2> QED
    BY <1>1, <2>1, <2>2
<1> QED
  BY <1>1, <1>2, <1>3

LEMMA SendOK ==
  ASSUME OnlyJobsStop, NEW s, NEW e \in Exe, Inv(s, {e}),
         s.exe[e].cur # NoCmd, s.exe[e].transp # "NONE",
         e \in Child => Commands(s.exe[Up[e]], e) = {} /\ s.box[e] = <<>>,
         NEW t, t = Send(s, e)
  PROVE  Inv(t, {})
<1> DEFINE x == s.exe[e]
<1>1. /\ Typed(s) /\ Sound(e, x) /\ Alone(e, x) /\ Hosts(e, x) /\ s.matched
      /\ WireOK(s.exe[Master], s.wire, s.idtran)
  BY DEF Inv
<1>2. x \in Processor /\ x.cur \in Command
  <2>1. x \in Processor
    BY <1>1, Parts
  <2> QED
    BY <2>1 DEF Processor
<1>3. CASE e = Master
  <2> DEFINE id == (s.idtran + 1) % IdMod
             new == [id |-> id, what |-> x.cur.what]
             sent == IF x.cur.type = "BROADCAST" THEN s.wire ELSE s.wire \cup {new}
             w == {r \in sent : (id - r.id) % IdMod < WireCap}
             y == [x EXCEPT !.taut = TRUE]
  <2>1. t = [s EXCEPT !.idtran = id, !.wire = w, !.exe[e].taut = TRUE]
    BY <1>3 DEF Send
  <2>2. /\ s.idtran \in 0 .. IdMod - 1 /\ s.wire \subseteq Request
        /\ id \in 0 .. IdMod - 1 /\ (s.idtran - id) % IdMod = IdMod - 1
    BY <1>1, NextId, Parts
  <2>3. new \in Request
    BY <1>2, <2>2 DEF Request, Command
  <2>4. w \subseteq Request
    BY <2>2, <2>3
  <2>5. \A r \in w : (id - r.id) % IdMod < WireCap
    OBVIOUS
  <2>6. \A r \in w : r.id = id => r.what = x.cur.what
    <3> SUFFICES ASSUME NEW r \in w, r.id = id, r \in s.wire PROVE FALSE
      OBVIOUS
    <3>1. (s.idtran - r.id) % IdMod < WireCap
      BY <1>1 DEF WireOK
    <3>2. IdMod - 1 < WireCap
      BY <2>2, <3>1
    <3> QED
      BY <3>2, ExecutAssumption
  <2> HIDE DEF id, w, new, sent
  <2>7. /\ y \in Processor /\ y.taut = TRUE /\ y.cur = x.cur /\ y.queue = x.queue
        /\ y.transp = x.transp /\ y.run = x.run /\ y.tape = x.tape
        /\ y.pc = x.pc /\ y.tautS = x.tautS /\ y.done = x.done
    BY <1>2 DEF Processor
  <2>8. /\ Typed(t) /\ t.exe[e] = y /\ \A d \in Exe : d # e => t.exe[d] = s.exe[d]
        /\ t.idtran = id /\ t.wire = w /\ t.box = s.box /\ t.asked = s.asked
        /\ t.matched = s.matched
    BY ONLY <1>1, <2>1, <2>2, <2>4, <2>7, e \in Exe DEF Typed
  <2> HIDE DEF y
  <2>9. \A c : Commands(y, c) = Commands(x, c) /\ (Once(y, c) <=> Once(x, c))
    BY <2>7, SameCommands
  <2>10. Sound(e, y) /\ Hosts(e, y)
    BY <1>1, <2>7, <2>9 DEF Sound, Hosts
  <2>11. Alone(e, y)
    <3>1. x.pc # 0
      BY <1>1 DEF Sound
    <3> QED
      BY <1>1, <1>3, <2>7, <2>9, <3>1 DEF Alone
  <2>12. \A d \in Exe : Sound(d, t.exe[d]) /\ Alone(d, t.exe[d]) /\ Hosts(d, t.exe[d])
    BY <2>8, <2>10, <2>11 DEF Inv
  <2>13. ASSUME NEW c \in Child
         PROVE  /\ t.exe[c] = s.exe[c]
                /\ Commands(t.exe[Up[c]], c) = Commands(s.exe[Up[c]], c)
                /\ Once(t.exe[Up[c]], c) <=> Once(s.exe[Up[c]], c)
    BY <1>3, <2>8, <2>9, Roles
  <2>14. \A c \in Child : Linked(t, c)
    <3> SUFFICES ASSUME NEW c \in Child PROVE Linked(t, c)
      OBVIOUS
    <3>1. Linked(s, c)
      BY DEF Inv
    <3> QED
      BY <2>8, <2>13, <3>1 DEF Linked, Link
  <2>15. \A c \in Kept \ {} : Remains(t, c)
    <3> SUFFICES ASSUME NEW c \in Kept PROVE Remains(t, c)
      OBVIOUS
    <3>1. c \in Child /\ Remains(s, c)
      BY <1>3, Roles DEF Inv, Kept
    <3> QED
      BY <2>8, <2>13, <3>1 DEF Remains
  <2>16. \A k \in Client \ {} : Answerable(t, k)
    <3> SUFFICES ASSUME NEW k \in Client PROVE Answerable(t, k)
      OBVIOUS
    <3>1. Up[k] \in Exe /\ Answerable(s, k)
      BY <1>3, Roles DEF Inv
    <3> QED
      BY <2>8, <2>9, <3>1 DEF Answerable
  <2>17. WireOK(t.exe[Master], t.wire, t.idtran) /\ LastSent(t.exe[Master], t.wire, t.idtran)
    BY <1>3, <2>5, <2>6, <2>7, <2>8 DEF WireOK, LastSent
  <2> QED
    BY <1>1, <2>8, <2>12, <2>14, <2>15, <2>16, <2>17 DEF Inv
<1>4. CASE e # Master
  <2>1. e \in Child /\ x.transp = "EXT"
    BY <1>1, <1>2, <1>4, Roles DEF Sound, Processor
  <2>2. CASE s.exe[Up[e]].transp # "NONE"
    <3> DEFINE cmd == Forwarded(s, e)
    <3>1. t = Enqueue(s, cmd, Up[e])
      BY <1>4, <2>2 DEF Send
    <3>2. /\ cmd \in Command /\ cmd.from = e /\ cmd.what = x.cur.what
          /\ cmd.type \in {"IF", "BROADCAST"}
          /\ cmd.type = "BROADCAST" <=> x.cur.type = "BROADCAST"
      BY <1>2 DEF Forwarded, Command, Kinds
    <3> HIDE DEF cmd
    <3>3. Foreign(Up[e], cmd) /\ Awaited(x, cmd)
      BY <2>1, <3>2 DEF Foreign, Awaited, Waits
    <3>4. /\ e \in Child \cup Client /\ Inv(s, {e}) /\ Awaited(s.exe[e], cmd)
          /\ Commands(s.exe[Up[e]], e) = {} /\ s.box[e] = <<>>
      BY <2>1, <3>3
    <3>5. cmd \in Command /\ cmd.from = e
      BY <3>2
    <3> HIDE DEF x
    <3> QED
      BY ONLY <2>2, <3>1, <3>3, <3>4, <3>5, EnqueueOK
  <2>3. CASE s.exe[Up[e]].transp = "NONE"
    <3>1. t = Receive(s, e, Empty)
      BY <1>4, <2>3 DEF Send
    <3>2. Empty \in Answer /\ Meant(x, Empty)
      BY DEF Empty, Answer, Meant
    <3> QED
      BY <2>1, <3>1, <3>2, ReceiveOK
  <2> QED
    BY <2>2, <2>3
<1> QED
  BY <1>3, <1>4

-----------------------------------------------------------------------------
(* SScharmanka.  A processor that has let go of everything and is about to *)
(* go to another place of its tape.                                        *)
Idle(s, e) ==
  /\ Inv(s, {})
  /\ s.exe[e].cur = NoCmd /\ s.exe[e].queue = <<>>
  /\ ~s.exe[e].taut /\ ~s.exe[e].tautS /\ s.exe[e].pc # 0

(* One that has taken its next command in hand. *)
Ready(s, e) ==
  /\ Inv(s, {e})
  /\ s.exe[e].cur # NoCmd /\ s.exe[e].run /\ s.exe[e].pc # 0
  /\ ~s.exe[e].taut
  /\ e \in Child => Commands(s.exe[Up[e]], e) = {} /\ s.box[e] = <<>>

LEMMA IdleGoes ==
  ASSUME NEW s, NEW e \in Exe, Idle(s, e), NEW poz \in Nat, NEW t, t = GoTo(s, e, poz)
  PROVE  Inv(t, {})
<1>1. Commands(s.exe[e], e) = {}
  BY HoldsNone DEF Idle
<1> QED
  BY <1>1, GoToOK DEF Idle

LEMMA LetGoAll ==
  ASSUME NEW s, NEW e \in Exe, Ready(s, e), s.exe[e].cur.from = e,
         NEW t, t = [Disconnect(s, e) EXCEPT !.exe[e].cur = NoCmd]
  PROVE  Idle(t, e)
<1> DEFINE x == s.exe[e]
           d == Disconnect(s, e)
           y == [d.exe[e] EXCEPT !.cur = NoCmd]
<1>1. /\ Inv(s, {e}) /\ Typed(s) /\ Sound(e, x) /\ x.run /\ x.pc # 0
      /\ e \in Child => Commands(s.exe[Up[e]], e) = {} /\ s.box[e] = <<>>
  BY DEF Ready, Inv
<1>2. x \in Processor
  BY <1>1, Parts
<1>3. /\ Typed(d) /\ d.exe[e] = Unplugged(x)
      /\ \A c \in Exe : c # e => d.exe[c] = s.exe[c]
      /\ d.wire = IF e = Master THEN {} ELSE s.wire
      /\ d.idtran = s.idtran /\ d.matched = s.matched
      /\ Answered(s, e, d)
  BY <1>1, DisconnectIs
<1>a. t = [d EXCEPT !.exe[e].cur = NoCmd]
  OBVIOUS
<1> HIDE DEF d
<1>b. Typed(d)
  BY <1>3
<1>4. d.exe[e] \in Processor
  BY <1>b, Parts
<1>5. t = Put(d, e, y)
  BY ONLY <1>a, <1>b, e \in Exe DEF Put, Typed
<1>6. /\ y \in Processor /\ y.cur = NoCmd /\ y.queue = d.exe[e].queue
      /\ y.transp = d.exe[e].transp /\ y.taut = d.exe[e].taut
      /\ y.tautS = d.exe[e].tautS /\ y.run = d.exe[e].run
      /\ y.tape = d.exe[e].tape /\ y.pc = d.exe[e].pc /\ y.done = d.exe[e].done
  BY <1>4 DEF Processor
<1> HIDE DEF y
<1>7. /\ y.transp = "NONE" /\ y.queue = <<>> /\ ~y.taut /\ ~y.tautS
      /\ y.run = x.run /\ y.tape = x.tape /\ y.pc = x.pc /\ y.done = x.done
  BY <1>2, <1>3, <1>6, UnpluggedIs
<1>8. /\ Typed(t) /\ t.exe[e] = y /\ \A c \in Exe : c # e => t.exe[c] = d.exe[c]
      /\ t.wire = d.wire /\ t.idtran = d.idtran /\ t.matched = d.matched
      /\ t.box = d.box /\ t.asked = d.asked
  <2>1. y \in Processor
    BY <1>6
  <2>2. \A c \in Exe : c # e => Put(d, e, y).exe[c] = d.exe[c]
    BY ONLY <1>b, <2>1, e \in Exe, PutIs
  <2>3. /\ Typed(Put(d, e, y)) /\ Put(d, e, y).exe[e] = y
        /\ Put(d, e, y).wire = d.wire /\ Put(d, e, y).idtran = d.idtran
        /\ Put(d, e, y).matched = d.matched /\ Put(d, e, y).box = d.box
        /\ Put(d, e, y).asked = d.asked
    BY ONLY <1>b, <2>1, e \in Exe, PutIs
  <2> QED
    BY ONLY <1>5, <2>2, <2>3
<1>9. Sound(e, y)
  BY <1>1, <1>6, <1>7 DEF Sound
<1>10. Answered(s, e, t)
  BY <1>3, <1>8 DEF Answered
<1>11. /\ \A c \in Exe : c # e => t.exe[c] = s.exe[c]
       /\ t.wire = IF e = Master THEN {} ELSE s.wire
       /\ t.idtran = s.idtran /\ t.matched = s.matched
       /\ t.exe[e].transp = "NONE" /\ t.exe[e].queue = <<>> /\ t.exe[e].cur = NoCmd
       /\ ~t.exe[e].tautS /\ ~t.exe[e].taut /\ Sound(e, t.exe[e])
       /\ t.exe[e].run /\ t.exe[e].pc # 0
  BY <1>1, <1>3, <1>6, <1>7, <1>8, <1>9
<1> HIDE DEF x
<1>12. Inv(t, {})
  <2>1. Typed(t) /\ s.exe[e].cur.from = e
    BY <1>8
  <2> QED
    BY ONLY <1>1, <1>10, <1>11, <2>1, e \in Exe, DropOK
<1> QED
  BY <1>11, <1>12 DEF Idle

(* It is connected. *)
LEMMA ConnectOK ==
  ASSUME NEW s, NEW e \in Exe, Idle(s, e), NEW y \in Processor, NEW n \in Nat,
         y = [s.exe[e] EXCEPT !.transp = IF e = Master THEN "TCP" ELSE "EXT",
                              !.tcpErr = n],
         NEW t, t = Put(s, e, y)
  PROVE  Idle(t, e)
<1> DEFINE x == s.exe[e]
<1>1. /\ Inv(s, {}) /\ Typed(s) /\ Sound(e, x) /\ Alone(e, x)
      /\ \A c \in Child : Linked(s, c)
      /\ x.cur = NoCmd /\ x.queue = <<>> /\ ~x.taut /\ ~x.tautS /\ x.pc # 0
      /\ WireOK(s.exe[Master], s.wire, s.idtran)
      /\ LastSent(s.exe[Master], s.wire, s.idtran)
  BY DEF Idle, Inv
<1>2. x \in Processor
  BY <1>1, Parts
<1>3. /\ y.cur = NoCmd /\ y.queue = <<>> /\ ~y.taut /\ ~y.tautS
      /\ y.pc = x.pc /\ y.run = x.run /\ y.tape = x.tape /\ y.done = x.done
      /\ y.transp = IF e = Master THEN "TCP" ELSE "EXT"
  BY <1>1, <1>2 DEF Processor
<1>4. \A c : Commands(y, c) = {} /\ Once(y, c) /\ Commands(x, c) = {} /\ Once(x, c)
  BY <1>1, <1>3, HoldsNone
<1>5. Sound(e, y) /\ Alone(e, y) /\ Hosts(e, y)
  BY <1>1, <1>3, <1>4 DEF Sound, Alone, Hosts
<1>6. ~Waits(y) /\ ~Waits(x)
  BY <1>1, <1>3 DEF Waits
<1>7. \A c \in Child : Up[c] = e => Link(c, y, s.exe[c], s.box[c])
  BY <1>1, <1>4 DEF Linked, Link
<1>8. ASSUME e \in Child PROVE Link(e, s.exe[Up[e]], y, s.box[e])
  <2>1. Link(e, s.exe[Up[e]], x, s.box[e])
    BY <1>1, <1>8 DEF Linked
  <2>2. Commands(s.exe[Up[e]], e) = {} /\ s.box[e] = <<>>
    BY <1>1, <1>6, <2>1 DEF Link, Awaited, Gone
  <2> QED
    BY <2>1, <2>2 DEF Link
<1>9. e = Master => /\ y.transp = "NONE" => s.wire = {}
                    /\ LastSent(y, s.wire, s.idtran)
  BY <1>1, <1>3 DEF LastSent
<1>10. Fits(s, {}, {}, e, y)
  BY <1>4, <1>5, <1>6, <1>7, <1>8, <1>9 DEF Fits
<1>11. Inv(t, {})
  BY <1>1, <1>10, PutOK
<1>12. t.exe[e] = y
  BY <1>1, PutIs
<1> QED
  BY <1>1, <1>3, <1>11, <1>12 DEF Idle

LEMMA ExecuteOK ==
  ASSUME OnlyJobsStop, NEW r, NEW e \in Exe, NEW cmd, NEW linked \in BOOLEAN,
         NEW s, s = [r EXCEPT !.exe[e].cur = cmd], Ready(s, e), s.exe[e].cur = cmd,
         r.exe[e].pc = s.exe[e].pc, r.exe[e].tape = s.exe[e].tape,
         r.exe[e].transp = s.exe[e].transp,
         NEW t, t = Execute(r, e, cmd, linked)
  PROVE  Inv(t, {})
<1> DEFINE x == s.exe[e]
           line == Cmds(r, e)[r.exe[e].pc]
           d == [Disconnect(s, e) EXCEPT !.exe[e].cur = NoCmd]
           up == e # Master \/ linked
<1>1. /\ Inv(s, {e}) /\ Typed(s) /\ Sound(e, x) /\ Alone(e, x) /\ Hosts(e, x)
      /\ \A c \in Child : Linked(s, c)
      /\ x.cur = cmd /\ cmd # NoCmd /\ x.run /\ x.pc # 0 /\ ~x.taut
      /\ e \in Child => Commands(s.exe[Up[e]], e) = {} /\ s.box[e] = <<>>
      /\ WireOK(s.exe[Master], s.wire, s.idtran)
  BY DEF Ready, Inv
<1>2. x \in Processor
  BY <1>1, Parts
<1>3. cmd \in Command /\ cmd \in Commands(x, cmd.from) /\ cmd.from \in Exe \cup Client
  BY <1>1, <1>2 DEF Processor, Command, Commands, Current
<1>4. line.ok \in Nat /\ line.bad \in Nat
  <2>1. line = Tape[e][x.tape].cmds[x.pc]
    BY DEF Cmds
  <2> QED
    BY <1>1, <1>2, <2>1, TapeIs
<1>5. cmd.type \in {"IF", "FOR", "BROADCAST"} \/ cmd.type \in {"CONNECT", "DISCONNECT"}
  BY <1>3 DEF Command, Kinds
<1>6. CASE cmd.type \in {"IF", "FOR", "BROADCAST"} /\ x.transp # "NONE"
  <2>1. t = Send(s, e)
    BY <1>6 DEF Execute
  <2> HIDE DEF x
  <2> QED
    BY <1>1, <1>6, <2>1, SendOK DEF x
<1>7. CASE cmd.type \in {"IF", "FOR", "BROADCAST"} /\ x.transp = "NONE"
  <2> DEFINE y == [x EXCEPT !.taut = TRUE]
  <2>0. t = [s EXCEPT !.exe[e].taut = TRUE]
    BY <1>7 DEF Execute
  <2>1. t = Put(s, e, y)
    BY ONLY <1>1, <2>0, e \in Exe DEF Put, Typed
  <2>2. /\ y \in Processor /\ y.taut = TRUE /\ y.cur = x.cur /\ y.queue = x.queue
        /\ y.transp = x.transp /\ y.run = x.run /\ y.tape = x.tape
        /\ y.pc = x.pc /\ y.tautS = x.tautS /\ y.done = x.done
    BY <1>2 DEF Processor
  <2> HIDE DEF y
  <2>3. \A c : Commands(y, c) = Commands(x, c) /\ (Once(y, c) <=> Once(x, c))
    BY <2>2, SameCommands
  <2>4. Sound(e, y) /\ Hosts(e, y)
    BY <1>1, <2>2, <2>3 DEF Sound, Hosts
  <2>5. Alone(e, y)
    BY <1>1, <1>7, <2>2, <2>3 DEF Alone
  <2>6. ~Waits(y) /\ ~Waits(x)
    BY <1>7, <2>2 DEF Waits
  <2>7. \A c \in Child : Up[c] = e => Link(c, y, s.exe[c], s.box[c])
    BY <1>1, <2>3 DEF Linked, Link
  <2>8. ASSUME e \in Child PROVE Link(e, s.exe[Up[e]], y, s.box[e])
    <3>1. Link(e, s.exe[Up[e]], x, s.box[e])
      BY <1>1, <2>8 DEF Linked
    <3> QED
      BY <1>1, <2>8, <3>1 DEF Link
  <2>9. e = Master => /\ y.transp = "NONE" => s.wire = {}
                      /\ LastSent(y, s.wire, s.idtran)
    BY <1>1, <1>7 DEF LastSent, WireOK
  <2>10. Fits(s, {e}, {}, e, y)
    <3>1. \A c \in (Child \cup Client) \ {} :
            c # e /\ Up[c] = e /\ (c \in {e} \/ Commands(s.exe[e], c) # {})
              => Commands(y, c) # {}
      BY <2>3
    <3> QED
      BY <2>4, <2>5, <2>6, <2>7, <2>8, <2>9, <3>1 DEF Fits
  <2> QED
    BY <1>1, <2>1, <2>2, <2>10, PutOK
<1>8. CASE cmd.type \in {"CONNECT", "DISCONNECT"}
  <2>1. cmd.from = e
    BY <1>1, <1>3, <1>8 DEF Hosts, Foreign
  <2>2. Idle(d, e)
    BY <1>1, <2>1, LetGoAll
  <2>3. PICK n : n = IF e = Master THEN 0 ELSE d.exe[e].tcpErr
    OBVIOUS
  <2>4. PICK p : p = IF e = Master THEN "TCP" ELSE "EXT"
    OBVIOUS
  <2> DEFINE c == [d EXCEPT !.exe[e].transp = p, !.exe[e].tcpErr = n]
             y == [d.exe[e] EXCEPT !.transp = p, !.tcpErr = n]
  <2>5. \/ t = GoTo(d, e, line.bad) \/ t = GoTo(d, e, line.ok)
        \/ t = GoTo(c, e, line.ok)
    <3>1. c = [d EXCEPT !.exe[e].transp = IF e = Master THEN "TCP" ELSE "EXT",
                        !.exe[e].tcpErr = IF e = Master THEN 0 ELSE @]
      <4> HIDE DEF d
      <4> QED
        BY <2>3, <2>4
    <3> HIDE DEF c, y
    <3>2. CASE cmd.type = "DISCONNECT"
      BY <3>2 DEF Execute
    <3>3. CASE cmd.type = "CONNECT" /\ ~up
      BY <3>3 DEF Execute
    <3>4. CASE cmd.type = "CONNECT" /\ up
      <4>1. t = GoTo([d EXCEPT !.exe[e].transp = IF e = Master THEN "TCP" ELSE "EXT",
                               !.exe[e].tcpErr = IF e = Master THEN 0 ELSE @],
                     e, line.ok)
        BY <3>4 DEF Execute
      <4> HIDE DEF d, line
      <4> QED
        BY <3>1, <4>1
    <3> QED
      BY <1>8, <3>2, <3>3, <3>4
  <2> HIDE DEF d, line
  <2>6. Typed(d) /\ d.exe[e] \in Processor
    BY <2>2, Parts DEF Idle, Inv
  <2>7. n \in Nat
    BY <2>3, <2>6 DEF Processor
  <2>8. y \in Processor
    BY <2>4, <2>6, <2>7 DEF Processor
  <2>9. c = Put(d, e, y)
    BY ONLY <2>6, e \in Exe DEF Put, Typed
  <2>10. y = [d.exe[e] EXCEPT !.transp = IF e = Master THEN "TCP" ELSE "EXT",
                              !.tcpErr = n]
    BY <2>4
  <2> HIDE DEF c, y
  <2>11. Idle(c, e)
    BY <2>2, <2>7, <2>8, <2>9, <2>10, ConnectOK
  <2> QED
    BY <1>4, <2>2, <2>5, <2>11, IdleGoes
<1> QED
  BY <1>5, <1>6, <1>7, <1>8

(* The end of timerEvent. *)
LEMMA ServeOK ==
  ASSUME OnlyJobsStop, NEW s, NEW e \in Exe, Inv(s, {}), NEW linked \in BOOLEAN,
         NEW t, t = Serve(s, e, linked)
  PROVE  Inv(t, {})
<1> DEFINE x == s.exe[e]
           cmd == Head(x.queue)
           q == [x EXCEPT !.queue = Tail(@)]
           y == [q EXCEPT !.cur = cmd]
           r == [s EXCEPT !.exe[e].queue = Tail(@)]
           h == [r EXCEPT !.exe[e].cur = cmd]
<1>1. CASE ~(x.run /\ x.queue # <<>> /\ x.cur = NoCmd /\ ~x.pend)
  BY <1>1 DEF Serve
<1>2. CASE x.run /\ x.queue # <<>> /\ x.cur = NoCmd /\ ~x.pend
  <2>1. t = Execute(r, e, cmd, linked)
    BY <1>2 DEF Serve
  <2>2. /\ Typed(s) /\ Sound(e, x) /\ Alone(e, x) /\ Hosts(e, x)
        /\ \A c \in Child : Linked(s, c)
        /\ WireOK(s.exe[Master], s.wire, s.idtran)
        /\ x.pc # 0 /\ ~x.taut
    BY <1>2 DEF Inv, Sound, Alone
  <2>3. x \in Processor
    BY <2>2, Parts
  <2>4. /\ q \in Processor /\ q.queue = Tail(x.queue) /\ q.cur = x.cur
        /\ q.transp = x.transp /\ q.run = x.run /\ q.tape = x.tape /\ q.pc = x.pc
        /\ q.taut = x.taut /\ q.tautS = x.tautS /\ q.done = x.done
    <3>1. Tail(x.queue) \in Seq(Command)
      BY <1>2, <2>3 DEF Processor
    <3> QED
      BY <2>3, <3>1 DEF Processor
  <2>5. r = Put(s, e, q)
    BY ONLY <2>2, e \in Exe DEF Put, Typed
  <2>6. cmd \in Command
    BY <1>2, <2>3 DEF Processor
  <2> HIDE DEF q, cmd, r
  <2>7. /\ y \in Processor /\ y.queue = q.queue /\ y.cur = cmd
        /\ y.transp = q.transp /\ y.run = q.run /\ y.tape = q.tape /\ y.pc = q.pc
        /\ y.taut = q.taut /\ y.tautS = q.tautS /\ y.done = q.done
    BY <2>4, <2>6 DEF Processor
  <2>8. h = Put(s, e, y)
    <3>1. [Put(s, e, q) EXCEPT !.exe[e].cur = cmd] = Put(s, e, y)
      BY ONLY <2>2, e \in Exe DEF Put, Typed
    <3> QED
      BY <2>5, <3>1
  <2> HIDE DEF y, h
  <2>9. /\ r.exe[e] = q /\ h.exe[e] = y /\ h.box = s.box
        /\ \A d \in Exe : d # e => h.exe[d] = s.exe[d]
    <3>1. Typed(s) /\ q \in Processor /\ y \in Processor
      BY <2>2, <2>4, <2>7
    <3> QED
      BY ONLY <2>5, <2>8, <3>1, e \in Exe, PutIs
  <2>10. \A c : Commands(y, c) = Commands(x, c) /\ (Once(x, c) => Once(y, c))
    <3>1. y.cur = Head(x.queue) /\ y.queue = Tail(x.queue)
      BY <2>4, <2>7 DEF cmd
    <3> HIDE DEF x
    <3> QED
      BY <1>2, <2>3, <3>1, Taken
  <2>11. /\ y.transp = x.transp /\ y.run = x.run /\ y.tape = x.tape /\ y.pc = x.pc
         /\ y.taut = x.taut /\ y.tautS = x.tautS /\ y.done = x.done
         /\ y.cur # NoCmd /\ ~Waits(x)
    BY <1>2, <2>4, <2>6, <2>7, Roles DEF Waits
  <2>12. Sound(e, y) /\ Hosts(e, y) /\ Alone(e, y)
    BY <2>2, <2>10, <2>11 DEF Sound, Hosts, Alone
  <2>13. \A c \in Child : Up[c] = e => Link(c, y, s.exe[c], s.box[c])
    BY <2>2, <2>10 DEF Linked, Link
  <2>14. ASSUME e \in Child
         PROVE  /\ Link(e, s.exe[Up[e]], y, s.box[e])
                /\ Commands(s.exe[Up[e]], e) = {} /\ s.box[e] = <<>>
    <3>1. Link(e, s.exe[Up[e]], x, s.box[e])
      BY <2>2, <2>14 DEF Linked
    <3>2. Commands(s.exe[Up[e]], e) = {} /\ s.box[e] = <<>>
      BY <2>2, <2>11, <3>1 DEF Link, Awaited, Gone
    <3> QED
      BY <3>1, <3>2 DEF Link
  <2>15. e = Master /\ y.transp = "NONE" => s.wire = {}
    BY <2>2, <2>11 DEF WireOK
  <2>16. Fits(s, {}, {e}, e, y)
    BY <2>10, <2>12, <2>13, <2>14, <2>15 DEF Fits
  <2>17. Inv(h, {e})
    BY <2>7, <2>8, <2>16, PutOK
  <2>18. Ready(h, e)
    BY <1>2, <2>2, <2>9, <2>11, <2>14, <2>17, Roles DEF Ready
  <2>19. h = [r EXCEPT !.exe[e].cur = cmd]
    BY DEF h
  <2>20. /\ h.exe[e].cur = cmd
         /\ r.exe[e].pc = h.exe[e].pc /\ r.exe[e].tape = h.exe[e].tape
         /\ r.exe[e].transp = h.exe[e].transp
    BY <2>7, <2>9
  <2> QED
    BY ONLY OnlyJobsStop, <2>1, <2>18, <2>19, <2>20, e \in Exe, linked \in BOOLEAN,
       ExecuteOK
<1> QED
  BY <1>1, <1>2

-----------------------------------------------------------------------------
(* Stop of a Job, at any moment. *)
LEMMA StopOK ==
  ASSUME OnlyJobsStop, NEW s, NEW e \in Job, Inv(s, {}), e \in Stoppable, s.exe[e].run,
         NEW t, t = Stop(s, e)
  PROVE  Inv(t, {})
<1> DEFINE x == s.exe[e]
           u == s.exe[Up[e]]
<1>0. e \in Exe /\ e \in Child /\ Up[e] \in Exe /\ Up[e] # e /\ Up[e] \notin Stoppable
  BY Roles DEF OnlyJobsStop
<1>1. /\ Typed(s) /\ Sound(e, x) /\ Alone(e, x) /\ Hosts(e, x)
      /\ Sound(Up[e], u) /\ Alone(Up[e], u) /\ Hosts(Up[e], u) /\ Linked(s, e)
  BY <1>0 DEF Inv
<1>2. x \in Processor
  BY <1>0, <1>1, Parts
<1>3. CASE x.transp = "EXT" /\ x.run /\ u.run
  <2> DEFINE y == [x EXCEPT !.run = FALSE]
  <2>0. t = [s EXCEPT !.exe[e].run = FALSE]
    BY <1>3 DEF Stop
  <2>1. t = Put(s, e, y)
    BY ONLY <1>0, <1>1, <2>0 DEF Put, Typed
  <2>2. /\ y \in Processor /\ y.cur = x.cur /\ y.queue = x.queue
        /\ y.transp = x.transp /\ y.run = FALSE /\ y.tape = x.tape /\ y.pc = x.pc
        /\ y.taut = x.taut /\ y.tautS = x.tautS /\ y.done = x.done
    BY <1>2 DEF Processor
  <2> HIDE DEF y
  <2>3. \A c : Commands(y, c) = Commands(x, c) /\ (Once(y, c) <=> Once(x, c))
    BY <2>2, SameCommands
  <2>4. Sound(e, y)
    BY <1>1, <2>2 DEF Sound
  <2>5. Alone(e, y)
    BY <1>1, <2>2, <2>3 DEF Alone
  <2>6. Waits(y) \/ Gone(e, y) \/ s.box[e] = <<>>
    BY <1>0, <1>1, <2>2 DEF Linked, Link, Waits, Gone
  <2> QED
    BY <1>0, <2>1, <2>2, <2>4, <2>5, <2>6, QuietOK
<1>4. CASE ~(x.transp = "EXT" /\ x.run /\ u.run)
  <2>1. t = Halt(s, e)
    BY <1>4 DEF Stop
  <2>2. ASSUME x.transp # "NONE"
        PROVE  Commands(u, e) = {} /\ (x.cur = NoCmd \/ x.cur.from = e)
    <3>1. x.transp = "EXT" /\ x.pc # 0
      BY <1>0, <1>1, <1>2, <2>2, Roles DEF Sound, Processor
    <3>2. x.cur = NoCmd \/ x.cur.from = e
      <4>1. SUFFICES ASSUME x.cur # NoCmd, x.cur.from # e PROVE FALSE
        OBVIOUS
      <4>2. x.cur \in Commands(x, x.cur.from) /\ x.cur.from \in Exe \cup Client
        BY <1>2, <4>1 DEF Processor, Command, Commands, Current
      <4>3. Foreign(e, x.cur)
        BY <1>1, <4>1, <4>2 DEF Hosts
      <4> QED
        BY <4>3, Roles DEF Foreign
    <3>3. Commands(u, e) = {}
      <4>1. ~u.run
        BY <1>4, <3>1
      <4>2. u.transp = "NONE"
        BY <1>0, <1>1, <4>1 DEF Sound, Alone
      <4> QED
        BY <1>0, <1>1, <4>2 DEF Hosts
    <3> QED
      BY <3>2, <3>3
  <2> QED
    BY <1>0, <2>1, <2>2, HaltOK
<1> QED
  BY <1>3, <1>4

(* An answer is taken out of a box, which holds one at most.               *)
LEMMA PoppedOK ==
  ASSUME OnlyJobsStop, NEW s, NEW c \in Child, Inv(s, {}), s.box[c] # <<>>,
         NEW r, r = [s EXCEPT !.box[c] = <<>>],
         NEW t, t = Receive(r, c, Head(s.box[c]))
  PROVE  Inv(t, {}) /\ Frame(r, t, c) /\ Tail(s.box[c]) = <<>>
<1> DEFINE a == Head(s.box[c])
<1>1. /\ Typed(s) /\ Linked(s, c) /\ Sound(c, s.exe[c]) /\ c \in Exe
      /\ s.box[c] \in Seq(Answer)
  BY Roles, Parts DEF Inv
<1>2. /\ Len(s.box[c]) <= 1
      /\ Waits(s.exe[c]) \/ Gone(c, s.exe[c])
      /\ Waits(s.exe[c]) => Meant(s.exe[c], s.box[c][1])
      /\ Commands(s.exe[Up[c]], c) = {}
  BY <1>1 DEF Linked, Link
<1>3. a \in Answer /\ a = s.box[c][1] /\ Tail(s.box[c]) = <<>>
  BY <1>1, <1>2
<1>4. /\ Typed(r) /\ r.exe = s.exe /\ r.wire = s.wire /\ r.idtran = s.idtran
      /\ r.asked = s.asked /\ r.matched = s.matched /\ r.box[c] = <<>>
      /\ \A d \in Child : d # c => r.box[d] = s.box[d]
  <2>1. <<>> \in Seq(Answer)
    OBVIOUS
  <2> QED
    BY ONLY <1>1, <2>1, r = [s EXCEPT !.box[c] = <<>>], c \in Child DEF Typed
<1> HIDE DEF a
<1>5. Inv(r, {c})
  <2>1. \A d \in Child : Linked(r, d)
    <3> SUFFICES ASSUME NEW d \in Child PROVE Linked(r, d)
      OBVIOUS
    <3>1. Linked(s, d)
      BY DEF Inv
    <3> QED
      BY <1>4, <3>1 DEF Linked, Link
  <2>2. \A d \in Kept \ {c} : Remains(r, d)
    <3> SUFFICES ASSUME NEW d \in Kept \ {c} PROVE Remains(r, d)
      OBVIOUS
    <3>1. d \in Child /\ Remains(s, d)
      BY Roles DEF Inv, Kept
    <3> QED
      BY <1>4, <3>1 DEF Remains
  <2>3. \A k \in Client \ {c} : Answerable(r, k)
    BY <1>4 DEF Inv, Answerable
  <2> QED
    BY <1>4, <2>1, <2>2, <2>3, Roles DEF Inv
<1>6. r.exe[c].cur # NoCmd => Meant(r.exe[c], a)
  BY <1>1, <1>2, <1>3, <1>4 DEF Sound, Gone
<1>7. Commands(r.exe[Up[c]], c) = {} /\ r.box[c] = <<>>
  BY <1>2, <1>4
<1>8. t = Receive(r, c, a)
  BY DEF a
<1>9. Inv(t, {}) /\ Frame(r, t, c)
  BY <1>1, <1>3, <1>5, <1>6, <1>7, <1>8, ReceiveOK
<1> QED
  BY <1>3, <1>9

-----------------------------------------------------------------------------
(* Settle.  What the Pollers do with their answers does not meet.          *)
Took(s, c) ==
  IF s.box[c] = <<>> THEN s
  ELSE Receive([s EXCEPT !.box[c] = <<>>], c, Head(s.box[c]))

LEMMA TookOK ==
  ASSUME OnlyJobsStop, NEW s, NEW c \in Poller, Inv(s, {}), NEW t, t = Took(s, c)
  PROVE  /\ Inv(t, {}) /\ t.box[c] = <<>>
         /\ \A d \in Exe : d # c => t.exe[d] = s.exe[d]
         /\ \A d \in Child : Up[d] # c /\ d # c => t.box[d] = s.box[d]
         /\ \A k \in Client : Up[k] # c => (k \in t.asked <=> k \in s.asked)
         /\ t.asked \subseteq s.asked
         /\ t.wire = s.wire /\ t.idtran = s.idtran
<1>1. c \in Child /\ c # Master /\ Up[c] # c
  BY Roles
<1>2. CASE s.box[c] = <<>>
  BY <1>2 DEF Took
<1>3. CASE s.box[c] # <<>>
  <2>1. PICK r : r = [s EXCEPT !.box[c] = <<>>]
    OBVIOUS
  <2>2. t = Receive(r, c, Head(s.box[c]))
    BY <1>3, <2>1 DEF Took
  <2>3. Inv(t, {}) /\ Frame(r, t, c)
    BY <1>1, <1>3, <2>1, <2>2, PoppedOK
  <2>4. /\ r.exe = s.exe /\ r.wire = s.wire /\ r.idtran = s.idtran
        /\ r.asked = s.asked /\ r.box[c] = <<>>
        /\ \A d \in Child : d # c => r.box[d] = s.box[d]
    <3>1. Typed(s)
      BY DEF Inv
    <3> QED
      BY ONLY <1>1, <2>1, <3>1 DEF Typed
  <2> QED
    BY <1>1, <2>3, <2>4 DEF Frame
<1> QED
  BY <1>2, <1>3

LEMMA SettleIs ==
  ASSUME NEW s, Typed(s), NEW t, t = Settle(s),
         \A c \in Poller : Typed(Took(s, c))
  PROVE  /\ Typed(t)
         /\ \A c \in Poller : t.exe[c] = Took(s, c).exe[c] /\ t.box[c] = <<>>
         /\ \A e \in Exe \ Poller : t.exe[e] = s.exe[e]
         /\ \A j \in Job : t.box[j] = Took(s, Up[j]).box[j]
         /\ t.asked = {k \in s.asked : k \in Took(s, Up[k]).asked}
         /\ t.wire = s.wire /\ t.idtran = s.idtran
         /\ t.matched = (s.matched /\ \A c \in Poller : Took(s, c).matched)
<1> DEFINE x == [e \in Exe |-> IF e \in Poller THEN Took(s, e).exe[e] ELSE s.exe[e]]
           b == [c \in Child |-> IF c \in Poller THEN <<>>
                                 ELSE Took(s, Up[c]).box[c]]
           a == {k \in s.asked : k \in Took(s, Up[k]).asked}
           m == s.matched /\ \A c \in Poller : Took(s, c).matched
<1>1. t = [s EXCEPT !.exe = x, !.box = b, !.asked = a, !.matched = m]
  BY DEF Settle, Took, Typed
<1>2. x \in [Exe -> Processor]
  <2> SUFFICES ASSUME NEW e \in Exe
               PROVE  (IF e \in Poller THEN Took(s, e).exe[e] ELSE s.exe[e]) \in Processor
    OBVIOUS
  <2>1. CASE e \in Poller
    BY <2>1, Parts
  <2>2. CASE e \notin Poller
    BY <2>2, Parts
  <2> QED
    BY <2>1, <2>2
<1>3. b \in [Child -> Seq(Answer)]
  <2> SUFFICES ASSUME NEW c \in Child, c \notin Poller
               PROVE  Took(s, Up[c]).box[c] \in Seq(Answer)
    OBVIOUS
  <2>1. Up[c] \in Poller
    BY ExecutAssumption DEF Child
  <2>2. Typed(Took(s, Up[c]))
    BY <2>1
  <2> QED
    BY <2>2 DEF Typed
<1>4. a \subseteq Client /\ m \in BOOLEAN
  BY Parts DEF Typed
<1> HIDE DEF x, b, a, m
<1>5. /\ Typed(t) /\ t.exe = x /\ t.box = b /\ t.asked = a /\ t.matched = m
      /\ t.wire = s.wire /\ t.idtran = s.idtran
  BY ONLY Typed(s), <1>1, <1>2, <1>3, <1>4 DEF Typed
<1> QED
  BY <1>5, Roles DEF x, b, a, m

LEMMA SettleOK ==
  ASSUME OnlyJobsStop, NEW s, Inv(s, {}), NEW t, t = Settle(s)
  PROVE  Inv(t, {})
<1>1. ASSUME NEW c \in Poller
      PROVE  /\ Inv(Took(s, c), {}) /\ Took(s, c).box[c] = <<>>
             /\ \A d \in Exe : d # c => Took(s, c).exe[d] = s.exe[d]
  BY TookOK
<1>2. Typed(s) /\ \A c \in Poller : Typed(Took(s, c))
  BY <1>1 DEF Inv
<1>3. /\ Typed(t)
      /\ \A c \in Poller : t.exe[c] = Took(s, c).exe[c] /\ t.box[c] = <<>>
      /\ \A e \in Exe \ Poller : t.exe[e] = s.exe[e]
      /\ \A j \in Job : t.box[j] = Took(s, Up[j]).box[j]
      /\ t.asked = {k \in s.asked : k \in Took(s, Up[k]).asked}
      /\ t.wire = s.wire /\ t.idtran = s.idtran
      /\ t.matched = (s.matched /\ \A c \in Poller : Took(s, c).matched)
  BY <1>2, SettleIs
<1>4. \A e \in Exe : Sound(e, t.exe[e]) /\ Alone(e, t.exe[e]) /\ Hosts(e, t.exe[e])
  <2> SUFFICES ASSUME NEW e \in Exe
               PROVE  Sound(e, t.exe[e]) /\ Alone(e, t.exe[e]) /\ Hosts(e, t.exe[e])
    OBVIOUS
  <2>1. CASE e \in Poller
    BY <1>1, <1>3, <2>1 DEF Inv
  <2>2. CASE e \notin Poller
    BY <1>3, <2>2 DEF Inv
  <2> QED
    BY <2>1, <2>2
<1>5. ASSUME NEW c \in Child
      PROVE  \E p \in Poller : /\ t.exe[c] = Took(s, p).exe[c]
                               /\ t.exe[Up[c]] = Took(s, p).exe[Up[c]]
                               /\ t.box[c] = Took(s, p).box[c]
  <2>1. CASE c \in Poller
    <3>1. Up[c] = Master /\ Master \in Exe /\ Master \notin Poller
      BY <2>1, Roles
    <3>2. t.exe[Master] = Took(s, c).exe[Master]
      BY <1>1, <1>3, <2>1, <3>1
    <3> QED
      BY <1>1, <1>3, <2>1, <3>1, <3>2
  <2>2. CASE c \in Job
    <3>1. Up[c] \in Poller /\ c \in Exe /\ c \notin Poller /\ c # Up[c]
      BY <2>2, Roles, ExecutAssumption
    <3>2. t.exe[c] = Took(s, Up[c]).exe[c]
      BY <1>1, <1>3, <3>1
    <3> QED
      BY <1>3, <2>2, <3>1, <3>2
  <2> QED
    BY <2>1, <2>2, Roles
<1>6. \A c \in Child : Linked(t, c)
  <2> SUFFICES ASSUME NEW c \in Child PROVE Linked(t, c)
    OBVIOUS
  <2>1. PICK p \in Poller : /\ t.exe[c] = Took(s, p).exe[c]
                            /\ t.exe[Up[c]] = Took(s, p).exe[Up[c]]
                            /\ t.box[c] = Took(s, p).box[c]
    BY <1>5
  <2>2. Linked(Took(s, p), c)
    BY <1>1 DEF Inv
  <2> QED
    BY <2>1, <2>2 DEF Linked
<1>7. \A c \in Kept \ {} : Remains(t, c)
  <2> SUFFICES ASSUME NEW c \in Kept PROVE Remains(t, c)
    OBVIOUS
  <2>0. c \in Child
    BY Roles DEF Kept
  <2>1. PICK p \in Poller : /\ t.exe[c] = Took(s, p).exe[c]
                            /\ t.exe[Up[c]] = Took(s, p).exe[Up[c]]
                            /\ t.box[c] = Took(s, p).box[c]
    BY <1>5, <2>0
  <2>2. Remains(Took(s, p), c)
    BY <1>1 DEF Inv
  <2> QED
    BY <2>1, <2>2 DEF Remains
<1>8. \A k \in Client \ {} : Answerable(t, k)
  <2> SUFFICES ASSUME NEW k \in Client, k \in t.asked
               PROVE  Commands(t.exe[Up[k]], k) # {}
    BY DEF Answerable
  <2>1. Up[k] \in Poller
    BY ExecutAssumption
  <2>2. k \in Took(s, Up[k]).asked /\ Answerable(Took(s, Up[k]), k)
    BY <1>1, <1>3, <2>1 DEF Inv
  <2> QED
    BY <1>3, <2>1, <2>2 DEF Answerable
<1>9. t.exe[Master] = s.exe[Master]
  BY <1>3, Roles
<1>10. t.matched
  BY <1>1, <1>3 DEF Inv
<1> QED
  BY <1>3, <1>4, <1>6, <1>7, <1>8, <1>9, <1>10 DEF Inv

-----------------------------------------------------------------------------
(* One lemma for each action. *)
LEMMA BecomeOK ==
  ASSUME OnlyJobsStop, NEW s, Inv(s, {}), Become(s)
  PROVE  IInv'
<1>1. PICK t : t = Settle(s)
  OBVIOUS
<1>2. Inv(t, {})
  BY <1>1, SettleOK
<1>3. /\ exe' = t.exe /\ idtran' = t.idtran /\ wire' = t.wire /\ box' = t.box
      /\ asked' = t.asked /\ matched' = t.matched
  BY <1>1 DEF Become
<1>4. State' = t
  BY <1>2, <1>3 DEF State, Inv, Typed
<1> QED
  BY <1>2, <1>4 DEF IInv

(* A timer or a call from another thread that is served. *)
LEMMA OnPendOK ==
  ASSUME OnlyJobsStop, IInv, NEW e \in Exe, OnPend(e)
  PROVE  IInv'
<1> PICK s : s = State
  OBVIOUS
<1> DEFINE x == s.exe[e]
           y == [x EXCEPT !.pend = FALSE]
           r == [s EXCEPT !.exe[e].pend = FALSE]
<1>1. PICK linked \in BOOLEAN : Become(Serve(r, e, linked))
  BY DEF OnPend
<1>2. Inv(s, {}) /\ Typed(s) /\ Sound(e, x) /\ Alone(e, x) /\ (e \in Child => Linked(s, e))
  BY DEF IInv, Inv
<1>3. x \in Processor
  BY <1>2, Parts
<1>4. r = Put(s, e, y)
  BY ONLY <1>2, e \in Exe DEF Put, Typed
<1>5. /\ y \in Processor /\ y.cur = x.cur /\ y.queue = x.queue
      /\ y.transp = x.transp /\ y.run = x.run /\ y.tape = x.tape /\ y.pc = x.pc
      /\ y.taut = x.taut /\ y.tautS = x.tautS /\ y.done = x.done
  BY <1>3 DEF Processor
<1> HIDE DEF y, r
<1>6. Inv(r, {})
  BY <1>2, <1>4, <1>5, SilentOK
<1>7. PICK t : t = Serve(r, e, linked)
  OBVIOUS
<1>8. Inv(t, {})
  BY <1>6, <1>7, ServeOK
<1> QED
  BY <1>1, <1>7, <1>8, BecomeOK


LEMMA WakeOK ==
  ASSUME OnlyJobsStop, IInv, NEW e \in Exe, Wake(e)
  PROVE  IInv'
<1> PICK s : s = State
  OBVIOUS
<1> DEFINE x == s.exe[e]
           y == [x EXCEPT !.wake = FALSE, !.pend = TRUE]
           r == [s EXCEPT !.exe[e].wake = FALSE, !.exe[e].pend = TRUE]
<1>1. Become(r)
  BY DEF Wake
<1>2. Inv(s, {}) /\ Typed(s)
  BY DEF IInv, Inv
<1>3. x \in Processor
  BY <1>2, Parts
<1>4. r = Put(s, e, y)
  BY ONLY <1>2, e \in Exe DEF Put, Typed
<1>5. /\ y \in Processor /\ y.cur = x.cur /\ y.queue = x.queue
      /\ y.transp = x.transp /\ y.run = x.run /\ y.tape = x.tape /\ y.pc = x.pc
      /\ y.taut = x.taut /\ y.tautS = x.tautS /\ y.done = x.done
  BY <1>3 DEF Processor
<1> HIDE DEF y, r
<1>6. Inv(r, {})
  BY <1>2, <1>4, <1>5, SilentOK
<1> QED
  BY <1>1, <1>6, BecomeOK

(* The delay is over: the tape's command joins the queue.                  *)
LEMMA OnDelayOK ==
  ASSUME OnlyJobsStop, IInv, NEW e \in Exe, OnDelay(e)
  PROVE  IInv'
<1> PICK s : s = State
  OBVIOUS
<1> DEFINE x == s.exe[e]
           cmd == Own(s, e)
           y == [x EXCEPT !.tautS = FALSE, !.queue = Append(@, cmd)]
           r == [s EXCEPT !.exe[e].tautS = FALSE, !.exe[e].queue = Append(@, cmd)]
<1>1. PICK linked \in BOOLEAN : Become(Serve(r, e, linked))
  BY DEF OnDelay
<1>2. /\ Inv(s, {}) /\ Typed(s) /\ Sound(e, x) /\ Alone(e, x) /\ Hosts(e, x)
      /\ \A c \in Child : Linked(s, c)
      /\ e \in Kept => Remains(s, e)
      /\ WireOK(s.exe[Master], s.wire, s.idtran)
      /\ LastSent(s.exe[Master], s.wire, s.idtran)
  BY DEF IInv, Inv
<1>3. x \in Processor
  BY <1>2, Parts
<1>4. x.tautS /\ x.pc \in DOMAIN Tape[e][x.tape].cmds
  BY DEF OnDelay, State, Cmds
<1>5. x.pc # 0 /\ Commands(x, e) = {}
  BY <1>2, <1>3, <1>4, TapeIs DEF Alone
<1>6. cmd \in Command /\ cmd.from = e
  <2>1. Tape[e][x.tape].cmds[x.pc].type \in Kinds /\ x.pc \in Nat
    BY <1>2, <1>3, <1>5, TapeIs DEF Processor
  <2> QED
    BY <2>1 DEF Own, Cmds, Command, What
<1> HIDE DEF cmd
<1>7. r = Put(s, e, y)
  BY ONLY <1>2, e \in Exe DEF Put, Typed
<1>8. /\ y \in Processor /\ y.cur = x.cur /\ y.queue = Append(x.queue, cmd)
      /\ y.transp = x.transp /\ y.run = x.run /\ y.tape = x.tape /\ y.pc = x.pc
      /\ y.taut = x.taut /\ y.tautS = FALSE /\ y.done = x.done
  <2>1. Append(x.queue, cmd) \in Seq(Command)
    BY <1>3, <1>6 DEF Processor
  <2> QED
    BY <1>3, <2>1 DEF Processor
<1> HIDE DEF y, r
<1>9. ASSUME NEW d
      PROVE  /\ d # e => Commands(y, d) = Commands(x, d) /\ (Once(y, d) <=> Once(x, d))
             /\ Once(y, e)
  <2>1. y.cur = x.cur /\ y.queue = Append(x.queue, cmd)
    BY <1>8
  <2> HIDE DEF x
  <2>2. d # e => Commands(y, d) = Commands(x, d) /\ (Once(y, d) <=> Once(x, d))
    BY ONLY <1>3, <1>6, <2>1, Joined
  <2>3. Once(y, e)
    BY ONLY <1>3, <1>5, <1>6, <2>1, Joined
  <2> QED
    BY <2>2, <2>3
<1>10. Sound(e, y) /\ Alone(e, y)
  BY <1>2, <1>5, <1>8, <1>9 DEF Sound, Alone
<1>11. Hosts(e, y)
  BY <1>2, <1>8, <1>9 DEF Hosts
<1>12. \A c \in Child : Up[c] = e => Link(c, y, s.exe[c], s.box[c])
  BY <1>2, <1>9, Roles DEF Linked, Link
<1>13. (Waits(y) <=> Waits(x)) /\ y.cur = x.cur /\ y.pc = x.pc
  BY <1>8 DEF Waits
<1>14. ASSUME e \in Child PROVE Link(e, s.exe[Up[e]], y, s.box[e])
  <2>1. Link(e, s.exe[Up[e]], x, s.box[e])
    BY <1>2, <1>14 DEF Linked
  <2>2. \A a : Awaited(x, a) => Awaited(y, a)
    BY <1>13 DEF Awaited
  <2>3. \A res : Meant(x, res) => Meant(y, res)
    BY <1>13 DEF Meant
  <2> QED
    BY <1>13, <2>1, <2>2, <2>3 DEF Link, Gone
<1>15. e = Master => /\ y.transp = "NONE" => s.wire = {}
                     /\ LastSent(y, s.wire, s.idtran)
  BY <1>2, <1>8 DEF WireOK, LastSent
<1>16. e \in Kept /\ Waits(y) => Commands(s.exe[Up[e]], e) # {} \/ s.box[e] # <<>>
  BY <1>2, <1>13 DEF Remains
<1>17. Fits(s, {}, {}, e, y)
  BY <1>9, <1>10, <1>11, <1>12, <1>14, <1>15, <1>16 DEF Fits
<1>18. Inv(r, {})
  BY <1>2, <1>7, <1>8, <1>17, PutOK
<1>19. PICK t : t = Serve(r, e, linked)
  OBVIOUS
<1>20. Inv(t, {})
  BY <1>18, <1>19, ServeOK
<1> QED
  BY <1>1, <1>19, <1>20, BecomeOK


(* A timeout leaves nothing in flight. *)
LEMMA HaltLeaves ==
  ASSUME NEW s, Typed(s), NEW e \in Exe, NEW t, t = Halt(s, e)
  PROVE  t.exe[e].cur = NoCmd
<1> DEFINE xr == [s.exe[e] EXCEPT !.run = FALSE]
           r == Put(s, e, xr)
           d == IF s.exe[e].transp # "NONE" THEN Disconnect(r, e) ELSE r
<1>1. [s EXCEPT !.exe[e].run = FALSE] = r
  BY DEF Put, Typed
<1>2. xr \in Processor
  <2>1. s.exe[e] \in Processor
    BY Parts
  <2> QED
    BY <2>1 DEF Processor
<1> HIDE DEF xr
<1>3. Typed(r)
  BY <1>2, PutIs
<1>4. t = [d EXCEPT !.exe[e].pc = 0, !.exe[e].cur = NoCmd, !.exe[e].done = TRUE]
  BY <1>1 DEF Halt
<1> HIDE DEF r
<1>5. Typed(d)
  <2>1. Typed(Disconnect(r, e))
    BY <1>3, DisconnectIs
  <2> QED
    BY <1>3, <2>1
<1> HIDE DEF d
<1> QED
  BY ONLY <1>4, <1>5, e \in Exe DEF Typed, Processor

LEMMA GoToLeaves ==
  ASSUME NEW s, Typed(s), NEW e \in Exe, s.exe[e].cur = NoCmd, NEW poz \in Nat,
         NEW t, t = GoTo(s, e, poz)
  PROVE  t.exe[e].cur = NoCmd
<1>1. CASE s.exe[e].run /\ poz \in DOMAIN Cmds(s, e)
  <2>1. t = [s EXCEPT !.exe[e].pc = poz, !.exe[e].tautS = TRUE]
    BY <1>1 DEF GoTo
  <2> QED
    BY ONLY <2>1, Typed(s), e \in Exe, s.exe[e].cur = NoCmd DEF Typed, Processor
<1>2. CASE ~(s.exe[e].run /\ poz \in DOMAIN Cmds(s, e))
  BY <1>2, HaltLeaves DEF GoTo
<1> QED
  BY <1>1, <1>2

LEMMA TimedOutLeaves ==
  ASSUME NEW s, Typed(s), NEW e \in Exe, Sound(e, s.exe[e]), s.exe[e].pc # 0,
         s.exe[e].cur = NoCmd, NEW cmd, NEW noSlave,
         NEW t, t = TimedOut(s, e, cmd, noSlave)
  PROVE  t.exe[e].cur = NoCmd
<1> DEFINE x == s.exe[e]
<1>1. x \in Processor
  BY Parts
<1>2. CASE cmd.from # e
  <2>1. t = Reply(s, cmd, Empty)
    BY <1>2 DEF TimedOut
  <2>2. t.exe = s.exe
    BY ONLY <2>1, Typed(s) DEF Reply, Typed
  <2> QED
    BY <2>2
<1>3. CASE cmd.from = e
  <2>1. x.pc \in Nat /\ Cmds(s, e)[x.pc].ok \in Nat /\ Cmds(s, e)[x.pc].bad \in Nat
        /\ x.rep + 1 \in Nat
    <3>1. Cmds(s, e) = Tape[e][x.tape].cmds
      BY DEF Cmds
    <3>2. x.rep + 1 \in Nat /\ x.pc \in Nat
      BY <1>1 DEF Processor
    <3> QED
      BY <1>1, <3>1, <3>2, TapeIs
  <2>2. \E r, poz \in Nat : \/ t = GoTo(s, e, poz)
                            \/ t = GoTo([s EXCEPT !.exe[e].rep = r], e, poz)
    BY <1>3, <2>1 DEF TimedOut
  <2>3. PICK r \in Nat, poz \in Nat :
          \/ t = GoTo(s, e, poz)
          \/ t = GoTo([s EXCEPT !.exe[e].rep = r], e, poz)
    BY <2>2
  <2>4. CASE t = GoTo(s, e, poz)
    BY <2>4, GoToLeaves
  <2>5. CASE t = GoTo([s EXCEPT !.exe[e].rep = r], e, poz)
    <3> DEFINE y == [x EXCEPT !.rep = r]
    <3>1. [s EXCEPT !.exe[e].rep = r] = Put(s, e, y)
      BY ONLY Typed(s), e \in Exe DEF Put, Typed
    <3>2. y \in Processor /\ y.cur = NoCmd
      BY <1>1 DEF Processor
    <3> HIDE DEF y
    <3>3. PICK p : p = Put(s, e, y)
      OBVIOUS
    <3>4. Typed(p) /\ p.exe[e] = y
      BY <3>2, <3>3, PutIs
    <3>5. t = GoTo(p, e, poz)
      BY <2>5, <3>1, <3>3
    <3> QED
      BY <3>2, <3>4, <3>5, GoToLeaves
  <2> QED
    BY <2>3, <2>4, <2>5
<1> QED
  BY <1>2, <1>3

LEMMA OnTimeoutOK ==
  ASSUME OnlyJobsStop, IInv, NEW e \in Exe, OnTimeout(e)
  PROVE  IInv'
<1> PICK s : s = State
  OBVIOUS
<1> DEFINE x == s.exe[e]
           cmd == x.cur
           y == [x EXCEPT !.taut = FALSE, !.cur = NoCmd]
           off == [s EXCEPT !.exe[e].taut = FALSE, !.exe[e].cur = NoCmd]
           r == TimedOut(off, e, cmd, FALSE)
           n == r.exe[e].tcpErr + 1
           w == [r.exe[e] EXCEPT !.tcpErr = n]
           t == [r EXCEPT !.exe[e].tcpErr = n]
<1>1. PICK linked \in BOOLEAN :
        Become(IF r.exe[e].transp = "TCP" /\ cmd.type # "BROADCAST"
               THEN IF n > MaxTcpErr THEN Stop(t, e) ELSE Serve(t, e, linked)
               ELSE Serve(r, e, linked))
  BY DEF OnTimeout, State
<1>2. /\ Inv(s, {}) /\ Typed(s) /\ Sound(e, x) /\ Alone(e, x)
      /\ \A c \in Child : Linked(s, c)
      /\ x.taut /\ x.cur # NoCmd
  BY DEF IInv, Inv, OnTimeout, State
<1>3. x \in Processor /\ x.pc # 0
  BY <1>2, Parts DEF Sound
<1>4. off = Put(s, e, y)
  BY ONLY <1>2, e \in Exe DEF Put, Typed
<1>5. Off(x, y)
  BY <1>3 DEF Off, Processor
<1>6. AtHand(s, e)
  <2> SUFFICES ASSUME e \in Child
               PROVE  Commands(s.exe[Up[e]], e) = {} /\ s.box[e] = <<>>
    BY <1>2 DEF AtHand
  <2>1. Link(e, s.exe[Up[e]], x, s.box[e])
    BY <1>2 DEF Linked
  <2>2. ~Waits(x)
    BY <1>2, Roles DEF Alone, Waits
  <2> QED
    BY <1>3, <2>1, <2>2 DEF Link, Awaited, Gone
<1> HIDE DEF off
<1>7. r = TimedOut(Put(s, e, y), e, s.exe[e].cur, FALSE)
  BY <1>4
<1>8. off.exe[e] = y /\ Typed(off) /\ Sound(e, y) /\ y.pc # 0 /\ y.cur = NoCmd
  <2>1. y \in Processor
    BY <1>5 DEF Off
  <2>2. Typed(off) /\ off.exe[e] = y
    <3> HIDE DEF y
    <3> QED
      BY ONLY <1>2, <1>4, <2>1, e \in Exe, PutIs
  <2>3. Sound(e, y) /\ y.pc # 0
    BY <1>2, <1>3, <1>5 DEF Sound, Off
  <2> QED
    BY <1>5, <2>2, <2>3 DEF Off
<1> HIDE DEF y, cmd
<1>9. r.exe[e].cur = NoCmd
  BY <1>8, TimedOutLeaves
<1> HIDE DEF r
<1>10. Inv(r, {})
  <2>1. FALSE \in BOOLEAN
    OBVIOUS
  <2> QED
    BY <1>2, <1>5, <1>6, <1>7, <2>1, TimedOutOK
<1>11. r.exe[e] \in Processor /\ Typed(r) /\ Sound(e, r.exe[e])
  BY <1>10, Parts DEF Inv
<1>12. t = Put(r, e, w)
  BY ONLY <1>11, e \in Exe DEF Put, Typed
<1>13. /\ w \in Processor /\ w.cur = r.exe[e].cur /\ w.queue = r.exe[e].queue
       /\ w.transp = r.exe[e].transp /\ w.run = r.exe[e].run
       /\ w.tape = r.exe[e].tape /\ w.pc = r.exe[e].pc
       /\ w.taut = r.exe[e].taut /\ w.tautS = r.exe[e].tautS
       /\ w.done = r.exe[e].done
  BY <1>11 DEF Processor
<1> HIDE DEF w, t
<1>14. Inv(t, {})
  BY <1>10, <1>12, <1>13, SilentOK
<1>15. t.exe[e] = w
  BY <1>11, <1>12, <1>13, PutIs
<1>16. CASE Become(Serve(t, e, linked))
  <2>1. PICK u : u = Serve(t, e, linked)
    OBVIOUS
  <2>2. Inv(u, {})
    BY <1>14, <2>1, ServeOK
  <2> QED
    BY <1>16, <2>1, <2>2, BecomeOK
<1>17. CASE Become(Serve(r, e, linked))
  <2>1. PICK u : u = Serve(r, e, linked)
    OBVIOUS
  <2>2. Inv(u, {})
    BY <1>10, <2>1, ServeOK
  <2> QED
    BY <1>17, <2>1, <2>2, BecomeOK
<1>18. CASE Become(Stop(t, e)) /\ r.exe[e].transp = "TCP"
  <2>1. PICK u : u = Stop(t, e)
    OBVIOUS
  <2>2. e \notin Child /\ t.exe[e].transp = "TCP" /\ t.exe[e].cur = NoCmd
    BY <1>9, <1>11, <1>13, <1>15, <1>18, Roles DEF Sound
  <2>3. u = Halt(t, e)
    BY <2>1, <2>2 DEF Stop
  <2>4. Inv(u, {})
    BY <1>14, <2>2, <2>3, HaltOK
  <2> QED
    BY <1>18, <2>1, <2>4, BecomeOK
<1> QED
  BY <1>1, <1>16, <1>17, <1>18


LEMMA DeviceRepliesOK ==
  ASSUME OnlyJobsStop, IInv, NEW reply \in wire, NEW rez \in Answers,
         DeviceReplies(reply, rez)
  PROVE  IInv'
<1> PICK s : s = State
  OBVIOUS
<1>0. reply \in s.wire /\ s.idtran = idtran
  BY DEF State
<1> DEFINE r == [s EXCEPT !.wire = @ \ {reply}]
           res == [rez |-> rez, what |-> reply.what]
<1>1. Become(IF Accept(reply) THEN Receive(r, Master, res) ELSE r)
  BY DEF DeviceReplies
<1>2. /\ Inv(s, {}) /\ Typed(s)
      /\ WireOK(s.exe[Master], s.wire, s.idtran)
      /\ LastSent(s.exe[Master], s.wire, s.idtran)
  BY Roles DEF IInv, Inv
<1>3. /\ Typed(r) /\ r.exe = s.exe /\ r.idtran = s.idtran /\ r.box = s.box
      /\ r.asked = s.asked /\ r.matched = s.matched /\ r.wire = s.wire \ {reply}
  BY ONLY <1>2 DEF Typed
<1>4. reply \in Request
  BY <1>0, <1>2, Parts, Roles
<1> HIDE DEF r
<1>5. Inv(r, {})
  <2>1. WireOK(r.exe[Master], r.wire, r.idtran) /\ LastSent(r.exe[Master], r.wire, r.idtran)
    BY <1>2, <1>3 DEF WireOK, LastSent
  <2>2. \A c \in Child : Linked(s, c) => Linked(r, c)
    BY <1>3 DEF Linked
  <2>3. \A c \in Kept : Remains(s, c) => Remains(r, c)
    BY <1>3 DEF Remains
  <2>4. \A k \in Client : Answerable(s, k) => Answerable(r, k)
    BY <1>3 DEF Answerable
  <2> QED
    BY <1>2, <1>3, <2>1, <2>2, <2>3, <2>4 DEF Inv
<1>6. res \in Answer
  BY <1>4, ExecutAssumption DEF Answer, Request
<1>7. res.what = reply.what
  OBVIOUS
<1> HIDE DEF res
<1>8. ASSUME Accept(reply), r.exe[Master].cur # NoCmd
      PROVE  r.exe[Master].cur.what = res.what
  BY <1>0, <1>2, <1>3, <1>7, <1>8 DEF Accept, LastSent
<1>9. CASE Accept(reply)
  <2>1. PICK t : t = Receive(r, Master, res)
    OBVIOUS
  <2>2. Inv(t, {})
    <3>1. Master \in Exe /\ Master \notin Child
      BY Roles
    <3> QED
      BY <1>5, <1>6, <1>8, <1>9, <2>1, <3>1, ReceiveOK
  <2> QED
    BY <1>1, <1>9, <2>1, <2>2, BecomeOK
<1>10. CASE ~Accept(reply)
  BY <1>1, <1>5, <1>10, BecomeOK
<1> QED
  BY <1>9, <1>10

LEMMA SocketErrorOK ==
  ASSUME OnlyJobsStop, IInv, SocketError
  PROVE  IInv'
<1> PICK s : s = State
  OBVIOUS
<1>1. Become(Stop(s, Master)) /\ SocketFails /\ s.exe[Master].transp = "TCP"
  BY DEF SocketError, State
<1>2. Inv(s, {}) /\ Master \in Exe /\ Master \notin Child
  BY Roles DEF IInv
<1>3. PICK t : t = Stop(s, Master)
  OBVIOUS
<1>4. t = Halt(s, Master)
  BY <1>1, <1>3 DEF Stop
<1>5. Inv(t, {})
  BY <1>1, <1>2, <1>4, HaltOK
<1> QED
  BY <1>1, <1>3, <1>5, BecomeOK

LEMMA DeliverOK ==
  ASSUME OnlyJobsStop, IInv, NEW j \in Job, Deliver(j)
  PROVE  IInv'
<1> PICK s : s = State
  OBVIOUS
<1> DEFINE r == [s EXCEPT !.box[j] = Tail(@)]
           z == [s EXCEPT !.box[j] = <<>>]
<1>1. s.box[j] # <<>> /\ Become(Receive(r, j, Head(s.box[j])))
  BY DEF Deliver, State
<1>2. Inv(s, {}) /\ j \in Child
  BY Roles DEF IInv
<1>3. PICK t : t = Receive(z, j, Head(s.box[j]))
  OBVIOUS
<1>4. Inv(t, {}) /\ Tail(s.box[j]) = <<>>
  BY <1>1, <1>2, <1>3, PoppedOK
<1>5. r = z
  BY <1>4
<1> HIDE DEF r, z
<1> QED
  BY <1>1, <1>3, <1>4, <1>5, BecomeOK

(* A client asks: its command is in hand, and then queued.                 *)
LEMMA ClientAsksOK ==
  ASSUME OnlyJobsStop, IInv, NEW k \in Client, ClientAsks(k)
  PROVE  IInv'
<1> PICK s : s = State
  OBVIOUS
<1> DEFINE r == [s EXCEPT !.asked = @ \cup {k}]
           cmd == ClientCmd(k)
<1>1. Become(Enqueue(r, cmd, Up[k])) /\ s.exe[Up[k]].transp # "NONE"
  BY DEF ClientAsks, State
<1>2. Inv(s, {}) /\ Typed(s) /\ Up[k] \in Exe /\ k \notin Child /\ k # Master
  BY Roles DEF IInv, Inv
<1>3. /\ Typed(r) /\ r.exe = s.exe /\ r.idtran = s.idtran /\ r.box = s.box
      /\ r.wire = s.wire /\ r.matched = s.matched /\ r.asked = s.asked \cup {k}
  BY ONLY <1>2, k \in Client DEF Typed
<1>4. cmd \in Command /\ cmd.from = k /\ Foreign(Up[k], cmd)
  BY DEF ClientCmd, Command, What, Kinds, Foreign
<1> HIDE DEF r, cmd
<1>5. Inv(r, {k})
  <2>1. \A c \in Child : Linked(s, c) => Linked(r, c)
    BY <1>3 DEF Linked
  <2>2. \A c \in Kept : Remains(s, c) => Remains(r, c)
    BY <1>3 DEF Remains
  <2>3. \A d \in Client \ {k} : Answerable(s, d) => Answerable(r, d)
    BY <1>3 DEF Answerable
  <2> QED
    BY <1>2, <1>3, <2>1, <2>2, <2>3 DEF Inv
<1>6. PICK t : t = Enqueue(r, cmd, Up[k])
  OBVIOUS
<1>7. Inv(t, {})
  BY <1>1, <1>2, <1>3, <1>4, <1>5, <1>6, EnqueueOK
<1> QED
  BY <1>1, <1>6, <1>7, BecomeOK


(* A processor that is started holds nothing. *)
LEMMA StartedOK ==
  ASSUME NEW s, NEW e \in Exe, Inv(s, {}), s.exe[e].pc = 0,
         e \in Child => s.box[e] = <<>>,
         NEW y \in Processor, y.run, y.transp = "NONE", y.tape \in DOMAIN Tape[e],
         y.pc = 1, y.cur = NoCmd, ~y.taut, ~y.done, Commands(y, e) = {},
         \A c \in Exe \cup Client : Commands(y, c) \subseteq Commands(s.exe[e], c),
         NEW t, t = Put(s, e, y)
  PROVE  Inv(t, {})
<1> DEFINE x == s.exe[e]
<1>1. /\ Typed(s) /\ Sound(e, x) /\ Hosts(e, x)
      /\ \A c \in Child : Linked(s, c)
      /\ WireOK(s.exe[Master], s.wire, s.idtran)
  BY DEF Inv
<1>2. x.transp = "NONE" /\ x.cur = NoCmd /\ ~Waits(x) /\ ~Waits(y)
  BY <1>1 DEF Sound, Waits
<1>3. \A c \in Exe \cup Client : c # e => Commands(x, c) = {} /\ Commands(y, c) = {}
  BY <1>1, <1>2 DEF Hosts
<1>4. ASSUME NEW c, Commands(y, c) = {} PROVE Once(y, c)
  <2>1. Queued(y, c) = {}
    <3> SUFFICES ASSUME NEW i \in Queued(y, c) PROVE FALSE
      OBVIOUS
    <3>1. y.queue[i] \in Commands(y, c)
      BY DEF Commands
    <3> QED
      BY <1>4, <3>1
  <2>2. ~Current(y, c)
    BY <1>4 DEF Commands
  <2> QED
    BY <2>1, <2>2 DEF Once
<1>5. Sound(e, y)
  <2>1. 1 \in DOMAIN Tape[e][y.tape].cmds
    <3> DEFINE z == [y EXCEPT !.pc = 0, !.run = FALSE]
    <3>1. /\ z \in Processor /\ z.tape = y.tape /\ z.pc = 0 /\ z.run = FALSE
          /\ z.transp = "NONE" /\ z.cur = NoCmd
      BY DEF Processor
    <3> HIDE DEF z
    <3>2. Sound(e, z)
      BY <3>1 DEF Sound
    <3> QED
      BY <3>1, <3>2, TapeIs
  <2> QED
    BY <2>1 DEF Sound
<1>6. Alone(e, y) /\ Hosts(e, y)
  BY <1>3, <1>4 DEF Alone, Hosts
<1>7. \A c \in Child : Up[c] = e => Link(c, y, s.exe[c], s.box[c])
  <2> SUFFICES ASSUME NEW c \in Child, Up[c] = e
               PROVE  Link(c, y, s.exe[c], s.box[c])
    OBVIOUS
  <2>1. Link(c, x, s.exe[c], s.box[c]) /\ c \in Exe \cup Client /\ c # e
    BY <1>1, Roles DEF Linked
  <2> QED
    BY <1>3, <1>4, <2>1 DEF Link
<1>8. ASSUME e \in Child PROVE Link(e, s.exe[Up[e]], y, s.box[e])
  <2>1. Link(e, s.exe[Up[e]], x, s.box[e])
    BY <1>1, <1>8 DEF Linked
  <2> QED
    BY <1>2, <1>8, <2>1 DEF Link, Awaited
<1>9. e = Master => /\ y.transp = "NONE" => s.wire = {}
                    /\ LastSent(y, s.wire, s.idtran)
  BY <1>1, <1>2 DEF WireOK, LastSent
<1>10. \A c \in (Child \cup Client) \ {} : c # e => Commands(s.exe[e], c) = {}
  BY <1>3, Roles
<1>11. Fits(s, {}, {}, e, y)
  BY <1>2, <1>5, <1>6, <1>7, <1>8, <1>9, <1>10 DEF Fits
<1> QED
  BY <1>11, PutOK

LEMMA RestartOK ==
  ASSUME OnlyJobsStop, IInv, NEW e \in Exe, Restart(e)
  PROVE  IInv'
<1> PICK s : s = State
  OBVIOUS
<1> DEFINE x == s.exe[e]
           n == (x.tape % Len(Tape[e])) + 1
           z == [x EXCEPT !.tape = n]
           y == Started(z)
           r == [s EXCEPT !.exe[e] = Started([@ EXCEPT !.tape = n])]
<1>1. Become(r) /\ e \notin Stoppable /\ x.done
  BY DEF Restart, State
<1>2. /\ Inv(s, {}) /\ Typed(s) /\ Sound(e, x) /\ Alone(e, x)
      /\ e \in Child => Linked(s, e)
  BY DEF IInv, Inv
<1>3. x \in Processor
  BY <1>2, Parts
<1>4. /\ x.pc = 0 /\ x.transp = "NONE" /\ x.cur = NoCmd
      /\ ~x.taut /\ Commands(x, e) = {}
  BY <1>1, <1>2 DEF Sound, Alone
<1>5. e \in Child => s.box[e] = <<>>
  BY <1>1, <1>2, <1>4 DEF Linked, Link, Gone, Waits
<1>6. n \in DOMAIN Tape[e]
  <2>1. PICK S : Tape[e] \in Seq(S)
    BY ExecutAssumption
  <2>2. Len(Tape[e]) \in Nat /\ Len(Tape[e]) > 0 /\ DOMAIN Tape[e] = 1 .. Len(Tape[e])
    BY <2>1, ExecutAssumption
  <2>3. x.tape \in Nat
    BY <1>3 DEF Processor
  <2> QED
    BY <2>2, <2>3
<1>7. n \in Nat
  <2>1. PICK S : Tape[e] \in Seq(S)
    BY ExecutAssumption
  <2> QED
    BY <1>6, <2>1
<1>8. r = Put(s, e, y)
  BY DEF Put
<1> HIDE DEF n
<1>9. /\ z \in Processor /\ z.tape = n /\ z.queue = x.queue /\ z.cur = x.cur
      /\ z.taut = x.taut /\ z.transp = x.transp
  BY <1>3, <1>7 DEF Processor
<1> HIDE DEF z
<1>10. /\ y \in Processor /\ y.run = TRUE /\ y.transp = z.transp /\ y.tape = z.tape
       /\ y.pc = 1 /\ y.cur = z.cur /\ y.queue = z.queue /\ y.taut = z.taut
       /\ y.done = FALSE
  BY <1>9 DEF Processor, Started
<1> HIDE DEF y, r
<1>11. \A c : Commands(y, c) = Commands(x, c)
  BY <1>9, <1>10, SameCommands
<1>12. Inv(r, {})
  <2>1. /\ y.transp = "NONE" /\ y.tape \in DOMAIN Tape[e] /\ y.cur = NoCmd
        /\ ~y.taut /\ Commands(y, e) = {}
        /\ \A c \in Exe \cup Client : Commands(y, c) \subseteq Commands(s.exe[e], c)
    BY <1>4, <1>6, <1>9, <1>10, <1>11
  <2> HIDE DEF x
  <2> QED
    BY <1>2, <1>4, <1>5, <1>8, <1>10, <2>1, StartedOK DEF x
<1> QED
  BY <1>1, <1>12, BecomeOK

(* A new Job. *)
LEMMA FreshIs ==
  /\ Fresh \in Processor /\ Fresh.cur = NoCmd /\ Fresh.queue = <<>>
  /\ Started(Fresh) \in Processor
  /\ Started(Fresh).run = TRUE /\ Started(Fresh).transp = "NONE"
  /\ Started(Fresh).tape = 1 /\ Started(Fresh).pc = 1
  /\ Started(Fresh).cur = NoCmd /\ Started(Fresh).queue = <<>>
  /\ Started(Fresh).taut = FALSE /\ Started(Fresh).done = FALSE
<1>1. <<>> \in Seq(Command)
  OBVIOUS
<1> QED
  BY <1>1 DEF Fresh, Started, Processor

LEMMA FirstTape ==
  ASSUME NEW e \in Exe
  PROVE  1 \in DOMAIN Tape[e]
<1>1. PICK S : Tape[e] \in Seq(S)
  BY ExecutAssumption
<1> QED
  BY <1>1, ExecutAssumption

LEMMA UserStartOK ==
  ASSUME OnlyJobsStop, IInv, NEW e \in Stoppable, UserStart(e)
  PROVE  IInv'
<1> PICK s : s = State
  OBVIOUS
<1>0. e \in Job /\ e \in Exe /\ e \in Child
  BY Roles DEF OnlyJobsStop
<1> DEFINE x == s.exe[e]
           y == Started(Fresh)
           b == [s EXCEPT !.box[e] = <<>>]
           r == [s EXCEPT !.exe[e] = Started(Fresh), !.box[e] = <<>>]
<1>1. Become(r) /\ x.pc = 0
  BY <1>0 DEF UserStart, State
<1>2. Inv(s, {}) /\ Typed(s) /\ Sound(e, x)
  BY <1>0 DEF IInv, Inv
<1>3. ~Waits(x)
  BY <1>1, <1>2 DEF Sound, Waits
<1>4. /\ Typed(b) /\ b.exe = s.exe /\ b.idtran = s.idtran /\ b.wire = s.wire
      /\ b.asked = s.asked /\ b.matched = s.matched /\ b.box[e] = <<>>
      /\ \A c \in Child : c # e => b.box[c] = s.box[c]
  <2>1. <<>> \in Seq(Answer)
    OBVIOUS
  <2> QED
    BY ONLY <1>0, <1>2, <2>1 DEF Typed
<1> HIDE DEF y
<1>5. r = Put(b, e, y)
  BY ONLY <1>0, <1>2 DEF Put, Typed, y
<1> HIDE DEF b, r
<1>6. Inv(b, {})
  <2>1. \A c \in Child : Linked(b, c)
    <3> SUFFICES ASSUME NEW c \in Child PROVE Linked(b, c)
      OBVIOUS
    <3>1. Linked(s, c)
      BY <1>2 DEF Inv
    <3> QED
      BY <1>4, <3>1 DEF Linked, Link
  <2>2. \A c \in Kept : Remains(b, c)
    <3> SUFFICES ASSUME NEW c \in Kept PROVE Remains(b, c)
      OBVIOUS
    <3>1. c \in Child /\ Remains(s, c)
      BY <1>2, Roles DEF Inv, Kept
    <3> QED
      BY <1>3, <1>4, <3>1 DEF Remains
  <2>3. \A k \in Client : Answerable(s, k) => Answerable(b, k)
    BY <1>4 DEF Answerable
  <2> QED
    BY <1>2, <1>4, <2>1, <2>2, <2>3 DEF Inv
<1>7. /\ y \in Processor /\ y.run /\ y.transp = "NONE" /\ y.tape \in DOMAIN Tape[e]
      /\ y.pc = 1 /\ y.cur = NoCmd /\ ~y.taut /\ ~y.done /\ y.queue = <<>>
  BY <1>0, FreshIs, FirstTape DEF y
<1>8. \A c : Commands(y, c) = {}
  BY <1>7, HoldsNone
<1>9. Inv(r, {})
  <2>1. /\ b.exe[e].pc = 0 /\ b.box[e] = <<>> /\ Commands(y, e) = {}
        /\ \A c \in Exe \cup Client : Commands(y, c) \subseteq Commands(b.exe[e], c)
    BY <1>1, <1>4, <1>8
  <2> QED
    BY <1>0, <1>5, <1>6, <1>7, <2>1, StartedOK
<1> QED
  BY <1>1, <1>9, BecomeOK

LEMMA UserStopOK ==
  ASSUME OnlyJobsStop, IInv, NEW e \in Stoppable, UserStop(e)
  PROVE  IInv'
<1> PICK s : s = State
  OBVIOUS
<1>1. Become(Stop(s, e)) /\ s.exe[e].run /\ Inv(s, {}) /\ e \in Job
  BY DEF UserStop, State, IInv, OnlyJobsStop
<1>2. PICK t : t = Stop(s, e)
  OBVIOUS
<1>3. Inv(t, {})
  BY <1>1, <1>2, StopOK
<1> QED
  BY <1>1, <1>2, <1>3, BecomeOK


-----------------------------------------------------------------------------
(* The first state. *)
LEMMA InitOK ==
  ASSUME Init
  PROVE  IInv
<1> PICK s : s = State
  OBVIOUS
<1>1. /\ s.exe = [e \in Exe |-> IF e \in Stoppable THEN Fresh ELSE Started(Fresh)]
      /\ s.idtran = 0 /\ s.wire = {} /\ s.box = [c \in Child |-> <<>>]
      /\ s.asked = {} /\ s.matched = TRUE
  BY DEF Init, State
<1>2. Typed(s)
  <2>1. 0 \in 0 .. IdMod - 1 /\ <<>> \in Seq(Answer)
    BY ExecutAssumption
  <2>2. s.exe \in [Exe -> Processor] /\ s.box \in [Child -> Seq(Answer)]
    BY <1>1, <2>1, FreshIs
  <2>3. s = [exe |-> s.exe, idtran |-> s.idtran, wire |-> s.wire, box |-> s.box,
             asked |-> s.asked, matched |-> s.matched]
    BY DEF State
  <2> QED
    BY <1>1, <2>1, <2>2, <2>3 DEF Typed
<1>3. ASSUME NEW e \in Exe
      PROVE  /\ s.exe[e] = IF e \in Stoppable THEN Fresh ELSE Started(Fresh)
             /\ s.exe[e].transp = "NONE" /\ s.exe[e].cur = NoCmd
             /\ s.exe[e].queue = <<>> /\ ~Waits(s.exe[e])
             /\ \A c : Commands(s.exe[e], c) = {} /\ Once(s.exe[e], c)
  <2>1. s.exe[e] = IF e \in Stoppable THEN Fresh ELSE Started(Fresh)
    BY <1>1
  <2>2. /\ s.exe[e].transp = "NONE" /\ s.exe[e].cur = NoCmd
        /\ s.exe[e].queue = <<>>
    BY <2>1, FreshIs DEF Fresh
  <2> QED
    BY <2>1, <2>2, HoldsNone DEF Waits
<1>4. ASSUME NEW e \in Exe
      PROVE  Sound(e, s.exe[e]) /\ Alone(e, s.exe[e]) /\ Hosts(e, s.exe[e])
  <2>1. CASE e \in Stoppable
    <3>1. s.exe[e] = Fresh /\ 1 \in DOMAIN Tape[e]
      BY <1>3, <2>1, FirstTape
    <3>2. Sound(e, Fresh)
      BY <3>1 DEF Sound, Fresh
    <3>3. Fresh.pc = 0 /\ Fresh.taut = FALSE
      BY DEF Fresh
    <3>4. Alone(e, s.exe[e])
      BY <2>1, <3>1, <3>3 DEF Alone
    <3>5. Hosts(e, s.exe[e])
      BY <1>3 DEF Hosts
    <3> QED
      BY <3>1, <3>2, <3>4, <3>5
  <2>2. CASE e \notin Stoppable
    <3>1. s.exe[e] = Started(Fresh) /\ 1 \in DOMAIN Tape[e]
      BY <1>3, <2>2, FirstTape
    <3>2. Sound(e, [Fresh EXCEPT !.tape = 1])
      BY <3>1 DEF Sound, Fresh
    <3>3. 1 \in DOMAIN Tape[e][1].cmds
      <4> DEFINE z == [Fresh EXCEPT !.tape = 1]
      <4>1. z \in Processor /\ z.tape = 1
        BY FreshIs DEF Processor
      <4> QED
        BY <3>2, <4>1, TapeIs
    <3>4. Sound(e, s.exe[e])
      BY <3>1, <3>3, FreshIs DEF Sound
    <3>5. Alone(e, s.exe[e])
      <4>1. /\ s.exe[e].pc = 1 /\ s.exe[e].taut = FALSE /\ s.exe[e].run = TRUE
            /\ Once(s.exe[e], e) /\ Commands(s.exe[e], e) = {}
        BY <1>3, <3>1, FreshIs
      <4> QED
        BY ONLY <4>1 DEF Alone
    <3>6. Hosts(e, s.exe[e])
      BY <1>3 DEF Hosts
    <3> QED
      BY <3>4, <3>5, <3>6
  <2> QED
    BY <2>1, <2>2
<1>5. ASSUME NEW c \in Child PROVE Linked(s, c) /\ Remains(s, c)
  <2>1. s.box[c] = <<>> /\ Len(s.box[c]) = 0
    BY <1>1
  <2>2. Up[c] \in Exe /\ c \in Exe
    BY Roles
  <2>3. /\ Commands(s.exe[Up[c]], c) = {} /\ Once(s.exe[Up[c]], c)
        /\ ~Waits(s.exe[c])
    BY <1>3, <2>2
  <2> QED
    BY <2>1, <2>3 DEF Linked, Link, Remains
<1>6. \A k \in Client : Answerable(s, k)
  BY <1>1 DEF Answerable
<1>7. WireOK(s.exe[Master], s.wire, s.idtran) /\ LastSent(s.exe[Master], s.wire, s.idtran)
  BY <1>1 DEF WireOK, LastSent
<1>8. Kept \subseteq Child
  BY Roles DEF Kept
<1> QED
  BY <1>1, <1>2, <1>4, <1>5, <1>6, <1>7, <1>8 DEF IInv, Inv

LEMMA NextOK ==
  ASSUME OnlyJobsStop, IInv, [Next]_vars
  PROVE  IInv'
<1>1. CASE Next
  <2>1. ASSUME NEW e \in Exe, OnDelay(e) PROVE IInv'
    BY <2>1, OnDelayOK
  <2>2. ASSUME NEW e \in Exe, OnTimeout(e) PROVE IInv'
    BY <2>2, OnTimeoutOK
  <2>3. ASSUME NEW e \in Exe, OnPend(e) PROVE IInv'
    BY <2>3, OnPendOK
  <2>4. ASSUME NEW e \in Exe, Wake(e) PROVE IInv'
    BY <2>4, WakeOK
  <2>5. ASSUME NEW reply \in wire, NEW rez \in Answers, DeviceReplies(reply, rez)
        PROVE  IInv'
    BY <2>5, DeviceRepliesOK
  <2>6. CASE SocketError
    BY <2>6, SocketErrorOK
  <2>7. ASSUME NEW j \in Job, Deliver(j) PROVE IInv'
    BY <2>7, DeliverOK
  <2>8. ASSUME NEW k \in Client, ClientAsks(k) PROVE IInv'
    BY <2>8, ClientAsksOK
  <2>9. ASSUME NEW e \in Exe, Restart(e) PROVE IInv'
    BY <2>9, RestartOK
  <2>10. ASSUME NEW e \in Stoppable, UserStart(e) PROVE IInv'
    BY <2>10, UserStartOK
  <2>11. ASSUME NEW e \in Stoppable, UserStop(e) PROVE IInv'
    BY <2>11, UserStopOK
  <2> QED
    BY <1>1, <2>1, <2>2, <2>3, <2>4, <2>5, <2>6, <2>7, <2>8, <2>9, <2>10, <2>11
    DEF Next
<1>2. CASE UNCHANGED vars
  <2>1. State' = State
    BY <1>2 DEF vars, State
  <2> QED
    BY <2>1 DEF IInv
<1> QED
  BY <1>1, <1>2

(* The inductive invariant holds of every behaviour, whatever devices,     *)
(* clients and timers do, and whenever the Jobs are stopped.               *)
THEOREM ProcessorsInvariant ==
  ASSUME OnlyJobsStop
  PROVE  Spec => []IInv
<1>1. Init => IInv
  BY InitOK
<1>2. IInv /\ [Next]_vars => IInv'
  BY NextOK
<1> QED
  BY <1>1, <1>2, PTL DEF Spec


-----------------------------------------------------------------------------
(* An answer is taken for the command it answers: readIPSlot lets through  *)
(* the number sent last only (execut.cpp:843), and no request on the wire  *)
(* that has that number is another one.                                    *)
THEOREM AnswersMatch ==
  ASSUME OnlyJobsStop
  PROVE  Spec => []AnswerMatches
<1>1. IInv => AnswerMatches
  BY DEF IInv, Inv, State, AnswerMatches
<1> QED
  BY <1>1, ProcessorsInvariant, PTL

(* What a processor holds of another one, it waits for, and there is one   *)
(* of it: exeCommandE and disconnect_io (execut.cpp:951, 597).             *)
LEMMA HeldIsOne ==
  ASSUME NEW s, Inv(s, {}), NEW c \in Child
  PROVE  /\ Cardinality(Queued(s.exe[Up[c]], c)) <= 1
         /\ Cardinality(Commands(s.exe[Up[c]], c)) <= 1
<1> DEFINE u == s.exe[Up[c]]
<1>1. Once(u, c)
  BY DEF Inv, Linked, Link
<1>2. ASSUME NEW S, \A a, b \in S : a = b PROVE Cardinality(S) <= 1
  <2>1. CASE S = {}
    BY <2>1, FS_EmptySet
  <2>2. CASE S # {}
    <3>1. PICK a : a \in S
      BY <2>2
    <3>2. S = {a}
      BY <1>2, <3>1
    <3>3. Cardinality({a}) = 1
      BY FS_Singleton
    <3> QED
      BY <3>2, <3>3
  <2> QED
    BY <2>1, <2>2
<1>3. \A a, b \in Queued(u, c) : a = b
  BY <1>1 DEF Once
<1>4. \A a, b \in Commands(u, c) : a = b
  <2>1. CASE Current(u, c)
    <3>1. Queued(u, c) = {}
      BY <1>1, <2>1 DEF Once
    <3> QED
      BY <3>1 DEF Commands
  <2>2. CASE ~Current(u, c)
    BY <1>3, <2>2 DEF Commands
  <2> QED
    BY <2>1, <2>2
<1>5. Cardinality(Queued(u, c)) <= 1
  <2> HIDE DEF u
  <2> QED
    BY <1>2, <1>3
<1>6. Cardinality(Commands(u, c)) <= 1
  <2> HIDE DEF u
  <2> QED
    BY <1>2, <1>4
<1> QED
  BY <1>5, <1>6

(* No processor holds a command, or has posted an answer, that its owner   *)
(* does not wait for (exeCommandE, execut.cpp:951).                        *)
THEOREM HeldAwaited ==
  ASSUME OnlyJobsStop
  PROVE  Spec => []HeldIsAwaited
<1>1. ASSUME IInv PROVE HeldIsAwaited
  <2> SUFFICES ASSUME NEW c \in Child
               PROVE  LET u    == Up[c]
                          held == {i \in DOMAIN exe[u].queue : exe[u].queue[i].from = c}
                          all  == {exe[u].queue[i] : i \in held}
                                    \cup (IF exe[u].cur # NoCmd /\ exe[u].cur.from = c
                                          THEN {exe[u].cur} ELSE {})
                      IN  /\ Cardinality(held) <= 1
                          /\ Cardinality(all) <= 1
                          /\ \A cmd \in all : /\ exe[c].transp = "EXT"
                                               /\ exe[c].cur # NoCmd
                                               /\ exe[c].cur.what = cmd.what
    BY DEF HeldIsAwaited
  <2> DEFINE x == exe[Up[c]]
             all == {x.queue[i] : i \in Queued(x, c)}
                      \cup (IF x.cur # NoCmd /\ x.cur.from = c THEN {x.cur} ELSE {})
  <2>1. Inv(State, {}) /\ State.exe = exe
    BY <1>1 DEF IInv, State
  <2>2. Cardinality(Queued(x, c)) <= 1 /\ Cardinality(Commands(x, c)) <= 1
    BY <2>1, HeldIsOne
  <2>3. all = Commands(x, c)
    BY DEF Commands, Current
  <2>4. \A cmd \in Commands(x, c) : Awaited(exe[c], cmd)
    BY <2>1 DEF Inv, Linked, Link
  <2>5. \A cmd \in all : /\ exe[c].transp = "EXT" /\ exe[c].cur # NoCmd
                         /\ exe[c].cur.what = cmd.what
    BY <2>3, <2>4 DEF Awaited, Waits
  <2>6. Cardinality(all) <= 1
    BY <2>2, <2>3
  <2> QED
    BY <2>2, <2>5, <2>6 DEF Queued
<1> QED
  BY <1>1, ProcessorsInvariant, PTL

(* Nobody who waits is forgotten: a Poller or Job unless the connection to *)
(* the devices breaks, a Job or a Client even then (disconnect_io answers  *)
(* what is queued, execut.cpp:606).                                        *)
LEMMA HeldIs ==
  ASSUME NEW s, s = State, Typed(s), NEW u \in Exe, NEW k, Commands(s.exe[u], k) # {}
  PROVE  HeldBy(u, k)
<1>1. s.exe = exe
  BY DEF State
<1>2. CASE Current(exe[u], k)
  BY <1>2 DEF Current, HeldBy
<1>3. CASE ~Current(exe[u], k)
  <2>1. PICK i \in Queued(exe[u], k) : TRUE
    BY <1>1, <1>3 DEF Commands
  <2> QED
    BY <2>1 DEF Queued, HeldBy
<1> QED
  BY <1>2, <1>3

LEMMA KeptRemembered ==
  ASSUME IInv, NEW c \in Kept
  PROVE  Remembered(c)
<1> PICK s : s = State
  OBVIOUS
<1>1. Remains(s, c) /\ Typed(s) /\ s.exe = exe /\ s.box = box
  BY DEF IInv, Inv, State
<1>2. Up[c] \in Exe
  BY Roles DEF Kept
<1>3. Commands(s.exe[Up[c]], c) # {} => HeldBy(Up[c], c)
  BY <1>1, <1>2, HeldIs
<1> QED
  BY <1>1, <1>3 DEF Remains, Remembered, Waits

LEMMA ClientRemembered ==
  ASSUME IInv, NEW k \in asked
  PROVE  HeldBy(Up[k], k)
<1> PICK s : s = State
  OBVIOUS
<1>1. Inv(s, {}) /\ Typed(s) /\ k \in s.asked
  BY DEF IInv, Inv, State
<1>2. k \in Client /\ Up[k] \in Exe
  BY <1>1, Parts, Roles DEF Inv, Typed
<1>3. Commands(s.exe[Up[k]], k) # {}
  BY <1>1, <1>2 DEF Inv, Answerable
<1> QED
  BY <1>1, <1>2, <1>3, HeldIs

(* A Job that waits for an answer has its command at its Poller or its     *)
(* answer on the way (exeCommandE, execut.cpp:951), even when the          *)
(* connection breaks.                                                      *)
THEOREM JobsKept ==
  ASSUME OnlyJobsStop
  PROVE  Spec => []JobsNotForgotten
<1>1. Job \subseteq Kept
  BY DEF Kept, Child
<1>2. ASSUME IInv PROVE JobsNotForgotten
  BY <1>1, <1>2, KeptRemembered DEF JobsNotForgotten
<1> QED
  BY <1>2, ProcessorsInvariant, PTL

(* The same of Pollers and Clients, unless the connection breaks: error    *)
(* stops the Master with a Poller's command in flight (execut.cpp:817).    *)
THEOREM NobodyIsForgotten ==
  ASSUME OnlyJobsStop, ~SocketFails
  PROVE  Spec => []NobodyForgotten
<1>1. Kept = Child
  BY DEF Kept
<1>2. ASSUME IInv PROVE NobodyForgotten
  BY <1>1, <1>2, KeptRemembered, ClientRemembered DEF NobodyForgotten
<1> QED
  BY <1>2, ProcessorsInvariant, PTL

(* A Client that waits has its command at its Poller (retrans,             *)
(* mdbServer.cpp:233), whether the connection breaks or not.               *)
THEOREM ClientsKept ==
  ASSUME OnlyJobsStop
  PROVE  Spec => [](\A k \in asked : HeldBy(Up[k], k))
<1>1. ASSUME IInv PROVE \A k \in asked : HeldBy(Up[k], k)
  BY <1>1, ClientRemembered
<1> QED
  BY <1>1, ProcessorsInvariant, PTL

(* A timer that runs finds what its handler uses (execut.cpp:182, 199), in *)
(* every processor that nobody stops from outside.                         *)
LEMMA TimerHasWork ==
  ASSUME IInv, NEW e \in Exe \ Stoppable
  PROVE  /\ exe[e].taut => exe[e].cur # NoCmd
         /\ exe[e].tautS => exe[e].pc \in DOMAIN Cmds(State, e)
<1> PICK s : s = State
  OBVIOUS
<1>1. s.exe = exe /\ Sound(e, exe[e]) /\ Alone(e, exe[e])
  BY DEF IInv, Inv, State
<1>2. Cmds(State, e) = Tape[e][exe[e].tape].cmds
  BY DEF Cmds, State
<1> QED
  BY <1>1, <1>2 DEF Sound, Alone

(* Whatever Jobs are stopped, every timer that runs in a processor that    *)
(* nobody stops finds what its handler uses (timerEvent, execut.cpp:179).  *)
THEOREM OthersTimersWork ==
  ASSUME OnlyJobsStop
  PROVE  Spec => [](\A e \in Exe \ Stoppable :
                      /\ exe[e].taut => exe[e].cur # NoCmd
                      /\ exe[e].tautS => exe[e].pc \in DOMAIN Cmds(State, e))
<1>1. IInv => \A e \in Exe \ Stoppable :
                /\ exe[e].taut => exe[e].cur # NoCmd
                /\ exe[e].tautS => exe[e].pc \in DOMAIN Cmds(State, e)
  BY TimerHasWork
<1> QED
  BY <1>1, ProcessorsInvariant, PTL

(* Every timer that runs finds what its handler uses (timerEvent,          *)
(* execut.cpp:179), when nobody is stopped from outside.                   *)
THEOREM TimersWork ==
  ASSUME Stoppable = {}
  PROVE  Spec => []TimersHaveWork
<1>1. OnlyJobsStop
  BY DEF OnlyJobsStop
<1>2. ASSUME IInv PROVE TimersHaveWork
  BY <1>2, TimerHasWork DEF TimersHaveWork
<1>3. Spec => []IInv
  BY <1>1, ProcessorsInvariant
<1> QED
  BY <1>2, <1>3, PTL

=============================================================================
