------------------------------- MODULE Execut -------------------------------
(***************************************************************************)
(* Command processors (class execut).  Each runs a tape of commands: it    *)
(* waits, puts the tape's current command into its queue, sends it,        *)
(* waits for the answer or a timeout and goes to the next command.         *)
(*                                                                         *)
(* The Master owns the TCP connection to the devices.  The Pollers, one    *)
(* per device, live in the Master's thread and send through it: what they  *)
(* send is queued at the Master (exeCommandE) and the answer is handed     *)
(* back by a direct call.  Jobs (the collectors' processors) send through  *)
(* a Poller from threads of their own: their answers are posted.  Clients  *)
(* (connections of the Modbus server) put single commands into a Poller's  *)
(* queue.                                                                  *)
(*                                                                         *)
(* One action is one event of an event loop, with all that its handler     *)
(* calls; the handlers are operators on the record of all variables.  An   *)
(* answer from the Master to a Poller is a direct call that touches        *)
(* nothing of the Master's: it is put into the Poller's box and taken out  *)
(* at the end of the same action (Become).  Delays have no length: a timer *)
(* that runs may fire.                                                     *)
(***************************************************************************)
EXTENDS Integers, Sequences, FiniteSets

CONSTANTS
  Master, Poller, Job, Client,
  Up,          (* whom a Poller, a Job or a Client sends through (extExe)    *)
  Tape,        (* processor -> its tapes, run in turn: cmds, the commands    *)
               (* (type, places ok and bad), and maxRepeat, how often one is *)
               (* tried                                                      *)
  MaxTcpErr,   (* timeouts in a row after which the Master stops             *)
  Stoppable,   (* processors that are started and stopped from outside       *)
  SocketFails, (* the connection may break                                   *)
  Answers,     (* what devices and the gateway may answer                    *)
  IdMod,       (* transaction identifiers, 2^16 in the code                  *)
  WireCap,     (* bound: an answer comes before WireCap more requests        *)
  NoCmd

Exe == {Master} \cup Poller \cup Job
Child == Poller \cup Job

(* What a request is: a place of a tape, or a Client's command.            *)
What == (Exe \X Nat) \cup {<<k>> : k \in Client}
Kinds == {"IF", "FOR", "BROADCAST", "CONNECT", "DISCONNECT"}
Command == [from : Exe \cup Client, what : What, type : Kinds]
TapeLine == [type : Kinds, ok : Nat, bad : Nat]

(* The generated tapes have a command at least; no request has the number  *)
(* of another one that may still be answered.                              *)
ASSUME ExecutAssumption ==
  /\ Master \notin Poller \cup Job \cup Client
  /\ Poller \cap Job = {} /\ Poller \cap Client = {} /\ Job \cap Client = {}
  /\ NoCmd \notin Command
  /\ \A e \in Exe :
       /\ Tape[e] \in Seq([maxRepeat : Nat, cmds : Seq(TapeLine) \ {<<>>}])
       /\ Tape[e] # <<>>
  /\ MaxTcpErr \in Nat
  /\ Up \in [Poller \cup Job \cup Client -> {Master} \cup Poller]
  /\ \A c \in Poller : Up[c] = Master
  /\ \A c \in Job \cup Client : Up[c] \in Poller
  /\ Stoppable \subseteq Exe
  /\ Answers \subseteq {"OK", "BAD", "CON", "GW", "NOSL"}
  /\ WireCap \in Nat /\ IdMod \in Nat /\ WireCap < IdMod

VARIABLES
  exe,     \* the processors
  idtran,  \* the Master's transaction identifier
  wire,    \* requests a device may still answer, each with its identifier
  box,     \* answers on their way to the Pollers and Jobs
  asked,   \* Clients whose command has not been answered
  matched  \* every answer taken so far was to the command it was taken for

vars == <<exe, idtran, wire, box, asked, matched>>

State == [exe |-> exe, idtran |-> idtran, wire |-> wire, box |-> box,
          asked |-> asked, matched |-> matched]

-----------------------------------------------------------------------------
(* The tape a processor runs (getTape). *)
Cmds(s, e) == Tape[e][s.exe[e].tape].cmds

(* A command in a queue: from is its owner (parentEXE, or the processor    *)
(* itself), what says which request it carries.                            *)
Own(s, e) == [from |-> e, what |-> <<e, s.exe[e].pc>>,
              type |-> Cmds(s, e)[s.exe[e].pc].type]

(* extCOM: a Poller's or Job's current command on its way up. *)
Forwarded(s, c) ==
  LET cmd == s.exe[c].cur
  IN  [from |-> c, what |-> cmd.what,
       type |-> IF cmd.type = "BROADCAST" THEN "BROADCAST" ELSE "IF"]

ClientCmd(k) == [from |-> k, what |-> <<k>>, type |-> "IF"]

Empty == [rez |-> "EMPTY", what |-> NoCmd]

(* extReceive, of a processor and of the Modbus server. *)
Reply(s, cmd, res) ==
  IF cmd.from \in Client THEN [s EXCEPT !.asked = @ \ {cmd.from}]
  ELSE IF s.exe[cmd.from].transp = "EXT"
  THEN [s EXCEPT !.box[cmd.from] = Append(@, res)]
  ELSE s

(* Mutant: the delay before a command goes on. *)
UnpluggedDelayRuns(x) ==
  [x EXCEPT !.transp = "NONE", !.taut = FALSE, !.pend = FALSE, !.queue = <<>>]

(* What disconnect_io leaves of a processor: no timer, no queue. *)
Unplugged(x) ==
  [x EXCEPT !.transp = "NONE", !.tautS = FALSE, !.taut = FALSE, !.pend = FALSE,
            !.queue = <<>>]

(* Mutant: the commands in the queue are dropped without an answer. *)
DisconnectSilently(s, e) ==
  [s EXCEPT !.exe[e] = Unplugged(@), !.wire = IF e = Master THEN {} ELSE @]

(* disconnect_io: foreign commands in the queue are answered with nothing, *)
(* each as by Reply.                                                       *)
Disconnect(s, e) ==
  LET queue == s.exe[e].queue
      Of(c) == {i \in DOMAIN queue : queue[i].from = c}
      None(c) == [i \in 1 .. Cardinality(Of(c)) |-> Empty]
  IN  [s EXCEPT !.exe[e] = Unplugged(@),
                !.wire = IF e = Master THEN {} ELSE @,
                !.box = [c \in Child |->
                           IF c # e /\ s.exe[c].transp = "EXT"
                           THEN @[c] \o None(c) ELSE @[c]],
                !.asked = {k \in @ : Of(k) = {}}]

(* Stop, where it does stop; the signal finish is left in done. *)
Halt(s, e) ==
  LET r == [s EXCEPT !.exe[e].run = FALSE]
      d == IF s.exe[e].transp # "NONE" THEN Disconnect(r, e) ELSE r
  IN  [d EXCEPT !.exe[e].pc = 0, !.exe[e].cur = NoCmd, !.exe[e].done = TRUE]

(* Mutant: a processor that sends through another one does not wait. *)
StopAtOnce(s, e) == Halt(s, e)

(* Stop.  A processor that sends through a running one only resets its     *)
(* flag: "it can be closed only upon return".                              *)
Stop(s, e) ==
  IF s.exe[e].transp = "EXT" /\ s.exe[e].run /\ s.exe[Up[e]].run
  THEN [s EXCEPT !.exe[e].run = FALSE]
  ELSE Halt(s, e)

(* Next: off the tape, or not running, it stops. *)
GoTo(s, e, poz) ==
  IF s.exe[e].run /\ poz \in DOMAIN Cmds(s, e)
  THEN [s EXCEPT !.exe[e].pc = poz, !.exe[e].tautS = TRUE]
  ELSE Halt(s, e)

(* Mutant: the owner of a foreign command is not told of the timeout. *)
TimedOutSilently(s, e, cmd, noSlave) ==
  LET x == s.exe[e]
  IN  IF cmd.from # e THEN s
      ELSE GoTo(s, e, IF cmd.type = "BROADCAST" THEN Cmds(s, e)[x.pc].ok
                                                ELSE Cmds(s, e)[x.pc].bad)

(* ttaut: no answer, or an error in its place.  A foreign command is       *)
(* handed back empty; an own one is repeated or given up.                  *)
TimedOut(s, e, cmd, noSlave) ==
  LET x   == s.exe[e]
      rep == x.rep + 1
  IN  IF cmd.from # e THEN Reply(s, cmd, Empty)
      ELSE IF cmd.type = "BROADCAST" THEN GoTo(s, e, Cmds(s, e)[x.pc].ok)
      ELSE IF rep < Tape[e][x.tape].maxRepeat /\ ~noSlave
      THEN GoTo([s EXCEPT !.exe[e].rep = rep], e, x.pc)
      ELSE GoTo([s EXCEPT !.exe[e].rep = 0], e, Cmds(s, e)[x.pc].bad)

(* RScharmanka: the answer is handed back, or decides where the tape goes. *)
(* CON is an answer on which a FOR goes round once more.                   *)
Examine(s, e, cmd, res) ==
  LET here == s.exe[e].pc
      t    == IF s.exe[e].transp = "TCP" THEN s ELSE [s EXCEPT !.exe[e].rep = 0]
      poz  == IF res.rez = "BAD" THEN Cmds(s, e)[here].bad
              ELSE IF res.rez = "CON" /\ cmd.type = "FOR" THEN here
              ELSE Cmds(s, e)[here].ok
  IN  IF cmd.from # e THEN Reply(s, cmd, res) ELSE GoTo(t, e, poz)

(* Receive.  After an error the queue is not looked at again; after an     *)
(* answer it is (pendTime).  A broadcast goes on waiting.                  *)
Receive(s, e, res) ==
  LET x   == s.exe[e]
      cmd == x.cur
      off == [s EXCEPT !.exe[e].taut = FALSE, !.exe[e].cur = NoCmd]
  IN  IF cmd = NoCmd THEN s
      ELSE IF res.rez \in {"EMPTY", "GW", "NOSL"}
      THEN TimedOut(off, e, cmd, res.rez = "NOSL")
      ELSE IF x.transp = "EXT" /\ ~x.run THEN Stop(s, e)
      ELSE IF cmd.type = "BROADCAST" THEN s
      ELSE Examine([off EXCEPT !.exe[e].pend = TRUE,
                               !.exe[e].tcpErr = IF x.transp = "TCP" THEN 0 ELSE @,
                               !.matched = @ /\ cmd.what = res.what],
                   e, cmd, res)

(* The answers handed to Pollers are taken before the handler returns.     *)
(* There is one at most for each: a Poller has one command at the Master.  *)
(* What a Poller does with it touches itself and who sends through it.     *)
Settle(s) ==
  LET Took(c) == IF s.box[c] = <<>> THEN s
                 ELSE Receive([s EXCEPT !.box[c] = <<>>], c, Head(s.box[c]))
  IN  [s EXCEPT !.exe = [e \in Exe |-> IF e \in Poller THEN Took(e).exe[e]
                                                       ELSE @[e]],
                !.box = [c \in Child |-> IF c \in Poller THEN <<>>
                                         ELSE Took(Up[c]).box[c]],
                !.asked = {k \in @ : k \in Took(Up[k]).asked},
                !.matched = @ /\ \A c \in Poller : Took(c).matched]

Become(s) ==
  \E t \in {Settle(s)} :
    /\ exe' = t.exe
    /\ idtran' = t.idtran
    /\ wire' = t.wire
    /\ box' = t.box
    /\ asked' = t.asked
    /\ matched' = t.matched

(* exeCommandE at a processor that is connected: the command is queued and *)
(* pendTime asks for a look at the queue, at once in the same thread.      *)
Enqueue(s, cmd, u) ==
  LET q == [s EXCEPT !.exe[u].queue = Append(@, cmd)]
  IN  IF cmd.from \in Job THEN [q EXCEPT !.exe[u].wake = TRUE]
      ELSE [q EXCEPT !.exe[u].pend = TRUE]

(* Send: over TCP with the next identifier, or up to the other processor.  *)
(* Nobody answers a broadcast.                                             *)
Send(s, e) ==
  IF e = Master
  THEN LET cmd  == s.exe[e].cur
           id   == (s.idtran + 1) % IdMod
           sent == IF cmd.type = "BROADCAST" THEN s.wire
                   ELSE s.wire \cup {[id |-> id, what |-> cmd.what]}
       IN  [s EXCEPT !.idtran = id,
                     !.wire = {r \in sent : (id - r.id) % IdMod < WireCap},
                     !.exe[e].taut = TRUE]
  ELSE IF s.exe[Up[e]].transp # "NONE"
  THEN Enqueue(s, Forwarded(s, e), Up[e])
  ELSE Receive(s, e, Empty)

(* SScharmanka: the command becomes the current one; "linked" is whether   *)
(* the connection to the device can be made.                               *)
Execute(s, e, cmd, linked) ==
  LET x  == Cmds(s, e)[s.exe[e].pc]
      t  == [s EXCEPT !.exe[e].cur = cmd]
      d  == [Disconnect(t, e) EXCEPT !.exe[e].cur = NoCmd]
      up == e # Master \/ linked
  IN  CASE cmd.type \in {"IF", "FOR", "BROADCAST"} ->
             IF s.exe[e].transp = "NONE" THEN [t EXCEPT !.exe[e].taut = TRUE]
             ELSE Send(t, e)
        [] cmd.type = "CONNECT" /\ up ->
             GoTo([d EXCEPT !.exe[e].transp = IF e = Master THEN "TCP" ELSE "EXT",
                            !.exe[e].tcpErr = IF e = Master THEN 0 ELSE @],
                  e, x.ok)
        [] cmd.type = "CONNECT" /\ ~up -> GoTo(d, e, x.bad)
        [] cmd.type = "DISCONNECT" -> GoTo(d, e, x.ok)

(* Mutant: the command in flight is not waited for. *)
ServeImpatient(s, e, linked) ==
  LET x == s.exe[e]
  IN  IF x.run /\ x.queue # <<>> /\ ~x.pend
      THEN Execute([s EXCEPT !.exe[e].queue = Tail(@)], e, Head(x.queue), linked)
      ELSE s

(* The end of timerEvent: the next command of the queue, if none is in     *)
(* flight.                                                                 *)
Serve(s, e, linked) ==
  LET x == s.exe[e]
  IN  IF x.run /\ x.queue # <<>> /\ x.cur = NoCmd /\ ~x.pend
      THEN Execute([s EXCEPT !.exe[e].queue = Tail(@)], e, Head(x.queue), linked)
      ELSE s

(* timerEvent for tautS: the tape's command joins the queue.  (Off the     *)
(* tape the code reads outside the list; TimersHaveWork says it does not   *)
(* happen.)                                                                *)
OnDelay(e) ==
  /\ exe[e].tautS
  /\ exe[e].pc \in DOMAIN Cmds(State, e)
  /\ \E linked \in BOOLEAN :
       Become(Serve([State EXCEPT !.exe[e].tautS = FALSE,
                                  !.exe[e].queue = Append(@, Own(State, e))],
                    e, linked))

(* timerEvent for taut: the answer did not come.  Too many in a row, and   *)
(* the connection is given up.                                             *)
OnTimeout(e) ==
  /\ exe[e].taut
  /\ exe[e].cur # NoCmd
  /\ \E linked \in BOOLEAN :
       LET cmd == exe[e].cur
           s   == TimedOut([State EXCEPT !.exe[e].taut = FALSE,
                                         !.exe[e].cur = NoCmd], e, cmd, FALSE)
           n   == s.exe[e].tcpErr + 1
           t   == [s EXCEPT !.exe[e].tcpErr = n]
       IN  Become(IF s.exe[e].transp = "TCP" /\ cmd.type # "BROADCAST"
                  THEN IF n > MaxTcpErr THEN Stop(t, e) ELSE Serve(t, e, linked)
                  ELSE Serve(s, e, linked))

(* timerEvent for pendT. *)
OnPend(e) ==
  /\ exe[e].pend
  /\ \E linked \in BOOLEAN :
       Become(Serve([State EXCEPT !.exe[e].pend = FALSE], e, linked))

(* runTime, called from another thread. *)
Wake(e) ==
  /\ exe[e].wake
  /\ Become([State EXCEPT !.exe[e].wake = FALSE, !.exe[e].pend = TRUE])

(* Mutant: the identifier of an answer is not looked at. *)
AcceptAny(reply) == TRUE

(* readIPSlot: is the answer to the request sent last? *)
Accept(reply) == reply.id = idtran

(* A device or the gateway answers; what comes too late is thrown away.    *)
DeviceReplies(reply, rez) ==
  LET s == [State EXCEPT !.wire = @ \ {reply}]
  IN  Become(IF Accept(reply)
             THEN Receive(s, Master, [rez |-> rez, what |-> reply.what])
             ELSE s)

(* Slot error of the socket. *)
SocketError ==
  /\ SocketFails
  /\ exe[Master].transp = "TCP"
  /\ Become(Stop(State, Master))

(* An answer posted to a Job arrives in its thread. *)
Deliver(j) ==
  /\ box[j] # <<>>
  /\ Become(Receive([State EXCEPT !.box[j] = Tail(@)], j, Head(box[j])))

(* A Modbus client's command for a device: mThread::retrans.               *)
ClientAsks(k) ==
  /\ k \notin asked
  /\ exe[Up[k]].transp # "NONE"
  /\ Become(Enqueue([State EXCEPT !.asked = @ \cup {k}], ClientCmd(k), Up[k]))

Fresh == [run |-> FALSE, transp |-> "NONE", tape |-> 1, pc |-> 0, cur |-> NoCmd,
          queue |-> <<>>, taut |-> FALSE, tautS |-> FALSE, pend |-> FALSE,
          wake |-> FALSE, rep |-> 0, tcpErr |-> 0, done |-> FALSE]

(* Start. *)
Started(x) == [x EXCEPT !.run = TRUE, !.rep = 0, !.tcpErr = 0, !.done = FALSE,
                        !.pc = 1, !.tautS = TRUE]

(* dataServer::exitRun: what has finished is started again, a Poller with   *)
(* its other tape: after the information about the device its data, and     *)
(* after the data the wait for new ones (eInfo, eData).                     *)
Restart(e) ==
  LET next == (exe[e].tape % Len(Tape[e])) + 1
  IN  /\ e \notin Stoppable
      /\ exe[e].done
      /\ Become([State EXCEPT !.exe[e] = Started([@ EXCEPT !.tape = next])])

(* ExeThread::exit deletes a Job's processor when it has finished, and what *)
(* was posted to it; the next one is new.  Others are started again.        *)
UserStart(e) ==
  /\ e \in Stoppable
  /\ ~exe[e].run
  /\ exe[e].pc = 0
  /\ Become(IF e \in Job
            THEN [State EXCEPT !.exe[e] = Started(Fresh), !.box[e] = <<>>]
            ELSE [State EXCEPT !.exe[e] = Started(@)])

UserStop(e) ==
  /\ e \in Stoppable
  /\ exe[e].run
  /\ Become(Stop(State, e))

-----------------------------------------------------------------------------
(* ExeListThread::run starts the Master and the Pollers. *)
Init ==
  /\ exe = [e \in Exe |-> IF e \in Stoppable THEN Fresh ELSE Started(Fresh)]
  /\ idtran = 0
  /\ wire = {}
  /\ box = [c \in Child |-> <<>>]
  /\ asked = {}
  /\ matched = TRUE

Next ==
  \/ \E e \in Exe : OnDelay(e)
  \/ \E e \in Exe : OnTimeout(e)
  \/ \E e \in Exe : OnPend(e)
  \/ \E e \in Exe : Wake(e)
  \/ \E reply \in wire, rez \in Answers : DeviceReplies(reply, rez)
  \/ SocketError
  \/ \E j \in Job : Deliver(j)
  \/ \E k \in Client : ClientAsks(k)
  \/ \E e \in Exe : Restart(e)
  \/ \E e \in Stoppable : UserStart(e)
  \/ \E e \in Stoppable : UserStop(e)

(* A processor whose timer runs, that was called from another thread or    *)
(* that has finished takes a step; which one of several is open.  What is  *)
(* posted is delivered.  Nothing makes a device answer or a client ask.    *)
Turn(e) == OnDelay(e) \/ OnTimeout(e) \/ OnPend(e) \/ Wake(e) \/ Restart(e)

Fairness ==
  /\ \A e \in Exe : WF_vars(Turn(e))
  /\ \A j \in Job : WF_vars(Deliver(j))

Spec == Init /\ [][Next]_vars
FairSpec == Spec /\ Fairness

-----------------------------------------------------------------------------
(* An answer is taken for the command it answers, whatever was late, given *)
(* up or repeated in between (readIPSlot compares the identifiers,         *)
(* execut.cpp:843).                                                        *)
AnswerMatches == matched

(* The command of a Poller, Job or Client that waits for an answer is      *)
(* still held by the processor it was sent through, or its answer is on    *)
(* the way (execut.cpp:951, 597; "when the main one stops, the children    *)
(* are stopped", execut.cpp:708).                                          *)
HeldBy(u, k) ==
  \/ exe[u].cur # NoCmd /\ exe[u].cur.from = k
  \/ \E i \in DOMAIN exe[u].queue : exe[u].queue[i].from = k

Remembered(c) ==
  exe[c].cur # NoCmd /\ exe[c].transp = "EXT" => HeldBy(Up[c], c) \/ box[c] # <<>>

NobodyForgotten ==
  /\ \A c \in Child : Remembered(c)
  /\ \A k \in asked : HeldBy(Up[k], k)

(* The same of Jobs alone, which send through a Poller: a broken           *)
(* connection to the devices loses the Pollers' commands, never one that   *)
(* was sent through a Poller (execut.cpp:606).                             *)
JobsNotForgotten == \A j \in Job : Remembered(j)

(* A processor holds a command of a Poller or Job only while that one      *)
(* waits for the answer to this very command: extCOM is deleted with the   *)
(* connection (execut.cpp:626), and a second one is never sent before the  *)
(* answer to the first.                                                    *)
HeldIsAwaited ==
  \A c \in Child :
    LET u    == Up[c]
        held == {i \in DOMAIN exe[u].queue : exe[u].queue[i].from = c}
        all  == {exe[u].queue[i] : i \in held}
                  \cup (IF exe[u].cur # NoCmd /\ exe[u].cur.from = c
                        THEN {exe[u].cur} ELSE {})
    IN  /\ Cardinality(held) <= 1
        /\ Cardinality(all) <= 1
        /\ \A cmd \in all : /\ exe[c].transp = "EXT"
                             /\ exe[c].cur # NoCmd
                             /\ exe[c].cur.what = cmd.what

(* A timer that runs finds what its handler uses: the timeout a command    *)
(* (timerEvent reads curCMD, execut.cpp:182), the delay a place of the     *)
(* tape (Tape->at(gcou), execut.cpp:199).                                  *)
TimersHaveWork ==
  \A e \in Exe : /\ exe[e].taut => exe[e].cur # NoCmd
                 /\ exe[e].tautS => exe[e].pc \in DOMAIN Cmds(State, e)

(* Every device is polled again and again: whatever gets lost, its Poller  *)
(* always comes to the delay before a next command (execut.cpp:158).       *)
PollsForever == \A c \in Poller : []<>exe[c].tautS

(* A Modbus client's command is answered, be it with an error              *)
(* (mdbServer.cpp:110; until then the client may not send another one).    *)
ClientsAnswered == \A k \in Client : (k \in asked) ~> (k \notin asked)

=============================================================================
