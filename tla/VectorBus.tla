----------------------------- MODULE VectorBus ------------------------------
(***************************************************************************)
(* A serial line under the Vector protocol.  The master (class com485,     *)
(* told what to send by a processor of class execut) asks a device; the    *)
(* device answers with as many bytes as the request promises; a listener   *)
(* (class snifferThread) on the same line picks out what the devices       *)
(* answer.  Requests and answers have no marks around them: the listener   *)
(* finds a request by its checksum, and the answer by counting.  So that   *)
(* it does not count the next request for an answer that never came, the   *)
(* master fills up what is missing with zeros (closeVector).               *)
(*                                                                         *)
(* A byte is a record: the exchange it belongs to, "req" or "ans", and its *)
(* place; or it is Zero or Noise.  A checksum is right when the bytes are  *)
(* those of one request or one answer, whole and in order; it is right for *)
(* zeros too, since it starts from zero.                                   *)
(***************************************************************************)
EXTENDS Integers, Sequences, FiniteSets, SequencesExt

CONSTANTS
  Req,        (* requests the master makes                                   *)
  AnsLen,     (* how many bytes answer a request, the checksum included      *)
  Hdr,        (* bytes of a request: 8 in the code                           *)
  Known,      (* requests to devices the listener has in its list (mList)    *)
  MaxAsk,     (* bound on the number of exchanges                            *)
  MaxFaults   (* bound on what goes wrong on the line                        *)

ASSUME VectorBusAssumption ==
  /\ AnsLen \in [Req -> Nat \ {0}]
  /\ Hdr \in Nat \ {0}
  /\ Known \subseteq Req
  /\ MaxAsk \in Nat /\ MaxFaults \in Nat

VARIABLES
  asked,    \* the requests made so far: exchange x is the request asked[x]
  busy,     \* the processor waits for an answer (curCMD, with its own timer)
  com,      \* the master's port
  device,   \* what the device has yet to send
  toMaster, \* bytes that have arrived at the master's port and are not read
  toList,   \* bytes that have arrived at the listener's port
  buf,      \* listener: buf from uk on
  cmd,      \* listener: the exchange whose request was found (CMD, curM), or 0
  heard,    \* what the listener took so far: exchange and data
  answers,  \* what the processor took so far: exchange and data
  faults,   \* what went wrong so far
  spoilt    \* exchanges the line or the listener's timer spoilt

(* Bytes arrive one by one or all at once.                                 *)
Pieces(n) == {1, n} \ {0}

vars == <<asked, busy, com, device, toMaster, toList, buf, cmd, heard, answers,
          faults, spoilt>>
lineVars == <<device, toMaster, faults>>
listVars == <<buf, cmd, heard>>

-----------------------------------------------------------------------------
Byte(x, part, i) == [x |-> x, part |-> part, i |-> i]
Zero  == Byte(0, "zero", 0)
Noise == Byte(0, "noise", 0)

Request(x) == [i \in 1 .. Hdr |-> Byte(x, "req", i)]
Answer(x)  == [i \in 1 .. AnsLen[asked[x]] |-> Byte(x, "ans", i)]
Zeros(k)   == [i \in 1 .. k |-> Zero]

(* The exchange that is going on, or the last one. *)
Now == Len(asked)

(* TestCRC16, and the sum the listener makes up: it knows the answer to    *)
(* some request, and zeros.                                                *)
RightSum(s) == \/ \E x \in 1 .. Now : s = Answer(x)
               \/ s # <<>> /\ s = Zeros(Len(s))

(* com485: listening (lis), the answer so far (bresp), whether it has come *)
(* in its whole length (VektRez), the timer, bytes given to the port and   *)
(* not yet reported written, and those reported (bytesWritten).            *)
Idle == [lis |-> FALSE, resp |-> <<>>, whole |-> FALSE, timer |-> FALSE,
         out |-> 0, written |-> 0]

-----------------------------------------------------------------------------
(* The master. *)

(* Mutant: the next request does not wait for the port to be read. *)
NoPause == TRUE

(* The delay before a command (comDelay, set by runTime after an answer    *)
(* and after a fill-up): what has arrived is read within it.               *)
Pause == toMaster = <<>>

(* com485::dataWrite for the next exchange.  The device answers wholly, in *)
(* part, with a garbled byte, or not at all; the request may be garbled at *)
(* the listener.  Nobody talks while a device does.                        *)
Ask(r) ==
  LET x == Now + 1
      whole == [i \in 1 .. AnsLen[r] |-> Byte(x, "ans", i)]
  IN  /\ ~busy
      /\ x <= MaxAsk
      /\ Pause
      /\ device = <<>>
      /\ asked' = Append(asked, r)
      /\ busy' = TRUE
      /\ com' = [Idle EXCEPT !.timer = TRUE, !.out = com.out + Hdr]
      /\ \E q \in {Request(x), [Request(x) EXCEPT ![1] = Noise]},
            a \in {whole, <<>>, <<Head(whole)>>, [whole EXCEPT ![1] = Noise]} :
           LET bad == Cardinality({p \in {<<q, Request(x)>>, <<a, whole>>} : p[1] # p[2]})
           IN  /\ faults + bad <= MaxFaults
               /\ faults' = faults + bad
               /\ device' = a
               /\ toList' = toList \o q
               /\ spoilt' = IF bad > 0 THEN spoilt \cup {x} ELSE spoilt
      /\ UNCHANGED <<toMaster, buf, cmd, heard, answers>>

(* com485::handleBytesWritten: the port has passed on k bytes.  It listens *)
(* once exactly a request's bytes have been counted, be they its own or    *)
(* the zeros of the fill-up before.                                        *)
Written(k) ==
  /\ k <= com.out
  /\ LET w == com.written + k
     IN  com' = [com EXCEPT !.out = @ - k,
                            !.written = IF w = Hdr THEN 0 ELSE w,
                            !.lis = @ \/ w = Hdr]
  /\ UNCHANGED <<asked, busy, lineVars, toList, listVars, answers, spoilt>>

(* Mutant: whether an answer began is all that counts. *)
MissingIfSilent(c) ==
  IF c.whole \/ c.resp # <<>> THEN 0 ELSE AnsLen[asked[Now]]

(* com485::closeVector: how many zeros are written. *)
Missing(c) == IF c.whole THEN 0 ELSE AnsLen[asked[Now]] - Len(c.resp)

(* execut::ttaut, when port c got no answer: the zeros go out, and the     *)
(* port is left as "left".                                                 *)
GiveUp(c, left) ==
  /\ busy' = FALSE
  /\ com' = [left EXCEPT !.whole = FALSE, !.out = @ + Missing(c)]
  /\ toList' = toList \o Zeros(Missing(c))
  /\ UNCHANGED answers

(* resiveData and execut::Receive: an answer, or none; nothing when no     *)
(* command is in flight.                                                   *)
Receive(c, data) ==
  LET done == [c EXCEPT !.lis = FALSE, !.resp = <<>>, !.timer = FALSE]
  IN  \/ ~busy /\ com' = done /\ UNCHANGED <<busy, toList, answers>>
      \/ busy /\ data = <<>> /\ GiveUp(c, done)
      \/ /\ busy /\ data # <<>>
         /\ busy' = FALSE
         /\ com' = done
         /\ answers' = Append(answers, [x |-> Now, data |-> data])
         /\ UNCHANGED toList

(* com485::readCOM: bytes that come before the request is out are thrown   *)
(* away; a whole answer, its sum right or wrong, is handed over; before    *)
(* that the timer is set for the next piece.                               *)
ReadCOM ==
  /\ toMaster # <<>>
  /\ toMaster' = <<>>
  /\ LET c == [com EXCEPT !.resp = @ \o toMaster, !.timer = TRUE]
     IN  IF ~com.lis
         THEN /\ com' = [com EXCEPT !.resp = <<>>, !.timer = FALSE]
              /\ UNCHANGED <<busy, toList, answers>>
         ELSE IF Len(c.resp) < AnsLen[asked[Now]]
         THEN com' = c /\ UNCHANGED <<busy, toList, answers>>
         ELSE Receive([c EXCEPT !.whole = TRUE],
                      IF RightSum(c.resp) THEN c.resp ELSE <<>>)
  /\ UNCHANGED <<asked, device, listVars, faults, spoilt>>

(* com485::handleTimeout: with the request not out only a message.         *)
HandleTimeout ==
  /\ com.timer
  /\ device = <<>>
  /\ IF com.lis THEN Receive(com, <<>>)
     ELSE com' = [com EXCEPT !.timer = FALSE] /\ UNCHANGED <<busy, toList, answers>>
  /\ UNCHANGED <<asked, lineVars, listVars, spoilt>>

(* execut::timerEvent: the processor's own timeout.                        *)
TimeOut ==
  /\ busy
  /\ device = <<>>
  /\ GiveUp(com, com)
  /\ UNCHANGED <<asked, lineVars, listVars, spoilt>>

-----------------------------------------------------------------------------
(* The line: k bytes of the device's answer arrive at both ports.          *)
DeviceSends(k) ==
  /\ k <= Len(device)
  /\ device' = SubSeq(device, k + 1, Len(device))
  /\ toMaster' = toMaster \o SubSeq(device, 1, k)
  /\ toList' = toList \o SubSeq(device, 1, k)
  /\ UNCHANGED <<asked, busy, com, listVars, answers, faults, spoilt>>

-----------------------------------------------------------------------------
(* The listener. *)

(* getCommand: is there a request at the beginning of s, and which? *)
RequestAt(s) ==
  {x \in 1 .. Now : Len(s) >= Hdr /\ SubSeq(s, 1, Hdr) = Request(x)}

(* The search of Receive for a request, byte by byte, while there are      *)
(* bytes enough for one.                                                   *)
Search(s) ==
  LET from == {i \in 1 .. Len(s) - Hdr + 1 :
                 RequestAt(SubSeq(s, i, Len(s))) # {}}
      over == IF Len(s) < Hdr THEN 1 ELSE Len(s) - Hdr + 2
      i    == IF from = {} THEN over ELSE CHOOSE j \in from : \A k \in from : j <= k
  IN  SubSeq(s, i, Len(s))

(* Mutant: whatever was read beyond the answer is thrown away. *)
BreakCMDClears(s, uk) == <<>>

(* breakCMD: what remains in the buffer. *)
BreakCMD(s, uk) == SubSeq(s, uk + 1, Len(s))

(* snifferThread::Receive: k bytes are read; one request is looked for,    *)
(* unless one has been found already, and its answer is taken if it is all *)
(* there.  What is left then waits for the next call.                      *)
ListenerReads(k) ==
  LET s    == IF cmd = 0 THEN Search(buf \o SubSeq(toList, 1, k))
              ELSE buf \o SubSeq(toList, 1, k)
      c    == IF cmd = 0 /\ RequestAt(s) # {} THEN CHOOSE x \in RequestAt(s) : TRUE
              ELSE cmd
      end  == IF c = 0 THEN 0 ELSE Hdr + AnsLen[asked[c]]
      data == SubSeq(s, Hdr + 1, end)
  IN  /\ k <= Len(toList)
      /\ toList' = SubSeq(toList, k + 1, Len(toList))
      /\ IF c = 0 \/ Len(s) < end
         THEN buf' = s /\ cmd' = c /\ UNCHANGED heard
         ELSE /\ buf' = BreakCMD(s, end)
              /\ cmd' = 0
              /\ heard' = IF asked[c] \in Known /\ RightSum(data)
                          THEN Append(heard, [x |-> c, data |-> data]) ELSE heard
      /\ UNCHANGED <<asked, busy, com, lineVars, answers, spoilt>>

(* breakCMDSlot: the answer did not come in time; the search goes on       *)
(* behind the request, at the next call of Receive.                        *)
BreakCMDSlot ==
  /\ cmd # 0
  /\ buf' = BreakCMD(buf, Hdr)
  /\ cmd' = 0
  /\ spoilt' = spoilt \cup {cmd}
  /\ UNCHANGED <<asked, busy, com, lineVars, toList, heard, answers>>

-----------------------------------------------------------------------------
Init ==
  /\ asked = <<>>
  /\ busy = FALSE
  /\ com = Idle
  /\ device = <<>> /\ toMaster = <<>> /\ toList = <<>>
  /\ buf = <<>> /\ cmd = 0 /\ heard = <<>>
  /\ answers = <<>>
  /\ faults = 0
  /\ spoilt = {}

Next ==
  \/ \E r \in Req : Ask(r)
  \/ \E k \in Pieces(com.out) : Written(k)
  \/ ReadCOM
  \/ HandleTimeout
  \/ TimeOut
  \/ \E k \in Pieces(Len(device)) : DeviceSends(k)
  \/ \E k \in Pieces(Len(toList)) : ListenerReads(k)
  \/ BreakCMDSlot

Spec == Init /\ [][Next]_vars

-----------------------------------------------------------------------------
(* Properties. *)

Heard(x) == \E i \in DOMAIN heard : heard[i] = [x |-> x, data |-> Answer(x)]

(* What the processor takes for an answer is the whole answer to the       *)
(* request it waits for.  Nothing in an answer says to which request it    *)
(* is; that it is not an earlier one rests on the delay before every       *)
(* command (execut.cpp:67) and on dataWrite forgetting what came           *)
(* (com485.cpp:138).                                                       *)
AnswerIsOwn == \A i \in DOMAIN answers : answers[i].data = Answer(answers[i].x)

(* When an exchange is over and the listener has read the line, it does    *)
(* not wait for the rest of an answer: the zeros of closeVector and what   *)
(* the device sent are together at least an answer, whatever came before   *)
(* the port listened, in pieces, garbled or unread (com485.cpp:162).       *)
InStep == ~busy /\ toList = <<>> => cmd = 0

(* Every exchange that the line left whole, and that the listener did not  *)
(* give up itself, is heard, or lies in the listener's buffer in its whole *)
(* length: no fault of another exchange, before or after it, costs it      *)
(* (snifferThread.cpp:75).                                                 *)
InBuffer(x) ==
  \E i \in DOMAIN buf :
    IsPrefix(Request(x) \o Answer(x), SubSeq(buf, i, Len(buf)))

NothingMissed ==
  ~busy /\ device = <<>> /\ toList = <<>> =>
    \A x \in (1 .. Now) \ spoilt : asked[x] \in Known => Heard(x) \/ InBuffer(x)

=============================================================================
