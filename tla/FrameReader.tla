---------------------------- MODULE FrameReader -----------------------------
(***************************************************************************)
(* How a processor reads answers from its connection (readIPSlot and       *)
(* readUDPSlot of execut).  A frame has a header, whose last byte is the   *)
(* length of the body that follows, and bears the identifier of the        *)
(* request it answers.  TCP brings the bytes of all frames in pieces of    *)
(* any size; UDP brings one frame at a time, perhaps from elsewhere.       *)
(*                                                                         *)
(* What has come is kept in resp, and a loop takes frames out of it: each  *)
(* turn of the loop is an action, and nothing else happens meanwhile, but  *)
(* that more bytes come.  The processor sends its next request when it has *)
(* the answer or has waited for it long enough.                            *)
(***************************************************************************)
EXTENDS Integers, Sequences, SequencesExt

CONSTANTS
  Hdr,        (* bytes of a header (6)                                     *)
  Body,       (* request -> length of the body of its answer               *)
  Transports, (* kinds of connection that are considered: TCP, UDP         *)
  Elsewhere   (* lengths of the bodies of datagrams from elsewhere         *)

ASSUME FrameReaderAssumption ==
  /\ Hdr \in Nat \ {0}
  /\ Body \in Seq(Nat \ {0})
  /\ Transports \subseteq {"TCP", "UDP"}
  /\ Elsewhere \in Seq(Nat \ {0})

Request == DOMAIN Body

VARIABLES
  transp,  \* the kind of connection
  idtran,  \* the last request sent
  sent,    \* the answers sent by the device, in order
  wire,    \* what is on its way: bytes, or datagrams
  foreign, \* datagrams sent from elsewhere so far
  resp,    \* what has come and has not been taken
  reading, \* the slot is in its loop
  taken,   \* the frames taken so far (gresp)
  heard    \* those of them that went on to Receive

vars == <<transp, idtran, sent, wire, foreign, resp, reading, taken, heard>>

-----------------------------------------------------------------------------
(* The k-th byte of the frame that answers id, with a body of n.           *)
Frame(id, n) == [k \in 1 .. Hdr + n |-> [id |-> id, k |-> k, len |-> n]]

Init ==
  /\ transp \in Transports
  /\ idtran = 0
  /\ sent = <<>> /\ wire = <<>> /\ foreign = 0
  /\ resp = <<>> /\ reading = FALSE
  /\ taken = <<>> /\ heard = <<>>

(* Send: the transaction identifier goes up by one with each request.      *)
Send ==
  /\ ~reading
  /\ idtran + 1 \in Request
  /\ idtran' = idtran + 1
  /\ UNCHANGED <<transp, sent, wire, foreign, resp, reading, taken, heard>>

(* The device answers a request, in time or late, or never.                *)
Answer(id) ==
  /\ id \in 1 .. idtran
  /\ id \notin ToSet(sent)
  /\ sent' = Append(sent, id)
  /\ wire' = IF transp = "TCP" THEN wire \o Frame(id, Body[id])
             ELSE Append(wire, [from |-> "device", frame |-> Frame(id, Body[id])])
  /\ UNCHANGED <<transp, idtran, foreign, resp, reading, taken, heard>>

(* Somebody else's datagram comes to our port.                             *)
Intrude ==
  /\ transp = "UDP"
  /\ foreign + 1 \in DOMAIN Elsewhere
  /\ foreign' = foreign + 1
  /\ wire' = Append(wire, [from |-> "elsewhere", frame |-> Frame(0, Elsewhere[foreign + 1])])
  /\ UNCHANGED <<transp, idtran, sent, resp, reading, taken, heard>>

(* readIPSlot: readAll.                                                    *)
ReadyRead(n) ==
  /\ transp = "TCP" /\ ~reading
  /\ n \in 1 .. Len(wire)
  /\ resp' = resp \o SubSeq(wire, 1, n)
  /\ wire' = SubSeq(wire, n + 1, Len(wire))
  /\ reading' = TRUE
  /\ UNCHANGED <<transp, idtran, sent, foreign, taken, heard>>

(* readUDPSlot: a datagram is put behind what is there before its sender   *)
(* is looked at; when it is from elsewhere, it is left there.              *)
Datagram ==
  /\ transp = "UDP" /\ ~reading
  /\ wire # <<>>
  /\ resp' = resp \o Head(wire).frame
  /\ wire' = Tail(wire)
  /\ reading' = (Head(wire).from = "device")
  /\ UNCHANGED <<transp, idtran, sent, foreign, taken, heard>>

(* Mutant: TCP takes a frame only when nothing has come behind it.         *)
CompleteAlone(fsz) ==
  IF transp = "TCP" THEN Len(resp) - Hdr = fsz ELSE fsz >= Len(resp) - Hdr

(* The condition for a frame: TCP has at least, UDP at most the body.      *)
Complete(fsz) ==
  IF transp = "TCP" THEN Len(resp) - Hdr >= fsz ELSE fsz >= Len(resp) - Hdr

(* Mutant: what is behind the frame is thrown away.                        *)
RestThrownAway(fsz) == <<>>

(* What is behind the frame moves to the front.                            *)
Rest(fsz) == SubSeq(resp, Hdr + fsz + 1, Len(resp))

(* An answer that has come too late is only reported.                      *)
Awaited(id) == id = idtran

(* One turn of the loop that takes a frame.                                *)
Take ==
  /\ reading /\ Len(resp) > Hdr
  /\ LET fsz == resp[Hdr].len
         f == [id |-> resp[1].id, body |-> SubSeq(resp, Hdr + 1, Hdr + fsz)]
     IN /\ Complete(fsz)
        /\ resp' = Rest(fsz)
        /\ taken' = Append(taken, f)
        /\ heard' = IF Awaited(f.id) THEN Append(heard, [f |-> f, to |-> idtran]) ELSE heard
  /\ UNCHANGED <<transp, idtran, sent, wire, foreign, reading>>

(* The end of the loop.  When a frame is there but not complete, neither   *)
(* Take nor Return is possible: the code goes round without progress.      *)
Return ==
  /\ reading /\ Len(resp) <= Hdr
  /\ reading' = FALSE
  /\ UNCHANGED <<transp, idtran, sent, wire, foreign, resp, taken, heard>>

Next ==
  \/ Send
  \/ \E id \in Request : Answer(id)
  \/ Intrude
  \/ \E n \in 1 .. Len(wire) : ReadyRead(n)
  \/ Datagram
  \/ Take
  \/ Return

Spec == Init /\ [][Next]_vars

FairSpec == Spec /\ WF_vars(Take) /\ WF_vars(Return)

-----------------------------------------------------------------------------
(* However the bytes come, the frames taken are those the device has sent, *)
(* whole, in order and none left out (execut.cpp:834), late answers in     *)
(* front of the awaited one are read out and dropped (841), and no request *)
(* is answered to Receive twice.                                           *)
WholeInOrder ==
  /\ Len(taken) <= Len(sent)
  /\ \A j \in DOMAIN taken :
       /\ taken[j].id = sent[j]
       /\ taken[j].body = SubSeq(Frame(sent[j], Body[sent[j]]), Hdr + 1, Hdr + Body[sent[j]])
  /\ \A j, k \in DOMAIN heard : j < k => heard[j].to < heard[k].to

(* TCP has brought more than the header of a frame, and not all of its     *)
(* body.                                                                   *)
CutInBody == transp = "TCP" /\ wire # <<>> /\ Head(wire).k > Hdr + 1

(* "A slot - we read from the port" (execut.cpp:823): reading comes to an  *)
(* end, and the loop of events goes on, when no piece ends inside a body   *)
(* and no datagram comes from elsewhere (section 6 of the README).         *)
ReaderReturns == reading ~> (~reading \/ CutInBody \/ foreign > 0)

=============================================================================
