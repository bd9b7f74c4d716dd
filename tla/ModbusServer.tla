---------------------------- MODULE ModbusServer ----------------------------
(***************************************************************************)
(* The Modbus TCP server.  A connection (SSoc) takes one request at a      *)
(* time: it answers it at once, from the mirror of the registers or with   *)
(* an error, or passes a pointer to its own command on to the poller of    *)
(* the device and is blocked until the poller hands it back.               *)
(*                                                                         *)
(* Three threads meet.  The main thread accepts connections, learns that   *)
(* they are gone and deletes them.  The server's thread reads requests and *)
(* writes answers.  Pollers hand commands back from threads of their own.  *)
(* One action is one event, except that the main thread looks at a         *)
(* connection's block and acts on it in two, since the server's thread     *)
(* may go on in between.  Requests arrive whole, one by one.               *)
(***************************************************************************)
EXTENDS Integers, Sequences, FiniteSets

CONSTANTS
  Conn,       (* connections; a name is free again once deleted, with no   *)
              (* pointer to it left anywhere                               *)
  Impatient,  (* those whose clients send before they are answered         *)
  MaxNumC,    (* how many are accepted (maxNumConn)                        *)
  MaxReq      (* bound on the requests of a connection                     *)

ASSUME ModbusServerAssumption ==
  /\ Impatient \subseteq Conn
  /\ {MaxNumC, MaxReq} \subseteq Nat

VARIABLES
  listening, \* the server is started
  list,      \* SocketList
  peer,      \* connections whose client is there
  soc,       \* the fields of the connections
  inb,       \* requests that have arrived, by kind
  sent,      \* how many requests were sent
  out,       \* how many times a pointer to the command is with a poller
  posted,    \* how many calls of receive are posted
  gone,      \* the signal disconnected: none, posted, or seen with block
  dead,      \* connections whose removal is posted
  answers    \* what the client was sent: the request in the header, and
             \* the one whose data or error it carries

vars == <<listening, list, peer, soc, inb, sent, out, posted, gone, dead, answers>>

Patient == Conn \ Impatient

(* LOCAL is answered by the server itself, FORWARD goes to a device, and   *)
(* the header of GARBAGE is wrong.  A connection's requests count from 1.  *)
Kind == {"LOCAL", "FORWARD", "GARBAGE"}

Fresh == [block |-> FALSE, error |-> FALSE, closeS |-> FALSE,
          cmd |-> 0, res |-> 0]

Init ==
  /\ listening = TRUE
  /\ list = {} /\ peer = {} /\ dead = {}
  /\ soc = [s \in Conn |-> Fresh]
  /\ inb = [s \in Conn |-> <<>>]
  /\ sent = [s \in Conn |-> 0]
  /\ out = [s \in Conn |-> 0]
  /\ posted = [s \in Conn |-> 0]
  /\ gone = [s \in Conn |-> "NO"]
  /\ answers = [s \in Conn |-> <<>>]

-----------------------------------------------------------------------------
(* Clients.                                                                *)
Send(s, k) ==
  /\ s \in peer
  /\ sent[s] < MaxReq
  /\ s \in Impatient \/ Len(answers[s]) = sent[s]
  /\ sent' = [sent EXCEPT ![s] = @ + 1]
  /\ inb' = [inb EXCEPT ![s] = Append(@, [kind |-> k, id |-> sent[s] + 1])]
  /\ UNCHANGED <<listening, list, peer, soc, out, posted, gone, dead, answers>>

ClientCloses(s) ==
  /\ s \in peer
  /\ peer' = peer \ {s}
  /\ UNCHANGED <<listening, list, soc, inb, sent, out, posted, gone, dead, answers>>

(* What has arrived is read before the socket says it is disconnected; the *)
(* signal is posted to the main thread, where the mThread object lives.    *)
Disconnected(s) ==
  /\ s \in list \ peer
  /\ inb[s] = <<>>
  /\ gone[s] = "NO" /\ s \notin dead
  /\ gone' = [gone EXCEPT ![s] = "POSTED"]
  /\ UNCHANGED <<listening, list, peer, soc, inb, sent, out, posted, dead, answers>>

-----------------------------------------------------------------------------
(* The server's thread.                                                    *)

(* write(r): what is written to a closed socket is lost.                   *)
Written(s, hdr, of) ==
  answers' = IF s \in peer
             THEN [answers EXCEPT ![s] = Append(@, [hdr |-> hdr, of |-> of])]
             ELSE answers

(* write(): the answer, unless a busy one was sent meanwhile.              *)
Answer(s) ==
  /\ IF soc[s].error THEN UNCHANGED answers ELSE Written(s, soc[s].res, soc[s].cmd)
  /\ soc' = [soc EXCEPT ![s].error = FALSE, ![s].block = FALSE]

(* Mutant: the device has no transport, and the return is missing after    *)
(* the error is written.                                                   *)
TakeTwice(s, r) ==
  /\ inb' = [inb EXCEPT ![s] = Tail(@)]
  /\ soc' = [soc EXCEPT ![s].res = r.id, ![s].cmd = r.id,
                        ![s].block = (r.kind = "FORWARD")]
  /\ out' = IF r.kind = "FORWARD" THEN [out EXCEPT ![s] = @ + 1] ELSE out
  /\ Written(s, r.id, r.id)

(* read, with the buffer free, and appendComand: a request the server      *)
(* answers itself leaves the connection free again.                        *)
Take(s, r) ==
  /\ inb' = [inb EXCEPT ![s] = Tail(@)]
  /\ soc' = [soc EXCEPT ![s].res = r.id, ![s].cmd = r.id,
                        ![s].block = (r.kind = "FORWARD"),
                        ![s].error = IF r.kind = "FORWARD" THEN @ ELSE FALSE]
  /\ out' = IF r.kind = "FORWARD" THEN [out EXCEPT ![s] = @ + 1] ELSE out
  /\ IF r.kind = "FORWARD" \/ soc[s].error THEN UNCHANGED answers
                                           ELSE Written(s, r.id, r.id)

(* read, with a request in work: "busy" is written at once, and            *)
(* appendComand is called all the same, with the first request's command:  *)
(* it is passed on once more or, when the device was lost meanwhile,       *)
(* refused in silence.                                                     *)
Busy(s, r) ==
  /\ inb' = [inb EXCEPT ![s] = Tail(@)]
  /\ Written(s, r.id, r.id)
  /\ \/ /\ soc' = [soc EXCEPT ![s].error = TRUE]
        /\ out' = [out EXCEPT ![s] = @ + 1]
     \/ /\ soc' = [soc EXCEPT ![s].error = FALSE, ![s].block = FALSE]
        /\ UNCHANGED out

(* onReadyRead.  A wrong header closes the socket.                         *)
OnReadyRead(s) ==
  /\ s \in list
  /\ inb[s] # <<>>
  /\ LET r == Head(inb[s])
     IN  \/ /\ r.kind = "GARBAGE"
            /\ inb' = [inb EXCEPT ![s] = <<>>]
            /\ peer' = peer \ {s}
            /\ UNCHANGED <<soc, out, answers>>
         \/ /\ r.kind # "GARBAGE"
            /\ IF soc[s].block THEN Busy(s, r) ELSE Take(s, r)
            /\ UNCHANGED peer
  /\ UNCHANGED <<listening, list, sent, posted, gone, dead>>

(* Mutant: the socket is closed, but the removal is not posted.            *)
CloseOnly(s) ==
  /\ soc' = [soc EXCEPT ![s].block = FALSE]
  /\ peer' = peer \ {s}
  /\ UNCHANGED <<dead, answers>>

(* receive, for a connection whose client is known to be gone.             *)
CloseNow(s) ==
  /\ soc' = [soc EXCEPT ![s].block = FALSE]
  /\ peer' = peer \ {s}
  /\ dead' = dead \cup {s}
  /\ UNCHANGED answers

(* receive: the data, or "available, but no answer" when there is none.    *)
Receive(s) ==
  /\ s \in list
  /\ posted[s] > 0
  /\ posted' = [posted EXCEPT ![s] = @ - 1]
  /\ IF soc[s].closeS THEN CloseNow(s) ELSE Answer(s) /\ UNCHANGED <<peer, dead>>
  /\ UNCHANGED <<listening, list, inb, sent, out, gone>>

-----------------------------------------------------------------------------
(* Pollers.  A command is handed back once for each time it was passed on, *)
(* answered or not (Execut).                                               *)

(* Mutant: a command without an answer is not handed back.                 *)
ExtReceiveData(s) ==
  /\ out[s] > 0
  /\ out' = [out EXCEPT ![s] = @ - 1]
  /\ posted' \in {posted, [posted EXCEPT ![s] = @ + 1]}
  /\ UNCHANGED <<listening, list, peer, soc, inb, sent, gone, dead, answers>>

ExtReceive(s) ==
  /\ out[s] > 0
  /\ out' = [out EXCEPT ![s] = @ - 1]
  /\ posted' = IF s \in list THEN [posted EXCEPT ![s] = @ + 1] ELSE posted
  /\ UNCHANGED <<listening, list, peer, soc, inb, sent, gone, dead, answers>>

-----------------------------------------------------------------------------
(* The main thread.                                                        *)

(* incomingConnection, of a client that is let in.                         *)
Accept(s) ==
  /\ listening
  /\ s \notin list /\ out[s] = 0
  /\ Cardinality(list) < MaxNumC
  /\ list' = list \cup {s}
  /\ peer' = peer \cup {s}
  /\ UNCHANGED <<listening, soc, inb, sent, out, posted, gone, dead, answers>>

(* Deleting a connection takes what is posted to it along.  What it sent   *)
(* and was sent begins anew with the next connection of the name.          *)
Delete(S) ==
  /\ list' = list \ S
  /\ peer' = peer \ S
  /\ soc' = [s \in Conn |-> IF s \in S THEN Fresh ELSE soc[s]]
  /\ inb' = [s \in Conn |-> IF s \in S THEN <<>> ELSE inb[s]]
  /\ posted' = [s \in Conn |-> IF s \in S THEN 0 ELSE posted[s]]
  /\ gone' = [s \in Conn |-> IF s \in S THEN "NO" ELSE gone[s]]
  /\ dead' = dead \ S
  /\ sent' = [s \in Conn |-> IF s \in S THEN 0 ELSE sent[s]]
  /\ answers' = [s \in Conn |-> IF s \in S THEN <<>> ELSE answers[s]]

(* onDisconnected, the look at block.                                      *)
LookAtBlock(s) ==
  /\ gone[s] = "POSTED"
  /\ gone' = [gone EXCEPT ![s] = IF soc[s].block THEN "BLOCKED" ELSE "FREE"]
  /\ UNCHANGED <<listening, list, peer, soc, inb, sent, out, posted, dead, answers>>

(* Mutant: a connection is deleted whether it is blocked or not.           *)
DeleteAnyway(s) ==
  /\ gone[s] \in {"FREE", "BLOCKED"}
  /\ Delete({s})
  /\ UNCHANGED <<listening, out>>

(* onDisconnected, what it does: a blocked connection is only marked.      *)
ActOnBlock(s) ==
  \/ /\ gone[s] = "FREE"
     /\ Delete({s})
     /\ UNCHANGED <<listening, out>>
  \/ /\ gone[s] = "BLOCKED"
     /\ soc' = [soc EXCEPT ![s].closeS = TRUE]
     /\ gone' = [gone EXCEPT ![s] = "DONE"]
     /\ UNCHANGED <<listening, list, peer, inb, sent, out, posted, dead, answers>>

MainIdle == \A s \in Conn : gone[s] \notin {"BLOCKED", "FREE"}

Remove(s) ==
  /\ s \in dead
  /\ Delete({s})
  /\ UNCHANGED <<listening, out>>

(* stop.  "First close dataServer": with no command at a poller.           *)
Stop ==
  /\ listening
  /\ \A s \in Conn : out[s] = 0 /\ posted[s] = 0
  /\ listening' = FALSE
  /\ Delete(list)
  /\ UNCHANGED out

Start ==
  /\ ~listening
  /\ listening' = TRUE
  /\ UNCHANGED <<list, peer, soc, inb, sent, out, posted, gone, dead, answers>>

Main ==
  \/ \E s \in Conn : ActOnBlock(s)
  \/ /\ MainIdle
     /\ \/ \E s \in Conn : Accept(s) \/ LookAtBlock(s) \/ Remove(s)
        \/ Stop
        \/ Start

ServerThread(s) == OnReadyRead(s) \/ Receive(s) \/ Disconnected(s)

Next ==
  \/ \E s \in Conn, k \in Kind : Send(s, k)
  \/ \E s \in Conn : ClientCloses(s) \/ ServerThread(s) \/ ExtReceive(s)
  \/ Main

Spec == Init /\ [][Next]_vars

(* Posted calls are delivered, and what a poller was given it hands back.  *)
FairSpec ==
  /\ Spec
  /\ \A s \in Conn :
       /\ WF_vars(ServerThread(s))
       /\ WF_vars(ExtReceive(s))
       /\ WF_vars(ActOnBlock(s))
       /\ SF_vars(MainIdle /\ LookAtBlock(s))
       /\ SF_vars(MainIdle /\ Remove(s))

-----------------------------------------------------------------------------
TypeOK ==
  /\ listening \in BOOLEAN
  /\ peer \subseteq list /\ list \subseteq Conn /\ dead \subseteq list
  /\ soc \in [Conn -> [block : BOOLEAN, error : BOOLEAN, closeS : BOOLEAN,
                       cmd : Nat, res : Nat]]
  /\ inb \in [Conn -> Seq([kind : Kind, id : Nat])]
  /\ sent \in [Conn -> 0 .. MaxReq]
  /\ out \in [Conn -> Nat] /\ posted \in [Conn -> Nat]
  /\ gone \in [Conn -> {"NO", "POSTED", "BLOCKED", "FREE", "DONE"}]
  /\ answers \in [Conn -> Seq([hdr : Nat, of : Nat])]

(* The pointer a poller holds, and the call that brings the answer, lead   *)
(* to a connection that has not been deleted and waits for nothing else,   *)
(* whatever the other connections do (mdbServer.cpp:194).                  *)
CommandHasOwner ==
  \A s \in Patient :
    /\ out[s] + posted[s] <= 1
    /\ out[s] + posted[s] = 1 <=> s \in list /\ soc[s].block

(* A client that waits for each answer is sent the answers of its requests *)
(* in their order, each once and under its own header.                     *)
AnswersInOrder ==
  \A s \in Patient :
    /\ Len(answers[s]) <= sent[s]
    /\ \A i \in DOMAIN answers[s] : answers[s][i] = [hdr |-> i, of |-> i]

(* A request of a client that waits is answered, unless the client goes,   *)
(* is sent away or the server stops.                                       *)
EveryoneAnswered ==
  \A s \in Patient :
    s \in peer /\ Len(answers[s]) < sent[s]
      ~> s \notin peer \/ Len(answers[s]) = sent[s]

(* A connection marked for closing while its command is out is deleted     *)
(* when the command is back (receive, mdbServer.cpp:111).                  *)
MarkedIsRemoved ==
  \A s \in Patient : soc[s].closeS /\ soc[s].block ~> s \notin list

=============================================================================
