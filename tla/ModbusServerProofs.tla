------------------------- MODULE ModbusServerProofs -------------------------
(***************************************************************************)
(* Theorems about ModbusServer, for every set of connections and every     *)
(* bound: a command passed on to a poller belongs to a connection that     *)
(* stays until the command is back, and a client that waits is answered    *)
(* in order.                                                               *)
(***************************************************************************)
EXTENDS ModbusServer, SequenceTheorems, TLAPS

Rest(s) == <<inb[s], soc[s], sent[s], out[s], posted[s], gone[s], answers[s],
             s \in list, s \in peer, s \in dead>>

(* What is on its way from a client that waits: nothing, or its last       *)
(* request.                                                                *)
InbOk(s) ==
  inb[s] = <<>> \/ \E k \in Kind : inb[s] = <<[kind |-> k, id |-> sent[s]]>>

(* How many of its requests are not answered.                              *)
Pending(s) ==
  (IF inb[s] = <<>> THEN 0 ELSE 1) + (IF soc[s].block THEN 1 ELSE 0)

(* Nothing is read while a command is out, and what is not answered is     *)
(* arriving or with a poller.                                              *)
CountOk(s) ==
  /\ Pending(s) <= 1
  /\ Len(answers[s]) + Pending(s) <= sent[s]
  /\ s \in peer => Len(answers[s]) + Pending(s) = sent[s]

(* What is in work is the last request; "busy" is never sent.              *)
SocOk(s) ==
  /\ soc[s].block => soc[s].cmd = sent[s] /\ soc[s].res = sent[s]
  /\ ~ soc[s].error
  /\ soc[s].closeS => gone[s] = "DONE"

OwnerOk(s) ==
  /\ out[s] + posted[s] <= 1
  /\ out[s] + posted[s] = 1 <=> s \in list /\ soc[s].block

(* A connection that is to be deleted has no client, nothing to read and   *)
(* no command out; a name that is free has no trace of its last use.       *)
LifeOk(s) ==
  /\ gone[s] # "NO" => s \notin peer /\ inb[s] = <<>>
  /\ gone[s] = "FREE" => ~ soc[s].block
  /\ s \in dead => s \notin peer /\ inb[s] = <<>> /\ ~ soc[s].block
  /\ s \notin list =>
       inb[s] = <<>> /\ soc[s] = Fresh /\ sent[s] = 0 /\ gone[s] = "NO" /\ answers[s] = <<>>

OrderOk(s) == \A i \in DOMAIN answers[s] : answers[s][i] = [hdr |-> i, of |-> i]

ConnInv(s) ==
  InbOk(s) /\ CountOk(s) /\ SocOk(s) /\ OwnerOk(s) /\ LifeOk(s) /\ OrderOk(s)

ServerInv == TypeOK /\ \A s \in Patient : ConnInv(s)

-----------------------------------------------------------------------------
(* A connection that a step does not touch keeps its part.                 *)
LEMMA Untouched ==
  ASSUME NEW s, ConnInv(s), UNCHANGED Rest(s)
  PROVE  ConnInv(s)'
<1>1. /\ inb'[s] = inb[s] /\ soc'[s] = soc[s] /\ sent'[s] = sent[s] /\ out'[s] = out[s]
      /\ posted'[s] = posted[s] /\ gone'[s] = gone[s] /\ answers'[s] = answers[s]
      /\ s \in list' <=> s \in list
      /\ s \in peer' <=> s \in peer
      /\ s \in dead' <=> s \in dead
  BY DEF Rest
<1>2. InbOk(s)' /\ SocOk(s)' /\ OwnerOk(s)' /\ LifeOk(s)'
  BY <1>1 DEF ConnInv, InbOk, SocOk, OwnerOk, LifeOk
<1>3. CountOk(s)' /\ OrderOk(s)'
  BY <1>1 DEF ConnInv, CountOk, OrderOk, Pending
<1>4. QED
  BY <1>2, <1>3 DEF ConnInv

LEMMA InitServerInv == Init => ServerInv
<1> SUFFICES ASSUME Init PROVE ServerInv
  OBVIOUS
<1>1. TypeOK
  BY ModbusServerAssumption DEF ModbusServerAssumption, Init, TypeOK, Fresh
<1>2. ASSUME NEW s \in Patient
      PROVE  ConnInv(s)
  BY <1>2 DEF Patient, Init, ConnInv, InbOk, CountOk, Pending, SocOk, OwnerOk, LifeOk, OrderOk,
              Fresh
<1>3. QED
  BY <1>1, <1>2 DEF ServerInv

(* A client that waits sends when it has been answered.                    *)
LEMMA SendKeeps ==
  ASSUME ServerInv, NEW s \in Conn, NEW k \in Kind, Send(s, k)
  PROVE  ServerInv'
<1>1. TypeOK'
  <2>1. sent' \in [Conn -> 0 .. MaxReq]
    BY ModbusServerAssumption DEF ModbusServerAssumption, ServerInv, TypeOK, Send
  <2>2. inb' \in [Conn -> Seq([kind : Kind, id : Nat])]
    <3>1. sent[s] + 1 \in Nat
      BY ModbusServerAssumption DEF ModbusServerAssumption, ServerInv, TypeOK
    <3>2. inb[s] \in Seq([kind : Kind, id : Nat])
      BY DEF ServerInv, TypeOK
    <3>3. Append(inb[s], [kind |-> k, id |-> sent[s] + 1]) \in Seq([kind : Kind, id : Nat])
      BY <3>1, <3>2
    <3>4. QED
      BY <3>3 DEF ServerInv, TypeOK, Send
  <2>3. QED
    BY <2>1, <2>2 DEF ServerInv, TypeOK, Send
<1>2. ASSUME NEW t \in Patient
      PROVE  ConnInv(t)'
  <2>1. ConnInv(t)
    BY DEF ServerInv
  <2>2. CASE t # s
    BY <2>1, <2>2, Untouched DEF Rest, Send, ServerInv, TypeOK, Patient
  <2>3. CASE t = s
    <3>1. /\ s \in peer /\ s \in list
          /\ Len(answers[s]) = sent[s] /\ sent[s] \in Nat
          /\ sent' = [sent EXCEPT ![s] = @ + 1]
          /\ inb' = [inb EXCEPT ![s] = Append(@, [kind |-> k, id |-> sent[s] + 1])]
          /\ UNCHANGED <<listening, list, peer, soc, out, posted, gone, dead, answers>>
      BY <2>3, ModbusServerAssumption DEF ModbusServerAssumption, Send, Patient, ServerInv, TypeOK
    <3>2. Pending(s) = 0
      BY <2>1, <2>3, <3>1 DEF ConnInv, CountOk, Pending
    <3>3. inb[s] = <<>> /\ ~ soc[s].block
      BY <3>2 DEF Pending
    <3>4. sent'[s] = sent[s] + 1 /\ inb'[s] = <<[kind |-> k, id |-> sent'[s]]>>
      BY <3>1, <3>3 DEF ServerInv, TypeOK
    <3>5. InbOk(s)' /\ SocOk(s)' /\ OwnerOk(s)'
      BY <2>1, <2>3, <3>1, <3>3, <3>4 DEF ConnInv, InbOk, SocOk, OwnerOk
    <3>6. Pending(s)' = 1
      BY <3>1, <3>3, <3>4 DEF Pending
    <3>7. CountOk(s)'
      BY <3>1, <3>4, <3>6 DEF CountOk
    <3>8. LifeOk(s)' /\ OrderOk(s)'
      BY <2>1, <2>3, <3>1 DEF ConnInv, LifeOk, OrderOk
    <3>9. QED
      BY <2>3, <3>5, <3>7, <3>8 DEF ConnInv
  <2>4. QED
    BY <2>2, <2>3
<1>3. QED
  BY <1>1, <1>2 DEF ServerInv

LEMMA ClientClosesKeeps ==
  ASSUME ServerInv, NEW s \in Conn, ClientCloses(s)
  PROVE  ServerInv'
<1>1. TypeOK'
  BY DEF ServerInv, TypeOK, ClientCloses
<1>2. ASSUME NEW t \in Patient
      PROVE  ConnInv(t)'
  <2>1. ConnInv(t)
    BY DEF ServerInv
  <2>2. Pending(t)' = Pending(t)
    BY DEF Pending, ClientCloses
  <2>3. CountOk(t)'
    BY <2>1, <2>2 DEF ConnInv, CountOk, ClientCloses
  <2>4. QED
    BY <2>1, <2>3 DEF ConnInv, InbOk, SocOk, OwnerOk, LifeOk, OrderOk, ClientCloses
<1>3. QED
  BY <1>1, <1>2 DEF ServerInv

LEMMA DisconnectedKeeps ==
  ASSUME ServerInv, NEW s \in Conn, Disconnected(s)
  PROVE  ServerInv'
<1>1. TypeOK'
  BY DEF ServerInv, TypeOK, Disconnected
<1>2. ASSUME NEW t \in Patient
      PROVE  ConnInv(t)'
  <2>1. ConnInv(t)
    BY DEF ServerInv
  <2>2. CASE t # s
    BY <2>1, <2>2, Untouched DEF Rest, Disconnected, ServerInv, TypeOK, Patient
  <2>3. CASE t = s
    <3>1. gone'[s] = "POSTED"
      BY DEF Disconnected, ServerInv, TypeOK
    <3>2. InbOk(s)' /\ CountOk(s)' /\ OwnerOk(s)' /\ OrderOk(s)'
      BY <2>1, <2>3 DEF Disconnected, ConnInv, InbOk, CountOk, Pending, OwnerOk, OrderOk
    <3>3. SocOk(s)' /\ LifeOk(s)'
      BY <2>1, <2>3, <3>1 DEF Disconnected, ConnInv, SocOk, LifeOk
    <3>4. QED
      BY <2>3, <3>2, <3>3 DEF ConnInv
  <2>4. QED
    BY <2>2, <2>3
<1>3. QED
  BY <1>1, <1>2 DEF ServerInv

-----------------------------------------------------------------------------
(* An answer is one more for a client that is there.                       *)
LEMMA WrittenAppends ==
  ASSUME ServerInv, NEW s \in Conn, NEW hdr \in Nat, NEW of \in Nat, Written(s, hdr, of)
  PROVE  /\ answers' \in [Conn -> Seq([hdr : Nat, of : Nat])]
         /\ \A t \in Conn \ {s} : answers'[t] = answers[t]
         /\ s \in peer => /\ Len(answers'[s]) = Len(answers[s]) + 1
                          /\ answers'[s][Len(answers[s]) + 1] = [hdr |-> hdr, of |-> of]
                          /\ \A i \in DOMAIN answers[s] : answers'[s][i] = answers[s][i]
                          /\ DOMAIN answers'[s] = DOMAIN answers[s] \cup {Len(answers[s]) + 1}
         /\ s \notin peer => answers'[s] = answers[s]
<1>1. answers \in [Conn -> Seq([hdr : Nat, of : Nat])]
  BY DEF ServerInv, TypeOK
<1>2. CASE s \in peer
  <2>1. answers' = [answers EXCEPT ![s] = Append(@, [hdr |-> hdr, of |-> of])]
    BY <1>2 DEF Written
  <2>2. answers'[s] = Append(answers[s], [hdr |-> hdr, of |-> of])
    BY <2>1, <1>1
  <2>3. answers[s] \in Seq([hdr : Nat, of : Nat]) /\ [hdr |-> hdr, of |-> of] \in [hdr : Nat, of : Nat]
    BY <1>1
  <2>4. answers'[s] \in Seq([hdr : Nat, of : Nat])
    BY <2>2, <2>3
  <2>5. QED
    BY <1>1, <1>2, <2>1, <2>2, <2>3, <2>4
<1>3. CASE s \notin peer
  BY <1>1, <1>3 DEF Written
<1>4. QED
  BY <1>2, <1>3

(* The last request of a client that waits is answered last.               *)
LEMMA AnsweredInOrder ==
  ASSUME ServerInv, NEW s \in Patient, OrderOk(s), sent[s] \in Nat,
         Written(s, sent[s], sent[s]), s \in peer => Len(answers[s]) + 1 = sent[s]
  PROVE  OrderOk(s)'
<1>1. s \in Conn
  BY DEF Patient
<1>2. CASE s \in peer
  <2>1. /\ answers'[s][Len(answers[s]) + 1] = [hdr |-> sent[s], of |-> sent[s]]
        /\ \A i \in DOMAIN answers[s] : answers'[s][i] = answers[s][i]
        /\ DOMAIN answers'[s] = DOMAIN answers[s] \cup {Len(answers[s]) + 1}
    BY <1>1, <1>2, WrittenAppends
  <2>2. QED
    BY <1>2, <2>1 DEF OrderOk
<1>3. CASE s \notin peer
  BY <1>1, <1>3, WrittenAppends DEF OrderOk
<1>4. QED
  BY <1>2, <1>3

(* A request is read: a wrong header loses the client, what the server     *)
(* answers itself is answered, and the rest is out once.                   *)
LEMMA OnReadyReadKeeps ==
  ASSUME ServerInv, NEW s \in Conn, OnReadyRead(s)
  PROVE  ServerInv'
<1> DEFINE r == Head(inb[s])
<1>1. /\ s \in list /\ inb[s] # <<>>
      /\ UNCHANGED <<listening, list, sent, posted, gone, dead>>
  BY DEF OnReadyRead
<1>2. /\ inb[s] \in Seq([kind : Kind, id : Nat])
      /\ r \in [kind : Kind, id : Nat]
      /\ Tail(inb[s]) \in Seq([kind : Kind, id : Nat])
  <2>1. inb[s] \in Seq([kind : Kind, id : Nat])
    BY DEF ServerInv, TypeOK
  <2>2. /\ Head(inb[s]) \in [kind : Kind, id : Nat]
        /\ Tail(inb[s]) \in Seq([kind : Kind, id : Nat])
    BY <1>1, <2>1, HeadTailProperties
  <2>3. QED
    BY <2>1, <2>2
<1>3. ASSUME s \in Patient
      PROVE  /\ ~ soc[s].block /\ ~ soc[s].error
             /\ out[s] = 0 /\ posted[s] = 0
             /\ r.id = sent[s] /\ Tail(inb[s]) = <<>>
             /\ sent[s] \in Nat /\ ConnInv(s)
             /\ gone[s] = "NO" /\ s \notin dead
             /\ Len(answers[s]) + 1 <= sent[s]
             /\ s \in peer => Len(answers[s]) + 1 = sent[s]
  <2>1. ConnInv(s) /\ sent[s] \in Nat /\ out[s] \in Nat /\ posted[s] \in Nat
    BY <1>3, ModbusServerAssumption DEF ModbusServerAssumption, ServerInv, TypeOK
  <2>2. PICK k \in Kind : inb[s] = <<[kind |-> k, id |-> sent[s]]>>
    BY <1>1, <2>1 DEF ConnInv, InbOk
  <2>3. ~ soc[s].block /\ Pending(s) = 1
    BY <1>1, <2>1 DEF ConnInv, CountOk, Pending
  <2>4. out[s] = 0 /\ posted[s] = 0
    BY <2>1, <2>3 DEF ConnInv, OwnerOk
  <2>5. /\ Len(answers[s]) + 1 <= sent[s]
        /\ s \in peer => Len(answers[s]) + 1 = sent[s]
    BY <2>1, <2>3 DEF ConnInv, CountOk
  <2>6. gone[s] = "NO" /\ s \notin dead /\ ~ soc[s].error
    BY <1>1, <2>1 DEF ConnInv, LifeOk, SocOk
  <2>7. QED
    BY <2>1, <2>2, <2>3, <2>4, <2>5, <2>6
<1> HIDE DEF r
<1>4. ASSUME NEW t \in Patient, t # s
      PROVE  ConnInv(t)'
  <2>1. ConnInv(t) /\ t \in Conn
    BY DEF ServerInv, Patient
  <2>2. inb'[t] = inb[t] /\ (t \in peer' <=> t \in peer)
    BY <1>4, <2>1 DEF ServerInv, TypeOK, OnReadyRead, Take, Busy
  <2>3. soc'[t] = soc[t] /\ out'[t] = out[t]
    BY <1>4, <2>1 DEF ServerInv, TypeOK, OnReadyRead, Take, Busy
  <2>4. answers'[t] = answers[t]
    BY <1>4, <2>1 DEF ServerInv, TypeOK, OnReadyRead, Take, Busy, Written
  <2>5. QED
    BY <1>1, <2>1, <2>2, <2>3, <2>4, Untouched DEF Rest
<1>5. CASE /\ inb' = [inb EXCEPT ![s] = <<>>]
           /\ peer' = peer \ {s}
           /\ UNCHANGED <<soc, out, answers>>
  <2>1. TypeOK'
    <3>1. inb' \in [Conn -> Seq([kind : Kind, id : Nat])]
      <4>1. <<>> \in Seq([kind : Kind, id : Nat])
        OBVIOUS
      <4>2. QED
        BY <1>5, <4>1 DEF ServerInv, TypeOK
    <3>2. QED
      BY <1>1, <1>5, <3>1 DEF ServerInv, TypeOK
  <2>2. ASSUME s \in Patient
        PROVE  ConnInv(s)'
    <3>1. inb'[s] = <<>> /\ s \notin peer'
      BY <1>5 DEF ServerInv, TypeOK
    <3>2. Pending(s)' = 0
      BY <1>3, <1>5, <2>2, <3>1 DEF Pending
    <3>3. CountOk(s)'
      BY <1>1, <1>3, <1>5, <2>2, <3>1, <3>2 DEF CountOk, ServerInv, TypeOK
    <3>4. QED
      BY <1>1, <1>3, <1>5, <2>2, <3>1, <3>3 DEF ConnInv, InbOk, SocOk, OwnerOk, LifeOk, OrderOk
  <2>3. QED
    BY <1>4, <2>1, <2>2 DEF ServerInv
<1>6. CASE Take(s, r) /\ ~ soc[s].block /\ UNCHANGED peer
  <2>1. /\ inb' = [inb EXCEPT ![s] = Tail(@)]
        /\ soc' = [soc EXCEPT ![s].res = r.id, ![s].cmd = r.id,
                              ![s].block = (r.kind = "FORWARD"),
                              ![s].error = IF r.kind = "FORWARD" THEN @ ELSE FALSE]
        /\ out' = IF r.kind = "FORWARD" THEN [out EXCEPT ![s] = @ + 1] ELSE out
        /\ IF r.kind = "FORWARD" \/ soc[s].error THEN UNCHANGED answers
                                                 ELSE Written(s, r.id, r.id)
    BY <1>6 DEF Take
  <2>2. TypeOK'
    <3>1. inb' \in [Conn -> Seq([kind : Kind, id : Nat])]
      BY <1>2, <2>1 DEF ServerInv, TypeOK
    <3>2. soc' \in [Conn -> [block : BOOLEAN, error : BOOLEAN, closeS : BOOLEAN,
                             cmd : Nat, res : Nat]]
      <4>1. /\ soc \in [Conn -> [block : BOOLEAN, error : BOOLEAN, closeS : BOOLEAN,
                                cmd : Nat, res : Nat]]
            /\ r.id \in Nat
        BY <1>2 DEF ServerInv, TypeOK
      <4>2. CASE r.kind = "FORWARD"
        <5>1. soc' = [soc EXCEPT ![s].res = r.id, ![s].cmd = r.id, ![s].block = TRUE]
          BY <2>1, <4>1, <4>2
        <5>2. QED
          BY <4>1, <5>1
      <4>3. CASE r.kind # "FORWARD"
        <5>1. soc' = [soc EXCEPT ![s].res = r.id, ![s].cmd = r.id, ![s].block = FALSE,
                                 ![s].error = FALSE]
          BY <2>1, <4>1, <4>3
        <5>2. QED
          BY <4>1, <5>1
      <4>4. QED
        BY <4>2, <4>3
    <3>3. answers' \in [Conn -> Seq([hdr : Nat, of : Nat])]
      BY <1>2, <2>1, WrittenAppends DEF ServerInv, TypeOK
    <3>4. out' \in [Conn -> Nat]
      BY <2>1 DEF ServerInv, TypeOK
    <3>5. QED
      BY <1>1, <1>6, <3>1, <3>2, <3>3, <3>4 DEF ServerInv, TypeOK
  <2>3. ASSUME s \in Patient
        PROVE  ConnInv(s)'
    <3>1. /\ inb'[s] = <<>> /\ UNCHANGED peer
          /\ sent'[s] = sent[s] /\ posted'[s] = 0 /\ gone'[s] = "NO"
          /\ s \in list' /\ s \notin dead'
      BY <1>1, <1>3, <1>6, <2>1, <2>3 DEF ServerInv, TypeOK
    <3>2. /\ soc'[s].cmd = sent[s] /\ soc'[s].res = sent[s]
          /\ soc'[s].block <=> r.kind = "FORWARD"
          /\ ~ soc'[s].error
          /\ soc'[s].closeS = soc[s].closeS
      BY <1>3, <2>1, <2>3 DEF ServerInv, TypeOK
    <3>3. out'[s] = IF r.kind = "FORWARD" THEN 1 ELSE 0
      BY <1>3, <2>1, <2>3 DEF ServerInv, TypeOK
    <3>4. InbOk(s)' /\ SocOk(s)' /\ OwnerOk(s)' /\ LifeOk(s)'
      BY <1>3, <2>3, <3>1, <3>2, <3>3 DEF ConnInv, InbOk, SocOk, OwnerOk, LifeOk
    <3>5. CASE r.kind = "FORWARD"
      <4>1. Pending(s)' = 1 /\ UNCHANGED answers
        BY <2>1, <3>1, <3>2, <3>5 DEF Pending
      <4>2. CountOk(s)' /\ OrderOk(s)'
        BY <1>3, <2>3, <3>1, <4>1 DEF CountOk, ConnInv, OrderOk
      <4>3. QED
        BY <3>4, <4>2 DEF ConnInv
    <3>6. CASE r.kind # "FORWARD"
      <4>1. Pending(s)' = 0
        BY <3>1, <3>2, <3>6 DEF Pending
      <4>2. Written(s, sent[s], sent[s])
        BY <1>3, <2>1, <2>3, <3>6
      <4>3. /\ s \in peer => Len(answers'[s]) = Len(answers[s]) + 1
            /\ s \notin peer => answers'[s] = answers[s]
        BY <1>3, <2>3, <4>2, WrittenAppends
      <4>4. CountOk(s)'
        BY <1>3, <2>3, <3>1, <4>1, <4>3 DEF CountOk, ServerInv, TypeOK
      <4>5. OrderOk(s)'
        BY <1>3, <2>3, <4>2, AnsweredInOrder DEF ConnInv
      <4>6. QED
        BY <3>4, <4>4, <4>5 DEF ConnInv
    <3>7. QED
      BY <3>5, <3>6
  <2>4. QED
    BY <1>4, <2>2, <2>3 DEF ServerInv
<1>7. CASE Busy(s, r) /\ soc[s].block /\ UNCHANGED peer
  <2>1. TypeOK'
    <3>1. inb' \in [Conn -> Seq([kind : Kind, id : Nat])]
      BY <1>2, <1>7 DEF ServerInv, TypeOK, Busy
    <3>2. /\ soc' \in [Conn -> [block : BOOLEAN, error : BOOLEAN, closeS : BOOLEAN,
                                cmd : Nat, res : Nat]]
          /\ out' \in [Conn -> Nat]
      <4>1. CASE soc' = [soc EXCEPT ![s].error = TRUE] /\ out' = [out EXCEPT ![s] = @ + 1]
        <5>1. soc' \in [Conn -> [block : BOOLEAN, error : BOOLEAN, closeS : BOOLEAN,
                                 cmd : Nat, res : Nat]]
          BY <4>1 DEF ServerInv, TypeOK
        <5>2. out' \in [Conn -> Nat]
          BY <4>1 DEF ServerInv, TypeOK
        <5>3. QED
          BY <5>1, <5>2
      <4>2. CASE soc' = [soc EXCEPT ![s].error = FALSE, ![s].block = FALSE] /\ UNCHANGED out
        BY <4>2 DEF ServerInv, TypeOK
      <4>3. QED
        BY <1>7, <4>1, <4>2 DEF Busy
    <3>3. answers' \in [Conn -> Seq([hdr : Nat, of : Nat])]
      BY <1>2, <1>7, WrittenAppends DEF Busy
    <3>4. QED
      BY <1>1, <1>7, <3>1, <3>2, <3>3 DEF ServerInv, TypeOK
  <2>2. s \notin Patient
    BY <1>3, <1>7
  <2>3. QED
    BY <1>4, <2>1, <2>2 DEF ServerInv
<1>8. QED
  BY <1>5, <1>6, <1>7 DEF OnReadyRead, r

(* A command that is back ends the block, or what is left of a connection  *)
(* that was marked for closing.                                            *)
LEMMA ReceiveKeeps ==
  ASSUME ServerInv, NEW s \in Conn, Receive(s)
  PROVE  ServerInv'
<1>1. /\ s \in list /\ posted[s] > 0
      /\ posted' = [posted EXCEPT ![s] = @ - 1]
      /\ UNCHANGED <<listening, list, inb, sent, out, gone>>
  BY DEF Receive
<1>2. ASSUME s \in Patient
      PROVE  /\ soc[s].block /\ ~ soc[s].error
             /\ out[s] = 0 /\ posted[s] = 1
             /\ inb[s] = <<>>
             /\ soc[s].cmd = sent[s] /\ soc[s].res = sent[s]
             /\ sent[s] \in Nat /\ ConnInv(s)
             /\ s \notin dead /\ gone[s] # "FREE"
             /\ Len(answers[s]) + 1 <= sent[s]
             /\ s \in peer => Len(answers[s]) + 1 = sent[s]
  <2>1. ConnInv(s) /\ sent[s] \in Nat /\ out[s] \in Nat /\ posted[s] \in Nat
    BY <1>2, ModbusServerAssumption DEF ModbusServerAssumption, ServerInv, TypeOK
  <2>2. out[s] = 0 /\ posted[s] = 1 /\ soc[s].block
    BY <1>1, <2>1 DEF ConnInv, OwnerOk
  <2>3. inb[s] = <<>> /\ Pending(s) = 1
    BY <2>1, <2>2 DEF ConnInv, CountOk, Pending
  <2>4. /\ Len(answers[s]) + 1 <= sent[s]
        /\ s \in peer => Len(answers[s]) + 1 = sent[s]
    BY <2>1, <2>3 DEF ConnInv, CountOk
  <2>5. QED
    BY <2>1, <2>2, <2>3, <2>4 DEF ConnInv, SocOk, LifeOk
<1>3. ASSUME NEW t \in Patient, t # s
      PROVE  ConnInv(t)'
  <2>1. ConnInv(t) /\ t \in Conn
    BY DEF ServerInv, Patient
  <2>2. posted'[t] = posted[t] /\ (t \in peer' <=> t \in peer) /\ (t \in dead' <=> t \in dead)
    BY <1>1, <1>3, <2>1 DEF ServerInv, TypeOK, Receive, CloseNow
  <2>3. soc'[t] = soc[t]
    BY <1>3, <2>1 DEF ServerInv, TypeOK, Receive, CloseNow, Answer
  <2>4. answers'[t] = answers[t]
    BY <1>3, <2>1 DEF ServerInv, TypeOK, Receive, CloseNow, Answer, Written
  <2>5. QED
    BY <1>1, <2>1, <2>2, <2>3, <2>4, Untouched DEF Rest
<1>4. posted' \in [Conn -> Nat] /\ (s \in Patient => posted'[s] = 0)
  BY <1>1, <1>2 DEF ServerInv, TypeOK
<1>5. CASE CloseNow(s)
  <2>1. TypeOK'
    BY <1>1, <1>4, <1>5 DEF ServerInv, TypeOK, CloseNow
  <2>2. ASSUME s \in Patient
        PROVE  ConnInv(s)'
    <3>1. /\ ~ soc'[s].block /\ ~ soc'[s].error
          /\ soc'[s].closeS = soc[s].closeS
          /\ s \notin peer' /\ UNCHANGED answers
      BY <1>2, <1>5, <2>2 DEF ServerInv, TypeOK, CloseNow
    <3>2. Pending(s)' = 0
      BY <1>1, <1>2, <2>2, <3>1 DEF Pending
    <3>3. CountOk(s)'
      BY <1>1, <1>2, <2>2, <3>1, <3>2 DEF CountOk, ServerInv, TypeOK
    <3>4. QED
      BY <1>1, <1>2, <1>4, <2>2, <3>1, <3>3
      DEF ConnInv, InbOk, SocOk, OwnerOk, LifeOk, OrderOk
  <2>3. QED
    BY <1>3, <2>1, <2>2 DEF ServerInv
<1>6. CASE Answer(s) /\ UNCHANGED <<peer, dead>>
  <2>1. TypeOK'
    <3>1. soc' \in [Conn -> [block : BOOLEAN, error : BOOLEAN, closeS : BOOLEAN,
                             cmd : Nat, res : Nat]]
      BY <1>6 DEF ServerInv, TypeOK, Answer
    <3>2. answers' \in [Conn -> Seq([hdr : Nat, of : Nat])]
      <4>1. soc[s].res \in Nat /\ soc[s].cmd \in Nat
        BY DEF ServerInv, TypeOK
      <4>2. QED
        BY <1>6, <4>1, WrittenAppends DEF ServerInv, TypeOK, Answer
    <3>3. QED
      BY <1>1, <1>4, <1>6, <3>1, <3>2 DEF ServerInv, TypeOK
  <2>2. ASSUME s \in Patient
        PROVE  ConnInv(s)'
    <3>1. /\ ~ soc'[s].block /\ ~ soc'[s].error
          /\ soc'[s].closeS = soc[s].closeS
      BY <1>6 DEF ServerInv, TypeOK, Answer
    <3>2. Written(s, sent[s], sent[s])
      BY <1>2, <1>6, <2>2 DEF Answer
    <3>3. /\ s \in peer => Len(answers'[s]) = Len(answers[s]) + 1
          /\ s \notin peer => answers'[s] = answers[s]
      BY <1>2, <2>2, <3>2, WrittenAppends
    <3>4. Pending(s)' = 0
      BY <1>1, <1>2, <2>2, <3>1 DEF Pending
    <3>5. CountOk(s)'
      BY <1>1, <1>2, <1>6, <2>2, <3>3, <3>4 DEF CountOk, ServerInv, TypeOK
    <3>6. OrderOk(s)'
      BY <1>2, <2>2, <3>2, AnsweredInOrder DEF ConnInv
    <3>7. InbOk(s)' /\ SocOk(s)' /\ OwnerOk(s)' /\ LifeOk(s)'
      BY <1>1, <1>2, <1>4, <1>6, <2>2, <3>1 DEF ConnInv, InbOk, SocOk, OwnerOk, LifeOk
    <3>8. QED
      BY <3>5, <3>6, <3>7 DEF ConnInv
  <2>3. QED
    BY <1>3, <2>1, <2>2 DEF ServerInv
<1>7. QED
  BY <1>5, <1>6 DEF Receive

(* A command handed back is posted to its connection, which is there.      *)
LEMMA ExtReceiveKeeps ==
  ASSUME ServerInv, NEW s \in Conn, ExtReceive(s)
  PROVE  ServerInv'
<1>1. TypeOK'
  <2>1. out' \in [Conn -> Nat]
    BY DEF ServerInv, TypeOK, ExtReceive
  <2>2. posted' \in [Conn -> Nat]
    BY DEF ServerInv, TypeOK, ExtReceive
  <2>3. QED
    BY <2>1, <2>2 DEF ServerInv, TypeOK, ExtReceive
<1>2. ASSUME NEW t \in Patient
      PROVE  ConnInv(t)'
  <2>1. ConnInv(t) /\ t \in Conn
    BY DEF ServerInv, Patient
  <2>2. CASE t # s
    BY <2>1, <2>2, Untouched DEF Rest, ExtReceive, ServerInv, TypeOK
  <2>3. CASE t = s
    <3>1. out[s] \in Nat /\ posted[s] \in Nat /\ out[s] > 0
      BY DEF ExtReceive, ServerInv, TypeOK
    <3>2. out[s] + posted[s] = 1 /\ s \in list
      BY <2>1, <2>3, <3>1 DEF ConnInv, OwnerOk
    <3>3. out'[s] = out[s] - 1 /\ posted'[s] = posted[s] + 1
      BY <3>2 DEF ExtReceive, ServerInv, TypeOK
    <3>4. OwnerOk(s)'
      BY <2>1, <2>3, <3>1, <3>3 DEF ConnInv, OwnerOk, ExtReceive
    <3>5. QED
      BY <2>1, <2>3, <3>4
      DEF ConnInv, InbOk, CountOk, Pending, SocOk, LifeOk, OrderOk, ExtReceive
  <2>4. QED
    BY <2>2, <2>3
<1>3. QED
  BY <1>1, <1>2 DEF ServerInv

-----------------------------------------------------------------------------
LEMMA AcceptKeeps ==
  ASSUME ServerInv, NEW s \in Conn, Accept(s)
  PROVE  ServerInv'
<1>1. TypeOK'
  BY DEF ServerInv, TypeOK, Accept
<1>2. ASSUME NEW t \in Patient
      PROVE  ConnInv(t)'
  <2>1. ConnInv(t) /\ t \in Conn
    BY DEF ServerInv, Patient
  <2>2. CASE t # s
    BY <2>1, <2>2, Untouched DEF Rest, Accept
  <2>3. CASE t = s
    <3>1. /\ inb[s] = <<>> /\ soc[s] = Fresh /\ sent[s] = 0 /\ gone[s] = "NO"
          /\ answers[s] = <<>> /\ s \notin dead
      BY <2>1, <2>3 DEF ConnInv, LifeOk, Accept, ServerInv, TypeOK
    <3>2. ~ soc[s].block /\ out[s] + posted[s] = 0
      BY <2>1, <2>3, <3>1 DEF Fresh, ConnInv, OwnerOk, ServerInv, TypeOK
    <3>3. Pending(s)' = 0
      BY <3>1, <3>2 DEF Pending, Accept
    <3>4. InbOk(s)' /\ SocOk(s)' /\ OrderOk(s)'
      BY <2>1, <2>3 DEF ConnInv, InbOk, SocOk, OrderOk, Accept
    <3>5. CountOk(s)' /\ OwnerOk(s)' /\ LifeOk(s)'
      BY <3>1, <3>2, <3>3 DEF CountOk, OwnerOk, LifeOk, Accept
    <3>6. QED
      BY <2>3, <3>4, <3>5 DEF ConnInv
  <2>4. QED
    BY <2>2, <2>3
<1>3. QED
  BY <1>1, <1>2 DEF ServerInv

(* Connections without a command at a poller may be deleted.               *)
LEMMA DeleteKeeps ==
  ASSUME ServerInv, NEW S \in SUBSET Conn, Delete(S), UNCHANGED out, listening' \in BOOLEAN,
         \A s \in S \cap Patient : out[s] = 0
  PROVE  ServerInv'
<1>1. TypeOK'
  <2>1. <<>> \in Seq([kind : Kind, id : Nat]) /\ <<>> \in Seq([hdr : Nat, of : Nat])
    OBVIOUS
  <2>2. /\ inb' \in [Conn -> Seq([kind : Kind, id : Nat])]
        /\ answers' \in [Conn -> Seq([hdr : Nat, of : Nat])]
    BY <2>1 DEF ServerInv, TypeOK, Delete
  <2>3. /\ sent' \in [Conn -> 0 .. MaxReq]
        /\ posted' \in [Conn -> Nat]
    BY ModbusServerAssumption DEF ModbusServerAssumption, ServerInv, TypeOK, Delete
  <2>4. soc' \in [Conn -> [block : BOOLEAN, error : BOOLEAN, closeS : BOOLEAN,
                           cmd : Nat, res : Nat]]
    BY DEF ServerInv, TypeOK, Delete, Fresh
  <2>5. QED
    BY <2>2, <2>3, <2>4 DEF ServerInv, TypeOK, Delete
<1>2. ASSUME NEW t \in Patient
      PROVE  ConnInv(t)'
  <2>1. ConnInv(t) /\ t \in Conn
    BY DEF ServerInv, Patient
  <2>2. CASE t \notin S
    <3>1. /\ soc'[t] = soc[t] /\ inb'[t] = inb[t] /\ posted'[t] = posted[t]
          /\ gone'[t] = gone[t] /\ sent'[t] = sent[t] /\ answers'[t] = answers[t]
          /\ out'[t] = out[t]
      BY <2>1, <2>2 DEF Delete
    <3>2. /\ t \in list' <=> t \in list
          /\ t \in peer' <=> t \in peer
          /\ t \in dead' <=> t \in dead
      BY <2>2 DEF Delete
    <3>3. UNCHANGED Rest(t)
      BY <3>1, <3>2 DEF Rest
    <3>4. QED
      BY <2>1, <3>3, Untouched
  <2>3. CASE t \in S
    <3>1. /\ t \notin list' /\ t \notin peer' /\ t \notin dead'
          /\ soc'[t] = Fresh /\ inb'[t] = <<>> /\ sent'[t] = 0 /\ answers'[t] = <<>>
          /\ gone'[t] = "NO" /\ posted'[t] = 0 /\ out'[t] = 0
      BY <2>1, <2>3 DEF Delete
    <3>2. Pending(t)' = 0
      BY <3>1 DEF Pending, Fresh
    <3>3. InbOk(t)' /\ CountOk(t)' /\ OwnerOk(t)' /\ LifeOk(t)' /\ OrderOk(t)'
      BY <3>1, <3>2 DEF InbOk, CountOk, OwnerOk, LifeOk, OrderOk
    <3>4. SocOk(t)'
      BY <3>1 DEF SocOk, Fresh
    <3>5. QED
      BY <3>3, <3>4 DEF ConnInv
  <2>4. QED
    BY <2>2, <2>3
<1>3. QED
  BY <1>1, <1>2 DEF ServerInv

LEMMA LookAtBlockKeeps ==
  ASSUME ServerInv, NEW s \in Conn, LookAtBlock(s)
  PROVE  ServerInv'
<1>1. TypeOK'
  BY DEF ServerInv, TypeOK, LookAtBlock
<1>2. ASSUME NEW t \in Patient
      PROVE  ConnInv(t)'
  <2>1. ConnInv(t) /\ t \in Conn
    BY DEF ServerInv, Patient
  <2>2. CASE t # s
    BY <2>1, <2>2, Untouched DEF Rest, LookAtBlock, ServerInv, TypeOK
  <2>3. CASE t = s
    <3>1. gone'[s] = IF soc[s].block THEN "BLOCKED" ELSE "FREE"
      BY DEF LookAtBlock, ServerInv, TypeOK
    <3>2. InbOk(s)' /\ CountOk(s)' /\ OwnerOk(s)' /\ OrderOk(s)'
      BY <2>1, <2>3 DEF LookAtBlock, ConnInv, InbOk, CountOk, Pending, OwnerOk, OrderOk
    <3>3. SocOk(s)' /\ LifeOk(s)'
      BY <2>1, <2>3, <3>1 DEF LookAtBlock, ConnInv, SocOk, LifeOk
    <3>4. QED
      BY <2>3, <3>2, <3>3 DEF ConnInv
  <2>4. QED
    BY <2>2, <2>3
<1>3. QED
  BY <1>1, <1>2 DEF ServerInv

(* What was seen without block has none: nothing more can be read from it. *)
LEMMA ActOnBlockKeeps ==
  ASSUME ServerInv, NEW s \in Conn, ActOnBlock(s)
  PROVE  ServerInv'
<1>1. CASE gone[s] = "FREE" /\ Delete({s}) /\ UNCHANGED <<listening, out>>
  <2>1. s \in Patient => out[s] = 0
    BY <1>1 DEF ServerInv, TypeOK, ConnInv, OwnerOk, LifeOk
  <2>2. QED
    BY <1>1, <2>1, DeleteKeeps DEF ServerInv, TypeOK
<1>2. CASE /\ gone[s] = "BLOCKED"
           /\ soc' = [soc EXCEPT ![s].closeS = TRUE]
           /\ gone' = [gone EXCEPT ![s] = "DONE"]
           /\ UNCHANGED <<listening, list, peer, inb, sent, out, posted, dead, answers>>
  <2>1. TypeOK'
    BY <1>2 DEF ServerInv, TypeOK
  <2>2. ASSUME NEW t \in Patient
        PROVE  ConnInv(t)'
    <3>1. ConnInv(t) /\ t \in Conn
      BY DEF ServerInv, Patient
    <3>2. CASE t # s
      BY <1>2, <3>1, <3>2, Untouched DEF Rest, ServerInv, TypeOK
    <3>3. CASE t = s
      <4>1. /\ soc'[s].block = soc[s].block /\ soc'[s].error = soc[s].error
            /\ soc'[s].cmd = soc[s].cmd /\ soc'[s].res = soc[s].res
            /\ gone'[s] = "DONE"
        BY <1>2 DEF ServerInv, TypeOK
      <4>2. Pending(s)' = Pending(s)
        BY <1>2, <4>1 DEF Pending
      <4>3. CountOk(s)'
        BY <1>2, <3>1, <3>3, <4>2 DEF ConnInv, CountOk
      <4>4. s \in list
        BY <1>2, <3>1, <3>3 DEF ConnInv, LifeOk
      <4>5. QED
        BY <1>2, <3>1, <3>3, <4>1, <4>3, <4>4
        DEF ConnInv, InbOk, SocOk, OwnerOk, LifeOk, OrderOk
    <3>4. QED
      BY <3>2, <3>3
  <2>3. QED
    BY <2>1, <2>2 DEF ServerInv
<1>3. QED
  BY <1>1, <1>2 DEF ActOnBlock

-----------------------------------------------------------------------------
(* Every step keeps the invariant.                                         *)
LEMMA NextServerInv ==
  ASSUME ServerInv, [Next]_vars
  PROVE  ServerInv'
<1>1. ASSUME NEW s \in Conn, NEW k \in Kind, Send(s, k)
      PROVE  ServerInv'
  BY <1>1, SendKeeps
<1>2. ASSUME NEW s \in Conn, ClientCloses(s) \/ ServerThread(s) \/ ExtReceive(s)
      PROVE  ServerInv'
  BY <1>2, ClientClosesKeeps, OnReadyReadKeeps, ReceiveKeeps, DisconnectedKeeps, ExtReceiveKeeps
  DEF ServerThread
<1>3. CASE Main
  <2>1. ASSUME NEW s \in Conn, ActOnBlock(s) \/ Accept(s) \/ LookAtBlock(s)
        PROVE  ServerInv'
    BY <2>1, ActOnBlockKeeps, AcceptKeeps, LookAtBlockKeeps
  <2>2. ASSUME NEW s \in Conn, Remove(s)
        PROVE  ServerInv'
    <3>1. s \in Patient => out[s] = 0
      BY <2>2 DEF Remove, ServerInv, TypeOK, ConnInv, OwnerOk, LifeOk
    <3>2. QED
      BY <2>2, <3>1, DeleteKeeps DEF Remove, ServerInv, TypeOK
  <2>3. CASE Stop
    <3>1. list \in SUBSET Conn /\ \A s \in list : out[s] = 0
      BY <2>3 DEF Stop, ServerInv, TypeOK
    <3>2. QED
      BY <2>3, <3>1, DeleteKeeps DEF Stop
  <2>4. CASE Start
    <3>1. TypeOK'
      BY <2>4 DEF Start, ServerInv, TypeOK
    <3>2. \A t \in Patient : ConnInv(t)'
      BY <2>4, Untouched DEF Start, Rest, ServerInv
    <3>3. QED
      BY <3>1, <3>2 DEF ServerInv
  <2>5. QED
    BY <1>3, <2>1, <2>2, <2>3, <2>4 DEF Main
<1>4. CASE UNCHANGED vars
  <2>1. TypeOK'
    BY <1>4 DEF vars, ServerInv, TypeOK
  <2>2. \A t \in Patient : ConnInv(t)'
    BY <1>4, Untouched DEF vars, Rest, ServerInv
  <2>3. QED
    BY <2>1, <2>2 DEF ServerInv
<1>5. QED
  BY <1>1, <1>2, <1>3, <1>4 DEF Next

(* Commands, connections and answers keep to what ServerInv says of them.  *)
THEOREM ServerInductive ==
  Spec => []ServerInv
<1>1. Init => ServerInv
  BY InitServerInv
<1>2. ServerInv /\ [Next]_vars => ServerInv'
  BY NextServerInv
<1>3. QED
  BY <1>1, <1>2, PTL DEF Spec

(* The types of the server's variables.                                    *)
THEOREM TypeCorrect ==
  Spec => []TypeOK
<1>1. ServerInv => TypeOK
  BY DEF ServerInv
<1>2. QED
  BY <1>1, ServerInductive, PTL

(* The pointer a poller holds, and the call that brings the answer, lead   *)
(* to a connection that is there and waits for it (mdbServer.cpp:194).     *)
THEOREM CommandAlwaysHasOwner ==
  Spec => []CommandHasOwner
<1>1. ServerInv => CommandHasOwner
  BY DEF ServerInv, ConnInv, OwnerOk, CommandHasOwner
<1>2. QED
  BY <1>1, ServerInductive, PTL

(* A client that waits for each answer is sent the answers of its requests *)
(* in their order, each once and under its own header.                     *)
THEOREM AnswersAlwaysInOrder ==
  Spec => []AnswersInOrder
<1>1. ServerInv => AnswersInOrder
  <2>1. ASSUME ServerInv, NEW s \in Patient
        PROVE  Len(answers[s]) <= sent[s] /\ OrderOk(s)
    <3>1. ConnInv(s) /\ sent[s] \in Nat /\ answers[s] \in Seq([hdr : Nat, of : Nat])
      BY <2>1, ModbusServerAssumption DEF ModbusServerAssumption, ServerInv, TypeOK, Patient
    <3>2. Pending(s) \in Nat
      BY DEF Pending
    <3>3. QED
      BY <3>1, <3>2 DEF ConnInv, CountOk
  <2>2. QED
    BY <2>1 DEF AnswersInOrder, OrderOk
<1>2. QED
  BY <1>1, ServerInductive, PTL

=============================================================================
