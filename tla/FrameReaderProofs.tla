------------------------- MODULE FrameReaderProofs --------------------------
(***************************************************************************)
(* Theorems about FrameReader, for headers and bodies of any length, any   *)
(* number of requests and of datagrams from elsewhere: what is taken out   *)
(* of a connection is what was sent, whole and in order.                   *)
(***************************************************************************)
EXTENDS FrameReader, SequenceTheorems, TLAPS

Byte == [id : Nat, k : Nat, len : Nat]

Size(id) == Hdr + Body[id]

FrameOf(id) == Frame(id, Body[id])

(* What is taken when the frame that answers id is taken.                  *)
Whole(id) == [id |-> id, body |-> SubSeq(FrameOf(id), Hdr + 1, Hdr + Body[id])]

(* off says where in s the frames of q begin, from the m-th on: one behind *)
(* the other, and s has nothing else.                                      *)
Offsets(off, s, q, m) ==
  /\ off \in [m .. Len(q) + 1 -> Nat]
  /\ off[m] = 0 /\ off[Len(q) + 1] = Len(s)
  /\ \A j \in m .. Len(q) : off[j + 1] = off[j] + Size(q[j])
  /\ \A i, j \in m .. Len(q) + 1 : i < j => off[i] + Size(q[i]) <= off[j]
  /\ \A j \in m .. Len(q) : \A k \in 1 .. Size(q[j]) : s[off[j] + k] = FrameOf(q[j])[k]

(* s is the bytes of the frames of q from the m-th on.                     *)
Carries(s, q, m) == \E off : Offsets(off, s, q, m)

-----------------------------------------------------------------------------
LEMMA Sizes ==
  ASSUME NEW id \in Request
  PROVE  id \in Nat \ {0} /\ Body[id] \in Nat \ {0} /\ Size(id) \in Nat \ {0}
BY FrameReaderAssumption DEF Request, Size

LEMMA BytesAssociative ==
  ASSUME NEW a \in Seq(Byte), NEW b \in Seq(Byte), NEW c \in Seq(Byte)
  PROVE  (a \o b) \o c = a \o (b \o c)
BY ConcatAssociative

(* A frame as a sequence of bytes.                                         *)
LEMMA Frames ==
  ASSUME NEW id \in Nat, NEW n \in Nat
  PROVE  /\ Frame(id, n) \in Seq(Byte)
         /\ Len(Frame(id, n)) = Hdr + n
         /\ \A k \in 1 .. Hdr + n : Frame(id, n)[k] = [id |-> id, k |-> k, len |-> n]
<1>1. Hdr + n \in Nat
  BY FrameReaderAssumption
<1>2. Frame(id, n) \in [1 .. Hdr + n -> Byte]
  BY <1>1 DEF Frame, Byte
<1>3. Frame(id, n) \in Seq(Byte)
  BY <1>1, <1>2
<1>4. DOMAIN Frame(id, n) = 1 .. Hdr + n
  BY DEF Frame
<1>5. Len(Frame(id, n)) = Hdr + n
  BY <1>1, <1>3, <1>4, LenProperties
<1> QED
  BY <1>3, <1>5 DEF Frame

LEMMA FrameOfIs ==
  ASSUME NEW id \in Request
  PROVE  /\ FrameOf(id) \in Seq(Byte)
         /\ Len(FrameOf(id)) = Size(id)
         /\ \A k \in 1 .. Size(id) :
              /\ FrameOf(id)[k] \in Byte
              /\ FrameOf(id)[k].id = id /\ FrameOf(id)[k].len = Body[id]
<1>1. id \in Nat /\ Body[id] \in Nat /\ Size(id) = Hdr + Body[id]
  BY Sizes DEF Size
<1>2. /\ Frame(id, Body[id]) \in Seq(Byte)
      /\ Len(Frame(id, Body[id])) = Hdr + Body[id]
      /\ \A k \in 1 .. Hdr + Body[id] :
           Frame(id, Body[id])[k] = [id |-> id, k |-> k, len |-> Body[id]]
  BY <1>1, Frames
<1>3. \A k \in 1 .. Hdr + Body[id] : [id |-> id, k |-> k, len |-> Body[id]] \in Byte
  <2>1. Hdr + Body[id] \in Nat
    BY <1>1, FrameReaderAssumption
  <2> QED
    BY <1>1, <2>1 DEF Byte
<1>4. ASSUME NEW k \in 1 .. Size(id)
      PROVE  /\ FrameOf(id)[k] \in Byte
             /\ FrameOf(id)[k].id = id /\ FrameOf(id)[k].len = Body[id]
  <2>1. k \in 1 .. Hdr + Body[id]
    BY <1>1
  <2>2. FrameOf(id)[k] = [id |-> id, k |-> k, len |-> Body[id]]
    BY <2>1, <1>2 DEF FrameOf
  <2> QED
    BY <2>1, <2>2, <1>3
<1> QED
  BY <1>1, <1>2, <1>4 DEF FrameOf

(* A frame that is sent comes behind the others.                           *)
LEMMA CarriesMore ==
  ASSUME NEW s \in Seq(Byte), NEW q \in Seq(Request), NEW m \in 1 .. Len(q) + 1,
         NEW id \in Request, Carries(s, q, m)
  PROVE  Carries(s \o FrameOf(id), Append(q, id), m)
<1> DEFINE t == s \o FrameOf(id)
           p == Append(q, id)
<1>1. PICK off : Offsets(off, s, q, m)
  BY DEF Carries
<1>2. /\ id \in Nat /\ Body[id] \in Nat /\ Size(id) \in Nat \ {0} /\ Size(id) = Hdr + Body[id]
  BY Sizes DEF Size
<1>3. /\ FrameOf(id) \in Seq(Byte) /\ Len(FrameOf(id)) = Size(id)
  BY <1>2, Frames DEF FrameOf
<1>4. /\ t \in Seq(Byte) /\ Len(t) = Len(s) + Size(id)
      /\ \A i \in 1 .. Len(s) : t[i] = s[i]
      /\ \A k \in 1 .. Size(id) : t[Len(s) + k] = FrameOf(id)[k]
  <2>1. Len(s) \in Nat /\ Size(id) \in Nat
    BY <1>2
  <2>2. /\ t \in Seq(Byte) /\ Len(t) = Len(s) + Len(FrameOf(id))
        /\ \A i \in 1 .. Len(s) + Len(FrameOf(id)) :
             t[i] = IF i <= Len(s) THEN s[i] ELSE FrameOf(id)[i - Len(s)]
    BY <1>3, ConcatProperties
  <2> HIDE DEF t
  <2>3. ASSUME NEW i \in 1 .. Len(s) PROVE t[i] = s[i]
    BY <2>1, <2>2, <1>3
  <2>4. ASSUME NEW k \in 1 .. Size(id) PROVE t[Len(s) + k] = FrameOf(id)[k]
    <3>1. Len(s) + k \in 1 .. Len(s) + Len(FrameOf(id)) /\ ~ (Len(s) + k <= Len(s))
          /\ (Len(s) + k) - Len(s) = k
      BY <2>1, <1>3
    <3> QED
      BY <3>1, <2>2
  <2> QED
    BY <2>1, <2>2, <2>3, <2>4, <1>3
<1>5. /\ p \in Seq(Request) /\ Len(p) = Len(q) + 1 /\ Len(q) \in Nat
      /\ \A j \in 1 .. Len(q) : p[j] = q[j]
      /\ p[Len(q) + 1] = id
  BY AppendProperties
<1>6. \A j \in m .. Len(q) : Size(q[j]) \in Nat \ {0}
  BY Sizes, ElementOfSeq
<1> HIDE DEF t, p
<1> DEFINE new == [j \in m .. Len(q) + 2 |-> IF j = Len(q) + 2 THEN Len(t) ELSE off[j]]
<1>7. /\ off \in [m .. Len(q) + 1 -> Nat] /\ off[m] = 0 /\ off[Len(q) + 1] = Len(s)
      /\ \A j \in m .. Len(q) : off[j + 1] = off[j] + Size(q[j])
      /\ \A i, j \in m .. Len(q) + 1 : i < j => off[i] + Size(q[i]) <= off[j]
      /\ \A j \in m .. Len(q) : \A k \in 1 .. Size(q[j]) : s[off[j] + k] = FrameOf(q[j])[k]
  BY <1>1 DEF Offsets
<1>8. /\ new \in [m .. Len(p) + 1 -> Nat]
      /\ \A j \in m .. Len(q) + 1 : new[j] = off[j]
      /\ new[Len(q) + 2] = Len(t)
  BY <1>4, <1>5, <1>7
<1> HIDE DEF new
<1>9. ASSUME NEW j \in m .. Len(p)
      PROVE  new[j + 1] = new[j] + Size(p[j])
  <2>1. CASE j = Len(q) + 1
    <3>1. new[j + 1] = Len(t) /\ new[j] = Len(s) /\ p[j] = id
      BY <2>1, <1>5, <1>7, <1>8
    <3> QED
      BY <3>1, <1>4
  <2>2. CASE j <= Len(q)
    <3>1. j \in m .. Len(q) /\ j \in m .. Len(q) + 1 /\ j + 1 \in m .. Len(q) + 1 /\ j \in 1 .. Len(q)
      BY <2>2, <1>5
    <3> QED
      BY <3>1, <1>5, <1>7, <1>8
  <2> QED
    BY <2>1, <2>2, <1>5
<1>10. \A i, j \in m .. Len(p) + 1 : i < j => new[i] + Size(p[i]) <= new[j]
  <2> SUFFICES ASSUME NEW i \in m .. Len(p) + 1, NEW j \in m .. Len(p) + 1, i < j
               PROVE  new[i] + Size(p[i]) <= new[j]
    OBVIOUS
  <2>1. CASE i = Len(q) + 1
    <3>1. j = Len(q) + 2 /\ i \in m .. Len(q) + 1
      BY <2>1, <1>5
    <3>2. new[j] = Len(t) /\ new[i] = Len(s) /\ p[i] = id
      BY <3>1, <2>1, <1>5, <1>7, <1>8
    <3>3. Len(s) \in Nat
      OBVIOUS
    <3> QED
      BY <3>2, <3>3, <1>2, <1>4
  <2>2. CASE i <= Len(q)
    <3>1. i \in m .. Len(q) /\ i \in m .. Len(q) + 1 /\ i \in 1 .. Len(q)
      BY <2>2, <1>5
    <3>2. Size(q[i]) \in Nat /\ off[i] \in Nat /\ new[i] = off[i] /\ p[i] = q[i]
      BY <3>1, <1>5, <1>6, <1>7, <1>8
    <3>3. CASE j \in m .. Len(q) + 1
      BY <3>1, <3>2, <3>3, <1>7, <1>8
    <3>4. CASE j = Len(q) + 2
      <4>1. Len(q) + 1 \in m .. Len(q) + 1 /\ i < Len(q) + 1
        BY <3>1, <1>5
      <4>2. off[i] + Size(q[i]) <= Len(s)
        BY <4>1, <3>1, <1>7
      <4>3. new[j] = Len(s) + Size(id) /\ Len(s) \in Nat /\ Size(id) \in Nat
        BY <3>4, <1>2, <1>4, <1>8
      <4> QED
        BY <4>2, <4>3, <3>2
    <3> QED
      BY <3>3, <3>4, <1>5
  <2> QED
    BY <2>1, <2>2, <1>5
<1>11. \A j \in m .. Len(p) : \A k \in 1 .. Size(p[j]) : t[new[j] + k] = FrameOf(p[j])[k]
  <2> SUFFICES ASSUME NEW j \in m .. Len(p), NEW k \in 1 .. Size(p[j])
               PROVE  t[new[j] + k] = FrameOf(p[j])[k]
    OBVIOUS
  <2>1. CASE j = Len(q) + 1
    <3>1. new[j] = Len(s) /\ p[j] = id
      BY <2>1, <1>5, <1>7, <1>8
    <3> QED
      BY <3>1, <1>4
  <2>2. CASE j <= Len(q)
    <3>1. /\ p[j] = q[j] /\ new[j] = off[j] /\ off[j] \in Nat /\ Size(q[j]) \in Nat
          /\ k \in 1 .. Size(q[j])
      BY <2>2, <1>5, <1>6, <1>7, <1>8
    <3>2. off[j] + Size(q[j]) <= Len(s)
      BY <2>2, <1>5, <1>7
    <3>3. off[j] + k \in 1 .. Len(s)
      BY <3>1, <3>2
    <3>4. s[off[j] + k] = FrameOf(q[j])[k]
      BY <3>1, <2>2, <1>7, <1>5
    <3> QED
      BY <3>1, <3>3, <3>4, <1>4
  <2> QED
    BY <2>1, <2>2, <1>5
<1>12. Offsets(new, t, p, m)
  BY <1>5, <1>7, <1>8, <1>9, <1>10, <1>11 DEF Offsets
<1> QED
  BY <1>12 DEF Carries, t, p

(* Bytes that have come begin with the first frame.                        *)
LEMMA CarriesFirst ==
  ASSUME NEW s \in Seq(Byte), NEW q \in Seq(Request), NEW m \in 1 .. Len(q) + 1,
         Carries(s, q, m), s # <<>>
  PROVE  /\ m <= Len(q)
         /\ Size(q[m]) <= Len(s)
         /\ \A k \in 1 .. Size(q[m]) : s[k] = FrameOf(q[m])[k]
<1>1. PICK off : Offsets(off, s, q, m)
  BY DEF Carries
<1>2. Len(s) \in Nat \ {0} /\ Len(q) \in Nat
  BY EmptySeq
<1>3. m <= Len(q)
  BY <1>1, <1>2 DEF Offsets
<1>4. q[m] \in Request /\ Size(q[m]) \in Nat
  BY <1>3, Sizes, ElementOfSeq
<1>5. Size(q[m]) <= Len(s)
  <2>1. off[m] + Size(q[m]) <= off[Len(q) + 1]
    BY <1>1, <1>2, <1>3 DEF Offsets
  <2> QED
    BY <2>1, <1>1, <1>4 DEF Offsets
<1>6. ASSUME NEW k \in 1 .. Size(q[m])
      PROVE  s[k] = FrameOf(q[m])[k]
  <2>1. m \in m .. Len(q)
    BY <1>2, <1>3
  <2>2. off[m] = 0 /\ s[off[m] + k] = FrameOf(q[m])[k]
    BY <1>1, <2>1 DEF Offsets
  <2> QED
    BY <2>2, <1>4
<1> QED
  BY <1>3, <1>5, <1>6

(* What is behind the first frame carries the others.                      *)
LEMMA CarriesRest ==
  ASSUME NEW s \in Seq(Byte), NEW q \in Seq(Request), NEW m \in 1 .. Len(q),
         Carries(s, q, m)
  PROVE  Carries(SubSeq(s, Size(q[m]) + 1, Len(s)), q, m + 1)
<1> DEFINE z == Size(q[m])
           t == SubSeq(s, z + 1, Len(s))
<1>1. PICK off : Offsets(off, s, q, m)
  BY DEF Carries
<1>2. Len(s) \in Nat /\ Len(q) \in Nat /\ z \in Nat \ {0}
  BY Sizes, ElementOfSeq
<1>3. \A j \in m .. Len(q) : Size(q[j]) \in Nat \ {0}
  BY Sizes, ElementOfSeq
<1> HIDE DEF z
<1>4. /\ off \in [m .. Len(q) + 1 -> Nat] /\ off[m] = 0 /\ off[Len(q) + 1] = Len(s)
      /\ \A j \in m .. Len(q) : off[j + 1] = off[j] + Size(q[j])
      /\ \A i, j \in m .. Len(q) + 1 : i < j => off[i] + Size(q[i]) <= off[j]
      /\ \A j \in m .. Len(q) : \A k \in 1 .. Size(q[j]) : s[off[j] + k] = FrameOf(q[j])[k]
  BY <1>1 DEF Offsets
<1>5. \A j \in m + 1 .. Len(q) + 1 : off[j] \in Nat /\ z <= off[j]
  <2> SUFFICES ASSUME NEW j \in m + 1 .. Len(q) + 1
               PROVE  off[j] \in Nat /\ z <= off[j]
    OBVIOUS
  <2>1. off[m] + Size(q[m]) <= off[j]
    BY <1>2, <1>4
  <2> QED
    BY <2>1, <1>2, <1>4 DEF z
<1>6. z <= Len(s)
  BY <1>2, <1>4, <1>5
<1>7. /\ t \in Seq(Byte) /\ Len(t) = Len(s) - z
      /\ \A i \in 1 .. Len(s) - z : t[i] = s[z + i]
  <2>1. \A i \in z + 1 .. Len(s) : s[i] \in Byte
    BY <1>2, ElementOfSeq
  <2>2. /\ t \in Seq(Byte)
        /\ Len(t) = IF z + 1 <= Len(s) THEN Len(s) - (z + 1) + 1 ELSE 0
        /\ \A i \in 1 .. Len(s) - (z + 1) + 1 : t[i] = s[z + 1 + i - 1]
    BY <2>1, <1>2, SubSeqProperties
  <2> HIDE DEF t
  <2> QED
    BY <2>2, <1>2, <1>6
<1> HIDE DEF t
<1> DEFINE new == [j \in m + 1 .. Len(q) + 1 |-> off[j] - z]
<1>8. new \in [m + 1 .. Len(q) + 1 -> Nat]
  BY <1>2, <1>5
<1>9. \A j \in m + 1 .. Len(q) + 1 : new[j] = off[j] - z
  OBVIOUS
<1> HIDE DEF new
<1>10. new[m + 1] = 0 /\ new[Len(q) + 1] = Len(t)
  <2>1. off[m + 1] = z
    BY <1>2, <1>4 DEF z
  <2> QED
    BY <2>1, <1>2, <1>4, <1>7, <1>9
<1>11. \A j \in m + 1 .. Len(q) : new[j + 1] = new[j] + Size(q[j])
  <2> SUFFICES ASSUME NEW j \in m + 1 .. Len(q)
               PROVE  new[j + 1] = new[j] + Size(q[j])
    OBVIOUS
  <2>1. off[j + 1] = off[j] + Size(q[j]) /\ Size(q[j]) \in Nat /\ off[j] \in Nat
    BY <1>2, <1>3, <1>4, <1>5
  <2> QED
    BY <2>1, <1>2, <1>9
<1>12. \A i, j \in m + 1 .. Len(q) + 1 : i < j => new[i] + Size(q[i]) <= new[j]
  <2> SUFFICES ASSUME NEW i \in m + 1 .. Len(q) + 1, NEW j \in m + 1 .. Len(q) + 1, i < j
               PROVE  new[i] + Size(q[i]) <= new[j]
    OBVIOUS
  <2>1. off[i] + Size(q[i]) <= off[j] /\ Size(q[i]) \in Nat /\ off[i] \in Nat /\ off[j] \in Nat
    BY <1>2, <1>3, <1>4, <1>5
  <2> QED
    BY <2>1, <1>2, <1>9
<1>13. \A j \in m + 1 .. Len(q) : \A k \in 1 .. Size(q[j]) : t[new[j] + k] = FrameOf(q[j])[k]
  <2> SUFFICES ASSUME NEW j \in m + 1 .. Len(q), NEW k \in 1 .. Size(q[j])
               PROVE  t[new[j] + k] = FrameOf(q[j])[k]
    OBVIOUS
  <2>1. /\ s[off[j] + k] = FrameOf(q[j])[k] /\ Size(q[j]) \in Nat
        /\ off[j] \in Nat /\ z <= off[j]
    BY <1>2, <1>3, <1>4, <1>5
  <2>2. off[j] + Size(q[j]) <= Len(s)
    <3>1. j \in m .. Len(q) + 1 /\ Len(q) + 1 \in m .. Len(q) + 1 /\ j < Len(q) + 1
      BY <1>2
    <3> QED
      BY <3>1, <1>4
  <2>3. new[j] = off[j] - z
    BY <1>2, <1>9
  <2>4. new[j] + k \in 1 .. Len(s) - z /\ z + (new[j] + k) = off[j] + k
    BY <2>1, <2>2, <2>3, <1>2
  <2> QED
    BY <2>1, <2>4, <1>7
<1>14. Offsets(new, t, q, m + 1)
    BY <1>8, <1>10, <1>11, <1>12, <1>13 DEF Offsets
<1> QED
  BY <1>14 DEF Carries, t, z

-----------------------------------------------------------------------------
(* Datagrams.                                                              *)

Datagrams ==
  [from : {"device", "elsewhere"},
   frame : {Frame(id, n) : id \in Nat, n \in Nat \ {0}}]

Sent(id) == [from |-> "device", frame |-> FrameOf(id)]

(* at says where in w the answers of q are, from the m-th on: in order, and *)
(* whatever else is in w is from elsewhere.                                *)
Places(at, w, q, m) ==
  /\ at \in [m .. Len(q) -> 1 .. Len(w)]
  /\ \A i, j \in m .. Len(q) : i < j => at[i] < at[j]
  /\ \A j \in m .. Len(q) : w[at[j]] = Sent(q[j])
  /\ \A i \in 1 .. Len(w) : w[i].from = "device" => \E j \in m .. Len(q) : at[j] = i

Holds(w, q, m) == \E at : Places(at, w, q, m)

LEMMA HoldsMore ==
  ASSUME NEW w \in Seq(Datagrams), NEW q \in Seq(Request), NEW m \in 1 .. Len(q) + 1,
         NEW id \in Request, Holds(w, q, m)
  PROVE  Holds(Append(w, Sent(id)), Append(q, id), m)
<1> DEFINE v == Append(w, Sent(id))
           p == Append(q, id)
<1>1. PICK at : Places(at, w, q, m)
  BY DEF Holds
<1>2. Sent(id) \in Datagrams
  <2>1. id \in Nat /\ Body[id] \in Nat \ {0}
    BY Sizes
  <2>2. FrameOf(id) \in {Frame(i, n) : i \in Nat, n \in Nat \ {0}}
    BY <2>1 DEF FrameOf
  <2> QED
    BY <2>2 DEF Sent, Datagrams
<1>3. /\ Len(v) = Len(w) + 1 /\ Len(w) \in Nat
      /\ \A i \in 1 .. Len(w) : v[i] = w[i]
      /\ v[Len(w) + 1] = Sent(id)
  BY <1>2, AppendProperties
<1>4. /\ Len(p) = Len(q) + 1 /\ Len(q) \in Nat
      /\ \A j \in 1 .. Len(q) : p[j] = q[j]
      /\ p[Len(q) + 1] = id
  BY AppendProperties
<1>5. /\ at \in [m .. Len(q) -> 1 .. Len(w)]
      /\ \A i, j \in m .. Len(q) : i < j => at[i] < at[j]
      /\ \A j \in m .. Len(q) : w[at[j]] = Sent(q[j])
      /\ \A i \in 1 .. Len(w) : w[i].from = "device" => \E j \in m .. Len(q) : at[j] = i
  BY <1>1 DEF Places
<1> HIDE DEF v, p
<1> DEFINE new == [j \in m .. Len(q) + 1 |-> IF j = Len(q) + 1 THEN Len(w) + 1 ELSE at[j]]
<1>6. /\ new \in [m .. Len(q) + 1 -> 1 .. Len(w) + 1]
      /\ \A j \in m .. Len(q) : new[j] = at[j]
      /\ new[Len(q) + 1] = Len(w) + 1
  BY <1>3, <1>4, <1>5
<1> HIDE DEF new
<1>7. \A i, j \in m .. Len(q) + 1 : i < j => new[i] < new[j]
  <2> SUFFICES ASSUME NEW i \in m .. Len(q) + 1, NEW j \in m .. Len(q) + 1, i < j
               PROVE  new[i] < new[j]
    OBVIOUS
  <2>1. i \in m .. Len(q) /\ at[i] \in 1 .. Len(w) /\ new[i] = at[i]
    BY <1>4, <1>5, <1>6
  <2>2. CASE j = Len(q) + 1
    BY <2>1, <2>2, <1>3, <1>6
  <2>3. CASE j \in m .. Len(q)
    BY <2>1, <2>3, <1>5, <1>6
  <2> QED
    BY <2>2, <2>3, <1>4
<1>8. \A j \in m .. Len(q) + 1 : v[new[j]] = Sent(p[j])
  <2> SUFFICES ASSUME NEW j \in m .. Len(q) + 1
               PROVE  v[new[j]] = Sent(p[j])
    OBVIOUS
  <2>1. CASE j = Len(q) + 1
    BY <2>1, <1>3, <1>4, <1>6
  <2>2. CASE j \in m .. Len(q)
    <3>1. at[j] \in 1 .. Len(w) /\ new[j] = at[j] /\ w[at[j]] = Sent(q[j]) /\ p[j] = q[j]
      BY <2>2, <1>4, <1>5, <1>6
    <3> QED
      BY <3>1, <1>3
  <2> QED
    BY <2>1, <2>2, <1>4
<1>9. \A i \in 1 .. Len(w) + 1 : v[i].from = "device" => \E j \in m .. Len(q) + 1 : new[j] = i
  <2> SUFFICES ASSUME NEW i \in 1 .. Len(w) + 1, v[i].from = "device"
               PROVE  \E j \in m .. Len(q) + 1 : new[j] = i
    OBVIOUS
  <2>1. CASE i = Len(w) + 1
    <3>1. Len(q) + 1 \in m .. Len(q) + 1
      BY <1>4
    <3> QED
      BY <3>1, <2>1, <1>6
  <2>2. CASE i \in 1 .. Len(w)
    <3>1. PICK j \in m .. Len(q) : at[j] = i
      BY <2>2, <1>3, <1>5
    <3>2. j \in m .. Len(q) + 1 /\ new[j] = i
      BY <3>1, <1>4, <1>6
    <3> QED
      BY <3>2
  <2> QED
    BY <2>1, <2>2, <1>3
<1>10. Places(new, v, p, m)
  BY <1>3, <1>4, <1>6, <1>7, <1>8, <1>9 DEF Places
<1> QED
  BY <1>10 DEF Holds, v, p

LEMMA HoldsForeign ==
  ASSUME NEW w \in Seq(Datagrams), NEW q \in Seq(Request), NEW m \in 1 .. Len(q) + 1,
         NEW d \in Datagrams, d.from = "elsewhere", Holds(w, q, m)
  PROVE  Holds(Append(w, d), q, m)
<1> DEFINE v == Append(w, d)
<1>1. PICK at : Places(at, w, q, m)
  BY DEF Holds
<1>2. /\ Len(v) = Len(w) + 1 /\ Len(w) \in Nat
      /\ \A i \in 1 .. Len(w) : v[i] = w[i]
      /\ v[Len(w) + 1] = d
  BY AppendProperties
<1> HIDE DEF v
<1>3. /\ at \in [m .. Len(q) -> 1 .. Len(w)]
      /\ \A i, j \in m .. Len(q) : i < j => at[i] < at[j]
      /\ \A j \in m .. Len(q) : w[at[j]] = Sent(q[j])
      /\ \A i \in 1 .. Len(w) : w[i].from = "device" => \E j \in m .. Len(q) : at[j] = i
  BY <1>1 DEF Places
<1>4. at \in [m .. Len(q) -> 1 .. Len(v)]
  BY <1>2, <1>3
<1>5. \A j \in m .. Len(q) : v[at[j]] = Sent(q[j])
  <2> SUFFICES ASSUME NEW j \in m .. Len(q)
               PROVE  v[at[j]] = Sent(q[j])
    OBVIOUS
  <2>1. at[j] \in 1 .. Len(w) /\ w[at[j]] = Sent(q[j])
    BY <1>3
  <2> QED
    BY <2>1, <1>2
<1>6. \A i \in 1 .. Len(v) : v[i].from = "device" => \E j \in m .. Len(q) : at[j] = i
  <2> SUFFICES ASSUME NEW i \in 1 .. Len(v), v[i].from = "device"
               PROVE  \E j \in m .. Len(q) : at[j] = i
    OBVIOUS
  <2>1. i # Len(w) + 1
    BY <1>2
  <2> QED
    BY <2>1, <1>2, <1>3
<1>7. Places(at, v, q, m)
  BY <1>3, <1>4, <1>5, <1>6 DEF Places
<1> QED
  BY <1>7 DEF Holds, v

(* The first datagram of the device is the first answer.                   *)
LEMMA HoldsFirst ==
  ASSUME NEW w \in Seq(Datagrams), NEW q \in Seq(Request), NEW m \in 1 .. Len(q) + 1,
         Holds(w, q, m), w # <<>>, Head(w).from = "device"
  PROVE  m <= Len(q) /\ Head(w) = Sent(q[m]) /\ Holds(Tail(w), q, m + 1)
<1> DEFINE v == Tail(w)
<1>1. PICK at : Places(at, w, q, m)
  BY DEF Holds
<1>2. /\ at \in [m .. Len(q) -> 1 .. Len(w)]
      /\ \A i, j \in m .. Len(q) : i < j => at[i] < at[j]
      /\ \A j \in m .. Len(q) : w[at[j]] = Sent(q[j])
      /\ \A i \in 1 .. Len(w) : w[i].from = "device" => \E j \in m .. Len(q) : at[j] = i
  BY <1>1 DEF Places
<1>3. /\ Len(w) \in Nat \ {0} /\ Len(q) \in Nat /\ Head(w) = w[1]
      /\ Len(v) = Len(w) - 1
      /\ \A i \in 1 .. Len(v) : v[i] = w[i + 1]
  BY HeadTailProperties, EmptySeq
<1> HIDE DEF v
<1>4. PICK f \in m .. Len(q) : at[f] = 1
  BY <1>2, <1>3
<1>5. m \in m .. Len(q) /\ m <= Len(q)
  BY <1>3, <1>4
<1>6. f = m
  <2> SUFFICES ASSUME m < f PROVE FALSE
    BY <1>4
  <2>1. at[m] < at[f] /\ at[m] \in 1 .. Len(w)
    BY <1>2, <1>4, <1>5
  <2> QED
    BY <2>1, <1>3, <1>4
<1>7. Head(w) = Sent(q[m])
  BY <1>2, <1>3, <1>4, <1>6
<1>8. \A j \in m + 1 .. Len(q) : at[j] \in 2 .. Len(w)
  <2> SUFFICES ASSUME NEW j \in m + 1 .. Len(q)
               PROVE  at[j] \in 2 .. Len(w)
    OBVIOUS
  <2>1. j \in m .. Len(q) /\ m < j
    BY <1>3
  <2>2. at[m] < at[j] /\ at[j] \in 1 .. Len(w) /\ at[m] = 1
    BY <2>1, <1>2, <1>4, <1>5, <1>6
  <2> QED
    BY <2>2, <1>3
<1> DEFINE new == [j \in m + 1 .. Len(q) |-> at[j] - 1]
<1>9. new \in [m + 1 .. Len(q) -> 1 .. Len(v)]
  BY <1>3, <1>8
<1>10. \A j \in m + 1 .. Len(q) : new[j] = at[j] - 1
  OBVIOUS
<1> HIDE DEF new
<1>11. \A i, j \in m + 1 .. Len(q) : i < j => new[i] < new[j]
  <2> SUFFICES ASSUME NEW i \in m + 1 .. Len(q), NEW j \in m + 1 .. Len(q), i < j
               PROVE  new[i] < new[j]
    OBVIOUS
  <2>1. at[i] < at[j] /\ at[i] \in 2 .. Len(w) /\ at[j] \in 2 .. Len(w)
    BY <1>2, <1>3, <1>8
  <2> QED
    BY <2>1, <1>3, <1>10
<1>12. \A j \in m + 1 .. Len(q) : v[new[j]] = Sent(q[j])
  <2> SUFFICES ASSUME NEW j \in m + 1 .. Len(q)
               PROVE  v[new[j]] = Sent(q[j])
    OBVIOUS
  <2>1. /\ j \in m .. Len(q) /\ at[j] \in 2 .. Len(w)
    BY <1>3, <1>8
  <2>2. new[j] = at[j] - 1
    BY <1>10
  <2>3. new[j] \in 1 .. Len(v) /\ new[j] + 1 = at[j]
    BY <2>1, <2>2, <1>3
  <2>4. v[new[j]] = w[at[j]]
    BY <2>3, <1>3
  <2> QED
    BY <2>1, <2>4, <1>2
<1>13. \A i \in 1 .. Len(v) : v[i].from = "device" => \E j \in m + 1 .. Len(q) : new[j] = i
  <2> SUFFICES ASSUME NEW i \in 1 .. Len(v), v[i].from = "device"
               PROVE  \E j \in m + 1 .. Len(q) : new[j] = i
    OBVIOUS
  <2>1. i + 1 \in 1 .. Len(w) /\ w[i + 1].from = "device"
    BY <1>3
  <2>2. PICK j \in m .. Len(q) : at[j] = i + 1
    BY <2>1, <1>2
  <2>3. j # m
    BY <2>2, <1>4, <1>6
  <2>4. j \in m + 1 .. Len(q)
    BY <2>2, <2>3, <1>3
  <2>5. new[j] = i
    BY <2>2, <2>4, <1>10
  <2> QED
    BY <2>4, <2>5
<1>14. Places(new, v, q, m + 1)
  BY <1>9, <1>11, <1>12, <1>13 DEF Places
<1> QED
  BY <1>5, <1>7, <1>14 DEF Holds, v

-----------------------------------------------------------------------------
(* The inductive invariant.                                                *)

Wholes == {Whole(id) : id \in Request}

ReaderTypes ==
  /\ transp \in {"TCP", "UDP"}
  /\ idtran \in Nat /\ foreign \in Nat
  /\ sent \in Seq(Request)
  /\ resp \in Seq(Byte)
  /\ reading \in BOOLEAN
  /\ taken \in Seq(Wholes)
  /\ heard \in Seq([f : Wholes, to : Nat])
  /\ transp = "TCP" => wire \in Seq(Byte)
  /\ transp = "UDP" => wire \in Seq(Datagrams)

TakenOK ==
  /\ Len(taken) <= Len(sent)
  /\ \A j \in 1 .. Len(taken) : taken[j] = Whole(sent[j])

(* A request is answered once, and what was heard was taken.               *)
HeardOK ==
  /\ \A i, j \in 1 .. Len(sent) : sent[i] = sent[j] => i = j
  /\ \A j \in 1 .. Len(heard) :
       heard[j].to <= idtran /\ \E i \in 1 .. Len(taken) : sent[i] = heard[j].to
  /\ \A j, k \in 1 .. Len(heard) : j < k => heard[j].to < heard[k].to

(* What has come and what is on its way are the frames not yet taken.      *)
TcpOK == transp = "TCP" => Carries(resp \o wire, sent, Len(taken) + 1)

(* A datagram from elsewhere is in front: nothing is taken any more.       *)
Blocked ==
  /\ Len(resp) > Hdr
  /\ Len(resp) >= Hdr + resp[Hdr].len
  /\ reading => Len(resp) > Hdr + resp[Hdr].len

UdpOK ==
  transp = "UDP" =>
    \/ Blocked
    \/ resp = <<>> /\ Holds(wire, sent, Len(taken) + 1)
    \/ /\ reading /\ Len(taken) < Len(sent)
       /\ resp = FrameOf(sent[Len(taken) + 1])
       /\ Holds(wire, sent, Len(taken) + 2)

ReaderInv == ReaderTypes /\ TakenOK /\ HeardOK /\ TcpOK /\ UdpOK

LEMMA InitInv == Init => ReaderInv
<1> SUFFICES ASSUME Init PROVE ReaderInv
  OBVIOUS
<1>1. ReaderTypes
  <2>1. \A S : <<>> \in Seq(S)
    BY EmptySeq
  <2>2. /\ sent = <<>> /\ resp = <<>> /\ taken = <<>> /\ heard = <<>> /\ wire = <<>>
        /\ transp \in Transports /\ idtran = 0 /\ foreign = 0 /\ reading = FALSE
    BY DEF Init
  <2>3. /\ sent \in Seq(Request) /\ resp \in Seq(Byte) /\ taken \in Seq(Wholes)
        /\ heard \in Seq([f : Wholes, to : Nat])
        /\ wire \in Seq(Byte) /\ wire \in Seq(Datagrams)
    BY <2>1, <2>2, Zenon
  <2> QED
    BY <2>2, <2>3, FrameReaderAssumption DEF ReaderTypes
<1>2. TakenOK /\ HeardOK
  <2>1. Len(taken) = 0 /\ Len(sent) = 0 /\ Len(heard) = 0
    BY DEF Init
  <2> QED
    BY <2>1 DEF TakenOK, HeardOK
<1>3. TcpOK
  <2> DEFINE off == [j \in 1 .. 1 |-> 0]
  <2>1. Offsets(off, <<>>, <<>>, 1)
    BY DEF Offsets
  <2>2. resp \o wire = <<>> /\ sent = <<>> /\ Len(taken) + 1 = 1
    BY DEF Init
  <2> QED
    BY <2>1, <2>2 DEF TcpOK, Carries
<1>4. UdpOK
  <2> DEFINE at == [j \in 1 .. 0 |-> 0]
  <2>1. Places(at, <<>>, <<>>, 1)
    BY DEF Places
  <2>2. resp = <<>> /\ wire = <<>> /\ sent = <<>> /\ Len(taken) + 1 = 1
    BY DEF Init
  <2> QED
    BY <2>1, <2>2 DEF UdpOK, Holds
<1> QED
  BY <1>1, <1>2, <1>3, <1>4 DEF ReaderInv

(* The types of lengths, for the arithmetic of the steps.                  *)
LEMMA Lengths ==
  ASSUME ReaderInv
  PROVE  /\ Hdr \in Nat \ {0}
         /\ Len(taken) \in Nat /\ Len(sent) \in Nat /\ Len(resp) \in Nat
         /\ Len(taken) <= Len(sent)
         /\ Len(taken) + 1 \in 1 .. Len(sent) + 1
         /\ Len(taken) < Len(sent) => Len(taken) + 2 \in 1 .. Len(sent) + 1
BY FrameReaderAssumption DEF ReaderInv, ReaderTypes, TakenOK

(* A frame at the front of resp is what the loop makes of it.              *)
LEMMA FrontIsWhole ==
  ASSUME NEW id \in Request, resp \in Seq(Byte), Size(id) <= Len(resp),
         \A k \in 1 .. Size(id) : resp[k] = FrameOf(id)[k]
  PROVE  /\ resp[Hdr].len = Body[id]
         /\ [id |-> resp[1].id, body |-> SubSeq(resp, Hdr + 1, Hdr + Body[id])] = Whole(id)
<1>1. id \in Nat /\ Body[id] \in Nat \ {0} /\ Hdr \in Nat \ {0} /\ Size(id) = Hdr + Body[id]
      /\ Len(resp) \in Nat
  BY Sizes, FrameReaderAssumption DEF Size
<1>2. \A k \in 1 .. Size(id) :
        FrameOf(id)[k] \in Byte /\ FrameOf(id)[k].id = id /\ FrameOf(id)[k].len = Body[id]
  BY FrameOfIs
<1>3. resp[Hdr].len = Body[id] /\ resp[1].id = id
  <2>1. Hdr \in 1 .. Size(id) /\ 1 \in 1 .. Size(id)
    BY <1>1
  <2> QED
    BY <2>1, <1>2
<1>4. SubSeq(resp, Hdr + 1, Hdr + Body[id]) = SubSeq(FrameOf(id), Hdr + 1, Hdr + Body[id])
  <2> DEFINE x == SubSeq(resp, Hdr + 1, Hdr + Body[id])
             y == SubSeq(FrameOf(id), Hdr + 1, Hdr + Body[id])
  <2>1. \A i \in Hdr + 1 .. Hdr + Body[id] :
          i \in 1 .. Size(id) /\ resp[i] = FrameOf(id)[i] /\ FrameOf(id)[i] \in Byte
    <3> SUFFICES ASSUME NEW i \in Hdr + 1 .. Hdr + Body[id]
                 PROVE  i \in 1 .. Size(id) /\ resp[i] = FrameOf(id)[i] /\ FrameOf(id)[i] \in Byte
      OBVIOUS
    <3>1. i \in 1 .. Size(id)
      BY <1>1
    <3> QED
      BY <3>1, <1>2
  <2>2. /\ x \in Seq(Byte) /\ Len(x) = Body[id]
        /\ \A i \in 1 .. Body[id] : x[i] = resp[Hdr + 1 + i - 1]
    <3>1. /\ x \in Seq(Byte)
          /\ Len(x) = IF Hdr + 1 <= Hdr + Body[id] THEN Hdr + Body[id] - (Hdr + 1) + 1 ELSE 0
          /\ \A i \in 1 .. Hdr + Body[id] - (Hdr + 1) + 1 : x[i] = resp[Hdr + 1 + i - 1]
      BY <2>1, <1>1, SubSeqProperties
    <3> HIDE DEF x
    <3> QED
      BY <3>1, <1>1
  <2>3. /\ y \in Seq(Byte) /\ Len(y) = Body[id]
        /\ \A i \in 1 .. Body[id] : y[i] = FrameOf(id)[Hdr + 1 + i - 1]
    <3>1. /\ y \in Seq(Byte)
          /\ Len(y) = IF Hdr + 1 <= Hdr + Body[id] THEN Hdr + Body[id] - (Hdr + 1) + 1 ELSE 0
          /\ \A i \in 1 .. Hdr + Body[id] - (Hdr + 1) + 1 : y[i] = FrameOf(id)[Hdr + 1 + i - 1]
      BY <2>1, <1>1, SubSeqProperties
    <3> HIDE DEF y
    <3> QED
      BY <3>1, <1>1
  <2> HIDE DEF x, y
  <2>4. \A i \in 1 .. Body[id] : x[i] = y[i]
    <3> SUFFICES ASSUME NEW i \in 1 .. Body[id] PROVE x[i] = y[i]
      OBVIOUS
    <3>1. Hdr + 1 + i - 1 \in Hdr + 1 .. Hdr + Body[id]
      BY <1>1
    <3> QED
      BY <3>1, <2>1, <2>2, <2>3
  <2>5. x = y
    BY <2>2, <2>3, <2>4, SeqEqual
  <2> QED
    BY <2>5 DEF x, y
<1> QED
  BY <1>3, <1>4 DEF Whole

(* What a turn of the loop takes is the next frame that was sent.          *)
LEMMA TakesNext ==
  ASSUME ReaderInv, Take
  PROVE  /\ Len(taken) < Len(sent)
         /\ Size(sent[Len(taken) + 1]) <= Len(resp)
         /\ resp[Hdr].len = Body[sent[Len(taken) + 1]]
         /\ taken' = Append(taken, Whole(sent[Len(taken) + 1]))
         /\ resp' = SubSeq(resp, Size(sent[Len(taken) + 1]) + 1, Len(resp))
         /\ heard' = IF sent[Len(taken) + 1] = idtran
                     THEN Append(heard, [f |-> Whole(sent[Len(taken) + 1]), to |-> idtran])
                     ELSE heard
         /\ transp = "UDP" =>
              resp = FrameOf(sent[Len(taken) + 1]) /\ Holds(wire, sent, Len(taken) + 2)
<1> DEFINE id == sent[Len(taken) + 1]
<1>1. /\ reading /\ Len(resp) > Hdr /\ Complete(resp[Hdr].len)
      /\ resp \in Seq(Byte) /\ sent \in Seq(Request) /\ transp \in {"TCP", "UDP"}
      /\ TcpOK /\ UdpOK
  BY DEF Take, ReaderInv, ReaderTypes
<1>2. /\ Hdr \in Nat \ {0} /\ Len(taken) \in Nat /\ Len(sent) \in Nat /\ Len(resp) \in Nat
      /\ Len(taken) + 1 \in 1 .. Len(sent) + 1
  BY Lengths
<1>3. /\ Len(taken) < Len(sent)
      /\ Size(id) <= Len(resp)
      /\ \A k \in 1 .. Size(id) : resp[k] = FrameOf(id)[k]
      /\ transp = "UDP" =>
           resp = FrameOf(id) /\ Holds(wire, sent, Len(taken) + 2)
  <2>1. CASE transp = "TCP"
    <3> DEFINE s == resp \o wire
    <3>1. wire \in Seq(Byte)
      BY <2>1 DEF ReaderInv, ReaderTypes
    <3>2. /\ s \in Seq(Byte) /\ Len(s) = Len(resp) + Len(wire)
          /\ \A i \in 1 .. Len(resp) : s[i] = resp[i]
      <4>1. Len(wire) \in Nat
        BY <3>1
      <4>2. /\ s \in Seq(Byte) /\ Len(s) = Len(resp) + Len(wire)
            /\ \A i \in 1 .. Len(resp) + Len(wire) :
                 s[i] = IF i <= Len(resp) THEN resp[i] ELSE wire[i - Len(resp)]
        BY <1>1, <3>1, ConcatProperties
      <4> HIDE DEF s
      <4> QED
        BY <4>1, <4>2, <1>2
    <3>3. Carries(s, sent, Len(taken) + 1)
      BY <2>1, <1>1 DEF TcpOK
    <3> HIDE DEF s
    <3>4. s # <<>>
      BY <3>1, <3>2, <1>1, <1>2
    <3>5. /\ Len(taken) + 1 <= Len(sent) /\ Size(id) <= Len(s)
          /\ \A k \in 1 .. Size(id) : s[k] = FrameOf(id)[k]
      BY <3>2, <3>3, <3>4, <1>1, <1>2, CarriesFirst
    <3>6. id \in Request
      BY <3>5, <1>1, <1>2
    <3>7. id \in Nat /\ Body[id] \in Nat \ {0} /\ Size(id) = Hdr + Body[id]
      BY <3>6, Sizes DEF Size
    <3>8. resp[Hdr].len = Body[id]
      <4>1. Hdr \in 1 .. Size(id) /\ Hdr \in 1 .. Len(resp)
        BY <3>7, <1>1, <1>2
      <4>2. resp[Hdr] = FrameOf(id)[Hdr]
        BY <4>1, <3>2, <3>5
      <4>3. FrameOf(id)[Hdr].len = Body[id]
        BY <4>1, <3>6, FrameOfIs
      <4> QED
        BY <4>2, <4>3
    <3>9. Size(id) <= Len(resp)
      BY <2>1, <3>7, <3>8, <1>1, <1>2 DEF Complete
    <3>10. \A k \in 1 .. Size(id) : resp[k] = FrameOf(id)[k]
      BY <3>2, <3>5, <3>7, <3>9, <1>2
    <3> QED
      BY <2>1, <3>5, <3>9, <3>10, <1>2
  <2>2. CASE transp = "UDP"
    <3>1. resp[Hdr].len >= Len(resp) - Hdr
      BY <2>2, <1>1 DEF Complete
    <3>2. resp[Hdr].len \in Nat
      <4>1. resp[Hdr] \in Byte
        BY <1>1, <1>2, ElementOfSeq
      <4> QED
        BY <4>1 DEF Byte
    <3>3. ~ Blocked /\ resp # <<>>
      BY <3>1, <3>2, <1>1, <1>2 DEF Blocked
    <3>4. Len(taken) < Len(sent) /\ resp = FrameOf(id) /\ Holds(wire, sent, Len(taken) + 2)
      BY <2>2, <3>3, <1>1 DEF UdpOK
    <3>5. id \in Request
      BY <3>4, <1>1, <1>2
    <3>6. Len(FrameOf(id)) = Size(id)
      BY <3>5, Sizes, Frames DEF FrameOf, Size
    <3>7. Size(id) <= Len(resp) /\ \A k \in 1 .. Size(id) : resp[k] = FrameOf(id)[k]
      BY <3>4, <3>6, <1>2
    <3> QED
      BY <3>4, <3>7
  <2> QED
    BY <2>1, <2>2, <1>1
<1>4. id \in Request
  BY <1>1, <1>2, <1>3
<1>5. /\ resp[Hdr].len = Body[id]
      /\ [id |-> resp[1].id, body |-> SubSeq(resp, Hdr + 1, Hdr + Body[id])] = Whole(id)
  BY <1>1, <1>3, <1>4, FrontIsWhole
<1>6. resp[1].id = id
  BY <1>5 DEF Whole
<1> HIDE DEF id
<1>7. /\ taken' = Append(taken, Whole(id))
      /\ resp' = Rest(Body[id])
      /\ heard' = IF Awaited(Whole(id).id)
                  THEN Append(heard, [f |-> Whole(id), to |-> idtran]) ELSE heard
  BY <1>5, <1>6 DEF Take
<1>8. resp' = SubSeq(resp, Size(id) + 1, Len(resp))
  BY <1>7 DEF Rest, Size
<1>9. Whole(id).id = id
  BY DEF Whole
<1> QED
  BY <1>3, <1>5, <1>7, <1>8, <1>9 DEF Awaited, id

-----------------------------------------------------------------------------
(* One lemma for each action.                                              *)

LEMMA SendKeeps ==
  ASSUME ReaderInv, Send
  PROVE  ReaderInv'
<1>1. idtran \in Nat /\ idtran' = idtran + 1
  BY DEF ReaderInv, ReaderTypes, Send
<1>2. UNCHANGED <<transp, sent, wire, foreign, resp, reading, taken, heard>>
  BY DEF Send
<1>3. ReaderTypes'
  BY <1>1, <1>2 DEF ReaderInv, ReaderTypes
<1>4. HeardOK'
  <2>1. heard \in Seq([f : Wholes, to : Nat])
    BY DEF ReaderInv, ReaderTypes
  <2>2. ASSUME NEW j \in 1 .. Len(heard) PROVE heard[j].to <= idtran + 1
    <3>1. heard[j] \in [f : Wholes, to : Nat]
      BY <2>1, ElementOfSeq
    <3>2. heard[j].to \in Nat
      BY <3>1
    <3>3. heard[j].to <= idtran
      BY DEF ReaderInv, HeardOK
    <3> QED
      BY <3>2, <3>3, <1>1
  <2> QED
    BY <1>1, <1>2, <2>2 DEF ReaderInv, HeardOK
<1>5. (TakenOK /\ TcpOK /\ UdpOK)'
  BY <1>2 DEF ReaderInv, TakenOK, TcpOK, UdpOK, Blocked
<1> QED
  BY <1>3, <1>4, <1>5 DEF ReaderInv

LEMMA AnswerKeeps ==
  ASSUME ReaderInv, NEW id \in Request, Answer(id)
  PROVE  ReaderInv'
<1>1. /\ sent' = Append(sent, id) /\ id \notin ToSet(sent)
      /\ UNCHANGED <<transp, idtran, foreign, resp, reading, taken, heard>>
      /\ wire' = IF transp = "TCP" THEN wire \o FrameOf(id) ELSE Append(wire, Sent(id))
  BY DEF Answer, FrameOf, Sent
<1>2. /\ sent \in Seq(Request) /\ resp \in Seq(Byte) /\ transp \in {"TCP", "UDP"}
      /\ Len(taken) \in Nat /\ Len(sent) \in Nat /\ Len(taken) <= Len(sent)
      /\ Len(taken) + 1 \in 1 .. Len(sent) + 1
  BY Lengths DEF ReaderInv, ReaderTypes
<1>3. /\ sent' \in Seq(Request) /\ Len(sent') = Len(sent) + 1
      /\ \A j \in 1 .. Len(sent) : sent'[j] = sent[j]
      /\ sent'[Len(sent) + 1] = id
  BY <1>1, <1>2, AppendProperties
<1>4. FrameOf(id) \in Seq(Byte) /\ Sent(id) \in Datagrams
  <2>1. id \in Nat /\ Body[id] \in Nat \ {0}
    BY Sizes
  <2>2. FrameOf(id) \in {Frame(i, n) : i \in Nat, n \in Nat \ {0}}
    BY <2>1 DEF FrameOf
  <2> QED
    BY <2>2, FrameOfIs DEF Sent, Datagrams
<1>5. ReaderTypes'
  <2>1. transp = "TCP" => wire' \in Seq(Byte)
    BY <1>1, <1>4, ConcatProperties DEF ReaderInv, ReaderTypes
  <2>2. transp = "UDP" => wire' \in Seq(Datagrams)
    BY <1>1, <1>4, AppendProperties DEF ReaderInv, ReaderTypes
  <2> QED
    BY <1>1, <1>3, <2>1, <2>2 DEF ReaderInv, ReaderTypes
<1>6. TakenOK'
  <2>1. ASSUME NEW j \in 1 .. Len(taken) PROVE taken[j] = Whole(sent'[j])
    <3>1. j \in 1 .. Len(sent)
      BY <1>2
    <3> QED
      BY <3>1, <1>3 DEF ReaderInv, TakenOK
  <2>2. Len(taken) <= Len(sent')
    BY <1>2, <1>3
  <2> QED
    BY <1>1, <2>1, <2>2 DEF TakenOK
<1>7. HeardOK'
  <2>1. \A i \in 1 .. Len(sent) : sent[i] # id
    BY <1>1, <1>2 DEF ToSet
  <2>2. ASSUME NEW i \in 1 .. Len(sent'), NEW j \in 1 .. Len(sent'), sent'[i] = sent'[j]
        PROVE  i = j
    <3>1. i \in 1 .. Len(sent) \/ i = Len(sent) + 1
      BY <1>2, <1>3
    <3>2. j \in 1 .. Len(sent) \/ j = Len(sent) + 1
      BY <1>2, <1>3
    <3> QED
      BY <3>1, <3>2, <2>1, <2>2, <1>3 DEF ReaderInv, HeardOK
  <2>3. \A i \in 1 .. Len(taken) : sent'[i] = sent[i]
    BY <1>2, <1>3
  <2>4. ASSUME NEW j \in 1 .. Len(heard)
        PROVE  heard[j].to <= idtran /\ \E i \in 1 .. Len(taken) : sent'[i] = heard[j].to
    <3>1. heard[j].to <= idtran
      BY DEF ReaderInv, HeardOK
    <3>2. PICK i \in 1 .. Len(taken) : sent[i] = heard[j].to
      BY DEF ReaderInv, HeardOK
    <3> QED
      BY <3>1, <3>2, <2>3
  <2>5. \A j, k \in 1 .. Len(heard) : j < k => heard[j].to < heard[k].to
    BY DEF ReaderInv, HeardOK
  <2> QED
    BY <1>1, <2>2, <2>4, <2>5 DEF HeardOK
<1>8. TcpOK'
  <2> SUFFICES ASSUME transp = "TCP"
               PROVE  Carries(resp \o wire', sent', Len(taken) + 1)
    BY <1>1 DEF TcpOK
  <2>1. wire \in Seq(Byte) /\ wire' = wire \o FrameOf(id)
    BY <1>1 DEF ReaderInv, ReaderTypes
  <2>2. resp \o wire' = (resp \o wire) \o FrameOf(id)
    <3>1. (resp \o wire) \o FrameOf(id) = resp \o (wire \o FrameOf(id))
      BY <2>1, <1>2, <1>4, BytesAssociative
    <3> QED
      BY <3>1, <2>1
  <2>3. resp \o wire \in Seq(Byte)
    BY <2>1, <1>2, ConcatProperties
  <2>4. Carries(resp \o wire, sent, Len(taken) + 1)
    BY DEF ReaderInv, TcpOK
  <2>5. Carries((resp \o wire) \o FrameOf(id), Append(sent, id), Len(taken) + 1)
    BY <2>3, <2>4, <1>2, CarriesMore
  <2> QED
    BY <2>2, <2>5, <1>1
<1>9. UdpOK'
  <2> SUFFICES ASSUME transp = "UDP"
               PROVE  \/ Blocked
                      \/ resp = <<>> /\ Holds(wire', sent', Len(taken) + 1)
                      \/ /\ reading /\ Len(taken) < Len(sent')
                         /\ resp = FrameOf(sent'[Len(taken) + 1])
                         /\ Holds(wire', sent', Len(taken) + 2)
    BY <1>1 DEF UdpOK, Blocked
  <2>1. wire \in Seq(Datagrams) /\ wire' = Append(wire, Sent(id))
    BY <1>1 DEF ReaderInv, ReaderTypes
  <2>2. CASE Blocked
    BY <2>2
  <2>3. CASE resp = <<>> /\ Holds(wire, sent, Len(taken) + 1)
    <3>1. Holds(wire', sent', Len(taken) + 1)
      BY <2>1, <2>3, <1>1, <1>2, HoldsMore
    <3> QED
      BY <3>1, <2>3
  <2>4. CASE /\ reading /\ Len(taken) < Len(sent)
             /\ resp = FrameOf(sent[Len(taken) + 1])
             /\ Holds(wire, sent, Len(taken) + 2)
    <3>1. Len(taken) + 2 \in 1 .. Len(sent) + 1 /\ Len(taken) + 1 \in 1 .. Len(sent)
      BY <2>4, <1>2
    <3>2. Holds(wire', sent', Len(taken) + 2)
      BY <3>1, <2>1, <2>4, <1>1, <1>2, HoldsMore
    <3>3. sent'[Len(taken) + 1] = sent[Len(taken) + 1] /\ Len(taken) < Len(sent')
      BY <3>1, <2>4, <1>2, <1>3
    <3> QED
      BY <3>2, <3>3, <2>4
  <2> QED
    BY <2>2, <2>3, <2>4 DEF ReaderInv, UdpOK
<1> QED
  BY <1>5, <1>6, <1>7, <1>8, <1>9 DEF ReaderInv

LEMMA IntrudeKeeps ==
  ASSUME ReaderInv, Intrude
  PROVE  ReaderInv'
<1> DEFINE d == [from |-> "elsewhere", frame |-> Frame(0, Elsewhere[foreign + 1])]
<1>1. /\ transp = "UDP" /\ wire' = Append(wire, d) /\ foreign' = foreign + 1
      /\ foreign + 1 \in DOMAIN Elsewhere
      /\ UNCHANGED <<transp, idtran, sent, resp, reading, taken, heard>>
  BY DEF Intrude
<1>2. d \in Datagrams
  <2>1. Elsewhere[foreign + 1] \in Nat \ {0}
    BY <1>1, FrameReaderAssumption
  <2>2. Frame(0, Elsewhere[foreign + 1]) \in {Frame(i, n) : i \in Nat, n \in Nat \ {0}}
    BY <2>1
  <2> QED
    BY <2>2 DEF Datagrams
<1>3. d.from = "elsewhere"
  OBVIOUS
<1> HIDE DEF d
<1>4. wire \in Seq(Datagrams) /\ foreign \in Nat /\ sent \in Seq(Request)
  BY <1>1 DEF ReaderInv, ReaderTypes
<1>5. wire' \in Seq(Datagrams)
  BY <1>1, <1>2, <1>4, AppendProperties
<1>6. ReaderTypes'
  BY <1>1, <1>4, <1>5 DEF ReaderInv, ReaderTypes
<1>7. (TakenOK /\ HeardOK /\ TcpOK)'
  BY <1>1 DEF ReaderInv, TakenOK, HeardOK, TcpOK
<1>8. \A m \in 1 .. Len(sent) + 1 : Holds(wire, sent, m) => Holds(wire', sent, m)
  BY <1>1, <1>2, <1>3, <1>4, HoldsForeign
<1>9. UdpOK'
  <2>1. /\ Len(taken) + 1 \in 1 .. Len(sent) + 1
        /\ Len(taken) < Len(sent) => Len(taken) + 2 \in 1 .. Len(sent) + 1
    BY Lengths
  <2> QED
    BY <1>1, <1>8, <2>1 DEF ReaderInv, UdpOK, Blocked
<1> QED
  BY <1>6, <1>7, <1>9 DEF ReaderInv

LEMMA ReadyReadKeeps ==
  ASSUME ReaderInv, NEW n \in 1 .. Len(wire), ReadyRead(n)
  PROVE  ReaderInv'
<1>1. /\ transp = "TCP"
      /\ resp' = resp \o SubSeq(wire, 1, n) /\ wire' = SubSeq(wire, n + 1, Len(wire))
      /\ reading' = TRUE
      /\ UNCHANGED <<transp, idtran, sent, foreign, taken, heard>>
  BY DEF ReadyRead
<1>2. wire \in Seq(Byte) /\ resp \in Seq(Byte) /\ Len(wire) \in Nat
  BY <1>1 DEF ReaderInv, ReaderTypes
<1>3. /\ SubSeq(wire, 1, n) \in Seq(Byte)
      /\ SubSeq(wire, n + 1, Len(wire)) \in Seq(Byte)
  <2>1. /\ \A i \in 1 .. n : wire[i] \in Byte
        /\ \A i \in n + 1 .. Len(wire) : wire[i] \in Byte
    BY <1>2, ElementOfSeq
  <2> QED
    BY <1>2, <2>1, SubSeqProperties
<1>4. resp' \o wire' = resp \o wire
  <2>1. resp' \o wire' = resp \o (SubSeq(wire, 1, n) \o SubSeq(wire, n + 1, Len(wire)))
    <3> DEFINE a == SubSeq(wire, 1, n)
               b == SubSeq(wire, n + 1, Len(wire))
    <3>1. a \in Seq(Byte) /\ b \in Seq(Byte) /\ resp' = resp \o a /\ wire' = b
      BY <1>1, <1>3
    <3> HIDE DEF a, b
    <3>2. (resp \o a) \o b = resp \o (a \o b)
      BY <3>1, <1>2, BytesAssociative
    <3>3. resp' \o wire' = resp \o (a \o b)
      BY <3>1, <3>2
    <3> QED
      BY <3>3 DEF a, b
  <2>2. SubSeq(wire, 1, n) \o SubSeq(wire, n + 1, Len(wire)) = SubSeq(wire, 1, Len(wire))
    BY <1>2, ConcatAdjacentSubSeq
  <2>3. SubSeq(wire, 1, Len(wire)) = wire
    BY <1>2, SubSeqFull
  <2> QED
    BY <2>1, <2>2, <2>3
<1>5. ReaderTypes'
  <2>1. resp' \in Seq(Byte) /\ wire' \in Seq(Byte)
    BY <1>1, <1>2, <1>3, ConcatProperties
  <2> QED
    BY <1>1, <2>1 DEF ReaderInv, ReaderTypes
<1>6. (TakenOK /\ HeardOK)'
  BY <1>1 DEF ReaderInv, TakenOK, HeardOK
<1>7. TcpOK'
  BY <1>1, <1>4 DEF ReaderInv, TcpOK
<1>8. UdpOK'
  BY <1>1 DEF UdpOK
<1> QED
  BY <1>5, <1>6, <1>7, <1>8 DEF ReaderInv

LEMMA DatagramKeeps ==
  ASSUME ReaderInv, Datagram
  PROVE  ReaderInv'
<1>1. /\ transp = "UDP" /\ ~ reading /\ wire # <<>>
      /\ resp' = resp \o Head(wire).frame /\ wire' = Tail(wire)
      /\ reading' = (Head(wire).from = "device")
      /\ UNCHANGED <<transp, idtran, sent, foreign, taken, heard>>
  BY DEF Datagram
<1>2. wire \in Seq(Datagrams) /\ resp \in Seq(Byte) /\ sent \in Seq(Request)
  BY <1>1 DEF ReaderInv, ReaderTypes
<1>3. Head(wire) \in Datagrams /\ Tail(wire) \in Seq(Datagrams)
  BY <1>1, <1>2, HeadTailProperties
<1>4. PICK id \in Nat, n \in Nat \ {0} : Head(wire).frame = Frame(id, n)
  BY <1>3 DEF Datagrams
<1>5. /\ Frame(id, n) \in Seq(Byte) /\ Len(Frame(id, n)) = Hdr + n
      /\ \A k \in 1 .. Hdr + n : Frame(id, n)[k] = [id |-> id, k |-> k, len |-> n]
  BY Frames
<1>6. /\ resp' \in Seq(Byte) /\ Len(resp') = Len(resp) + (Hdr + n)
      /\ \A i \in 1 .. Len(resp) : resp'[i] = resp[i]
  <2>1. /\ Hdr + n \in Nat /\ Len(resp) \in Nat
    BY Lengths
  <2> DEFINE f == Frame(id, n)
  <2>2. f \in Seq(Byte) /\ Len(f) = Hdr + n /\ resp' = resp \o f
    BY <1>1, <1>4, <1>5
  <2> HIDE DEF f
  <2>3. /\ resp \o f \in Seq(Byte) /\ Len(resp \o f) = Len(resp) + Len(f)
        /\ \A i \in 1 .. Len(resp) + Len(f) :
             (resp \o f)[i] = IF i <= Len(resp) THEN resp[i] ELSE f[i - Len(resp)]
    BY <1>2, <2>2, ConcatProperties
  <2> QED
    BY <2>1, <2>2, <2>3
<1>7. ReaderTypes'
  BY <1>1, <1>3, <1>6 DEF ReaderInv, ReaderTypes
<1>8. (TakenOK /\ HeardOK /\ TcpOK)'
  BY <1>1 DEF ReaderInv, TakenOK, HeardOK, TcpOK
<1>9. UdpOK'
  <2>1. Hdr \in Nat \ {0} /\ Len(resp) \in Nat /\ Len(taken) \in Nat /\ Len(sent) \in Nat
        /\ Len(taken) + 1 \in 1 .. Len(sent) + 1
    BY Lengths
  <2>2. CASE Blocked
    <3>1. Hdr \in 1 .. Len(resp) /\ resp'[Hdr] = resp[Hdr]
      BY <2>1, <2>2, <1>6 DEF Blocked
    <3>2. resp[Hdr].len \in Nat
      <4>1. resp[Hdr] \in Byte
        BY <3>1, <1>2, ElementOfSeq
      <4> QED
        BY <4>1 DEF Byte
    <3>3. Blocked'
      BY <2>1, <2>2, <3>1, <3>2, <1>6 DEF Blocked
    <3> QED
      BY <3>3 DEF UdpOK
  <2>3. CASE resp = <<>> /\ Holds(wire, sent, Len(taken) + 1)
    <3>1. resp' = Head(wire).frame
      BY <2>3, <1>1, <1>4, <1>5, ConcatEmptySeq
    <3>2. CASE Head(wire).from = "device"
      <4>1. /\ Len(taken) + 1 <= Len(sent) /\ Head(wire) = Sent(sent[Len(taken) + 1])
            /\ Holds(Tail(wire), sent, Len(taken) + 1 + 1)
        BY <2>1, <2>3, <3>2, <1>1, <1>2, HoldsFirst
      <4>2. resp' = FrameOf(sent[Len(taken) + 1])
        BY <3>1, <4>1 DEF Sent
      <4>3. Holds(wire', sent, Len(taken) + 2) /\ Len(taken) < Len(sent) /\ reading'
        <5>1. Len(taken) + 1 + 1 = Len(taken) + 2 /\ Len(taken) < Len(sent)
          BY <4>1, <2>1
        <5> QED
          BY <5>1, <4>1, <3>2, <1>1
      <4> QED
        BY <4>2, <4>3, <1>1 DEF UdpOK
    <3>3. CASE Head(wire).from # "device"
      <4>1. ~ reading'
        BY <3>3, <1>1
      <4>2. resp'[Hdr].len = n /\ Len(resp') = Hdr + n
        <5>1. Hdr \in 1 .. Hdr + n
          BY <2>1
        <5> QED
          BY <5>1, <3>1, <1>4, <1>5
      <4>3. Blocked'
        BY <4>1, <4>2, <2>1 DEF Blocked
      <4> QED
        BY <4>3 DEF UdpOK
    <3> QED
      BY <3>2, <3>3
  <2> QED
    BY <2>2, <2>3, <1>1 DEF ReaderInv, UdpOK
<1> QED
  BY <1>7, <1>8, <1>9 DEF ReaderInv

LEMMA TakeKeeps ==
  ASSUME ReaderInv, Take
  PROVE  ReaderInv'
<1> DEFINE id == sent[Len(taken) + 1]
           z == Size(id)
<1>1. /\ Len(taken) < Len(sent) /\ z <= Len(resp)
      /\ taken' = Append(taken, Whole(id))
      /\ resp' = SubSeq(resp, z + 1, Len(resp))
      /\ heard' = IF id = idtran THEN Append(heard, [f |-> Whole(id), to |-> idtran]) ELSE heard
      /\ transp = "UDP" => resp = FrameOf(id) /\ Holds(wire, sent, Len(taken) + 2)
  BY TakesNext
<1>2. UNCHANGED <<transp, idtran, sent, wire, foreign, reading>>
  BY DEF Take
<1>3. /\ sent \in Seq(Request) /\ resp \in Seq(Byte) /\ taken \in Seq(Wholes)
      /\ heard \in Seq([f : Wholes, to : Nat]) /\ idtran \in Nat
      /\ Len(taken) \in Nat /\ Len(sent) \in Nat /\ Len(resp) \in Nat
      /\ Len(taken) + 1 \in 1 .. Len(sent)
  BY <1>1, Lengths DEF ReaderInv, ReaderTypes
<1>4. id \in Request /\ Whole(id) \in Wholes /\ z \in Nat \ {0}
  BY <1>3, Sizes, ElementOfSeq DEF Wholes
<1>5. Len(FrameOf(id)) = z
  BY <1>4, FrameOfIs
<1> HIDE DEF id, z
<1>6. /\ taken' \in Seq(Wholes) /\ Len(taken') = Len(taken) + 1
      /\ \A j \in 1 .. Len(taken) : taken'[j] = taken[j]
      /\ taken'[Len(taken) + 1] = Whole(id)
  BY <1>1, <1>3, <1>4, AppendProperties
<1>7. /\ resp' \in Seq(Byte) /\ Len(resp') = Len(resp) - z
      /\ \A i \in 1 .. Len(resp) - z : resp'[i] = resp[z + i]
  <2>1. \A i \in z + 1 .. Len(resp) : resp[i] \in Byte
    BY <1>3, <1>4, ElementOfSeq
  <2>2. /\ resp' \in Seq(Byte)
        /\ Len(resp') = IF z + 1 <= Len(resp) THEN Len(resp) - (z + 1) + 1 ELSE 0
        /\ \A i \in 1 .. Len(resp) - (z + 1) + 1 : resp'[i] = resp[z + 1 + i - 1]
    BY <2>1, <1>1, <1>3, <1>4, SubSeqProperties
  <2> QED
    BY <2>2, <1>1, <1>3, <1>4
<1>8. ReaderTypes'
  <2>1. heard' \in Seq([f : Wholes, to : Nat])
    BY <1>1, <1>3, <1>4, AppendProperties
  <2> QED
    BY <2>1, <1>2, <1>6, <1>7 DEF ReaderInv, ReaderTypes
<1>9. TakenOK'
  <2>1. ASSUME NEW j \in 1 .. Len(taken') PROVE taken'[j] = Whole(sent[j])
    <3>1. CASE j \in 1 .. Len(taken)
      BY <3>1, <1>6 DEF ReaderInv, TakenOK
    <3>2. CASE j = Len(taken) + 1
      BY <3>2, <1>6 DEF id
    <3> QED
      BY <3>1, <3>2, <1>3, <1>6
  <2> QED
    BY <2>1, <1>1, <1>2, <1>3, <1>6 DEF TakenOK
<1>10. HeardOK'
  <2>1. \A i, j \in 1 .. Len(sent) : sent[i] = sent[j] => i = j
    BY DEF ReaderInv, HeardOK
  <2>2. ASSUME NEW j \in 1 .. Len(heard)
        PROVE  /\ heard[j].to <= idtran /\ heard[j].to \in Nat
               /\ \E i \in 1 .. Len(taken) : sent[i] = heard[j].to
    <3>1. heard[j] \in [f : Wholes, to : Nat]
      BY <1>3, ElementOfSeq
    <3>2. heard[j].to \in Nat
      BY <3>1
    <3> QED
      BY <3>2 DEF ReaderInv, HeardOK
  <2>3. \A j, k \in 1 .. Len(heard) : j < k => heard[j].to < heard[k].to
    BY DEF ReaderInv, HeardOK
  <2>4. \A i \in 1 .. Len(taken) : i \in 1 .. Len(taken')
    BY <1>3, <1>6
  <2>5. CASE id # idtran
    <3>1. heard' = heard
      BY <2>5, <1>1
    <3> QED
      BY <3>1, <2>1, <2>2, <2>3, <2>4, <1>2 DEF HeardOK
  <2>6. CASE id = idtran
    <3> DEFINE new == [f |-> Whole(id), to |-> idtran]
    <3>1. new \in [f : Wholes, to : Nat] /\ new.to = idtran /\ heard' = Append(heard, new)
      BY <2>6, <1>1, <1>3, <1>4
    <3> HIDE DEF new
    <3>2. /\ Len(heard') = Len(heard) + 1 /\ Len(heard) \in Nat
          /\ \A j \in 1 .. Len(heard) : heard'[j] = heard[j]
          /\ heard'[Len(heard) + 1] = new
      BY <3>1, <1>3, AppendProperties
    <3>3. ASSUME NEW j \in 1 .. Len(heard) PROVE heard[j].to < idtran
      <4>1. PICK i \in 1 .. Len(taken) : sent[i] = heard[j].to
        BY <2>2
      <4>2. i \in 1 .. Len(sent) /\ i # Len(taken) + 1
        BY <1>1, <1>3
      <4>3. sent[i] # sent[Len(taken) + 1]
        BY <4>2, <2>1, <1>3
      <4>4. heard[j].to # idtran
        BY <4>1, <4>3, <2>6 DEF id
      <4> QED
        BY <4>4, <2>2, <1>3
    <3>4. ASSUME NEW j \in 1 .. Len(heard')
          PROVE  heard'[j].to <= idtran /\ \E i \in 1 .. Len(taken') : sent[i] = heard'[j].to
      <4>1. CASE j \in 1 .. Len(heard)
        BY <4>1, <3>2, <2>2, <2>4
      <4>2. CASE j = Len(heard) + 1
        <5>1. Len(taken) + 1 \in 1 .. Len(taken') /\ sent[Len(taken) + 1] = idtran
          BY <1>3, <1>6, <2>6 DEF id
        <5>2. heard'[j].to = idtran
          BY <4>2, <3>1, <3>2
        <5> QED
          BY <5>1, <5>2, <1>3
      <4> QED
        BY <4>1, <4>2, <3>2
    <3>5. ASSUME NEW j \in 1 .. Len(heard'), NEW k \in 1 .. Len(heard'), j < k
          PROVE  heard'[j].to < heard'[k].to
      <4>1. j \in 1 .. Len(heard) /\ heard'[j] = heard[j]
        BY <3>2, <3>5
      <4>2. CASE k \in 1 .. Len(heard)
        BY <4>1, <4>2, <3>2, <3>5, <2>3
      <4>3. CASE k = Len(heard) + 1
        BY <4>1, <4>3, <3>1, <3>2, <3>3
      <4> QED
        BY <4>2, <4>3, <3>2
    <3> QED
      BY <3>4, <3>5, <2>1, <1>2 DEF HeardOK
  <2> QED
    BY <2>5, <2>6
<1>11. TcpOK'
  <2> SUFFICES ASSUME transp = "TCP"
               PROVE  Carries(resp' \o wire, sent, Len(taken) + 2)
    BY <1>2, <1>3, <1>6 DEF TcpOK
  <2> DEFINE s == resp \o wire
             t == SubSeq(s, z + 1, Len(s))
             r == resp' \o wire
  <2>1. wire \in Seq(Byte) /\ Len(wire) \in Nat
    BY DEF ReaderInv, ReaderTypes
  <2>2. Carries(s, sent, Len(taken) + 1)
    BY DEF ReaderInv, TcpOK
  <2>3. /\ s \in Seq(Byte) /\ Len(s) = Len(resp) + Len(wire)
        /\ \A i \in 1 .. Len(resp) + Len(wire) :
             s[i] = IF i <= Len(resp) THEN resp[i] ELSE wire[i - Len(resp)]
    BY <2>1, <1>3, ConcatProperties
  <2>4. /\ r \in Seq(Byte) /\ Len(r) = Len(resp') + Len(wire)
        /\ \A i \in 1 .. Len(resp') + Len(wire) :
             r[i] = IF i <= Len(resp') THEN resp'[i] ELSE wire[i - Len(resp')]
    BY <2>1, <1>7, ConcatProperties
  <2> HIDE DEF s, r
  <2>5. /\ t \in Seq(Byte) /\ Len(t) = Len(s) - z
        /\ \A i \in 1 .. Len(s) - z : t[i] = s[z + i]
    <3>1. Len(s) \in Nat /\ z <= Len(s)
      <4>1. Len(s) \in Nat /\ Len(s) = Len(resp) + Len(wire)
        BY <2>3
      <4>2. z <= Len(resp)
        BY <1>1
      <4> QED
        BY <4>1, <4>2, <2>1, <1>3, <1>4
    <3>2. \A i \in z + 1 .. Len(s) : s[i] \in Byte
      BY <3>1, <2>3, <1>4, ElementOfSeq
    <3>3. /\ t \in Seq(Byte)
          /\ Len(t) = IF z + 1 <= Len(s) THEN Len(s) - (z + 1) + 1 ELSE 0
          /\ \A i \in 1 .. Len(s) - (z + 1) + 1 : t[i] = s[z + 1 + i - 1]
      BY <3>1, <3>2, <1>4, SubSeqProperties
    <3> HIDE DEF t
    <3> QED
      BY <3>1, <3>3, <1>4
  <2> HIDE DEF t
  <2>6. Len(r) = Len(t)
    <3>1. /\ Len(r) = Len(resp') + Len(wire) /\ Len(t) = Len(s) - z
          /\ Len(s) = Len(resp) + Len(wire) /\ Len(resp') = Len(resp) - z
      BY <2>3, <2>4, <2>5, <1>7
    <3> QED
      BY <3>1, <2>1, <1>3, <1>4
  <2>7. ASSUME NEW i \in 1 .. Len(r) PROVE r[i] = t[i]
    <3>1. /\ i \in 1 .. Len(resp') + Len(wire) /\ i \in 1 .. Len(s) - z
          /\ z + i \in 1 .. Len(resp) + Len(wire)
      <4>1. /\ Len(r) = Len(resp') + Len(wire) /\ Len(r) = Len(s) - z
            /\ Len(s) = Len(resp) + Len(wire) /\ Len(resp') = Len(resp) - z
        BY <2>3, <2>4, <2>5, <2>6, <1>7
      <4> QED
        BY <4>1, <2>1, <1>3, <1>4
    <3>2. CASE i <= Len(resp')
      <4>1. i \in 1 .. Len(resp) - z /\ z + i <= Len(resp)
        BY <3>2, <1>3, <1>4, <1>7
      <4> QED
        BY <4>1, <3>1, <3>2, <2>3, <2>4, <2>5, <1>7
    <3>3. CASE ~ (i <= Len(resp'))
      <4>1. ~ (z + i <= Len(resp)) /\ (z + i) - Len(resp) = i - Len(resp')
        BY <3>3, <1>3, <1>4, <1>7
      <4> QED
        BY <4>1, <3>1, <3>3, <2>3, <2>4, <2>5
    <3> QED
      BY <3>2, <3>3
  <2>8. r = t
    BY <2>4, <2>5, <2>6, <2>7, SeqEqual
  <2>9. Carries(t, sent, Len(taken) + 1 + 1)
    BY <2>2, <2>3, <1>3, CarriesRest DEF t, z, id
  <2>10. Len(taken) + 1 + 1 = Len(taken) + 2
    BY <1>3
  <2> QED
    BY <2>8, <2>9, <2>10 DEF r
<1>12. UdpOK'
  <2> SUFFICES ASSUME transp = "UDP"
               PROVE  resp' = <<>> /\ Holds(wire, sent, Len(taken) + 2)
    BY <1>2, <1>3, <1>6 DEF UdpOK
  <2>1. Len(resp) < z + 1
    BY <1>1, <1>3, <1>4, <1>5
  <2>2. resp' = <<>>
    BY <2>1, <1>1, <1>3, <1>4, SubSeqEmpty
  <2> QED
    BY <2>2, <1>1
<1> QED
  BY <1>8, <1>9, <1>10, <1>11, <1>12 DEF ReaderInv

LEMMA ReturnKeeps ==
  ASSUME ReaderInv, Return
  PROVE  ReaderInv'
<1>1. /\ Len(resp) <= Hdr /\ reading' = FALSE
      /\ UNCHANGED <<transp, idtran, sent, wire, foreign, resp, taken, heard>>
  BY DEF Return
<1>2. (ReaderTypes /\ TakenOK /\ HeardOK /\ TcpOK)'
  BY <1>1 DEF ReaderInv, ReaderTypes, TakenOK, HeardOK, TcpOK
<1>3. UdpOK'
  <2> SUFFICES ASSUME transp = "UDP"
               PROVE  resp = <<>> /\ Holds(wire, sent, Len(taken) + 1)
    BY <1>1 DEF UdpOK
  <2>1. /\ Hdr \in Nat \ {0} /\ Len(resp) \in Nat /\ sent \in Seq(Request)
        /\ Len(taken) \in Nat /\ Len(sent) \in Nat
    BY Lengths DEF ReaderInv, ReaderTypes
  <2>2. ~ Blocked
    BY <2>1, <1>1 DEF Blocked
  <2>3. ASSUME Len(taken) < Len(sent), resp = FrameOf(sent[Len(taken) + 1])
        PROVE  FALSE
    <3>1. Len(taken) + 1 \in 1 .. Len(sent)
      BY <2>1, <2>3
    <3>2. sent[Len(taken) + 1] \in Request
      BY <3>1, <2>1, ElementOfSeq
    <3>3. /\ Body[sent[Len(taken) + 1]] \in Nat \ {0}
          /\ Len(resp) = Hdr + Body[sent[Len(taken) + 1]]
      BY <3>2, <2>3, Sizes, FrameOfIs DEF Size
    <3> QED
      BY <3>3, <2>1, <1>1
  <2> QED
    BY <2>2, <2>3 DEF ReaderInv, UdpOK
<1> QED
  BY <1>2, <1>3 DEF ReaderInv

-----------------------------------------------------------------------------
(* Whatever comes and goes (execut.cpp:814 to 930), what is on its way and *)
(* what has come are together the frames that are not taken yet.           *)
THEOREM ReaderInductive == Spec => []ReaderInv
<1>1. ReaderInv /\ [Next]_vars => ReaderInv'
  <2> SUFFICES ASSUME ReaderInv, [Next]_vars PROVE ReaderInv'
    OBVIOUS
  <2>1. CASE Send
    BY <2>1, SendKeeps
  <2>2. ASSUME NEW id \in Request, Answer(id) PROVE ReaderInv'
    BY <2>2, AnswerKeeps
  <2>3. CASE Intrude
    BY <2>3, IntrudeKeeps
  <2>4. ASSUME NEW n \in 1 .. Len(wire), ReadyRead(n) PROVE ReaderInv'
    BY <2>4, ReadyReadKeeps
  <2>5. CASE Datagram
    BY <2>5, DatagramKeeps
  <2>6. CASE Take
    BY <2>6, TakeKeeps
  <2>7. CASE Return
    BY <2>7, ReturnKeeps
  <2>8. CASE UNCHANGED vars
    BY <2>8 DEF vars, ReaderInv, ReaderTypes, TakenOK, HeardOK, TcpOK, UdpOK, Blocked
  <2> QED
    BY <2>1, <2>2, <2>3, <2>4, <2>5, <2>6, <2>7, <2>8 DEF Next
<1> QED
  BY InitInv, <1>1, PTL DEF Spec

(* However the bytes come, the frames readIPSlot and readUDPSlot take out  *)
(* of the connection (execut.cpp:834) are those the device has sent, whole *)
(* and in order, and none is answered to Receive twice.                    *)
THEOREM FramesAlwaysWhole == Spec => []WholeInOrder
<1>1. ReaderInv => WholeInOrder
  <2> SUFFICES ASSUME ReaderInv PROVE WholeInOrder
    OBVIOUS
  <2>1. DOMAIN taken = 1 .. Len(taken) /\ DOMAIN heard = 1 .. Len(heard)
    BY LenProperties DEF ReaderInv, ReaderTypes
  <2>2. ASSUME NEW j \in DOMAIN taken
        PROVE  /\ taken[j].id = sent[j]
               /\ taken[j].body
                    = SubSeq(Frame(sent[j], Body[sent[j]]), Hdr + 1, Hdr + Body[sent[j]])
    BY <2>1 DEF ReaderInv, TakenOK, Whole, FrameOf
  <2>3. \A j, k \in DOMAIN heard : j < k => heard[j].to < heard[k].to
    BY <2>1 DEF ReaderInv, HeardOK
  <2> QED
    BY <2>2, <2>3 DEF ReaderInv, TakenOK, WholeInOrder
<1> QED
  BY ReaderInductive, <1>1, PTL

=============================================================================
