-------------------------- MODULE VectorBusProofs ---------------------------
(***************************************************************************)
(* Theorems about VectorBus, for any requests, answers of any length and   *)
(* any number of exchanges and faults: the master takes only its own       *)
(* answers, and the listener neither falls out of step nor misses an       *)
(* exchange that came whole.                                               *)
(***************************************************************************)
EXTENDS VectorBus, SequenceTheorems, FiniteSetTheorems, WellFoundedInduction, TLAPS

Bytes == [x : Nat, part : {"req", "ans", "zero", "noise"}, i : Nat]

(* Request(x) is in s from place p + 1 on.                                 *)
ReqAt(s, p, x) == \A k \in 1 .. Hdr : s[p + k] = Byte(x, "req", k)

-----------------------------------------------------------------------------
(* Sequences of bytes.                                                     *)

LEMMA Joined ==
  ASSUME NEW s \in Seq(Bytes), NEW t \in Seq(Bytes)
  PROVE  /\ s \o t \in Seq(Bytes)
         /\ Len(s \o t) = Len(s) + Len(t) /\ Len(s) \in Nat /\ Len(t) \in Nat
         /\ \A i \in 1 .. Len(s) : (s \o t)[i] = s[i]
         /\ \A i \in 1 .. Len(t) : (s \o t)[Len(s) + i] = t[i]
<1> DEFINE u == s \o t
<1>1. /\ u \in Seq(Bytes) /\ Len(u) = Len(s) + Len(t)
      /\ \A i \in 1 .. Len(s) + Len(t) : u[i] = IF i <= Len(s) THEN s[i] ELSE t[i - Len(s)]
  BY ConcatProperties
<1>2. Len(s) \in Nat /\ Len(t) \in Nat
  OBVIOUS
<1> HIDE DEF u
<1>3. \A i \in 1 .. Len(s) : u[i] = s[i]
  BY <1>1, <1>2
<1>4. ASSUME NEW i \in 1 .. Len(t) PROVE u[Len(s) + i] = t[i]
  <2>1. /\ Len(s) + i \in 1 .. Len(s) + Len(t) /\ ~ (Len(s) + i <= Len(s))
        /\ (Len(s) + i) - Len(s) = i
    BY <1>2
  <2> QED
    BY <2>1, <1>1
<1> QED
  BY <1>1, <1>2, <1>3, <1>4 DEF u

LEMMA TailOf ==
  ASSUME NEW s \in Seq(Bytes), NEW d \in 0 .. Len(s)
  PROVE  /\ SubSeq(s, d + 1, Len(s)) \in Seq(Bytes)
         /\ Len(SubSeq(s, d + 1, Len(s))) = Len(s) - d
         /\ \A i \in 1 .. Len(s) - d : SubSeq(s, d + 1, Len(s))[i] = s[d + i]
<1> DEFINE u == SubSeq(s, d + 1, Len(s))
<1>1. Len(s) \in Nat /\ d \in Nat /\ d <= Len(s)
  OBVIOUS
<1>2. \A i \in d + 1 .. Len(s) : s[i] \in Bytes
  BY <1>1, ElementOfSeq
<1>3. /\ u \in Seq(Bytes)
      /\ Len(u) = IF d + 1 <= Len(s) THEN Len(s) - (d + 1) + 1 ELSE 0
      /\ \A i \in 1 .. Len(s) - (d + 1) + 1 : u[i] = s[d + 1 + i - 1]
  BY <1>1, <1>2, SubSeqProperties
<1> HIDE DEF u
<1>4. Len(u) = Len(s) - d
  BY <1>1, <1>3
<1>5. ASSUME NEW i \in 1 .. Len(s) - d PROVE u[i] = s[d + i]
  <2>1. i \in 1 .. Len(s) - (d + 1) + 1 /\ d + 1 + i - 1 = d + i
    BY <1>1
  <2> QED
    BY <2>1, <1>3
<1> QED
  BY <1>3, <1>4, <1>5 DEF u

LEMMA HeadOf ==
  ASSUME NEW s \in Seq(Bytes), NEW k \in 0 .. Len(s)
  PROVE  /\ SubSeq(s, 1, k) \in Seq(Bytes)
         /\ Len(SubSeq(s, 1, k)) = k
         /\ \A i \in 1 .. k : SubSeq(s, 1, k)[i] = s[i]
<1> DEFINE u == SubSeq(s, 1, k)
<1>1. Len(s) \in Nat /\ k \in Nat /\ k <= Len(s)
  OBVIOUS
<1>2. \A i \in 1 .. k : s[i] \in Bytes
  BY <1>1, ElementOfSeq
<1>3. /\ u \in Seq(Bytes)
      /\ Len(u) = IF 1 <= k THEN k - 1 + 1 ELSE 0
      /\ \A i \in 1 .. k - 1 + 1 : u[i] = s[1 + i - 1]
  BY <1>1, <1>2, SubSeqProperties
<1> HIDE DEF u
<1>4. Len(u) = k
  BY <1>1, <1>3
<1>5. ASSUME NEW i \in 1 .. k PROVE u[i] = s[i]
  <2>1. i \in 1 .. k - 1 + 1 /\ 1 + i - 1 = i
    BY <1>1
  <2> QED
    BY <2>1, <1>3
<1> QED
  BY <1>3, <1>4, <1>5 DEF u

(* A tail of s with t behind it is a tail of both.                         *)
LEMMA TailJoined ==
  ASSUME NEW s \in Seq(Bytes), NEW t \in Seq(Bytes), NEW d \in 0 .. Len(s)
  PROVE  /\ Len(SubSeq(s, d + 1, Len(s)) \o t) = Len(s \o t) - d
         /\ \A i \in 1 .. Len(s \o t) - d :
              (SubSeq(s, d + 1, Len(s)) \o t)[i] = (s \o t)[d + i]
<1> DEFINE u == SubSeq(s, d + 1, Len(s))
           v == u \o t
           w == s \o t
<1>1. /\ Len(s) \in Nat /\ Len(t) \in Nat /\ d \in Nat /\ d <= Len(s)
  OBVIOUS
<1>2. /\ u \in Seq(Bytes) /\ Len(u) = Len(s) - d
      /\ \A i \in 1 .. Len(s) - d : u[i] = s[d + i]
  BY TailOf
<1>3. /\ Len(w) = Len(s) + Len(t)
      /\ \A i \in 1 .. Len(s) : w[i] = s[i]
      /\ \A i \in 1 .. Len(t) : w[Len(s) + i] = t[i]
  BY Joined
<1> HIDE DEF u, w
<1>4. /\ Len(v) = Len(u) + Len(t)
      /\ \A i \in 1 .. Len(u) : v[i] = u[i]
      /\ \A i \in 1 .. Len(t) : v[Len(u) + i] = t[i]
  BY <1>2, Joined
<1> HIDE DEF v
<1>5. Len(v) = Len(w) - d
  BY <1>1, <1>2, <1>3, <1>4
<1>6. ASSUME NEW i \in 1 .. Len(w) - d PROVE v[i] = w[d + i]
  <2>1. CASE i <= Len(u)
    <3>1. i \in 1 .. Len(u) /\ i \in 1 .. Len(s) - d /\ d + i \in 1 .. Len(s)
      BY <2>1, <1>1, <1>2
    <3> QED
      BY <3>1, <1>2, <1>3, <1>4
  <2>2. CASE ~ (i <= Len(u))
    <3> DEFINE j == i - Len(u)
    <3>1. j \in 1 .. Len(t) /\ i = Len(u) + j /\ d + i = Len(s) + j
      BY <2>2, <1>1, <1>2, <1>3
    <3> HIDE DEF j
    <3> QED
      BY <3>1, <1>3, <1>4
  <2> QED
    BY <2>1, <2>2
<1> QED
  BY <1>5, <1>6 DEF u, v, w

(* What is read of t goes behind s.                                        *)
LEMMA CutJoined ==
  ASSUME NEW s \in Seq(Bytes), NEW t \in Seq(Bytes), NEW k \in 0 .. Len(t)
  PROVE  (s \o SubSeq(t, 1, k)) \o SubSeq(t, k + 1, Len(t)) = s \o t
<1> DEFINE a == SubSeq(t, 1, k)
           b == SubSeq(t, k + 1, Len(t))
           u == s \o a
           v == u \o b
           w == s \o t
<1>1. /\ Len(s) \in Nat /\ Len(t) \in Nat /\ k \in Nat /\ k <= Len(t)
  OBVIOUS
<1>2. /\ a \in Seq(Bytes) /\ Len(a) = k /\ \A i \in 1 .. k : a[i] = t[i]
      /\ b \in Seq(Bytes) /\ Len(b) = Len(t) - k
      /\ \A i \in 1 .. Len(t) - k : b[i] = t[k + i]
  BY HeadOf, TailOf
<1>3. /\ w \in Seq(Bytes) /\ Len(w) = Len(s) + Len(t)
      /\ \A i \in 1 .. Len(s) : w[i] = s[i]
      /\ \A i \in 1 .. Len(t) : w[Len(s) + i] = t[i]
  BY Joined
<1> HIDE DEF a, b, w
<1>4. /\ u \in Seq(Bytes) /\ Len(u) = Len(s) + k
      /\ \A i \in 1 .. Len(s) : u[i] = s[i]
      /\ \A i \in 1 .. k : u[Len(s) + i] = a[i]
  BY <1>2, Joined
<1> HIDE DEF u
<1>5. /\ v \in Seq(Bytes) /\ Len(v) = Len(u) + (Len(t) - k)
      /\ \A i \in 1 .. Len(u) : v[i] = u[i]
      /\ \A i \in 1 .. Len(t) - k : v[Len(u) + i] = b[i]
  <2>1. /\ v \in Seq(Bytes) /\ Len(v) = Len(u) + Len(b)
        /\ \A i \in 1 .. Len(u) : v[i] = u[i]
        /\ \A i \in 1 .. Len(b) : v[Len(u) + i] = b[i]
    BY <1>2, <1>4, Joined
  <2> HIDE DEF v
  <2> QED
    BY <2>1, <1>2
<1> HIDE DEF v
<1>6. Len(v) = Len(w)
  BY <1>1, <1>3, <1>4, <1>5
<1>7. ASSUME NEW i \in 1 .. Len(v) PROVE v[i] = w[i]
  <2>1. CASE i <= Len(s)
    <3>1. i \in 1 .. Len(s) /\ i \in 1 .. Len(u)
      BY <2>1, <1>1, <1>4
    <3> QED
      BY <3>1, <1>3, <1>4, <1>5
  <2>2. CASE Len(s) < i /\ i <= Len(u)
    <3> DEFINE j == i - Len(s)
    <3>1. j \in 1 .. k /\ j \in 1 .. Len(t) /\ i = Len(s) + j /\ i \in 1 .. Len(u)
      BY <2>2, <1>1, <1>4
    <3> HIDE DEF j
    <3> QED
      BY <3>1, <1>2, <1>3, <1>4, <1>5
  <2>3. CASE Len(u) < i
    <3> DEFINE j == i - Len(u)
    <3>1. /\ j \in 1 .. Len(t) - k /\ k + j \in 1 .. Len(t)
          /\ i = Len(u) + j /\ i = Len(s) + (k + j)
      BY <2>3, <1>1, <1>3, <1>4, <1>6
    <3> HIDE DEF j
    <3>2. v[Len(u) + j] = b[j] /\ b[j] = t[k + j]
      BY <3>1, <1>2, <1>5
    <3>3. w[Len(s) + (k + j)] = t[k + j]
      BY <3>1, <1>3
    <3> QED
      BY ONLY <3>1, <3>2, <3>3
  <2> QED
    BY <2>1, <2>2, <2>3, <1>1, <1>4
<1>8. v = w
  BY <1>3, <1>5, <1>6, <1>7, SeqEqual
<1> QED
  BY <1>8 DEF a, b, u, v, w

LEMMA BytesAssociative ==
  ASSUME NEW a \in Seq(Bytes), NEW b \in Seq(Bytes), NEW c \in Seq(Bytes)
  PROVE  (a \o b) \o c = a \o (b \o c)
BY ConcatAssociative

LEMMA MakesSeq ==
  ASSUME NEW n \in Nat, NEW f \in [1 .. n -> Bytes]
  PROVE  f \in Seq(Bytes) /\ Len(f) = n
<1>1. f \in Seq(Bytes)
  OBVIOUS
<1> QED
  BY <1>1, LenProperties

(* Requests, zeros and single bytes.                                       *)
LEMMA Pieces1 ==
  /\ Zero \in Bytes /\ Noise \in Bytes
  /\ \A x \in Nat : /\ Request(x) \in Seq(Bytes) /\ Len(Request(x)) = Hdr
                    /\ \A k \in 1 .. Hdr : Request(x)[k] = Byte(x, "req", k)
  /\ \A n \in Nat : /\ Zeros(n) \in Seq(Bytes) /\ Len(Zeros(n)) = n
                    /\ \A k \in 1 .. n : Zeros(n)[k] = Zero
<1>1. Hdr \in Nat
  BY VectorBusAssumption
<1>2. Zero \in Bytes /\ Noise \in Bytes
  BY DEF Zero, Noise, Byte, Bytes
<1>3. ASSUME NEW x \in Nat
      PROVE  /\ Request(x) \in Seq(Bytes) /\ Len(Request(x)) = Hdr
             /\ \A k \in 1 .. Hdr : Request(x)[k] = Byte(x, "req", k)
  <2>1. Request(x) \in [1 .. Hdr -> Bytes]
    BY <1>1 DEF Request, Byte, Bytes
  <2> QED
    BY <1>1, <2>1, MakesSeq DEF Request
<1>4. ASSUME NEW n \in Nat
      PROVE  /\ Zeros(n) \in Seq(Bytes) /\ Len(Zeros(n)) = n
             /\ \A k \in 1 .. n : Zeros(n)[k] = Zero
  <2>1. Zeros(n) \in [1 .. n -> Bytes]
    BY <1>2 DEF Zeros
  <2> QED
    BY <2>1, MakesSeq DEF Zeros
<1> QED
  BY <1>2, <1>3, <1>4

(* A set of numbers that is not empty has a least one.                     *)
LEMMA Least ==
  ASSUME NEW S \in SUBSET Nat, S # {}
  PROVE  \E j \in S : \A k \in S : j <= k
<1>1. \E j \in S : \A k \in S : ~ (<<k, j>> \in OpToRel(<, Nat))
  BY NatLessThanWellFounded, WFMin
<1>2. PICK j \in S : \A k \in S : ~ (k < j)
  BY <1>1 DEF OpToRel
<1> QED
  BY <1>2

-----------------------------------------------------------------------------
(* Requests and answers in what has been written on the line.              *)

(* In L there is, from place p + 1 on, the request of exchange x, and      *)
(* behind it what has come of its answer; all of its w bytes, but for d,   *)
(* which is still to come and then comes next.                             *)
Kept(L, d, w, x, p) ==
  /\ ReqAt(L, p, x)
  /\ Len(d) <= w
  /\ p + Hdr + (w - Len(d)) <= Len(L)
  /\ \A k \in 1 .. w - Len(d) : L[p + Hdr + k] = Byte(x, "ans", k)
  /\ Len(d) > 0 => Len(L) = p + Hdr + (w - Len(d))
  /\ \A k \in 1 .. Len(d) : d[k] = Byte(x, "ans", (w - Len(d)) + k)

LEMMA ReqAtMore ==
  ASSUME NEW s \in Seq(Bytes), NEW t \in Seq(Bytes), NEW x \in Nat,
         NEW p \in 0 .. Len(s) - Hdr
  PROVE  ReqAt(s \o t, p, x) <=> ReqAt(s, p, x)
<1> DEFINE u == s \o t
<1>1. \A i \in 1 .. Len(s) : u[i] = s[i]
  BY Joined
<1>2. \A k \in 1 .. Hdr : p + k \in 1 .. Len(s)
  BY VectorBusAssumption
<1> HIDE DEF u
<1>3. \A k \in 1 .. Hdr : u[p + k] = s[p + k]
  BY <1>1, <1>2
<1> QED
  BY <1>3 DEF ReqAt, u

(* What has no byte of x's request does not complete one.                  *)
LEMMA ReqAtOld ==
  ASSUME NEW s \in Seq(Bytes), NEW t \in Seq(Bytes), NEW x \in Nat,
         \A i \in 1 .. Len(t) : ~ (t[i].part = "req" /\ t[i].x = x),
         NEW p \in 0 .. Len(s \o t) - Hdr, ReqAt(s \o t, p, x)
  PROVE  p \in 0 .. Len(s) - Hdr /\ ReqAt(s, p, x)
<1> DEFINE u == s \o t
<1>1. /\ Len(u) = Len(s) + Len(t) /\ Len(s) \in Nat /\ Len(t) \in Nat
      /\ \A i \in 1 .. Len(t) : u[Len(s) + i] = t[i]
      /\ Hdr \in Nat \ {0}
  BY Joined, VectorBusAssumption
<1>2. p \in 0 .. Len(u) - Hdr /\ \A k \in 1 .. Hdr : u[p + k] = Byte(x, "req", k)
  BY DEF ReqAt
<1> HIDE DEF u
<1>3. p + Hdr <= Len(s)
  <2> SUFFICES ASSUME Len(s) < p + Hdr PROVE FALSE
    BY <1>1, <1>2
  <2> DEFINE i == (p + Hdr) - Len(s)
  <2>1. i \in 1 .. Len(t) /\ Len(s) + i = p + Hdr /\ Hdr \in 1 .. Hdr
    BY <1>1, <1>2
  <2> HIDE DEF i
  <2>2. t[i] = Byte(x, "req", Hdr)
    BY <2>1, <1>1, <1>2
  <2>3. t[i].part = "req" /\ t[i].x = x
    BY <2>2 DEF Byte
  <2> QED
    BY <2>1, <2>3
<1>4. p \in 0 .. Len(s) - Hdr
  BY <1>1, <1>2, <1>3
<1> QED
  BY <1>4, ReqAtMore

LEMMA KeptMore ==
  ASSUME NEW L \in Seq(Bytes), NEW t \in Seq(Bytes), NEW d \in Seq(Bytes), NEW w \in Nat,
         NEW x \in Nat, NEW p \in 0 .. Len(L) - Hdr,
         Kept(L, d, w, x, p), Len(d) > 0 => Len(t) = 0
  PROVE  Kept(L \o t, d, w, x, p)
<1> DEFINE u == L \o t
           n == w - Len(d)
<1>1. /\ Len(u) = Len(L) + Len(t) /\ Len(L) \in Nat /\ Len(t) \in Nat
      /\ \A i \in 1 .. Len(L) : u[i] = L[i]
      /\ Hdr \in Nat \ {0} /\ p \in Nat /\ Len(d) \in Nat
  BY Joined, VectorBusAssumption
<1>2. /\ ReqAt(L, p, x) /\ Len(d) <= w /\ p + Hdr + n <= Len(L)
      /\ \A k \in 1 .. n : L[p + Hdr + k] = Byte(x, "ans", k)
      /\ Len(d) > 0 => Len(L) = p + Hdr + n
      /\ \A k \in 1 .. Len(d) : d[k] = Byte(x, "ans", n + k)
  BY DEF Kept
<1>3. ReqAt(u, p, x)
  BY <1>2, ReqAtMore
<1>4. n \in Nat
  BY <1>1, <1>2
<1> HIDE DEF u, n
<1>a. /\ Len(u) = Len(L) + Len(t) /\ Len(L) \in Nat /\ Len(t) \in Nat
      /\ Hdr \in Nat /\ p \in Nat /\ p + Hdr + n <= Len(L)
      /\ Len(d) > 0 => Len(L) = p + Hdr + n /\ Len(t) = 0
  BY <1>1, <1>2
<1>5. p + Hdr + n <= Len(u) /\ (Len(d) > 0 => Len(u) = p + Hdr + n)
  BY ONLY <1>a, <1>4
<1>6. ASSUME NEW k \in 1 .. n PROVE u[p + Hdr + k] = Byte(x, "ans", k)
  <2>1. p + Hdr + k \in 1 .. Len(L)
    BY ONLY <1>a, <1>4
  <2> QED
    BY <2>1, <1>1, <1>2
<1> QED
  BY <1>2, <1>3, <1>5, <1>6 DEF Kept, u, n

LEMMA KeptArrives ==
  ASSUME NEW L \in Seq(Bytes), NEW d \in Seq(Bytes), NEW w \in Nat, NEW x \in Nat,
         NEW p \in 0 .. Len(L) - Hdr, NEW j \in 0 .. Len(d), Kept(L, d, w, x, p)
  PROVE  Kept(L \o SubSeq(d, 1, j), SubSeq(d, j + 1, Len(d)), w, x, p)
<1> DEFINE t == SubSeq(d, 1, j)
           r == SubSeq(d, j + 1, Len(d))
           u == L \o t
           n == w - Len(d)
<1>1. /\ Len(L) \in Nat /\ Len(d) \in Nat /\ j \in Nat /\ j <= Len(d)
      /\ Hdr \in Nat \ {0} /\ p \in Nat
  BY VectorBusAssumption
<1>2. /\ t \in Seq(Bytes) /\ Len(t) = j /\ \A k \in 1 .. j : t[k] = d[k]
      /\ r \in Seq(Bytes) /\ Len(r) = Len(d) - j
      /\ \A k \in 1 .. Len(d) - j : r[k] = d[j + k]
  BY HeadOf, TailOf
<1> HIDE DEF t, r
<1>3. /\ Len(u) = Len(L) + Len(t)
      /\ \A i \in 1 .. Len(L) : u[i] = L[i]
      /\ \A i \in 1 .. Len(t) : u[Len(L) + i] = t[i]
  BY <1>2, Joined
<1>4. /\ ReqAt(L, p, x) /\ Len(d) <= w /\ p + Hdr + n <= Len(L)
      /\ \A k \in 1 .. n : L[p + Hdr + k] = Byte(x, "ans", k)
      /\ Len(d) > 0 => Len(L) = p + Hdr + n
      /\ \A k \in 1 .. Len(d) : d[k] = Byte(x, "ans", n + k)
  BY DEF Kept
<1>5. ReqAt(u, p, x)
  BY <1>2, <1>4, ReqAtMore
<1>6. n \in Nat /\ w - Len(r) = n + j
  BY <1>1, <1>2, <1>4
<1> HIDE DEF u, n
<1>a. /\ Len(u) = Len(L) + j /\ Len(r) = Len(d) - j /\ p + Hdr + n <= Len(L)
      /\ Len(d) <= w /\ (Len(d) > 0 => Len(L) = p + Hdr + n)
  BY <1>2, <1>3, <1>4
<1>7. Len(r) <= w /\ p + Hdr + (n + j) <= Len(u)
  BY ONLY <1>a, <1>1, <1>6, w \in Nat
<1>8. Len(r) > 0 => Len(u) = p + Hdr + (n + j)
  <2>1. Len(r) > 0 => Len(d) > 0
    BY ONLY <1>a, <1>1
  <2>2. Len(d) > 0 => Len(u) = p + Hdr + (n + j)
    BY ONLY <1>a, <1>1, <1>6
  <2> QED
    BY ONLY <2>1, <2>2
<1>9. ASSUME NEW k \in 1 .. n + j PROVE u[p + Hdr + k] = Byte(x, "ans", k)
  <2>1. CASE k <= n
    <3>1. p + Hdr + k \in 1 .. Len(L) /\ k \in 1 .. n
      BY <2>1, <1>1, <1>4, <1>6
    <3> QED
      BY <3>1, <1>3, <1>4
  <2>2. CASE n < k
    <3> DEFINE m == k - n
    <3>1. m \in 1 .. j /\ k = n + m /\ m \in 1 .. Len(d)
      BY <2>2, <1>1, <1>6
    <3> HIDE DEF m
    <3>2. Len(L) = p + Hdr + n
      BY <3>1, <1>1, <1>4
    <3>3. u[Len(L) + m] = t[m] /\ t[m] = d[m] /\ d[m] = Byte(x, "ans", n + m)
      BY <3>1, <1>2, <1>3, <1>4
    <3>4. p + Hdr + k = Len(L) + m
      BY <3>1, <3>2, <1>1, <1>6
    <3> QED
      BY <3>1, <3>3, <3>4
  <2> QED
    BY <2>1, <2>2, <1>6
<1>10. ASSUME NEW k \in 1 .. Len(r) PROVE r[k] = Byte(x, "ans", (n + j) + k)
  <2>1. j + k \in 1 .. Len(d) /\ k \in 1 .. Len(d) - j /\ (n + j) + k = n + (j + k)
    BY <1>1, <1>2, <1>6
  <2> QED
    BY <2>1, <1>2, <1>4
<1> QED
  BY <1>5, <1>6, <1>7, <1>8, <1>9, <1>10 DEF Kept, t, r, u

(* M is what remains of L when its first q bytes are gone.                 *)
IsTail(M, L, q) == Len(M) = Len(L) - q /\ \A i \in 1 .. Len(L) - q : M[i] = L[q + i]

LEMMA ReqAtTail ==
  ASSUME NEW L \in Seq(Bytes), NEW M \in Seq(Bytes), NEW q \in 0 .. Len(L), IsTail(M, L, q),
         NEW x \in Nat, NEW p \in 0 .. Len(M) - Hdr
  PROVE  q + p \in 0 .. Len(L) - Hdr /\ (ReqAt(M, p, x) <=> ReqAt(L, q + p, x))
<1>1. /\ Len(L) \in Nat /\ Len(M) \in Nat /\ Hdr \in Nat \ {0} /\ p \in Nat /\ q \in Nat
      /\ Len(M) = Len(L) - q /\ \A i \in 1 .. Len(L) - q : M[i] = L[q + i]
  BY VectorBusAssumption DEF IsTail
<1>2. q + p \in 0 .. Len(L) - Hdr
  BY <1>1
<1>3. ASSUME NEW k \in 1 .. Hdr PROVE M[p + k] = L[(q + p) + k]
  <2>1. p + k \in 1 .. Len(L) - q /\ q + (p + k) = (q + p) + k
    BY <1>1
  <2> QED
    BY <2>1, <1>1
<1> QED
  BY <1>2, <1>3 DEF ReqAt

LEMMA KeptTail ==
  ASSUME NEW L \in Seq(Bytes), NEW M \in Seq(Bytes), NEW q \in 0 .. Len(L), IsTail(M, L, q),
         NEW d \in Seq(Bytes), NEW w \in Nat, NEW x \in Nat,
         NEW p \in 0 .. Len(L) - Hdr, q <= p, Kept(L, d, w, x, p)
  PROVE  p - q \in 0 .. Len(M) - Hdr /\ Kept(M, d, w, x, p - q)
<1> DEFINE n == w - Len(d)
           r == p - q
<1>1. /\ Len(L) \in Nat /\ Len(M) \in Nat /\ Hdr \in Nat \ {0} /\ p \in Nat /\ q \in Nat
      /\ Len(d) \in Nat
      /\ Len(M) = Len(L) - q /\ \A i \in 1 .. Len(L) - q : M[i] = L[q + i]
  BY VectorBusAssumption DEF IsTail
<1>2. /\ ReqAt(L, p, x) /\ Len(d) <= w /\ p + Hdr + n <= Len(L)
      /\ \A k \in 1 .. n : L[p + Hdr + k] = Byte(x, "ans", k)
      /\ Len(d) > 0 => Len(L) = p + Hdr + n
      /\ \A k \in 1 .. Len(d) : d[k] = Byte(x, "ans", n + k)
  BY DEF Kept
<1>3. n \in Nat /\ r \in Nat /\ q + r = p
  BY <1>1, <1>2
<1>4. r \in 0 .. Len(M) - Hdr
  BY <1>1, <1>3
<1> HIDE DEF n, r
<1>5. ReqAt(M, r, x)
  BY <1>2, <1>3, <1>4, ReqAtTail
<1>6. r + Hdr + n <= Len(M) /\ (Len(d) > 0 => Len(M) = r + Hdr + n)
  <2>1. /\ Len(M) = Len(L) - q /\ p + Hdr + n <= Len(L)
        /\ Len(d) > 0 => Len(L) = p + Hdr + n
        /\ Len(L) \in Nat /\ Hdr \in Nat /\ p \in Nat /\ q \in Nat
    BY <1>1, <1>2
  <2> QED
    BY ONLY <2>1, <1>3
<1>7. ASSUME NEW k \in 1 .. n PROVE M[r + Hdr + k] = Byte(x, "ans", k)
  <2>1. r + Hdr + k \in 1 .. Len(L) - q /\ q + (r + Hdr + k) = p + Hdr + k
    BY <1>1, <1>3, <1>6
  <2> QED
    BY <2>1, <1>1, <1>2
<1> QED
  BY <1>2, <1>4, <1>5, <1>6, <1>7 DEF Kept, n, r

-----------------------------------------------------------------------------
(* The inductive invariant.                                                *)

Line == buf \o toList

Want(x) == AnsLen[asked[x]]

(* The bytes the device of the present exchange may send.                  *)
FromNow(s) ==
  \A i \in 1 .. Len(s) : s[i] = Noise \/ (s[i].x = Now /\ s[i].part = "ans")

Port == [lis : BOOLEAN, resp : Seq(Bytes), whole : BOOLEAN, timer : BOOLEAN,
         out : Nat, written : Nat]

VTypes ==
  /\ asked \in Seq(Req)
  /\ busy \in BOOLEAN
  /\ com \in Port
  /\ device \in Seq(Bytes) /\ toMaster \in Seq(Bytes)
  /\ toList \in Seq(Bytes) /\ buf \in Seq(Bytes)
  /\ cmd \in Nat
  /\ heard \in Seq([x : Nat, data : Seq(Bytes)])
  /\ answers \in Seq([x : Nat, data : Seq(Bytes)])

(* What the master has read or will read is the present exchange's; it has *)
(* not read a whole answer.                                                *)
MasterOK ==
  /\ busy => com.whole = FALSE
  /\ FromNow(com.resp) /\ FromNow(toMaster) /\ FromNow(device)
  /\ Now = 0 => ~busy /\ com.resp = <<>> /\ toMaster = <<>> /\ device = <<>>
  /\ Now > 0 => Len(com.resp) < Want(Now)

AnswersOK ==
  \A i \in 1 .. Len(answers) :
    answers[i].x \in 1 .. Now /\ answers[i].data = Answer(answers[i].x)

(* How much is on the line behind a request, at least: an answer when the  *)
(* exchange is over, and before that what the master has received.         *)
Due(x) == IF x = Now /\ busy THEN Len(com.resp) + Len(toMaster) ELSE Want(x)

(* A request is followed by that much, and by the next not before a whole  *)
(* answer's length.                                                        *)
LineFine(L) ==
  /\ \A i \in 1 .. Len(L) : L[i].x <= Now
  /\ \A x \in 1 .. Now : \A p \in 0 .. Len(L) - Hdr :
       ReqAt(L, p, x) => p + Hdr + Due(x) <= Len(L)
  /\ \A x, y \in 1 .. Now : \A p, r \in 0 .. Len(L) - Hdr :
       ReqAt(L, p, x) /\ ReqAt(L, r, y) /\ p < r => p + Hdr + Want(x) <= r

(* The listener has found a request and not its whole answer.              *)
CmdOK ==
  cmd # 0 =>
    /\ cmd \in 1 .. Now
    /\ Hdr <= Len(buf) /\ ReqAt(buf, 0, cmd)
    /\ Len(buf) < Hdr + Want(cmd)

Coming(x) == IF x = Now THEN device ELSE <<>>

KeptOK ==
  \A x \in (1 .. Now) \ spoilt :
    asked[x] \in Known =>
      Heard(x) \/ \E p \in 0 .. Len(Line) - Hdr : Kept(Line, Coming(x), Want(x), x, p)

VInv ==
  /\ VTypes /\ MasterOK /\ AnswersOK
  /\ LineFine(Line) /\ CmdOK /\ KeptOK

-----------------------------------------------------------------------------
LEMMA Params ==
  ASSUME VTypes
  PROVE  /\ Hdr \in Nat \ {0} /\ Now \in Nat
         /\ \A x \in 1 .. Now : asked[x] \in Req /\ Want(x) \in Nat \ {0}
         /\ Line \in Seq(Bytes) /\ Len(Line) = Len(buf) + Len(toList)
         /\ Len(buf) \in Nat /\ Len(toList) \in Nat
         /\ com.resp \in Seq(Bytes) /\ Len(com.resp) \in Nat
         /\ Len(toMaster) \in Nat /\ Len(device) \in Nat
         /\ \A x \in Nat : Coming(x) \in Seq(Bytes)
<1>1. asked \in Seq(Req) /\ com \in Port
  BY DEF VTypes
<1>2. \A x \in 1 .. Now : asked[x] \in Req /\ Want(x) \in Nat \ {0}
  BY <1>1, ElementOfSeq, VectorBusAssumption DEF Now, Want
<1>3. com.resp \in Seq(Bytes)
  BY <1>1 DEF Port
<1>4. Line \in Seq(Bytes) /\ Len(Line) = Len(buf) + Len(toList)
  BY Joined DEF VTypes, Line
<1>5. \A x \in Nat : Coming(x) \in Seq(Bytes)
  BY EmptySeq DEF VTypes, Coming
<1>6. /\ Len(buf) \in Nat /\ Len(toList) \in Nat /\ Len(toMaster) \in Nat
      /\ Len(device) \in Nat /\ Now \in Nat /\ Len(com.resp) \in Nat
  BY <1>1, <1>3 DEF VTypes, Now
<1>7. Hdr \in Nat \ {0}
  BY VectorBusAssumption
<1> QED
  BY <1>2, <1>3, <1>4, <1>5, <1>6, <1>7, Zenon

LEMMA AnswerIs ==
  ASSUME VTypes, NEW x \in 1 .. Now
  PROVE  /\ Answer(x) \in Seq(Bytes) /\ Len(Answer(x)) = Want(x)
         /\ \A k \in 1 .. Want(x) : Answer(x)[k] = Byte(x, "ans", k)
<1>1. Want(x) \in Nat /\ x \in Nat
  BY Params
<1>2. Answer(x) \in [1 .. Want(x) -> Bytes]
  BY <1>1 DEF Answer, Want, Byte, Bytes
<1> QED
  BY <1>1, <1>2, MakesSeq DEF Answer, Want

(* Bytes of the present exchange are no request's.                         *)
LEMMA NowIsNoRequest ==
  ASSUME VTypes, NEW s \in Seq(Bytes), FromNow(s), NEW i \in 1 .. Len(s)
  PROVE  s[i].part # "req" /\ s[i].part # "zero" /\ s[i].x <= Now
<1>1. Now \in Nat
  BY Params
<1>2. s[i] = Noise \/ (s[i].x = Now /\ s[i].part = "ans")
  BY DEF FromNow
<1> QED
  BY <1>1, <1>2 DEF Noise, Byte

LEMMA FromNowJoined ==
  ASSUME NEW s \in Seq(Bytes), NEW t \in Seq(Bytes), FromNow(s), FromNow(t)
  PROVE  FromNow(s \o t)
<1> DEFINE r == s \o t
<1>1. /\ Len(r) = Len(s) + Len(t) /\ Len(s) \in Nat /\ Len(t) \in Nat
      /\ \A i \in 1 .. Len(s) : r[i] = s[i]
      /\ \A i \in 1 .. Len(t) : r[Len(s) + i] = t[i]
  BY Joined
<1> HIDE DEF r
<1>2. ASSUME NEW i \in 1 .. Len(r) PROVE r[i] = Noise \/ (r[i].x = Now /\ r[i].part = "ans")
  <2>1. CASE i \in 1 .. Len(s)
    BY <2>1, <1>1 DEF FromNow
  <2>2. CASE i \notin 1 .. Len(s)
    <3> DEFINE j == i - Len(s)
    <3>1. j \in 1 .. Len(t) /\ i = Len(s) + j
      BY <2>2, <1>1
    <3> HIDE DEF j
    <3> QED
      BY <3>1, <1>1 DEF FromNow
  <2> QED
    BY <2>1, <2>2
<1> QED
  BY <1>2 DEF FromNow, r

LEMMA FineTail ==
  ASSUME VTypes, NEW L \in Seq(Bytes), NEW M \in Seq(Bytes), NEW q \in 0 .. Len(L),
         IsTail(M, L, q), LineFine(L)
  PROVE  LineFine(M)
<1>1. /\ Len(L) \in Nat /\ Len(M) \in Nat /\ Hdr \in Nat \ {0} /\ Now \in Nat /\ q \in Nat
      /\ Len(M) = Len(L) - q /\ \A i \in 1 .. Len(L) - q : M[i] = L[q + i]
  BY Params DEF IsTail
<1>2. \A x \in 1 .. Now : Want(x) \in Nat /\ Due(x) \in Nat
  <2>1. Len(com.resp) + Len(toMaster) \in Nat
    <3>1. Len(com.resp) \in Nat /\ Len(toMaster) \in Nat
      BY Params
    <3> QED
      BY <3>1
  <2> QED
    BY <2>1, Params DEF Due
<1>3. ASSUME NEW i \in 1 .. Len(M) PROVE M[i].x <= Now
  <2>1. q + i \in 1 .. Len(L) /\ M[i] = L[q + i]
    BY <1>1
  <2> QED
    BY <2>1 DEF LineFine
<1>4. ASSUME NEW x \in 1 .. Now, NEW p \in 0 .. Len(M) - Hdr, ReqAt(M, p, x)
      PROVE  p + Hdr + Due(x) <= Len(M)
  <2>1. q + p \in 0 .. Len(L) - Hdr /\ ReqAt(L, q + p, x)
    BY <1>4, ReqAtTail
  <2>2. q + p + Hdr + Due(x) <= Len(L)
    BY <2>1 DEF LineFine
  <2> QED
    BY ONLY <2>2, <1>1, <1>2, p \in 0 .. Len(M) - Hdr, x \in 1 .. Now
<1>5. ASSUME NEW x \in 1 .. Now, NEW y \in 1 .. Now,
             NEW p \in 0 .. Len(M) - Hdr, NEW r \in 0 .. Len(M) - Hdr,
             ReqAt(M, p, x), ReqAt(M, r, y), p < r
      PROVE  p + Hdr + Want(x) <= r
  <2>1. /\ q + p \in 0 .. Len(L) - Hdr /\ ReqAt(L, q + p, x)
        /\ q + r \in 0 .. Len(L) - Hdr /\ ReqAt(L, q + r, y)
    BY <1>5, ReqAtTail
  <2>2. q + p < q + r
    BY <1>1, <1>5
  <2>3. q + p + Hdr + Want(x) <= q + r
    BY <2>1, <2>2 DEF LineFine
  <2> QED
    BY ONLY <2>3, <1>1, <1>2, p \in 0 .. Len(M) - Hdr, r \in 0 .. Len(M) - Hdr, x \in 1 .. Now
<1> QED
  BY <1>3, <1>4, <1>5 DEF LineFine

(* What is no request comes behind the line.                               *)
LEMMA LineGrows ==
  ASSUME VTypes, LineFine(Line), NEW t \in Seq(Bytes),
         \A i \in 1 .. Len(t) : t[i].part # "req" /\ t[i].x <= Now
  PROVE  /\ Line \o t \in Seq(Bytes) /\ Len(Line \o t) = Len(Line) + Len(t)
         /\ buf \o (toList \o t) = Line \o t
         /\ \A i \in 1 .. Len(Line \o t) : (Line \o t)[i].x <= Now
         /\ \A x \in 1 .. Now : \A p \in 0 .. Len(Line \o t) - Hdr :
              ReqAt(Line \o t, p, x) => p + Hdr + Due(x) <= Len(Line)
         /\ \A x, y \in 1 .. Now : \A p, r \in 0 .. Len(Line \o t) - Hdr :
              ReqAt(Line \o t, p, x) /\ ReqAt(Line \o t, r, y) /\ p < r
                => p + Hdr + Want(x) <= r
<1> DEFINE L == Line
           u == L \o t
<1>1. /\ L \in Seq(Bytes) /\ Hdr \in Nat \ {0} /\ Now \in Nat
  BY Params
<1>2. buf \o (toList \o t) = u
  <2>1. buf \in Seq(Bytes) /\ toList \in Seq(Bytes)
    BY DEF VTypes
  <2>2. (buf \o toList) \o t = buf \o (toList \o t)
    BY <2>1, BytesAssociative
  <2> QED
    BY <2>2 DEF Line
<1>3. LineFine(L)
  OBVIOUS
<1> HIDE DEF L
<1>4. /\ u \in Seq(Bytes) /\ Len(u) = Len(L) + Len(t) /\ Len(L) \in Nat /\ Len(t) \in Nat
      /\ \A i \in 1 .. Len(L) : u[i] = L[i]
      /\ \A i \in 1 .. Len(t) : u[Len(L) + i] = t[i]
  BY <1>1, Joined
<1>5. ASSUME NEW x \in 1 .. Now, NEW p \in 0 .. Len(u) - Hdr, ReqAt(u, p, x)
      PROVE  p \in 0 .. Len(L) - Hdr /\ ReqAt(L, p, x)
  <2>1. x \in Nat /\ \A i \in 1 .. Len(t) : ~ (t[i].part = "req" /\ t[i].x = x)
    BY <1>1
  <2> QED
    BY <2>1, <1>1, <1>5, ReqAtOld
<1> HIDE DEF u
<1>6. ASSUME NEW i \in 1 .. Len(u) PROVE u[i].x <= Now
  <2>1. CASE i \in 1 .. Len(L)
    BY <2>1, <1>3, <1>4 DEF LineFine
  <2>2. CASE i \notin 1 .. Len(L)
    <3> DEFINE j == i - Len(L)
    <3>1. j \in 1 .. Len(t) /\ i = Len(L) + j
      BY <2>2, <1>4
    <3> HIDE DEF j
    <3> QED
      BY <3>1, <1>4
  <2> QED
    BY <2>1, <2>2
<1>7. \A x \in 1 .. Now : \A p \in 0 .. Len(u) - Hdr :
        ReqAt(u, p, x) => p + Hdr + Due(x) <= Len(L)
  BY <1>3, <1>5 DEF LineFine
<1>8. \A x, y \in 1 .. Now : \A p, r \in 0 .. Len(u) - Hdr :
        ReqAt(u, p, x) /\ ReqAt(u, r, y) /\ p < r => p + Hdr + Want(x) <= r
  BY <1>3, <1>5 DEF LineFine
<1> QED
  BY <1>2, <1>4, <1>6, <1>7, <1>8 DEF L, u

-----------------------------------------------------------------------------
(* The master.                                                             *)

(* The exchange is over without an answer: what is missing is filled up.   *)
LEMMA GiveUpKeeps ==
  ASSUME VInv, busy, NEW c, NEW left, GiveUp(c, left),
         c.resp \in Seq(Bytes), c.whole \in BOOLEAN,
         Len(c.resp) <= Len(com.resp) + Len(toMaster),
         c.whole => Want(Now) <= Len(c.resp),
         ~ c.whole => Len(c.resp) < Want(Now) /\ device = <<>>,
         left \in Port, FromNow(left.resp), Len(left.resp) < Want(Now),
         toMaster' = toMaster \/ toMaster' = <<>>,
         UNCHANGED <<asked, device, buf, cmd, heard, spoilt>>
  PROVE  VInv'
<1> DEFINE z == Missing(c)
           t == Zeros(z)
<1>1. /\ VTypes /\ MasterOK /\ AnswersOK /\ LineFine(Line) /\ CmdOK /\ KeptOK
  BY DEF VInv
<1>2. /\ Now \in Nat /\ Now > 0 /\ Want(Now) \in Nat \ {0} /\ Hdr \in Nat \ {0}
      /\ Len(com.resp) \in Nat /\ Len(toMaster) \in Nat /\ Len(c.resp) \in Nat
      /\ Now \in 1 .. Now
  <2>1. Now \in Nat /\ Now > 0
    BY <1>1, Params DEF MasterOK
  <2>2. Now \in 1 .. Now
    BY <2>1
  <2>3. /\ Want(Now) \in Nat \ {0} /\ Hdr \in Nat \ {0}
        /\ Len(com.resp) \in Nat /\ Len(toMaster) \in Nat
    BY <1>1, <2>2, Params
  <2>4. Len(c.resp) \in Nat
    OBVIOUS
  <2> QED
    BY <2>1, <2>2, <2>3, <2>4
<1>3. /\ z \in Nat
      /\ c.whole => z = 0
      /\ ~ c.whole => z = Want(Now) - Len(c.resp)
  BY <1>2 DEF Missing, Want
<1>4. /\ busy' = FALSE /\ toList' = toList \o t /\ answers' = answers
      /\ com' = [left EXCEPT !.whole = FALSE, !.out = @ + z]
  BY DEF GiveUp
<1> HIDE DEF z
<1>5. com' \in Port /\ com'.resp = left.resp /\ com'.whole = FALSE
  <2>1. left.out + z \in Nat
    BY <1>3 DEF Port
  <2>2. com' = [lis |-> left.lis, resp |-> left.resp, whole |-> FALSE, timer |-> left.timer,
                out |-> left.out + z, written |-> left.written]
    BY <1>4 DEF Port
  <2> QED
    BY <2>1, <2>2 DEF Port
<1>6. /\ t \in Seq(Bytes) /\ Len(t) = z
      /\ \A i \in 1 .. Len(t) : t[i].part # "req" /\ t[i].x <= Now
  <2>1. /\ t \in Seq(Bytes) /\ Len(t) = z /\ \A i \in 1 .. z : t[i] = Zero
    BY <1>3, Pieces1
  <2>2. Zero.part # "req" /\ Zero.x <= Now
    BY <1>2 DEF Zero, Byte
  <2> QED
    BY <2>1, <2>2
<1> HIDE DEF t
<1>7. Now' = Now /\ \A x : Want(x)' = Want(x) /\ Coming(x)' = Coming(x) /\ Answer(x)' = Answer(x)
  BY DEF Now, Want, Coming, Answer
<1>8. VTypes'
  <2>1. toList' \in Seq(Bytes) /\ toMaster' \in Seq(Bytes)
    <3>1. toList \in Seq(Bytes) /\ toMaster \in Seq(Bytes) /\ <<>> \in Seq(Bytes)
      BY <1>1, EmptySeq DEF VTypes
    <3>2. toList \o t \in Seq(Bytes)
      BY <3>1, <1>6, Joined
    <3> QED
      BY <3>1, <3>2, <1>4
  <2> QED
    BY <1>1, <1>4, <1>5, <2>1 DEF VTypes
<1>9. MasterOK'
  <2>1. FromNow(toMaster')
    BY <1>1 DEF MasterOK, FromNow
  <2> QED
    BY <1>1, <1>2, <1>4, <1>5, <1>7, <2>1 DEF MasterOK, FromNow
<1>10. AnswersOK'
  BY <1>1, <1>4, <1>7 DEF AnswersOK
<1>11. /\ Line' = Line \o t /\ Len(Line') = Len(Line) + z /\ Line' \in Seq(Bytes)
       /\ Len(Line) \in Nat
       /\ \A i \in 1 .. Len(Line') : Line'[i].x <= Now
       /\ \A x \in 1 .. Now : \A p \in 0 .. Len(Line') - Hdr :
            ReqAt(Line', p, x) => p + Hdr + Due(x) <= Len(Line)
       /\ \A x, y \in 1 .. Now : \A p, r \in 0 .. Len(Line') - Hdr :
            ReqAt(Line', p, x) /\ ReqAt(Line', r, y) /\ p < r => p + Hdr + Want(x) <= r
  <2>1. Line' = Line \o t
    BY <1>1, <1>4, <1>6, LineGrows DEF Line
  <2>2. Len(Line) \in Nat
    BY <1>1, Params
  <2> QED
    BY <2>1, <2>2, <1>1, <1>6, LineGrows
<1>12. LineFine(Line)'
  <2>1. ASSUME NEW x \in 1 .. Now, NEW p \in 0 .. Len(Line') - Hdr, ReqAt(Line', p, x)
        PROVE  p + Hdr + Want(x) <= Len(Line')
    <3>1. p + Hdr + Due(x) <= Len(Line) /\ Len(Line') = Len(Line) + z /\ Len(Line) \in Nat
      BY <1>11, <2>1
    <3>2. p \in Nat /\ Want(x) \in Nat
      BY <1>1, Params
    <3>3. CASE x = Now
      <4>1. Due(x) = Len(com.resp) + Len(toMaster)
        BY <3>3 DEF Due
      <4>2. Want(x) <= Due(x) + z
        BY <4>1, <3>3, <1>2, <1>3
      <4>3. Due(x) \in Nat
        BY <4>1, <1>2
      <4> QED
        BY ONLY <3>1, <3>2, <4>2, <4>3, <1>2, <1>3
    <3>4. CASE x # Now
      <4>1. Due(x) = Want(x)
        BY <3>4 DEF Due
      <4> QED
        BY ONLY <3>1, <3>2, <4>1, <1>2, <1>3
    <3> QED
      BY <3>3, <3>4
  <2> QED
    BY <1>4, <1>7, <1>11, <2>1 DEF LineFine, Due
<1>13. CmdOK'
  BY <1>1, <1>7 DEF CmdOK
<1>14. KeptOK'
  <2> SUFFICES ASSUME NEW x \in (1 .. Now) \ spoilt, asked[x] \in Known
               PROVE  \/ Heard(x)'
                      \/ \E p \in 0 .. Len(Line') - Hdr :
                           Kept(Line', Coming(x), Want(x), x, p)
    BY <1>7 DEF KeptOK
  <2>1. CASE Heard(x)
    BY <2>1, <1>7 DEF Heard
  <2>2. CASE \E p \in 0 .. Len(Line) - Hdr : Kept(Line, Coming(x), Want(x), x, p)
    <3>1. PICK p \in 0 .. Len(Line) - Hdr : Kept(Line, Coming(x), Want(x), x, p)
      BY <2>2
    <3>2. Len(Coming(x)) > 0 => Len(t) = 0
      BY <1>3, <1>6 DEF Coming
    <3>3. /\ Line \in Seq(Bytes) /\ Coming(x) \in Seq(Bytes) /\ Want(x) \in Nat /\ x \in Nat
      BY <1>1, Params
    <3>4. Kept(Line', Coming(x), Want(x), x, p)
      BY <3>1, <3>2, <3>3, <1>6, <1>11, KeptMore
    <3>5. p \in 0 .. Len(Line') - Hdr
      BY <1>2, <1>3, <1>11
    <3> QED
      BY <3>4, <3>5
  <2> QED
    BY <2>1, <2>2, <1>1 DEF KeptOK
<1> QED
  BY <1>8, <1>9, <1>10, <1>12, <1>13, <1>14 DEF VInv

(* Nothing comes on the line, and what is due does not become more.        *)
LEMMA LineStays ==
  ASSUME VInv, VTypes', MasterOK', AnswersOK',
         UNCHANGED <<asked, buf, toList, device, cmd, heard, spoilt>>,
         \A x \in 1 .. Now : Due(x)' <= Due(x) /\ Due(x)' \in Nat /\ Due(x) \in Nat
  PROVE  VInv'
<1>1. /\ VTypes /\ MasterOK /\ AnswersOK /\ LineFine(Line) /\ CmdOK /\ KeptOK
  BY DEF VInv
<1>2. /\ Now' = Now /\ Line' = Line
      /\ \A x : Want(x)' = Want(x) /\ Coming(x)' = Coming(x) /\ Answer(x)' = Answer(x)
  BY DEF Now, Line, Want, Coming, Answer
<1>3. LineFine(Line)'
  <2>1. ASSUME NEW x \in 1 .. Now, NEW p \in 0 .. Len(Line) - Hdr, ReqAt(Line, p, x)
        PROVE  p + Hdr + Due(x)' <= Len(Line)
    <3>1. p + Hdr + Due(x) <= Len(Line)
      BY <1>1, <2>1 DEF LineFine
    <3>2. Len(Line) \in Nat /\ Hdr \in Nat
      BY <1>1, Params
    <3> QED
      BY <3>1, <3>2
  <2> QED
    BY <1>1, <1>2, <2>1 DEF LineFine
<1>4. CmdOK'
  BY <1>1, <1>2 DEF CmdOK
<1>5. KeptOK'
  BY <1>1, <1>2 DEF KeptOK, Heard
<1> QED
  BY <1>1, <1>3, <1>4, <1>5 DEF VInv

(* A whole answer whose sum is right is the answer to the request.         *)
LEMMA RightIsOwn ==
  ASSUME VTypes, Now > 0, NEW s \in Seq(Bytes), FromNow(s), s # <<>>, RightSum(s)
  PROVE  s = Answer(Now)
<1>1. Now \in Nat /\ Len(s) \in Nat \ {0}
  BY Params, EmptySeq
<1>2. 1 \in 1 .. Len(s)
  BY <1>1
<1>3. s[1] = Noise \/ (s[1].x = Now /\ s[1].part = "ans")
  BY <1>2 DEF FromNow
<1>4. CASE \E x \in 1 .. Now : s = Answer(x)
  <2>1. PICK x \in 1 .. Now : s = Answer(x)
    BY <1>4
  <2>2. Want(x) \in Nat \ {0}
    BY Params
  <2>3. 1 \in 1 .. Want(x)
    BY <2>2
  <2>4. s[1] = Byte(x, "ans", 1)
    BY <2>1, <2>3, AnswerIs
  <2>5. s[1].x = x /\ s[1] # Noise
    BY <2>4 DEF Byte, Noise
  <2> QED
    BY <2>1, <2>5, <1>3
<1>5. CASE s = Zeros(Len(s))
  <2>1. s[1] = Zero
    BY <1>1, <1>2, <1>5, Pieces1
  <2> QED
    BY <2>1, <1>3 DEF Zero, Noise, Byte
<1> QED
  BY <1>4, <1>5 DEF RightSum

LEMMA ReceiveKeeps ==
  ASSUME VInv, NEW c \in Port, NEW data, Receive(c, data), FromNow(c.resp),
         Len(c.resp) <= Len(com.resp) + Len(toMaster),
         busy /\ c.whole => Want(Now) <= Len(c.resp),
         busy /\ ~ c.whole => Len(c.resp) < Want(Now) /\ device = <<>>,
         data = <<>> \/ (c.whole /\ data = c.resp /\ RightSum(data)),
         toMaster' = toMaster \/ toMaster' = <<>>,
         UNCHANGED <<asked, device, buf, cmd, heard, spoilt>>
  PROVE  VInv'
<1> DEFINE done == [c EXCEPT !.lis = FALSE, !.resp = <<>>, !.timer = FALSE]
<1>1. /\ VTypes /\ MasterOK /\ AnswersOK
  BY DEF VInv
<1>2. /\ Now \in Nat /\ Len(com.resp) \in Nat /\ Len(toMaster) \in Nat
      /\ \A x \in 1 .. Now : Want(x) \in Nat \ {0}
  BY <1>1, Params
<1>3. c.resp \in Seq(Bytes) /\ c.whole \in BOOLEAN /\ Len(c.resp) \in Nat
  BY DEF Port
<1>4. done \in Port /\ done.resp = <<>>
  <2>1. <<>> \in Seq(Bytes)
    BY EmptySeq
  <2>2. c \in Port
    OBVIOUS
  <2> QED
    BY ONLY <2>1, <2>2 DEF Port
<1>5. FromNow(<<>>) /\ Len(<<>>) = 0
  BY DEF FromNow
<1>6. Now > 0 => Now \in 1 .. Now /\ 0 < Want(Now)
  BY <1>2
<1>7. /\ Now' = Now
      /\ \A x : Want(x)' = Want(x) /\ Answer(x)' = Answer(x)
  BY DEF Now, Want, Answer
<1>8. /\ toMaster' \in Seq(Bytes) /\ FromNow(toMaster') /\ (toMaster = <<>> => toMaster' = <<>>)
      /\ Len(toMaster') \in Nat
  <2>1. <<>> \in Seq(Bytes)
    BY EmptySeq
  <2> QED
    BY <2>1, <1>1, <1>2, <1>5 DEF VTypes, MasterOK
<1>9. CASE busy /\ GiveUp(c, done)
  <2>1. Now > 0
    BY <1>1, <1>2, <1>9 DEF MasterOK
  <2>2. FromNow(done.resp) /\ Len(done.resp) < Want(Now)
    BY <2>1, <1>4, <1>5, <1>6
  <2> HIDE DEF done
  <2> QED
    BY <2>2, <1>3, <1>4, <1>9, GiveUpKeeps
<1>10. CASE /\ com' = done /\ UNCHANGED toList /\ busy' = FALSE
            /\ \/ ~ busy /\ UNCHANGED answers
               \/ busy /\ data # <<>> /\ answers' = Append(answers, [x |-> Now, data |-> data])
  <2> HIDE DEF done
  <2>1. busy => data = c.resp /\ c.whole /\ data # <<>> /\ Now > 0 /\ data = Answer(Now)
    <3> SUFFICES ASSUME busy
                 PROVE  data = c.resp /\ c.whole /\ data # <<>> /\ Now > 0 /\ data = Answer(Now)
      OBVIOUS
    <3>1. data = c.resp /\ c.whole /\ data # <<>> /\ RightSum(data)
      BY <1>10
    <3>2. Now > 0
      BY <1>1, <1>2 DEF MasterOK
    <3> QED
      BY <3>1, <3>2, <1>1, <1>3, RightIsOwn
  <2>2. answers' \in Seq([x : Nat, data : Seq(Bytes)]) /\ AnswersOK'
    <3>1. CASE ~ busy
      BY <3>1, <1>1, <1>7, <1>10 DEF VTypes, AnswersOK
    <3>2. CASE busy
      <4> DEFINE new == [x |-> Now, data |-> data]
      <4>1. /\ new \in [x : Nat, data : Seq(Bytes)] /\ new.x \in 1 .. Now
            /\ new.data = Answer(new.x)
        BY <3>2, <2>1, <1>2, <1>3, <1>6
      <4>2. answers' = Append(answers, new)
        BY <3>2, <1>10
      <4> HIDE DEF new
      <4>3. /\ answers' \in Seq([x : Nat, data : Seq(Bytes)])
            /\ Len(answers') = Len(answers) + 1 /\ Len(answers) \in Nat
            /\ \A i \in 1 .. Len(answers) : answers'[i] = answers[i]
            /\ answers'[Len(answers) + 1] = new
        BY <4>1, <4>2, <1>1, AppendProperties DEF VTypes
      <4>4. ASSUME NEW i \in 1 .. Len(answers')
            PROVE  answers'[i].x \in 1 .. Now /\ answers'[i].data = Answer(answers'[i].x)
        <5>1. CASE i \in 1 .. Len(answers)
          BY <5>1, <4>3, <1>1 DEF AnswersOK
        <5>2. CASE i = Len(answers) + 1
          BY <5>2, <4>1, <4>3
        <5> QED
          BY <5>1, <5>2, <4>3
      <4> QED
        BY <4>3, <4>4, <1>7 DEF AnswersOK
    <3> QED
      BY <3>1, <3>2
  <2>3. VTypes'
    BY <2>2, <1>1, <1>4, <1>8, <1>10 DEF VTypes
  <2>4. MasterOK'
    <3>1. FromNow(com'.resp) /\ com'.resp = <<>> /\ (Now > 0 => Len(com'.resp) < Want(Now))
      BY <1>4, <1>5, <1>6, <1>10
    <3>2. FromNow(device)
      BY <1>1 DEF MasterOK
    <3>3. Now = 0 => toMaster' = <<>> /\ device = <<>>
      BY <1>1, <1>8 DEF MasterOK
    <3> QED
      BY <3>1, <3>2, <3>3, <1>7, <1>8, <1>10 DEF MasterOK, FromNow
  <2>5. ASSUME NEW x \in 1 .. Now
        PROVE  Due(x)' <= Due(x) /\ Due(x)' \in Nat /\ Due(x) \in Nat
    <3>1. Due(x)' = Want(x) /\ Want(x) \in Nat
      BY <1>2, <1>7, <1>10 DEF Due
    <3>2. CASE busy /\ x = Now
      <4>1. Due(x) = Len(com.resp) + Len(toMaster) /\ Want(x) <= Len(c.resp)
        BY <3>2, <2>1 DEF Due
      <4> QED
        BY <4>1, <3>1, <1>2, <1>3
    <3>3. CASE ~ (busy /\ x = Now)
      BY <3>1, <3>3 DEF Due
    <3> QED
      BY <3>2, <3>3
  <2> QED
    BY <2>2, <2>3, <2>4, <2>5, <1>10, LineStays
<1> QED
  BY <1>1, <1>9, <1>10 DEF Receive, VTypes

LEMMA WrittenKeeps ==
  ASSUME VInv, NEW k \in Nat, Written(k)
  PROVE  VInv'
<1>1. VTypes /\ MasterOK /\ AnswersOK
  BY DEF VInv
<1>2. /\ k <= com.out
      /\ com' = [com EXCEPT !.out = @ - k,
                            !.written = IF com.written + k = Hdr THEN 0 ELSE com.written + k,
                            !.lis = @ \/ com.written + k = Hdr]
      /\ UNCHANGED <<asked, busy, device, toMaster, toList, buf, cmd, heard, answers, spoilt>>
  BY DEF Written, lineVars, listVars
<1>3. com \in Port
  BY <1>1 DEF VTypes
<1>4. com' \in Port /\ com'.resp = com.resp /\ com'.whole = com.whole
  <2>1. com.out - k \in Nat /\ com.written + k \in Nat
    BY <1>2, <1>3 DEF Port
  <2>2. (com.lis \/ com.written + k = Hdr) \in BOOLEAN
    OBVIOUS
  <2> QED
    BY ONLY <1>2, <1>3, <2>1, <2>2 DEF Port
<1>5. VTypes'
  BY <1>1, <1>2, <1>4 DEF VTypes
<1>6. MasterOK' /\ AnswersOK'
  BY <1>1, <1>2, <1>4 DEF MasterOK, AnswersOK, FromNow, Now, Want, Answer
<1>7. ASSUME NEW x \in 1 .. Now
      PROVE  Due(x)' <= Due(x) /\ Due(x)' \in Nat /\ Due(x) \in Nat
  <2>1. Len(com.resp) \in Nat /\ Len(toMaster) \in Nat /\ Want(x) \in Nat
    BY <1>1, Params
  <2>2. Due(x)' = Due(x)
    BY <1>2, <1>4 DEF Due, Now, Want
  <2>3. Due(x) \in Nat
    BY <2>1 DEF Due
  <2> QED
    BY <2>2, <2>3
<1> QED
  BY <1>2, <1>5, <1>6, <1>7, LineStays

LEMMA TimeOutKeeps ==
  ASSUME VInv, TimeOut
  PROVE  VInv'
<1>1. VTypes /\ MasterOK
  BY DEF VInv
<1>2. /\ busy /\ device = <<>> /\ GiveUp(com, com)
      /\ UNCHANGED <<asked, device, toMaster, buf, cmd, heard, spoilt>>
  BY DEF TimeOut, lineVars, listVars
<1>3. /\ com \in Port /\ com.resp \in Seq(Bytes) /\ Len(com.resp) \in Nat /\ Len(toMaster) \in Nat
      /\ Now \in Nat
  BY <1>1, Params DEF VTypes
<1>4. /\ com.whole = FALSE /\ FromNow(com.resp) /\ Len(com.resp) < Want(Now)
  BY <1>1, <1>2, <1>3 DEF MasterOK
<1>5. Len(com.resp) <= Len(com.resp) + Len(toMaster)
  BY <1>3
<1> QED
  BY <1>2, <1>3, <1>4, <1>5, GiveUpKeeps

LEMMA HandleTimeoutKeeps ==
  ASSUME VInv, HandleTimeout
  PROVE  VInv'
<1>1. VTypes /\ MasterOK /\ AnswersOK
  BY DEF VInv
<1>2. /\ device = <<>>
      /\ UNCHANGED <<asked, device, toMaster, buf, cmd, heard, spoilt>>
  BY DEF HandleTimeout, lineVars, listVars
<1>3. /\ com \in Port /\ com.resp \in Seq(Bytes) /\ Len(com.resp) \in Nat /\ Len(toMaster) \in Nat
      /\ Now \in Nat
  BY <1>1, Params DEF VTypes
<1>4. CASE com.lis
  <2>1. Receive(com, <<>>)
    BY <1>4 DEF HandleTimeout
  <2>2. FromNow(com.resp) /\ Len(com.resp) <= Len(com.resp) + Len(toMaster)
    BY <1>1, <1>3 DEF MasterOK
  <2>3. busy => ~ com.whole /\ Len(com.resp) < Want(Now) /\ device = <<>>
    BY <1>1, <1>2, <1>3 DEF MasterOK
  <2> QED
    BY <2>1, <2>2, <2>3, <1>2, <1>3, ReceiveKeeps
<1>5. CASE ~ com.lis
  <2>1. /\ com' = [com EXCEPT !.timer = FALSE]
        /\ UNCHANGED <<busy, toList, answers>>
    BY <1>5 DEF HandleTimeout
  <2>2. com' \in Port /\ com'.resp = com.resp /\ com'.whole = com.whole
    BY ONLY <2>1, <1>3 DEF Port
  <2>3. VTypes'
    BY <1>1, <1>2, <2>1, <2>2 DEF VTypes
  <2>4. MasterOK' /\ AnswersOK'
    BY <1>1, <1>2, <2>1, <2>2 DEF MasterOK, AnswersOK, FromNow, Now, Want, Answer
  <2>5. ASSUME NEW x \in 1 .. Now
        PROVE  Due(x)' <= Due(x) /\ Due(x)' \in Nat /\ Due(x) \in Nat
    <3>1. Want(x) \in Nat
      BY <1>1, Params
    <3>2. Due(x)' = Due(x)
      BY <1>2, <2>1, <2>2 DEF Due, Now, Want
    <3>3. Due(x) \in Nat
      BY <3>1, <1>3 DEF Due
    <3> QED
      BY <3>2, <3>3
  <2> QED
    BY <1>2, <2>1, <2>3, <2>4, <2>5, LineStays
<1> QED
  BY <1>4, <1>5

LEMMA ReadCOMKeeps ==
  ASSUME VInv, ReadCOM
  PROVE  VInv'
<1> DEFINE r == com.resp \o toMaster
           c == [com EXCEPT !.resp = @ \o toMaster, !.timer = TRUE]
           w == [c EXCEPT !.whole = TRUE]
           data == IF RightSum(c.resp) THEN c.resp ELSE <<>>
<1>1. VTypes /\ MasterOK /\ AnswersOK
  BY DEF VInv
<1>2. /\ toMaster # <<>> /\ toMaster' = <<>>
      /\ UNCHANGED <<asked, device, buf, cmd, heard, spoilt>>
      /\ IF ~ com.lis
         THEN /\ com' = [com EXCEPT !.resp = <<>>, !.timer = FALSE]
              /\ UNCHANGED <<busy, toList, answers>>
         ELSE IF Len(c.resp) < Want(Now)
         THEN com' = c /\ UNCHANGED <<busy, toList, answers>>
         ELSE Receive(w, data)
  BY DEF ReadCOM, listVars, Want
<1>3. /\ com \in Port /\ com.resp \in Seq(Bytes) /\ toMaster \in Seq(Bytes)
      /\ Len(com.resp) \in Nat /\ Len(toMaster) \in Nat /\ Now \in Nat
      /\ \A x \in 1 .. Now : Want(x) \in Nat \ {0}
  BY <1>1, Params DEF VTypes
<1>4. Now > 0 /\ Now \in 1 .. Now
  BY <1>1, <1>2, <1>3 DEF MasterOK
<1>5. r \in Seq(Bytes) /\ Len(r) = Len(com.resp) + Len(toMaster) /\ FromNow(r)
  <2>1. FromNow(com.resp) /\ FromNow(toMaster)
    BY <1>1 DEF MasterOK
  <2> QED
    BY <2>1, <1>3, Joined, FromNowJoined
<1> HIDE DEF r
<1>6. c \in Port /\ c.resp = r /\ c.whole = com.whole
  <2>1. c = [com EXCEPT !.resp = r, !.timer = TRUE]
    BY <1>3 DEF r, Port
  <2> HIDE DEF c
  <2> QED
    BY ONLY <2>1, <1>3, <1>5 DEF Port
<1>7. FromNow(<<>>) /\ Len(<<>>) = 0 /\ <<>> \in Seq(Bytes)
  BY EmptySeq DEF FromNow
<1>8. Now' = Now /\ \A x : Want(x)' = Want(x) /\ Answer(x)' = Answer(x)
  BY <1>2 DEF Now, Want, Answer
<1>9. CASE ~ com.lis
  <2>1. /\ com' = [com EXCEPT !.resp = <<>>, !.timer = FALSE]
        /\ UNCHANGED <<busy, toList, answers>>
    BY <1>2, <1>9
  <2>2. com' \in Port /\ com'.resp = <<>> /\ com'.whole = com.whole
    BY ONLY <2>1, <1>3, <1>7 DEF Port
  <2>3. VTypes'
    BY <1>1, <1>2, <1>7, <2>1, <2>2 DEF VTypes
  <2>4. MasterOK'
    <3>1. Len(com'.resp) < Want(Now)
      BY <2>2, <1>3, <1>4, <1>7
    <3> QED
      BY <3>1, <2>1, <2>2, <1>1, <1>2, <1>4, <1>7, <1>8 DEF MasterOK, FromNow
  <2>5. AnswersOK'
    BY <1>1, <1>8, <2>1 DEF AnswersOK
  <2>6. ASSUME NEW x \in 1 .. Now
        PROVE  Due(x)' <= Due(x) /\ Due(x)' \in Nat /\ Due(x) \in Nat
    <3>1. CASE x = Now /\ busy
      <4>1. Due(x)' = 0 + 0 /\ Due(x) = Len(com.resp) + Len(toMaster)
        BY <3>1, <2>1, <2>2, <1>2, <1>7, <1>8 DEF Due
      <4> QED
        BY <4>1, <1>3
    <3>2. CASE ~ (x = Now /\ busy)
      <4>1. Due(x)' = Want(x) /\ Due(x) = Want(x) /\ Want(x) \in Nat
        BY <3>2, <2>1, <1>3, <1>8 DEF Due
      <4> QED
        BY <4>1
    <3> QED
      BY <3>1, <3>2
  <2> QED
    BY <1>2, <2>1, <2>3, <2>4, <2>5, <2>6, LineStays
<1>10. CASE com.lis /\ Len(c.resp) < Want(Now)
  <2>1. com' = c /\ UNCHANGED <<busy, toList, answers>>
    BY <1>2, <1>10
  <2> HIDE DEF c
  <2>2. VTypes'
    BY <1>1, <1>2, <1>6, <1>7, <2>1 DEF VTypes
  <2>3. MasterOK'
    BY <2>1, <1>1, <1>2, <1>4, <1>5, <1>6, <1>7, <1>8, <1>10 DEF MasterOK, FromNow
  <2>4. AnswersOK'
    BY <1>1, <1>8, <2>1 DEF AnswersOK
  <2>5. ASSUME NEW x \in 1 .. Now
        PROVE  Due(x)' <= Due(x) /\ Due(x)' \in Nat /\ Due(x) \in Nat
    <3>1. CASE x = Now /\ busy
      <4>1. Due(x)' = Len(r) + 0 /\ Due(x) = Len(com.resp) + Len(toMaster)
        BY <3>1, <2>1, <1>2, <1>6, <1>7, <1>8 DEF Due
      <4> QED
        BY <4>1, <1>3, <1>5
    <3>2. CASE ~ (x = Now /\ busy)
      <4>1. Due(x)' = Want(x) /\ Due(x) = Want(x) /\ Want(x) \in Nat
        BY <3>2, <2>1, <1>3, <1>8 DEF Due
      <4> QED
        BY <4>1
    <3> QED
      BY <3>1, <3>2
  <2> QED
    BY <1>2, <2>1, <2>2, <2>3, <2>4, <2>5, LineStays
<1>11. CASE com.lis /\ ~ (Len(c.resp) < Want(Now))
  <2>1. Receive(w, data)
    BY <1>2, <1>11
  <2>2. c \in Port /\ c.resp = r
    BY <1>6
  <2>3. data = <<>> \/ (data = r /\ RightSum(data))
    BY <2>2
  <2> HIDE DEF c, data
  <2>4. w \in Port /\ w.resp = r /\ w.whole = TRUE
    BY ONLY <2>2 DEF Port
  <2> HIDE DEF w
  <2>5. Want(Now) <= Len(r) /\ Len(r) <= Len(com.resp) + Len(toMaster)
    BY <2>2, <1>3, <1>4, <1>5, <1>11
  <2> QED
    BY <2>1, <2>3, <2>4, <2>5, <1>2, <1>5, ReceiveKeeps
<1> QED
  BY <1>9, <1>10, <1>11

(* Bytes of the answer arrive at both ports.                               *)
LEMMA DeviceSendsKeeps ==
  ASSUME VInv, NEW k \in Pieces(Len(device)), DeviceSends(k)
  PROVE  VInv'
<1> DEFINE t == SubSeq(device, 1, k)
           r == SubSeq(device, k + 1, Len(device))
<1>1. /\ VTypes /\ MasterOK /\ AnswersOK /\ LineFine(Line) /\ CmdOK /\ KeptOK
  BY DEF VInv
<1>2. /\ device' = r /\ toMaster' = toMaster \o t /\ toList' = toList \o t
      /\ UNCHANGED <<asked, busy, com, buf, cmd, heard, answers, spoilt>>
  BY DEF DeviceSends, listVars
<1>3. /\ device \in Seq(Bytes) /\ toMaster \in Seq(Bytes) /\ toList \in Seq(Bytes)
      /\ Len(device) \in Nat /\ Len(toMaster) \in Nat /\ Len(com.resp) \in Nat
      /\ Now \in Nat /\ Hdr \in Nat \ {0} /\ Line \in Seq(Bytes) /\ Len(Line) \in Nat
      /\ \A x \in 1 .. Now : Want(x) \in Nat \ {0}
  <2>1. device \in Seq(Bytes) /\ toMaster \in Seq(Bytes) /\ toList \in Seq(Bytes)
    BY <1>1 DEF VTypes
  <2>2. /\ Len(device) \in Nat /\ Len(toMaster) \in Nat /\ Len(com.resp) \in Nat
        /\ Now \in Nat /\ Hdr \in Nat \ {0} /\ Line \in Seq(Bytes)
        /\ \A x \in 1 .. Now : Want(x) \in Nat \ {0}
    BY <1>1, Params
  <2>3. Len(Line) \in Nat
    BY <2>2
  <2> QED
    BY <2>1, <2>2, <2>3, Zenon
<1>4. k \in 1 .. Len(device) /\ k \in 0 .. Len(device)
  <2>1. k <= Len(device) /\ k \in {1, Len(device)} \ {0}
    BY DEF DeviceSends, Pieces
  <2> QED
    BY <2>1, <1>3
<1>5. Now > 0 /\ Now \in 1 .. Now
  <2>1. device # <<>>
    BY <1>3, <1>4
  <2> QED
    BY <2>1, <1>1, <1>3 DEF MasterOK
<1>6. /\ t \in Seq(Bytes) /\ Len(t) = k /\ \A i \in 1 .. k : t[i] = device[i]
      /\ r \in Seq(Bytes) /\ Len(r) = Len(device) - k
      /\ \A i \in 1 .. Len(device) - k : r[i] = device[k + i]
  BY <1>3, <1>4, HeadOf, TailOf
<1> HIDE DEF t, r
<1>7. FromNow(t) /\ FromNow(r)
  <2>1. FromNow(device)
    BY <1>1 DEF MasterOK
  <2>2. ASSUME NEW i \in 1 .. Len(t) PROVE t[i] = Noise \/ (t[i].x = Now /\ t[i].part = "ans")
    <3>1. t[i] = device[i] /\ i \in 1 .. Len(device)
      BY <1>3, <1>4, <1>6
    <3> QED
      BY <2>1, <3>1 DEF FromNow
  <2>3. ASSUME NEW i \in 1 .. Len(r) PROVE r[i] = Noise \/ (r[i].x = Now /\ r[i].part = "ans")
    <3>1. r[i] = device[k + i] /\ k + i \in 1 .. Len(device)
      BY <1>3, <1>4, <1>6
    <3> QED
      BY <2>1, <3>1 DEF FromNow
  <2> QED
    BY <2>2, <2>3 DEF FromNow
<1>8. /\ toMaster' \in Seq(Bytes) /\ Len(toMaster') = Len(toMaster) + k /\ FromNow(toMaster')
      /\ toList' \in Seq(Bytes)
  <2>1. FromNow(toMaster)
    BY <1>1 DEF MasterOK
  <2>2. /\ toMaster \o t \in Seq(Bytes) /\ Len(toMaster \o t) = Len(toMaster) + k
        /\ toList \o t \in Seq(Bytes)
    BY <1>3, <1>6, Joined
  <2>3. FromNow(toMaster \o t)
    BY <2>1, <1>3, <1>6, <1>7, FromNowJoined
  <2> QED
    BY <2>2, <2>3, <1>2
<1>9. Now' = Now /\ \A x : Want(x)' = Want(x) /\ Answer(x)' = Answer(x)
  BY <1>2 DEF Now, Want, Answer
<1>10. VTypes'
  BY <1>1, <1>2, <1>6, <1>8 DEF VTypes
<1>11. MasterOK'
  BY <1>1, <1>2, <1>5, <1>7, <1>8, <1>9 DEF MasterOK, FromNow
<1>12. AnswersOK' /\ CmdOK'
  BY <1>1, <1>2, <1>9 DEF AnswersOK, CmdOK
<1>13. /\ Line' = Line \o t /\ Len(Line') = Len(Line) + k
       /\ \A i \in 1 .. Len(Line') : Line'[i].x <= Now
       /\ \A x \in 1 .. Now : \A p \in 0 .. Len(Line') - Hdr :
            ReqAt(Line', p, x) => p + Hdr + Due(x) <= Len(Line)
       /\ \A x, y \in 1 .. Now : \A p, q \in 0 .. Len(Line') - Hdr :
            ReqAt(Line', p, x) /\ ReqAt(Line', q, y) /\ p < q => p + Hdr + Want(x) <= q
  <2>1. \A i \in 1 .. Len(t) : t[i].part # "req" /\ t[i].x <= Now
    BY <1>1, <1>6, <1>7, NowIsNoRequest
  <2>2. Line' = Line \o t
    BY <2>1, <1>1, <1>2, <1>6, LineGrows DEF Line
  <2> QED
    BY <2>1, <2>2, <1>1, <1>6, LineGrows
<1>14. LineFine(Line)'
  <2>1. ASSUME NEW x \in 1 .. Now, NEW p \in 0 .. Len(Line') - Hdr, ReqAt(Line', p, x)
        PROVE  p + Hdr + Due(x)' <= Len(Line')
    <3>1. p + Hdr + Due(x) <= Len(Line) /\ Len(Line') = Len(Line) + k
      BY <1>13, <2>1
    <3>2. Due(x)' = (IF x = Now /\ busy THEN Len(com.resp) + (Len(toMaster) + k) ELSE Want(x))
      BY <1>2, <1>8, <1>9 DEF Due
    <3>3. Due(x) = (IF x = Now /\ busy THEN Len(com.resp) + Len(toMaster) ELSE Want(x))
      BY DEF Due
    <3>4. Want(x) \in Nat /\ p \in Nat
      BY <1>3
    <3>5. Due(x)' <= Due(x) + k /\ Due(x) \in Nat /\ Due(x)' \in Nat
      <4> DEFINE a == Len(com.resp)
                 b == Len(toMaster)
      <4>1. a \in Nat /\ b \in Nat /\ k \in Nat
        BY <1>3, <1>4
      <4> HIDE DEF a, b
      <4>2. /\ Due(x)' = (IF x = Now /\ busy THEN a + (b + k) ELSE Want(x))
            /\ Due(x) = (IF x = Now /\ busy THEN a + b ELSE Want(x))
        BY <3>2, <3>3 DEF a, b
      <4>3. CASE x = Now /\ busy
        <5>1. Due(x)' = a + (b + k) /\ Due(x) = a + b
          BY <4>2, <4>3
        <5> QED
          BY ONLY <5>1, <4>1
      <4>4. CASE ~ (x = Now /\ busy)
        <5>1. Due(x)' = Want(x) /\ Due(x) = Want(x)
          BY <4>2, <4>4, Zenon
        <5> QED
          BY ONLY <5>1, <4>1, <3>4
      <4> QED
        BY <4>3, <4>4
    <3> QED
      BY ONLY <3>1, <3>4, <3>5, <1>3, <1>4
  <2> QED
    BY <1>9, <1>13, <2>1 DEF LineFine
<1>15. KeptOK'
  <2> SUFFICES ASSUME NEW x \in (1 .. Now) \ spoilt, asked[x] \in Known
               PROVE  \/ Heard(x)'
                      \/ \E p \in 0 .. Len(Line') - Hdr :
                           Kept(Line', Coming(x)', Want(x), x, p)
    BY <1>2, <1>9 DEF KeptOK
  <2>1. CASE Heard(x)
    BY <2>1, <1>2, <1>9 DEF Heard
  <2>2. CASE \E p \in 0 .. Len(Line) - Hdr : Kept(Line, Coming(x), Want(x), x, p)
    <3>1. PICK p \in 0 .. Len(Line) - Hdr : Kept(Line, Coming(x), Want(x), x, p)
      BY <2>2
    <3>2. p \in 0 .. Len(Line') - Hdr /\ x \in Nat /\ Want(x) \in Nat
      BY <1>3, <1>4, <1>13
    <3>3. CASE x = Now
      <4>1. Coming(x) = device /\ Coming(x)' = r
        BY <3>3, <1>2, <1>9 DEF Coming
      <4>2. Kept(Line', r, Want(x), x, p)
        BY <3>1, <3>2, <4>1, <1>3, <1>4, <1>13, KeptArrives DEF t, r
      <4> QED
        BY <3>2, <4>1, <4>2
    <3>4. CASE x # Now
      <4>1. Coming(x) = <<>> /\ Coming(x)' = <<>>
        BY <3>4, <1>9 DEF Coming
      <4>2. Kept(Line', <<>>, Want(x), x, p)
        <5>1. <<>> \in Seq(Bytes) /\ Len(<<>>) = 0
          BY EmptySeq
        <5>2. Kept(Line, <<>>, Want(x), x, p)
          BY <3>1, <4>1
        <5>3. Len(<<>>) > 0 => Len(t) = 0
          BY <5>1
        <5>4. Kept(Line \o t, <<>>, Want(x), x, p)
          BY <5>1, <5>2, <5>3, <3>1, <3>2, <1>3, <1>6, KeptMore
        <5> QED
          BY <5>4, <1>13
      <4> QED
        BY <3>2, <4>1, <4>2
    <3> QED
      BY <3>3, <3>4
  <2> QED
    BY <2>1, <2>2, <1>1 DEF KeptOK
<1> QED
  BY <1>10, <1>11, <1>12, <1>14, <1>15 DEF VInv

-----------------------------------------------------------------------------
(* The listener.                                                           *)

LEMMA RequestAtIs ==
  ASSUME VTypes, NEW s \in Seq(Bytes), NEW x
  PROVE  x \in RequestAt(s) <=> x \in 1 .. Now /\ Hdr <= Len(s) /\ ReqAt(s, 0, x)
<1>1. Hdr \in Nat \ {0} /\ Now \in Nat /\ Len(s) \in Nat
  BY Params
<1> SUFFICES ASSUME x \in 1 .. Now, Hdr <= Len(s)
             PROVE  SubSeq(s, 1, Hdr) = Request(x) <=> ReqAt(s, 0, x)
  BY <1>1 DEF RequestAt
<1> DEFINE h == SubSeq(s, 1, Hdr)
           q == Request(x)
<1>2. x \in Nat /\ Hdr \in 0 .. Len(s)
  BY <1>1
<1>3. h \in Seq(Bytes) /\ Len(h) = Hdr /\ \A k \in 1 .. Hdr : h[k] = s[k]
  BY <1>2, HeadOf
<1>4. q \in Seq(Bytes) /\ Len(q) = Hdr /\ \A k \in 1 .. Hdr : q[k] = Byte(x, "req", k)
  BY <1>2, Pieces1
<1> HIDE DEF h, q
<1>5. \A k \in 1 .. Hdr : 0 + k = k
  BY <1>1
<1>6. ASSUME h = q PROVE ReqAt(s, 0, x)
  BY <1>3, <1>4, <1>5, <1>6 DEF ReqAt
<1>7. ASSUME ReqAt(s, 0, x) PROVE h = q
  <2>1. \A k \in 1 .. Hdr : s[k] = Byte(x, "req", k)
    BY <1>5, <1>7 DEF ReqAt
  <2>2. \A k \in 1 .. Len(h) : h[k] = q[k]
    BY <2>1, <1>3, <1>4
  <2> QED
    BY <2>2, <1>3, <1>4, SeqEqual
<1> QED
  BY <1>6, <1>7 DEF h, q

(* The search stops at the first request, or where none can begin yet.     *)
LEMMA SearchSkips ==
  ASSUME VTypes, NEW s \in Seq(Bytes)
  PROVE  \E j \in 0 .. Len(s) :
           /\ Search(s) = SubSeq(s, j + 1, Len(s))
           /\ \A p \in 0 .. j - 1 : p + Hdr <= Len(s) /\ \A x \in 1 .. Now : ~ ReqAt(s, p, x)
<1> DEFINE from == {i \in 1 .. Len(s) - Hdr + 1 : RequestAt(SubSeq(s, i, Len(s))) # {}}
           over == IF Len(s) < Hdr THEN 1 ELSE Len(s) - Hdr + 2
           first == CHOOSE i \in from : \A k \in from : i <= k
           j == (IF from = {} THEN over ELSE first) - 1
<1>1. Hdr \in Nat \ {0} /\ Now \in Nat /\ Len(s) \in Nat
  BY Params
<1>2. ASSUME NEW p \in 0 .. Len(s) - Hdr, NEW x \in 1 .. Now, ReqAt(s, p, x)
      PROVE  p + 1 \in from
  <2> DEFINE u == SubSeq(s, p + 1, Len(s))
  <2>1. p \in 0 .. Len(s)
    BY <1>1
  <2>2. u \in Seq(Bytes) /\ IsTail(u, s, p)
    BY <2>1, TailOf DEF IsTail
  <2> HIDE DEF u
  <2>3. 0 \in 0 .. Len(u) - Hdr /\ Hdr <= Len(u) /\ p + 0 = p
    BY <2>1, <2>2, <1>1 DEF IsTail
  <2>4. ReqAt(u, 0, x)
    BY <2>1, <2>2, <2>3, <1>1, <1>2, ReqAtTail
  <2>5. x \in RequestAt(u)
    BY <2>2, <2>3, <2>4, RequestAtIs
  <2>6. p + 1 \in 1 .. Len(s) - Hdr + 1
    BY <1>1
  <2> QED
    BY <2>5, <2>6 DEF u
<1>3. from \in SUBSET Nat /\ from \subseteq 1 .. Len(s) - Hdr + 1
  BY <1>1
<1>4. from # {} => first \in from /\ \A k \in from : first <= k
  <2> HIDE DEF from
  <2>1. from # {} => \E i \in from : \A k \in from : i <= k
    BY <1>3, Least
  <2> QED
    BY <2>1
<1>5. Search(s) = SubSeq(s, j + 1, Len(s))
  <2>1. Search(s) = SubSeq(s, IF from = {} THEN over ELSE first, Len(s))
    BY DEF Search
  <2>2. (IF from = {} THEN over ELSE first) \in Int
    <3>1. over \in Int
      BY <1>1
    <3>2. from # {} => first \in Int
      <4> HIDE DEF from, first
      <4>1. from # {} => first \in Nat
        BY ONLY <1>3, <1>4, Zenon
      <4> QED
        BY ONLY <4>1
    <3> HIDE DEF from, over, first
    <3> QED
      BY <3>1, <3>2
  <2> HIDE DEF from, over, first
  <2>3. (j + 1) = IF from = {} THEN over ELSE first
    BY <2>2
  <2> QED
    BY <2>1, <2>3
<1>6. j \in 0 .. Len(s) /\ \A p \in 0 .. j - 1 : p + Hdr <= Len(s) /\ p + 1 \notin from
  <2> HIDE DEF from, first
  <2>1. CASE from = {}
    BY <2>1, <1>1
  <2>2. CASE from # {}
    <3>1. first \in 1 .. Len(s) - Hdr + 1 /\ j = first - 1
      BY <2>2, <1>3, <1>4
    <3> HIDE DEF j
    <3>2. \A p \in 0 .. j - 1 : p + Hdr <= Len(s)
      BY <3>1, <1>1
    <3>3. ASSUME NEW p \in 0 .. j - 1 PROVE p + 1 \notin from
      <4>1. ~ (first <= p + 1)
        BY <3>1, <1>1
      <4> QED
        BY <4>1, <2>2, <1>4
    <3>4. j \in 0 .. Len(s)
      BY <3>1, <1>1
    <3> QED
      BY <3>2, <3>3, <3>4
  <2> QED
    BY <2>1, <2>2
<1> HIDE DEF from, j
<1>7. \A p \in 0 .. j - 1 : p + Hdr <= Len(s) /\ \A x \in 1 .. Now : ~ ReqAt(s, p, x)
  <2> SUFFICES ASSUME NEW p \in 0 .. j - 1
               PROVE  p + Hdr <= Len(s) /\ \A x \in 1 .. Now : ~ ReqAt(s, p, x)
    OBVIOUS
  <2>1. p + Hdr <= Len(s) /\ p + 1 \notin from
    BY <1>6
  <2>2. p \in 0 .. Len(s) - Hdr
    BY <2>1, <1>1, <1>6
  <2> QED
    BY <2>1, <2>2, <1>2
<1> QED
  BY <1>5, <1>6, <1>7

(* The listener goes on by q bytes, and loses nothing by it.               *)
LEMMA AdvanceKeeps ==
  ASSUME VInv, NEW q \in 0 .. Len(Line), IsTail(Line', Line, q),
         buf' \in Seq(Bytes), toList' \in Seq(Bytes), cmd' \in Nat,
         heard' \in Seq([x : Nat, data : Seq(Bytes)]), CmdOK', spoilt \subseteq spoilt',
         \A x \in (1 .. Now) \ spoilt' : Heard(x) => Heard(x)',
         \A x \in (1 .. Now) \ spoilt' : \A p \in 0 .. Len(Line) - Hdr :
           asked[x] \in Known /\ p < q /\ Kept(Line, Coming(x), Want(x), x, p) => Heard(x)',
         UNCHANGED <<asked, busy, com, device, toMaster, answers>>
  PROVE  VInv'
<1>1. /\ VTypes /\ MasterOK /\ AnswersOK /\ LineFine(Line) /\ CmdOK /\ KeptOK
  BY DEF VInv
<1>2. Now' = Now /\ \A x : /\ Want(x)' = Want(x) /\ Answer(x)' = Answer(x)
                           /\ Coming(x)' = Coming(x) /\ Due(x)' = Due(x)
  BY DEF Now, Want, Answer, Coming, Due
<1>3. VTypes'
  BY <1>1 DEF VTypes
<1>4. MasterOK' /\ AnswersOK'
  BY <1>1, <1>2 DEF MasterOK, AnswersOK, FromNow
<1>5. Line \in Seq(Bytes) /\ Line' \in Seq(Bytes)
  <2>1. Line \in Seq(Bytes)
    BY <1>1, Params
  <2>2. buf' \o toList' \in Seq(Bytes)
    BY Joined
  <2> QED
    BY <2>1, <2>2 DEF Line
<1>6. LineFine(Line')
  BY <1>1, <1>5, FineTail
<1>7. LineFine(Line)'
  BY <1>2, <1>6 DEF LineFine
<1>8. KeptOK'
  <2> SUFFICES ASSUME NEW x \in (1 .. Now) \ spoilt', asked[x] \in Known
               PROVE  \/ Heard(x)'
                      \/ \E p \in 0 .. Len(Line') - Hdr :
                           Kept(Line', Coming(x), Want(x), x, p)
    BY <1>2 DEF KeptOK
  <2>1. CASE Heard(x)
    BY <2>1
  <2>2. CASE \E p \in 0 .. Len(Line) - Hdr : Kept(Line, Coming(x), Want(x), x, p)
    <3>1. PICK p \in 0 .. Len(Line) - Hdr : Kept(Line, Coming(x), Want(x), x, p)
      BY <2>2
    <3>2. CASE p < q
      BY <3>1, <3>2
    <3>3. CASE ~ (p < q)
      <4>1. Len(Line) \in Nat /\ Hdr \in Nat
        BY <1>1, <1>5, Params
      <4>2. q <= p
        BY <3>3, <4>1
      <4>3. x \in Nat /\ Want(x) \in Nat /\ Coming(x) \in Seq(Bytes)
        BY <1>1, Params
      <4>4. p - q \in 0 .. Len(Line') - Hdr /\ Kept(Line', Coming(x), Want(x), x, p - q)
        BY <1>5, <3>1, <4>2, <4>3, KeptTail
      <4> QED
        BY <4>4
    <3> QED
      BY <3>2, <3>3
  <2> QED
    BY <2>1, <2>2, <1>1 DEF KeptOK
<1> QED
  BY <1>3, <1>4, <1>7, <1>8, CmdOK' DEF VInv

(* The request of one exchange is not another's.                           *)
LEMMA OneRequest ==
  ASSUME NEW s, NEW p, NEW x, NEW y, ReqAt(s, p, x), ReqAt(s, p, y)
  PROVE  x = y
<1>1. 1 \in 1 .. Hdr
  BY VectorBusAssumption
<1>2. s[p + 1] = Byte(x, "req", 1) /\ s[p + 1] = Byte(y, "req", 1)
  BY <1>1 DEF ReqAt
<1> QED
  BY <1>2 DEF Byte

(* The answer did not come in time.                                        *)
LEMMA BreakCMDSlotKeeps ==
  ASSUME VInv, BreakCMDSlot
  PROVE  VInv'
<1>1. /\ VTypes /\ LineFine(Line) /\ CmdOK
  BY DEF VInv
<1>2. /\ cmd # 0 /\ cmd' = 0 /\ spoilt' = spoilt \cup {cmd}
      /\ buf' = SubSeq(buf, Hdr + 1, Len(buf)) /\ toList' = toList
      /\ UNCHANGED <<asked, busy, com, device, toMaster, heard, answers>>
  BY DEF BreakCMDSlot, BreakCMD, lineVars
<1>3. cmd \in 1 .. Now /\ Hdr <= Len(buf) /\ ReqAt(buf, 0, cmd)
  BY <1>1, <1>2 DEF CmdOK
<1>4. /\ Hdr \in Nat \ {0} /\ Len(buf) \in Nat /\ Len(toList) \in Nat
      /\ Len(Line) = Len(buf) + Len(toList) /\ Want(cmd) \in Nat
  BY <1>1, <1>3, Params
<1>5. buf \in Seq(Bytes) /\ toList \in Seq(Bytes)
  BY <1>1 DEF VTypes
<1>6. Hdr \in 0 .. Len(buf) /\ Hdr \in 0 .. Len(Line)
  BY <1>3, <1>4
<1>7. buf' \in Seq(Bytes) /\ toList' \in Seq(Bytes)
  BY <1>2, <1>5, <1>6, TailOf
<1>8. IsTail(Line', Line, Hdr)
  <2>1. Line' = SubSeq(buf, Hdr + 1, Len(buf)) \o toList
    BY <1>2 DEF Line
  <2> QED
    BY <2>1, <1>5, <1>6, TailJoined DEF IsTail, Line
<1>9. \A x : Heard(x)' = Heard(x)
  BY <1>2 DEF Heard, Answer
<1>10. ASSUME NEW x \in (1 .. Now) \ spoilt', NEW p \in 0 .. Len(Line) - Hdr,
              p < Hdr, Kept(Line, Coming(x), Want(x), x, p)
       PROVE  FALSE
  <2>1. ReqAt(Line, p, x)
    BY <1>10 DEF Kept
  <2>2. 0 \in 0 .. Len(buf) - Hdr /\ cmd \in Nat /\ 0 \in 0 .. Len(Line) - Hdr
    BY <1>3, <1>4
  <2>3. ReqAt(Line, 0, cmd)
    BY <2>2, <1>3, <1>5, ReqAtMore DEF Line
  <2>4. CASE p = 0
    <3>1. x = cmd
      BY <2>1, <2>3, <2>4, OneRequest
    <3> QED
      BY <3>1, <1>2
  <2>5. CASE 0 < p
    <3>1. 0 + Hdr + Want(cmd) <= p
      BY <2>1, <2>2, <2>3, <2>5, <1>1, <1>3 DEF LineFine
    <3> QED
      BY <3>1, <1>4, <1>10
  <2> QED
    BY <2>4, <2>5, <1>4
<1>11. /\ cmd' \in Nat /\ CmdOK' /\ heard' \in Seq([x : Nat, data : Seq(Bytes)])
       /\ spoilt \subseteq spoilt'
  BY <1>1, <1>2 DEF CmdOK, VTypes
<1> QED
  BY <1>2, <1>6, <1>7, <1>8, <1>9, <1>10, <1>11, AdvanceKeeps

(* A whole answer is there, or what the length of one would be.            *)
LEMMA TakesKeeps ==
  ASSUME VInv, NEW s \in Seq(Bytes), NEW rest \in Seq(Bytes), NEW j \in 0 .. Len(Line),
         IsTail(s \o rest, Line, j),
         \A p \in 0 .. Len(Line) - Hdr : p < j => \A x \in 1 .. Now : ~ ReqAt(Line, p, x),
         NEW c \in 1 .. Now, ReqAt(s, 0, c), Hdr + Want(c) <= Len(s),
         buf' = SubSeq(s, Hdr + Want(c) + 1, Len(s)), toList' = rest, cmd' = 0,
         NEW data, data = SubSeq(s, Hdr + 1, Hdr + Want(c)),
         heard' = IF asked[c] \in Known /\ RightSum(data)
                  THEN Append(heard, [x |-> c, data |-> data]) ELSE heard,
         UNCHANGED <<asked, busy, com, device, toMaster, answers, spoilt>>
  PROVE  VInv'
<1> DEFINE end == Hdr + Want(c)
           M == s \o rest
<1>1. /\ VTypes /\ LineFine(Line)
  BY DEF VInv
<1>2. /\ Hdr \in Nat \ {0} /\ Line \in Seq(Bytes) /\ Want(c) \in Nat \ {0} /\ Now \in Nat
  BY <1>1, Params
<1>3. /\ Len(s) \in Nat /\ Len(rest) \in Nat /\ Len(Line) \in Nat /\ j \in Nat
      /\ end \in Nat /\ end <= Len(s) /\ Hdr <= end
  <2>1. Len(s) \in Nat /\ Len(rest) \in Nat
    OBVIOUS
  <2>2. Len(Line) \in Nat
    BY ONLY <1>2
  <2>3. j \in Nat
    BY ONLY <2>2, j \in 0 .. Len(Line)
  <2>4. end \in Nat /\ end <= Len(s) /\ Hdr <= end
    BY ONLY <1>2, Hdr + Want(c) <= Len(s)
  <2> QED
    BY ONLY <2>1, <2>2, <2>3, <2>4
<1>4. /\ M \in Seq(Bytes) /\ Len(M) = Len(s) + Len(rest)
      /\ \A i \in 1 .. Len(s) : M[i] = s[i]
  BY Joined
<1>5. Len(M) = Len(Line) - j /\ \A i \in 1 .. Len(Line) - j : M[i] = Line[j + i]
  BY DEF IsTail
<1>6. /\ buf' \in Seq(Bytes)
      /\ Len(buf' \o rest) = Len(M) - end
      /\ \A i \in 1 .. Len(M) - end : (buf' \o rest)[i] = M[end + i]
  <2>1. end \in 0 .. Len(s)
    BY <1>3
  <2> QED
    BY <2>1, TailOf, TailJoined
<1>7. Line' = buf' \o rest
  BY DEF Line
<1> HIDE DEF end, M
<1>8. j + end \in 0 .. Len(Line)
  BY <1>3, <1>4, <1>5
<1>9. IsTail(Line', Line, j + end)
  <2>1. Len(Line') = Len(Line) - (j + end)
    BY <1>3, <1>5, <1>6, <1>7
  <2>2. ASSUME NEW i \in 1 .. Len(Line) - (j + end) PROVE Line'[i] = Line[(j + end) + i]
    <3>1. i \in 1 .. Len(M) - end /\ end + i \in 1 .. Len(Line) - j
          /\ j + (end + i) = (j + end) + i
      BY <1>3, <1>5
    <3> QED
      BY <3>1, <1>5, <1>6, <1>7
  <2> QED
    BY <2>1, <2>2 DEF IsTail
<1>10. /\ data \in Seq(Bytes) /\ Len(data) = Want(c)
       /\ \A k \in 1 .. Want(c) : data[k] = s[Hdr + k]
  <2>0. data = SubSeq(s, Hdr + 1, end) /\ Hdr + 1 \in Int /\ end \in Int
    BY <1>2, <1>3 DEF end
  <2>1. \A i \in Hdr + 1 .. end : s[i] \in Bytes
    BY <1>2, <1>3, ElementOfSeq
  <2>2. /\ data \in Seq(Bytes)
        /\ Len(data) = (IF Hdr + 1 <= end THEN end - (Hdr + 1) + 1 ELSE 0)
        /\ \A k \in 1 .. end - (Hdr + 1) + 1 : data[k] = s[Hdr + 1 + k - 1]
    BY ONLY <2>0, <2>1, SubSeqProperties
  <2>3. end = Hdr + Want(c)
    BY DEF end
  <2>4. Len(data) = Want(c)
    BY ONLY <2>2, <2>3, <1>2
  <2>5. ASSUME NEW k \in 1 .. Want(c) PROVE data[k] = s[Hdr + k]
    <3>1. k \in 1 .. end - (Hdr + 1) + 1 /\ Hdr + 1 + k - 1 = Hdr + k
      BY ONLY <2>3, <1>2, k \in 1 .. Want(c)
    <3> QED
      BY <3>1, <2>2
  <2> QED
    BY <2>2, <2>4, <2>5
<1>11. /\ heard \in Seq([x : Nat, data : Seq(Bytes)])
       /\ [x |-> c, data |-> data] \in [x : Nat, data : Seq(Bytes)]
  <2>1. c \in Nat
    BY <1>2
  <2> QED
    BY <2>1, <1>1, <1>10 DEF VTypes
<1>12. \A x : Answer(x)' = Answer(x)
  BY DEF Answer
<1>13. /\ heard' \in Seq([x : Nat, data : Seq(Bytes)])
       /\ \A x : Heard(x) => Heard(x)'
       /\ asked[c] \in Known /\ RightSum(data) /\ data = Answer(c) => Heard(c)'
  <2>1. CASE asked[c] \in Known /\ RightSum(data)
    <3> DEFINE e == [x |-> c, data |-> data]
    <3>1. /\ heard' = Append(heard, e) /\ heard' \in Seq([x : Nat, data : Seq(Bytes)])
          /\ Len(heard') = Len(heard) + 1 /\ heard'[Len(heard) + 1] = e /\ Len(heard) \in Nat
          /\ \A i \in 1 .. Len(heard) : heard'[i] = heard[i]
      BY <2>1, <1>11, AppendProperties
    <3>2. DOMAIN heard = 1 .. Len(heard) /\ DOMAIN heard' = 1 .. Len(heard')
      BY <3>1, <1>11
    <3>3. ASSUME NEW x, Heard(x) PROVE Heard(x)'
      <4>1. PICK i \in 1 .. Len(heard) : heard[i] = [x |-> x, data |-> Answer(x)]
        BY <3>2, <3>3 DEF Heard
      <4>2. i \in 1 .. Len(heard') /\ heard'[i] = [x |-> x, data |-> Answer(x)]
        BY <4>1, <3>1
      <4> QED
        BY <4>2, <3>2, <1>12 DEF Heard
    <3>4. data = Answer(c) => Heard(c)'
      <4>1. Len(heard) + 1 \in 1 .. Len(heard')
        BY <3>1
      <4> QED
        BY <4>1, <3>1, <3>2, <1>12 DEF Heard
    <3> QED
      BY <3>1, <3>3, <3>4
  <2>2. CASE ~ (asked[c] \in Known /\ RightSum(data))
    BY <2>2, <1>11, <1>12 DEF Heard
  <2> QED
    BY <2>1, <2>2
<1>14. ReqAt(Line, j, c) /\ j \in 0 .. Len(Line) - Hdr
  <2>1. 0 \in 0 .. Len(s) - Hdr /\ c \in Nat /\ 0 \in 0 .. Len(M) - Hdr /\ j + 0 = j
    BY <1>2, <1>3, <1>4
  <2>2. ReqAt(M, 0, c)
    BY <2>1, ReqAtMore DEF M
  <2>3. IsTail(M, Line, j)
    BY DEF M
  <2>4. j + 0 \in 0 .. Len(Line) - Hdr /\ (ReqAt(M, 0, c) <=> ReqAt(Line, j + 0, c))
    BY <2>1, <2>3, <1>2, <1>4, ReqAtTail
  <2> QED
    BY <2>1, <2>2, <2>4
<1>15. ASSUME asked[c] \in Known, Kept(Line, Coming(c), Want(c), c, j)
       PROVE  Heard(c)'
  <2> DEFINE d == Coming(c)
  <2>1. /\ Len(d) <= Want(c)
        /\ \A k \in 1 .. Want(c) - Len(d) : Line[j + Hdr + k] = Byte(c, "ans", k)
        /\ Len(d) > 0 => Len(Line) = j + Hdr + (Want(c) - Len(d))
    BY <1>15 DEF Kept
  <2>2. Len(d) \in Nat
    <3>1. d \in Seq(Bytes)
      BY <1>1, Params
    <3> QED
      BY <3>1
  <2> HIDE DEF d
  <2>3. j + (Hdr + Want(c)) <= Len(Line)
    BY <1>8 DEF end
  <2>4. Len(d) = 0
    BY ONLY <2>1, <2>2, <2>3, <1>2, <1>3
  <2>5. ASSUME NEW k \in 1 .. Want(c) PROVE data[k] = Answer(c)[k]
    <3>0. k \in 1 .. Want(c) /\ Hdr + Want(c) <= Len(s)
      OBVIOUS
    <3>1. /\ k \in 1 .. Want(c) - Len(d) /\ Hdr + k \in 1 .. Len(s)
          /\ Hdr + k \in 1 .. Len(Line) - j /\ j + (Hdr + k) = j + Hdr + k
      <4>1. Len(M) = Len(s) + Len(rest) /\ Len(M) = Len(Line) - j
        BY <1>4, <1>5
      <4> QED
        BY ONLY <3>0, <4>1, <2>4, <1>2, <1>3
    <3>2. data[k] = s[Hdr + k] /\ s[Hdr + k] = M[Hdr + k] /\ M[Hdr + k] = Line[j + (Hdr + k)]
      BY <3>1, <1>4, <1>5, <1>10
    <3>3. Line[j + Hdr + k] = Byte(c, "ans", k) /\ Answer(c)[k] = Byte(c, "ans", k)
      BY <3>1, <2>1, <1>1, AnswerIs
    <3> QED
      BY <3>1, <3>2, <3>3
  <2>6. data = Answer(c)
    <3>1. Answer(c) \in Seq(Bytes) /\ Len(Answer(c)) = Want(c)
      BY <1>1, AnswerIs
    <3> QED
      BY <3>1, <2>5, <1>10, SeqEqual
  <2>7. RightSum(data)
    BY <2>6 DEF RightSum
  <2> QED
    BY <2>6, <2>7, <1>13, <1>15
<1>16. ASSUME NEW x \in 1 .. Now, NEW p \in 0 .. Len(Line) - Hdr, asked[x] \in Known,
              p < j + end, Kept(Line, Coming(x), Want(x), x, p)
       PROVE  Heard(x)'
  <2>1. ReqAt(Line, p, x)
    BY <1>16 DEF Kept
  <2>2. ~ (p < j)
    BY <2>1, <1>16
  <2>3. CASE p = j
    <3>1. x = c
      BY <2>1, <2>3, <1>14, OneRequest
    <3> QED
      BY <3>1, <2>3, <1>15, <1>16
  <2>4. CASE j < p
    <3>1. j + Hdr + Want(c) <= p
      BY <2>1, <2>4, <1>1, <1>14 DEF LineFine
    <3> QED
      BY <3>1, <1>2, <1>3, <1>16 DEF end
  <2> QED
    BY <2>2, <2>3, <2>4, <1>3
<1>17. CmdOK' /\ cmd' \in Nat
  BY DEF CmdOK
<1> QED
  BY <1>6, <1>8, <1>9, <1>13, <1>16, <1>17, AdvanceKeeps

LEMMA ListenerReadsKeeps ==
  ASSUME VInv, NEW k \in Pieces(Len(toList)), ListenerReads(k)
  PROVE  VInv'
<1> DEFINE s0   == buf \o SubSeq(toList, 1, k)
           rest == SubSeq(toList, k + 1, Len(toList))
           s    == IF cmd = 0 THEN Search(s0) ELSE s0
           c    == IF cmd = 0 /\ RequestAt(s) # {} THEN CHOOSE x \in RequestAt(s) : TRUE
                   ELSE cmd
           end  == IF c = 0 THEN 0 ELSE Hdr + AnsLen[asked[c]]
           data == SubSeq(s, Hdr + 1, end)
<1>1. /\ VTypes /\ LineFine(Line) /\ CmdOK
  BY DEF VInv
<1>2. /\ k <= Len(toList) /\ toList' = rest
      /\ IF c = 0 \/ Len(s) < end
         THEN buf' = s /\ cmd' = c /\ UNCHANGED heard
         ELSE /\ buf' = SubSeq(s, end + 1, Len(s))
              /\ cmd' = 0
              /\ heard' = IF asked[c] \in Known /\ RightSum(data)
                          THEN Append(heard, [x |-> c, data |-> data]) ELSE heard
      /\ UNCHANGED <<asked, busy, com, lineVars, answers, spoilt>>
  BY DEF ListenerReads, BreakCMD
<1>3. /\ buf \in Seq(Bytes) /\ toList \in Seq(Bytes) /\ cmd \in Nat
      /\ heard \in Seq([x : Nat, data : Seq(Bytes)])
  BY <1>1 DEF VTypes
<1>4. /\ Hdr \in Nat \ {0} /\ Now \in Nat /\ Line \in Seq(Bytes)
      /\ Len(buf) \in Nat /\ Len(toList) \in Nat
  BY <1>1, Params
<1>5. k \in 0 .. Len(toList)
  <2>1. k \in {1, Len(toList)} \ {0} /\ k <= Len(toList)
    BY <1>2 DEF Pieces
  <2> QED
    BY <2>1, <1>4
<1>6. /\ s0 \in Seq(Bytes) /\ rest \in Seq(Bytes) /\ s0 \o rest = Line
      /\ Len(s0) = Len(buf) + k
  <2>1. /\ SubSeq(toList, 1, k) \in Seq(Bytes) /\ Len(SubSeq(toList, 1, k)) = k
        /\ rest \in Seq(Bytes)
    BY <1>3, <1>5, HeadOf, TailOf
  <2>2. s0 \in Seq(Bytes) /\ Len(s0) = Len(buf) + k
    BY <2>1, <1>3, Joined
  <2>3. s0 \o rest = Line
    BY <1>3, <1>5, CutJoined DEF Line
  <2> QED
    BY <2>1, <2>2, <2>3
<1>7. cmd # 0 => /\ cmd \in 1 .. Now /\ Hdr <= Len(s0) /\ ReqAt(s0, 0, cmd)
  <2> SUFFICES ASSUME cmd # 0
               PROVE  cmd \in 1 .. Now /\ Hdr <= Len(s0) /\ ReqAt(s0, 0, cmd)
    OBVIOUS
  <2>1. cmd \in 1 .. Now /\ Hdr <= Len(buf) /\ ReqAt(buf, 0, cmd)
    BY <1>1 DEF CmdOK
  <2>2. 0 \in 0 .. Len(buf) - Hdr /\ Hdr <= Len(s0)
    BY <2>1, <1>4, <1>5, <1>6
  <2>3. SubSeq(toList, 1, k) \in Seq(Bytes)
    BY <1>3, <1>5, HeadOf
  <2>4. ReqAt(s0, 0, cmd)
    BY <2>1, <2>2, <2>3, <1>3, ReqAtMore
  <2> QED
    BY <2>1, <2>2, <2>4
<1> HIDE DEF s0, rest
<1>8. PICK j \in 0 .. Len(s0) :
        /\ s = SubSeq(s0, j + 1, Len(s0))
        /\ \A p \in 0 .. j - 1 : p + Hdr <= Len(s0) /\ \A x \in 1 .. Now : ~ ReqAt(s0, p, x)
  <2>1. CASE cmd = 0
    BY <2>1, <1>1, <1>6, SearchSkips
  <2>2. CASE cmd # 0
    <3> DEFINE u == SubSeq(s0, 0 + 1, Len(s0))
    <3>1. 0 \in 0 .. Len(s0)
      BY <1>6
    <3>2. /\ u \in Seq(Bytes) /\ Len(u) = Len(s0) - 0
          /\ \A i \in 1 .. Len(s0) - 0 : u[i] = s0[0 + i]
      BY <3>1, <1>6, TailOf
    <3> HIDE DEF u
    <3>3. Len(u) = Len(s0) /\ \A i \in 1 .. Len(u) : u[i] = s0[i]
      BY <3>2, <1>6
    <3>4. u = s0
      BY <3>2, <3>3, <1>6, SeqEqual
    <3>5. s = SubSeq(s0, 0 + 1, Len(s0))
      BY <3>4, <2>2 DEF u
    <3> QED
      BY <3>1, <3>5
  <2> QED
    BY <2>1, <2>2
<1>9. s \in Seq(Bytes)
  BY <1>6, <1>8, TailOf
<1>10. cmd # 0 => s = s0
  OBVIOUS
<1> HIDE DEF s
<1>11. c # 0 => c \in 1 .. Now /\ Hdr <= Len(s) /\ ReqAt(s, 0, c)
  <2>1. CASE cmd = 0 /\ RequestAt(s) # {}
    <3>1. c \in RequestAt(s)
      BY <2>1
    <3> HIDE DEF c
    <3> QED
      BY <3>1, <1>1, <1>9, RequestAtIs
  <2>2. CASE cmd = 0 /\ RequestAt(s) = {}
    <3>1. c = 0
      BY <2>2
    <3> QED
      BY <3>1
  <2>3. CASE cmd # 0
    <3>1. c = cmd
      BY <2>3
    <3> QED
      BY <3>1, <2>3, <1>7, <1>10
  <2> QED
    BY <2>1, <2>2, <2>3
<1>12. c \in Nat
  <2> HIDE DEF c
  <2>1. CASE c = 0
    BY <2>1
  <2>2. CASE c # 0
    BY <2>2, <1>4, <1>11
  <2> QED
    BY <2>1, <2>2
<1> HIDE DEF c
<1>13. /\ j \in 0 .. Len(Line) /\ IsTail(s \o rest, Line, j)
       /\ \A p \in 0 .. Len(Line) - Hdr : p < j => \A x \in 1 .. Now : ~ ReqAt(Line, p, x)
  <2>1. /\ Len(Line) = Len(s0) + Len(rest) /\ Len(s0) \in Nat /\ Len(rest) \in Nat
    BY <1>6, Joined
  <2>2. j \in 0 .. Len(Line)
    BY <2>1
  <2>3. IsTail(s \o rest, Line, j)
    <3>1. /\ Len(SubSeq(s0, j + 1, Len(s0)) \o rest) = Len(s0 \o rest) - j
          /\ \A i \in 1 .. Len(s0 \o rest) - j :
               (SubSeq(s0, j + 1, Len(s0)) \o rest)[i] = (s0 \o rest)[j + i]
      BY <1>6, TailJoined
    <3> QED
      BY <3>1, <1>6, <1>8 DEF IsTail
  <2>4. ASSUME NEW p \in 0 .. Len(Line) - Hdr, p < j, NEW x \in 1 .. Now
        PROVE  ~ ReqAt(Line, p, x)
    <3>1. p \in 0 .. j - 1
      BY <2>1, <2>4, <1>4
    <3>2. p + Hdr <= Len(s0) /\ ~ ReqAt(s0, p, x)
      BY <3>1, <1>8
    <3>3. p \in 0 .. Len(s0) - Hdr /\ x \in Nat
      BY <3>1, <3>2, <2>1, <1>4
    <3> QED
      BY <3>2, <3>3, <1>6, ReqAtMore
  <2> QED
    BY <2>2, <2>3, <2>4
<1>14. c # 0 => end = Hdr + Want(c)
  BY DEF Want
<1>15. CASE c = 0 \/ Len(s) < end
  <2>1. buf' = s /\ cmd' = c /\ heard' = heard /\ toList' = rest
    BY <1>2, <1>15
  <2>2. Line' = s \o rest
    BY <2>1 DEF Line
  <2>3. CmdOK'
    <3>1. c # 0 => Len(s) < Hdr + Want(c)
      BY <1>14, <1>15
    <3>2. Now' = Now /\ Want(cmd)' = Want(c)
      BY <2>1, <1>2 DEF Now, Want
    <3> HIDE DEF end
    <3>3. c # 0 => /\ cmd' \in 1 .. Now' /\ Hdr <= Len(buf') /\ ReqAt(buf', 0, cmd')
                   /\ Len(buf') < Hdr + Want(cmd)'
      BY <3>1, <3>2, <2>1, <1>11
    <3> QED
      BY <3>3, <2>1 DEF CmdOK, ReqAt
  <2>4. \A x : Heard(x)' = Heard(x)
    BY <2>1, <1>2 DEF Heard, Answer
  <2>5. ASSUME NEW x \in 1 .. Now, NEW p \in 0 .. Len(Line) - Hdr,
               p < j, Kept(Line, Coming(x), Want(x), x, p)
        PROVE  FALSE
    BY <2>5, <1>13 DEF Kept
  <2>6. /\ buf' \in Seq(Bytes) /\ toList' \in Seq(Bytes) /\ cmd' \in Nat
        /\ heard' \in Seq([x : Nat, data : Seq(Bytes)])
        /\ spoilt' = spoilt
        /\ UNCHANGED <<asked, busy, com, device, toMaster, answers>>
    BY <2>1, <1>2, <1>3, <1>6, <1>9, <1>12 DEF lineVars
  <2>7. IsTail(Line', Line, j)
    BY <2>2, <1>13
  <2>8. \A x \in (1 .. Now) \ spoilt' : \A p \in 0 .. Len(Line) - Hdr :
          asked[x] \in Known /\ p < j /\ Kept(Line, Coming(x), Want(x), x, p) => Heard(x)'
    BY <2>5
  <2> QED
    BY <2>3, <2>4, <2>6, <2>7, <2>8, <1>13, AdvanceKeeps
<1>16. CASE ~ (c = 0 \/ Len(s) < end)
  <2>1. /\ buf' = SubSeq(s, end + 1, Len(s)) /\ cmd' = 0 /\ toList' = rest
        /\ heard' = IF asked[c] \in Known /\ RightSum(data)
                    THEN Append(heard, [x |-> c, data |-> data]) ELSE heard
        /\ UNCHANGED <<asked, busy, com, device, toMaster, answers, spoilt>>
    BY <1>2, <1>16 DEF lineVars
  <2>2. end = Hdr + Want(c) /\ c \in 1 .. Now /\ ReqAt(s, 0, c)
    BY <1>11, <1>14, <1>16
  <2>3. end <= Len(s)
    <3>0. c \in 1 .. Now /\ VTypes
      BY <2>2, <1>1
    <3>1. Want(c) \in Nat /\ Len(s) \in Nat
      <4>1. Want(c) \in Nat \ {0}
        BY ONLY <3>0, Params
      <4>2. Len(s) \in Nat
        BY ONLY <1>9
      <4> QED
        BY ONLY <4>1, <4>2
    <3>2. ~ (Len(s) < end)
      BY <1>16
    <3> HIDE DEF end
    <3> QED
      BY ONLY <3>1, <3>2, <2>2, <1>4
  <2>4. data = SubSeq(s, Hdr + 1, Hdr + Want(c))
    BY <2>2
  <2>5. buf' = SubSeq(s, Hdr + Want(c) + 1, Len(s)) /\ Hdr + Want(c) <= Len(s)
    BY <2>1, <2>2, <2>3
  <2> HIDE DEF data, end
  <2> QED
    BY <2>1, <2>2, <2>4, <2>5, <1>6, <1>9, <1>13, TakesKeeps
<1> QED
  BY <1>15, <1>16

-----------------------------------------------------------------------------
(* The next request.                                                       *)

LEMMA NoneBad ==
  ASSUME NEW q, NEW t, NEW a, NEW w,
         ~ (Cardinality({p \in {<<q, t>>, <<a, w>>} : p[1] # p[2]}) > 0)
  PROVE  q = t /\ a = w
<1> DEFINE both == {<<q, t>>, <<a, w>>}
           bad  == {p \in both : p[1] # p[2]}
<1>1. IsFiniteSet(both)
  <2>1. IsFiniteSet({} \cup {<<q, t>>})
    BY FS_EmptySet, FS_AddElement
  <2>2. IsFiniteSet(({} \cup {<<q, t>>}) \cup {<<a, w>>})
    BY <2>1, FS_AddElement
  <2>3. both = ({} \cup {<<q, t>>}) \cup {<<a, w>>}
    OBVIOUS
  <2> QED
    BY <2>2, <2>3
<1>2. bad \subseteq both
  OBVIOUS
<1> HIDE DEF both
<1>3. IsFiniteSet(bad)
  BY <1>1, <1>2, FS_Subset
<1>4. ~ (Cardinality(bad) > 0)
  BY DEF both
<1> HIDE DEF bad
<1>5. Cardinality(bad) = 0
  BY <1>3, <1>4, FS_CardinalityType
<1>6. bad = {}
  BY <1>3, <1>5, FS_EmptySet
<1>7. \A p \in both : p[1] = p[2]
  BY <1>6 DEF bad
<1>8. <<q, t>>[1] = <<q, t>>[2] /\ <<a, w>>[1] = <<a, w>>[2]
  BY <1>7 DEF both
<1> QED
  BY <1>8

Whole(y, w) == [i \in 1 .. w |-> Byte(y, "ans", i)]
Garbled(s)  == [s EXCEPT ![1] = Noise]

MaySee(y)     == {Request(y), Garbled(Request(y))}
MaySend(y, w) == {Whole(y, w), <<>>, <<Head(Whole(y, w))>>, Garbled(Whole(y, w))}

(* What the device answers with is of the new exchange or garbled; what    *)
(* the listener sees is no older request.                                  *)
LEMMA Sent ==
  ASSUME NEW y \in Nat \ {0}, NEW w \in Nat \ {0},
         NEW q \in MaySee(y), NEW a \in MaySend(y, w)
  PROVE  /\ Whole(y, w) \in Seq(Bytes) /\ Len(Whole(y, w)) = w
         /\ \A i \in 1 .. w : Whole(y, w)[i] = Byte(y, "ans", i)
         /\ a \in Seq(Bytes)
         /\ \A i \in 1 .. Len(a) : a[i] = Noise \/ (a[i].x = y /\ a[i].part = "ans")
         /\ q \in Seq(Bytes) /\ Len(q) = Hdr
         /\ \A i \in 1 .. Len(q) : q[i] = Noise \/ q[i] = Byte(y, "req", i)
<1> DEFINE whole == Whole(y, w)
<1>1. Hdr \in Nat \ {0} /\ Noise \in Bytes
  BY VectorBusAssumption, Pieces1
<1>2. /\ whole \in [1 .. w -> Bytes] /\ whole \in Seq(Bytes) /\ Len(whole) = w
      /\ \A i \in 1 .. w : whole[i] = Byte(y, "ans", i)
  <2>1. whole \in [1 .. w -> Bytes] /\ \A i \in 1 .. w : whole[i] = Byte(y, "ans", i)
    BY DEF Byte, Bytes, Whole
  <2> QED
    BY <2>1, MakesSeq
<1> HIDE DEF whole
<1>3. /\ a \in Seq(Bytes)
      /\ \A i \in 1 .. Len(a) : a[i] = Noise \/ (a[i].x = y /\ a[i].part = "ans")
  <2>1. CASE a = whole
    BY <2>1, <1>2 DEF Byte
  <2>2. CASE a = <<>>
    <3>1. a \in Seq(Bytes) /\ Len(a) = 0
      BY <2>2, EmptySeq
    <3> QED
      BY <3>1
  <2>3. CASE a = <<Head(whole)>>
    <3>1. 1 \in 1 .. w
      OBVIOUS
    <3>2. Head(whole) = Byte(y, "ans", 1)
      BY <3>1, <1>2
    <3>3. Byte(y, "ans", 1) \in Bytes
      BY DEF Byte, Bytes
    <3>4. a \in Seq(Bytes) /\ Len(a) = 1 /\ a[1] = Byte(y, "ans", 1)
      BY <2>3, <3>2, <3>3
    <3> QED
      BY <3>4 DEF Byte
  <2>4. CASE a = Garbled(whole)
    <3>1. a \in [1 .. w -> Bytes]
      BY <2>4, <1>1, <1>2 DEF Garbled
    <3>2. a \in Seq(Bytes) /\ Len(a) = w
      BY <3>1, MakesSeq
    <3>3. \A i \in 1 .. w : a[i] = Noise \/ a[i] = Byte(y, "ans", i)
      BY <2>4, <1>2 DEF Garbled
    <3> QED
      BY <3>2, <3>3 DEF Byte
  <2> QED
    BY <2>1, <2>2, <2>3, <2>4 DEF whole, MaySend
<1>4. /\ q \in Seq(Bytes) /\ Len(q) = Hdr
      /\ \A i \in 1 .. Len(q) : q[i] = Noise \/ q[i] = Byte(y, "req", i)
  <2> DEFINE r == Request(y)
  <2>1. r \in [1 .. Hdr -> Bytes] /\ \A i \in 1 .. Hdr : r[i] = Byte(y, "req", i)
    BY DEF Request, Byte, Bytes
  <2> HIDE DEF r
  <2>2. q \in {r, [r EXCEPT ![1] = Noise]}
    BY DEF r, Garbled, MaySee
  <2>3. q \in [1 .. Hdr -> Bytes]
    BY <2>1, <2>2, <1>1
  <2>4. \A i \in 1 .. Hdr : q[i] = Noise \/ q[i] = Byte(y, "req", i)
    BY <2>1, <2>2
  <2>5. q \in Seq(Bytes) /\ Len(q) = Hdr
    BY <2>3, <1>1, MakesSeq
  <2> QED
    BY <2>4, <2>5
<1> QED
  BY <1>2, <1>3, <1>4 DEF whole

LEMMA AskKeeps ==
  ASSUME VInv, NEW r \in Req, Ask(r)
  PROVE  VInv'
<1> DEFINE y == Now + 1
           whole == [i \in 1 .. AnsLen[r] |-> Byte(y, "ans", i)]
           L == Line
<1>1. /\ VTypes /\ MasterOK /\ AnswersOK /\ LineFine(Line) /\ CmdOK /\ KeptOK
  BY DEF VInv
<1>2. /\ ~busy /\ toMaster = <<>> /\ device = <<>>
      /\ asked' = Append(asked, r) /\ busy' = TRUE
      /\ com' = [Idle EXCEPT !.timer = TRUE, !.out = com.out + Hdr]
      /\ UNCHANGED <<toMaster, buf, cmd, heard, answers>>
  BY DEF Ask, Pause
<1>3. PICK q \in {Request(y), [Request(y) EXCEPT ![1] = Noise]},
           a \in {whole, <<>>, <<Head(whole)>>, [whole EXCEPT ![1] = Noise]} :
        /\ device' = a /\ toList' = toList \o q
        /\ spoilt' = IF Cardinality({p \in {<<q, Request(y)>>, <<a, whole>>} :
                                       p[1] # p[2]}) > 0
                     THEN spoilt \cup {y} ELSE spoilt
  BY DEF Ask
<1>4. /\ y \in Nat \ {0} /\ AnsLen[r] \in Nat \ {0}
      /\ Now \in Nat /\ Hdr \in Nat \ {0}
      /\ L \in Seq(Bytes) /\ Len(L) \in Nat
  <2>1. Now \in Nat /\ Hdr \in Nat \ {0} /\ L \in Seq(Bytes)
    BY <1>1, Params
  <2> HIDE DEF L
  <2> QED
    BY <2>1, VectorBusAssumption
<1>5. /\ whole \in Seq(Bytes) /\ Len(whole) = AnsLen[r]
      /\ \A i \in 1 .. AnsLen[r] : whole[i] = Byte(y, "ans", i)
      /\ a \in Seq(Bytes)
      /\ \A i \in 1 .. Len(a) : a[i] = Noise \/ (a[i].x = y /\ a[i].part = "ans")
      /\ q \in Seq(Bytes) /\ Len(q) = Hdr
      /\ \A i \in 1 .. Len(q) : q[i] = Noise \/ q[i] = Byte(y, "req", i)
  <2>1. whole = Whole(y, AnsLen[r])
    BY DEF Whole
  <2>2. /\ q \in {Request(y), Garbled(Request(y))}
        /\ a \in {whole, <<>>, <<Head(whole)>>, Garbled(whole)}
    BY <1>3 DEF Garbled
  <2>3. y \in Nat \ {0} /\ AnsLen[r] \in Nat \ {0}
    BY <1>4
  <2> HIDE DEF y, whole
  <2>4. a \in {Whole(y, AnsLen[r]), <<>>, <<Head(Whole(y, AnsLen[r]))>>,
               Garbled(Whole(y, AnsLen[r]))}
    BY <2>1, <2>2
  <2> DEFINE w == AnsLen[r]
  <2> HIDE DEF w
  <2>5. /\ Whole(y, w) \in Seq(Bytes) /\ Len(Whole(y, w)) = w
        /\ \A i \in 1 .. w : Whole(y, w)[i] = Byte(y, "ans", i)
        /\ a \in Seq(Bytes)
        /\ \A i \in 1 .. Len(a) : a[i] = Noise \/ (a[i].x = y /\ a[i].part = "ans")
        /\ q \in Seq(Bytes) /\ Len(q) = Hdr
        /\ \A i \in 1 .. Len(q) : q[i] = Noise \/ q[i] = Byte(y, "req", i)
    <3>1. /\ y \in Nat \ {0} /\ w \in Nat \ {0}
          /\ q \in MaySee(y) /\ a \in MaySend(y, w)
      BY ONLY <2>2, <2>3, <2>4 DEF w, MaySee, MaySend
    <3> QED
      BY ONLY <3>1, Sent
  <2> QED
    BY ONLY <2>1, <2>5 DEF w
<1>6. spoilt \subseteq spoilt' /\ (y \notin spoilt' => q = Request(y) /\ a = whole)
  <2> HIDE DEF y, whole
  <2>1. CASE Cardinality({p \in {<<q, Request(y)>>, <<a, whole>>} : p[1] # p[2]}) > 0
    BY <1>3, <2>1
  <2>2. CASE ~ (Cardinality({p \in {<<q, Request(y)>>, <<a, whole>>} : p[1] # p[2]}) > 0)
    <3>1. q = Request(y) /\ a = whole
      BY <2>2, NoneBad
    <3>2. spoilt' = spoilt
      BY <1>3, <2>2
    <3> QED
      BY <3>1, <3>2
  <2> QED
    BY <2>1, <2>2
<1>7. /\ asked' \in Seq(Req) /\ Now' = y /\ asked'[y] = r
      /\ \A x \in 1 .. Now : asked'[x] = asked[x]
  <2>1. asked \in Seq(Req)
    BY <1>1 DEF VTypes
  <2> QED
    BY <2>1, <1>2, AppendProperties DEF Now
<1> HIDE DEF whole, y, L
<1>8. y = Now + 1 /\ y \notin 1 .. Now /\ \A x \in 1 .. y : x = y \/ x \in 1 .. Now
  BY <1>4 DEF y
<1>9. /\ \A x \in 1 .. Now : Want(x)' = Want(x) /\ Answer(x)' = Answer(x)
      /\ AnsLen[asked'[y]] = AnsLen[r]
  <2>1. ASSUME NEW x \in 1 .. Now PROVE Want(x)' = Want(x) /\ Answer(x)' = Answer(x)
    BY <1>7 DEF Want, Answer
  <2> QED
    BY <2>1, <1>7
<1>10. /\ com' \in Port /\ com'.whole = FALSE /\ com'.resp = <<>>
  <2>1. com.out + Hdr \in Nat
    BY <1>1, <1>4 DEF VTypes, Port
  <2>2. com' = [lis |-> FALSE, resp |-> <<>>, whole |-> FALSE, timer |-> TRUE,
                out |-> com.out + Hdr, written |-> 0]
    BY <1>2 DEF Idle
  <2>3. <<>> \in Seq(Bytes)
    BY EmptySeq
  <2> QED
    BY <2>1, <2>2, <2>3 DEF Port
<1>11. VTypes'
  <2>1. toList \in Seq(Bytes)
    BY <1>1 DEF VTypes
  <2>2. toList' \in Seq(Bytes) /\ device' \in Seq(Bytes)
    BY <2>1, <1>3, <1>5, Joined
  <2>3. busy' \in BOOLEAN
    BY <1>2
  <2> QED
    BY <2>2, <2>3, <1>1, <1>2, <1>7, <1>10 DEF VTypes
<1>12. MasterOK'
  <2>1. Len(<<>>) = 0
    OBVIOUS
  <2>2. FromNow(com.resp)' /\ FromNow(toMaster)'
    BY <2>1, <1>2, <1>10 DEF FromNow
  <2>3. FromNow(device)'
    BY <1>3, <1>5, <1>7 DEF FromNow
  <2>4. Now' # 0
    BY <1>4, <1>7
  <2>5. Len(com.resp)' < Want(Now)'
    <3>1. Len(com.resp)' = 0 /\ Want(Now)' = AnsLen[r]
      BY <2>1, <1>7, <1>9, <1>10 DEF Want
    <3> QED
      BY <3>1, <1>4
  <2> QED
    BY <2>2, <2>3, <2>4, <2>5, <1>10 DEF MasterOK
<1>13. AnswersOK'
  <2> SUFFICES ASSUME NEW i \in 1 .. Len(answers)
               PROVE  /\ answers[i].x \in 1 .. y
                      /\ answers[i].data = Answer(answers[i].x)'
    BY <1>2, <1>7 DEF AnswersOK, Answer
  <2>1. answers[i].x \in 1 .. Now /\ answers[i].data = Answer(answers[i].x)
    BY <1>1 DEF AnswersOK
  <2>2. \A x \in 1 .. Now : x \in 1 .. y
    BY <1>4, <1>8
  <2>3. PICK x \in 1 .. Now : x = answers[i].x
    BY <2>1
  <2>4. answers[i].data = Answer(x)'
    BY <2>1, <2>3, <1>9
  <2>5. answers'[i].x = answers[i].x
    BY <1>2
  <2> QED
    BY <2>1, <2>2, <2>3, <2>4, <2>5 DEF Answer
<1>14. CmdOK'
  <2> SUFFICES ASSUME cmd # 0
               PROVE  /\ cmd \in 1 .. y
                      /\ Hdr <= Len(buf) /\ ReqAt(buf, 0, cmd)
                      /\ Len(buf) < Hdr + Want(cmd)'
    BY <1>2, <1>7 DEF CmdOK, ReqAt, Want
  <2>1. /\ cmd \in 1 .. Now /\ Hdr <= Len(buf) /\ ReqAt(buf, 0, cmd)
        /\ Len(buf) < Hdr + Want(cmd)
    BY <1>1 DEF CmdOK
  <2>2. cmd \in 1 .. y
    BY <2>1, <1>4, <1>8
  <2>3. Want(cmd)' = Want(cmd)
    BY <2>1, <1>2, <1>7 DEF Want
  <2> QED
    BY <2>1, <2>2, <2>3
<1>15. /\ Line' = L \o q /\ Line' \in Seq(Bytes) /\ Len(Line') = Len(L) + Hdr
       /\ \A i \in 1 .. Len(L) : Line'[i] = L[i]
       /\ \A i \in 1 .. Len(q) : Line'[Len(L) + i] = q[i]
  <2>1. buf \in Seq(Bytes) /\ toList \in Seq(Bytes)
    BY <1>1 DEF VTypes
  <2>2. (buf \o toList) \o q = buf \o (toList \o q)
    BY <2>1, <1>5, BytesAssociative
  <2>3. Line' = L \o q
    BY <2>2, <1>2, <1>3 DEF Line, L
  <2>4. /\ L \o q \in Seq(Bytes) /\ Len(L \o q) = Len(L) + Len(q)
        /\ \A i \in 1 .. Len(L) : (L \o q)[i] = L[i]
        /\ \A i \in 1 .. Len(q) : (L \o q)[Len(L) + i] = q[i]
    BY <1>4, <1>5, Joined
  <2> QED
    BY <2>3, <2>4, <1>5
<1>16. LineFine(L)
  BY <1>1 DEF L
<1>17. ASSUME NEW i \in 1 .. Len(Line') PROVE Line'[i].x <= y
  <2>1. CASE i \in 1 .. Len(L)
    <3>1. L[i].x <= Now /\ L[i].x \in Nat
      <4>1. L[i] \in Bytes
        BY <2>1, <1>4, ElementOfSeq
      <4> QED
        BY <4>1, <2>1, <1>16 DEF LineFine, Bytes
    <3> QED
      BY <3>1, <2>1, <1>4, <1>8, <1>15
  <2>2. CASE i \notin 1 .. Len(L)
    <3> DEFINE j == i - Len(L)
    <3>1. j \in 1 .. Len(q) /\ i = Len(L) + j
      BY <2>2, <1>4, <1>5, <1>15
    <3> HIDE DEF j
    <3>2. Line'[i] = Noise \/ Line'[i] = Byte(y, "req", j)
      BY <3>1, <1>5, <1>15
    <3>3. Line'[i].x = 0 \/ Line'[i].x = y
      BY <3>2 DEF Noise, Byte
    <3> QED
      BY <3>3, <1>4
  <2> QED
    BY <2>1, <2>2
<1>18. ASSUME NEW x \in 1 .. Now, NEW p \in 0 .. Len(Line') - Hdr, ReqAt(Line', p, x)
       PROVE  p \in 0 .. Len(L) - Hdr /\ ReqAt(L, p, x)
  <2>1. \A i \in 1 .. Len(q) : ~ (q[i].part = "req" /\ q[i].x = x)
    <3>1. x # y
      BY <1>8
    <3> QED
      BY <3>1, <1>5 DEF Noise, Byte
  <2>2. x \in Nat
    BY <1>4
  <2>3. p \in 0 .. Len(L \o q) - Hdr /\ ReqAt(L \o q, p, x)
    BY <1>15, <1>18
  <2> QED
    BY ONLY <2>1, <2>2, <2>3, <1>4, <1>5, ReqAtOld
<1>19. ASSUME NEW p \in 0 .. Len(Line') - Hdr, ReqAt(Line', p, y)
       PROVE  p = Len(L)
  <2>1. p <= Len(L) /\ p \in Nat
    BY <1>4, <1>15
  <2>2. ASSUME p < Len(L) PROVE FALSE
    <3>1. p + 1 \in 1 .. Len(L) /\ 1 \in 1 .. Hdr
      BY <2>1, <2>2, <1>4
    <3>2. Line'[p + 1] = Byte(y, "req", 1) /\ Line'[p + 1] = L[p + 1]
      BY <3>1, <1>15, <1>19 DEF ReqAt
    <3>3. L[p + 1].x <= Now
      BY <3>1, <1>16 DEF LineFine
    <3>4. y <= Now
      BY <3>2, <3>3 DEF Byte
    <3> QED
      BY <3>4, <1>4, <1>8
  <2> QED
    BY <2>1, <2>2, <1>4
<1>20. \A x \in 1 .. Now : Due(x) = Want(x) /\ Due(x)' = Want(x) /\ Want(x) \in Nat
  <2>1. \A x \in 1 .. Now : Want(x) \in Nat /\ x # y
    BY <1>1, <1>8, Params
  <2> QED
    BY <2>1, <1>2, <1>7, <1>9 DEF Due
<1>21. LineFine(Line)'
  <2>1. ASSUME NEW x \in 1 .. y, NEW p \in 0 .. Len(Line') - Hdr, ReqAt(Line', p, x)
        PROVE  p + Hdr + Due(x)' <= Len(Line')
    <3>1. CASE x = y
      <4>1. p = Len(L)
        BY <2>1, <3>1, <1>19
      <4>2. Due(x)' = Len(<<>>) + Len(<<>>)
        BY <3>1, <1>2, <1>7, <1>10 DEF Due
      <4>3. Due(x)' = 0
        BY <4>2
      <4> QED
        BY <4>1, <4>3, <1>4, <1>15
    <3>2. CASE x \in 1 .. Now
      <4>1. p \in 0 .. Len(L) - Hdr /\ ReqAt(L, p, x)
        BY <2>1, <3>2, <1>18
      <4>2. p + Hdr + Due(x) <= Len(L) /\ Due(x)' = Due(x) /\ Due(x) \in Nat
        BY <4>1, <3>2, <1>16, <1>20 DEF LineFine
      <4> QED
        BY <4>2, <1>4, <1>15
    <3> QED
      BY <3>1, <3>2, <1>8
  <2>2. ASSUME NEW x \in 1 .. y, NEW z \in 1 .. y,
               NEW p \in 0 .. Len(Line') - Hdr, NEW t \in 0 .. Len(Line') - Hdr,
               ReqAt(Line', p, x), ReqAt(Line', t, z), p < t
        PROVE  p + Hdr + Want(x)' <= t
    <3>1. x # y
      <4>1. ASSUME x = y PROVE FALSE
        <5>1. p = Len(L)
          BY <2>2, <4>1, <1>19
        <5> QED
          BY <5>1, <2>2, <1>4, <1>15
      <4> QED
        BY <4>1
    <3>2. x \in 1 .. Now /\ p \in 0 .. Len(L) - Hdr /\ ReqAt(L, p, x)
      BY <2>2, <3>1, <1>8, <1>18
    <3>3. Want(x)' = Want(x)
      BY <3>2, <1>9
    <3>4. CASE z = y
      <4>1. t = Len(L)
        BY <2>2, <3>4, <1>19
      <4>2. p + Hdr + Due(x) <= Len(L)
        BY <3>2, <1>16 DEF LineFine
      <4> QED
        BY <4>1, <4>2, <3>2, <3>3, <1>20
    <3>5. CASE z \in 1 .. Now
      <4>1. t \in 0 .. Len(L) - Hdr /\ ReqAt(L, t, z)
        BY <2>2, <3>5, <1>18
      <4> QED
        BY <4>1, <3>2, <3>3, <3>5, <2>2, <1>16 DEF LineFine
    <3> QED
      BY <3>4, <3>5, <1>8
  <2> QED
    BY <2>1, <2>2, <1>7, <1>17 DEF LineFine
<1>22. KeptOK'
  <2> SUFFICES ASSUME NEW x \in (1 .. y) \ spoilt', asked'[x] \in Known
               PROVE  \/ Heard(x)'
                      \/ \E p \in 0 .. Len(Line') - Hdr :
                           Kept(Line', Coming(x)', Want(x)', x, p)
    BY <1>7 DEF KeptOK
  <2>1. CASE x = y
    <3> DEFINE d == whole
               w == AnsLen[r]
    <3>1. Coming(x)' = d /\ Want(x)' = w /\ q = Request(y)
      BY <2>1, <1>3, <1>6, <1>7 DEF Coming, Want
    <3>2. /\ Len(d) = w /\ w \in Nat /\ \A k \in 1 .. w : d[k] = Byte(x, "ans", k)
          /\ \A k \in 1 .. Hdr : q[k] = Byte(x, "req", k)
      BY <2>1, <3>1, <1>4, <1>5, Pieces1
    <3> HIDE DEF d, w
    <3>3. Len(L) \in 0 .. Len(Line') - Hdr
      BY <1>4, <1>15
    <3>4. ReqAt(Line', Len(L), x)
      BY <3>2, <1>5, <1>15 DEF ReqAt
    <3>5. /\ w - Len(d) = 0 /\ Len(L) + Hdr + 0 = Len(Line') /\ Len(d) <= w
          /\ \A k \in 1 .. Len(d) : d[k] = Byte(x, "ans", 0 + k)
      BY <3>2, <1>4, <1>15
    <3>6. Kept(Line', d, w, x, Len(L))
      BY <3>4, <3>5 DEF Kept
    <3> QED
      BY <3>1, <3>3, <3>6
  <2>2. CASE x \in 1 .. Now
    <3>1. asked[x] \in Known /\ x \notin spoilt
      BY <2>2, <1>6, <1>7
    <3>2. CASE Heard(x)
      <4>1. Answer(x)' = Answer(x)
        BY <2>2, <1>9
      <4> QED
        BY <4>1, <3>2, <1>2 DEF Heard
    <3>3. CASE \E p \in 0 .. Len(L) - Hdr : Kept(L, Coming(x), Want(x), x, p)
      <4>1. PICK p \in 0 .. Len(L) - Hdr : Kept(L, Coming(x), Want(x), x, p)
        BY <3>3
      <4>2. Coming(x) = <<>> /\ Coming(x)' = <<>>
        BY <2>2, <1>2, <1>7, <1>8 DEF Coming
      <4>3. /\ <<>> \in Seq(Bytes) /\ (Len(<<>>) > 0 => Len(q) = 0)
            /\ Kept(L, <<>>, Want(x), x, p) /\ x \in Nat /\ Want(x) \in Nat
        BY <4>1, <4>2, <2>2, <1>4, <1>20, EmptySeq
      <4>4. Kept(L \o q, <<>>, Want(x), x, p)
        BY <4>1, <4>3, <1>4, <1>5, KeptMore
      <4>5. p \in 0 .. Len(Line') - Hdr /\ Kept(Line', Coming(x)', Want(x)', x, p)
        BY <4>1, <4>2, <4>4, <2>2, <1>4, <1>9, <1>15
      <4> QED
        BY <4>5
    <3> QED
      BY <3>1, <3>2, <3>3, <2>2, <1>1 DEF KeptOK, L
  <2> QED
    BY <2>1, <2>2, <1>8
<1> QED
  BY <1>11, <1>12, <1>13, <1>14, <1>21, <1>22 DEF VInv

-----------------------------------------------------------------------------
LEMMA VInit ==
  ASSUME Init
  PROVE  VInv
<1>1. /\ asked = <<>> /\ busy = FALSE /\ com = Idle /\ device = <<>> /\ toMaster = <<>>
      /\ toList = <<>> /\ buf = <<>> /\ cmd = 0 /\ heard = <<>> /\ answers = <<>>
  BY DEF Init
<1>2. <<>> \in Seq(Bytes) /\ Len(<<>>) = 0
  BY EmptySeq
<1>3. Hdr \in Nat \ {0}
  BY VectorBusAssumption
<1>4. com.resp = <<>> /\ com \in Port
  BY <1>1, <1>2 DEF Idle, Port
<1>5. VTypes
  <2>1. <<>> \in Seq(Req) /\ <<>> \in Seq([x : Nat, data : Seq(Bytes)])
    BY EmptySeq
  <2> QED
    BY <2>1, <1>1, <1>2, <1>4 DEF VTypes
<1>6. Now = 0
  BY <1>1, <1>2 DEF Now
<1>7. MasterOK
  BY <1>1, <1>2, <1>4, <1>6 DEF MasterOK, FromNow
<1>8. AnswersOK
  BY <1>1, <1>2 DEF AnswersOK
<1>9. Line \in Seq(Bytes) /\ Len(Line) = 0
  BY <1>1, <1>2, <1>5, Params
<1>10. LineFine(Line)
  BY <1>6, <1>9 DEF LineFine
<1>11. CmdOK /\ KeptOK
  BY <1>1, <1>6 DEF CmdOK, KeptOK
<1> QED
  BY <1>5, <1>7, <1>8, <1>10, <1>11 DEF VInv

LEMMA VStep ==
  ASSUME VInv, [Next]_vars
  PROVE  VInv'
<1>1. ASSUME NEW r \in Req, Ask(r) PROVE VInv'
  BY <1>1, AskKeeps
<1>2. ASSUME NEW k \in Pieces(com.out), Written(k) PROVE VInv'
  <2>1. k \in Nat
    <3>1. com.out \in Nat
      BY DEF VInv, VTypes, Port
    <3> QED
      BY <3>1 DEF Pieces
  <2> QED
    BY <1>2, <2>1, WrittenKeeps
<1>3. ASSUME ReadCOM PROVE VInv'
  BY <1>3, ReadCOMKeeps
<1>4. ASSUME HandleTimeout PROVE VInv'
  BY <1>4, HandleTimeoutKeeps
<1>5. ASSUME TimeOut PROVE VInv'
  BY <1>5, TimeOutKeeps
<1>6. ASSUME NEW k \in Pieces(Len(device)), DeviceSends(k) PROVE VInv'
  BY <1>6, DeviceSendsKeeps
<1>7. ASSUME NEW k \in Pieces(Len(toList)), ListenerReads(k) PROVE VInv'
  BY <1>7, ListenerReadsKeeps
<1>8. ASSUME BreakCMDSlot PROVE VInv'
  BY <1>8, BreakCMDSlotKeeps
<1>9. ASSUME UNCHANGED vars PROVE VInv'
  <2>1. /\ UNCHANGED <<asked, busy, com, device, toMaster, toList, buf, cmd, heard, answers>>
        /\ spoilt' = spoilt
    BY <1>9 DEF vars
  <2>2. VTypes'
    BY <2>1 DEF VInv, VTypes
  <2>3. MasterOK' /\ AnswersOK' /\ CmdOK'
    BY <2>1 DEF VInv, MasterOK, AnswersOK, CmdOK, FromNow, Now, Want, Answer
  <2>4. LineFine(Line)'
    BY <2>1 DEF VInv, LineFine, Line, Due, Now, Want
  <2>5. KeptOK'
    BY <2>1 DEF VInv, KeptOK, Line, Coming, Heard, Now, Want, Answer
  <2> QED
    BY <2>2, <2>3, <2>4, <2>5 DEF VInv
<1> QED
  BY <1>1, <1>2, <1>3, <1>4, <1>5, <1>6, <1>7, <1>8, <1>9 DEF Next

(* What is on the line and with the master stays in order, whatever the    *)
(* devices answer and the listener gives up: com485 fills up what is       *)
(* missing (com485.cpp:162) and snifferThread counts (snifferThread.cpp:75). *)
THEOREM VectorInductive == Spec => []VInv
<1>1. Init => VInv
  BY VInit
<1>2. VInv /\ [Next]_vars => VInv'
  BY VStep
<1> QED
  BY <1>1, <1>2, PTL DEF Spec

(* The processor takes only the answer to the request it waits for:        *)
(* com485::dataWrite forgets what came before (com485.cpp:138) and         *)
(* execut::runTime asks only when what came has been read.                 *)
THEOREM AnswersAlwaysOwn == Spec => []AnswerIsOwn
<1>1. VInv => AnswerIsOwn
  <2>1. VTypes => DOMAIN answers = 1 .. Len(answers)
    BY DEF VTypes
  <2> QED
    BY <2>1 DEF VInv, AnswersOK, AnswerIsOwn
<1> QED
  BY <1>1, VectorInductive, PTL

(* The listener never waits for an answer when the exchange is over and    *)
(* all has been read: closeVector wrote what was missing (com485.cpp:162). *)
THEOREM AlwaysInStep == Spec => []InStep
<1>1. ASSUME VInv, ~busy, toList = <<>>, cmd # 0 PROVE FALSE
  <2>1. VTypes /\ LineFine(Line) /\ CmdOK
    BY <1>1 DEF VInv
  <2>2. /\ cmd \in 1 .. Now /\ Hdr <= Len(buf) /\ ReqAt(buf, 0, cmd)
        /\ Len(buf) < Hdr + Want(cmd)
    BY <1>1, <2>1 DEF CmdOK
  <2>3. /\ Len(Line) = Len(buf) + Len(toList) /\ Len(buf) \in Nat /\ Hdr \in Nat \ {0}
        /\ Want(cmd) \in Nat
    BY <2>1, <2>2, Params
  <2>4. Len(toList) = 0
    BY <1>1
  <2>5. 0 \in 0 .. Len(buf) - Hdr /\ 0 \in 0 .. Len(Line) - Hdr /\ cmd \in Nat
    BY <2>2, <2>3, <2>4
  <2>6. ReqAt(Line, 0, cmd)
    <3>1. buf \in Seq(Bytes) /\ toList \in Seq(Bytes)
      BY <2>1 DEF VTypes
    <3> QED
      BY <3>1, <2>2, <2>5, ReqAtMore DEF Line
  <2>7. 0 + Hdr + Want(cmd) <= Len(Line)
    BY <1>1, <2>1, <2>2, <2>5, <2>6 DEF LineFine, Due
  <2> QED
    BY ONLY <2>2, <2>3, <2>4, <2>7
<1>2. VInv => InStep
  BY <1>1 DEF InStep
<1> QED
  BY <1>2, VectorInductive, PTL

(* What is kept of an exchange in the listener's buffer, whole.            *)
LEMMA WholeInBuffer ==
  ASSUME VTypes, NEW x \in 1 .. Now, NEW p \in 0 .. Len(buf) - Hdr,
         Kept(buf, <<>>, Want(x), x, p)
  PROVE  InBuffer(x)
<1> DEFINE w == Want(x)
           q == Request(x)
           a == Answer(x)
           t == q \o a
           u == SubSeq(buf, p + 1, Len(buf))
<1>1. /\ Hdr \in Nat \ {0} /\ Len(buf) \in Nat /\ w \in Nat /\ x \in Nat
      /\ buf \in Seq(Bytes) /\ p \in Nat
  BY Params DEF VTypes
<1>2. /\ ReqAt(buf, p, x) /\ p + Hdr + w <= Len(buf)
      /\ \A k \in 1 .. w : buf[p + Hdr + k] = Byte(x, "ans", k)
  <2>1. Len(<<>>) = 0 /\ w - 0 = w
    BY <1>1
  <2> QED
    BY <2>1 DEF Kept
<1>3. /\ q \in Seq(Bytes) /\ Len(q) = Hdr /\ \A k \in 1 .. Hdr : q[k] = Byte(x, "req", k)
      /\ a \in Seq(Bytes) /\ Len(a) = w /\ \A k \in 1 .. w : a[k] = Byte(x, "ans", k)
  BY <1>1, Pieces1, AnswerIs
<1> HIDE DEF q, a, w
<1>4. /\ t \in Seq(Bytes) /\ Len(t) = Hdr + w
      /\ \A k \in 1 .. Hdr : t[k] = q[k]
      /\ \A k \in 1 .. w : t[Hdr + k] = a[k]
  <2>1. /\ t \in Seq(Bytes) /\ Len(t) = Len(q) + Len(a)
        /\ \A i \in 1 .. Len(q) : t[i] = q[i]
        /\ \A i \in 1 .. Len(a) : t[Len(q) + i] = a[i]
    BY <1>3, Joined
  <2> HIDE DEF t
  <2> QED
    BY <2>1, <1>3
<1> HIDE DEF t
<1>5. p \in 0 .. Len(buf) /\ p + 1 \in DOMAIN buf
  BY <1>1, <1>2
<1>6. /\ u \in Seq(Bytes) /\ Len(u) = Len(buf) - p
      /\ \A i \in 1 .. Len(buf) - p : u[i] = buf[p + i]
  BY <1>1, <1>5, TailOf
<1> HIDE DEF u
<1>7. ASSUME NEW k \in 1 .. Len(t) PROVE t[k] = u[k]
  <2>1. k \in 1 .. Len(buf) - p
    BY <1>1, <1>2, <1>4
  <2>2. CASE k <= Hdr
    <3>1. k \in 1 .. Hdr
      BY <2>2, <1>1, <1>4
    <3> QED
      BY <3>1, <2>1, <1>2, <1>3, <1>4, <1>6 DEF ReqAt
  <2>3. CASE Hdr < k
    <3> DEFINE m == k - Hdr
    <3>1. m \in 1 .. w /\ k = Hdr + m /\ p + k = p + Hdr + m
      BY <2>3, <1>1, <1>4
    <3> HIDE DEF m
    <3>2. t[k] = a[m] /\ a[m] = Byte(x, "ans", m)
      BY ONLY <3>1, <1>3, <1>4
    <3>3. u[k] = buf[p + k]
      BY ONLY <2>1, <1>6
    <3>4. buf[p + Hdr + m] = Byte(x, "ans", m)
      BY ONLY <3>1, <1>2
    <3> QED
      BY ONLY <3>1, <3>2, <3>3, <3>4
  <2> QED
    BY <2>2, <2>3, <1>1, <1>4
<1>8. IsPrefix(t, u)
  <2>1. Len(t) <= Len(u)
    BY <1>1, <1>2, <1>4, <1>6
  <2>2. DOMAIN t = 1 .. Len(t) /\ DOMAIN u = 1 .. Len(u) /\ Len(t) \in Nat /\ Len(u) \in Nat
    BY <1>4, <1>6
  <2> QED
    BY <2>1, <2>2, <1>7 DEF IsPrefix
<1> QED
  BY <1>5, <1>8 DEF InBuffer, q, a, t, u

(* Every exchange the line left whole and the listener did not give up is  *)
(* heard, or whole in the listener's buffer, whatever happened to others   *)
(* (snifferThread.cpp:75).                                                 *)
THEOREM NothingEverMissed == Spec => []NothingMissed
<1>1. ASSUME VInv, device = <<>>, toList = <<>>,
             NEW x \in (1 .. Now) \ spoilt, asked[x] \in Known, ~ Heard(x)
      PROVE  InBuffer(x)
  <2>1. VTypes /\ KeptOK
    BY <1>1 DEF VInv
  <2>2. PICK p \in 0 .. Len(Line) - Hdr : Kept(Line, Coming(x), Want(x), x, p)
    BY <1>1, <2>1 DEF KeptOK
  <2>3. Coming(x) = <<>>
    BY <1>1 DEF Coming
  <2>4. Line = buf
    <3>1. buf \in Seq(Bytes)
      BY <2>1 DEF VTypes
    <3> QED
      BY <3>1, <1>1, ConcatEmptySeq DEF Line
  <2> QED
    BY <2>1, <2>2, <2>3, <2>4, WholeInBuffer
<1>2. VInv => NothingMissed
  BY <1>1 DEF NothingMissed
<1> QED
  BY <1>2, VectorInductive, PTL

=============================================================================
