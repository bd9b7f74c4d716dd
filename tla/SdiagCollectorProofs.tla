------------------------ MODULE SdiagCollectorProofs ------------------------
(***************************************************************************)
(* Theorems about SdiagCollector, for every set of devices, every list of  *)
(* settings, every length of a spectrum and of a piece, and every bound: a *)
(* value is computed from its own lines, and what a run has fetched to the *)
(* last line is computed before the next may begin.  The invariant follows *)
(* a range on its way: the commands that are left of the tape, what they   *)
(* rely on of those that were done, the pieces in the queue, the bins.     *)
(***************************************************************************)
EXTENDS SdiagCollector, TLAPS

-----------------------------------------------------------------------------
(* The range a command or a piece is of.                                   *)
RangeOf(x) == JList[x.i].rms[x.d]

(* A line of the spectrum that run r ordered of a device's channel for a   *)
(* setting; what is common to a command, a piece and a value.              *)
Line(x, r, pos) ==
  [m |-> x.m, of |-> [r |-> r, i |-> x.i, nk |-> x.nk], pos |-> pos]

(* The settings, as start makes them.                                      *)
JobsOK ==
  /\ DOMAIN JList \subseteq Int
  /\ \A i \in DOMAIN JList :
       /\ DOMAIN JList[i].rms \subseteq Nat \ {0}
       /\ \A d \in DOMAIN JList[i].rms :
            JList[i].rms[d].start \in Nat /\ JList[i].rms[d].size \in Nat

Bins == UNION {{<<i, d>> : d \in DOMAIN JList[i].rms} : i \in DOMAIN JList}

(* Each range has a bin for each of its lines.                             *)
BinsOK ==
  /\ DOMAIN bins = Bins /\ bins = [x \in DOMAIN bins |-> bins[x]]
  /\ \A i \in DOMAIN JList : \A d \in DOMAIN JList[i].rms :
       DOMAIN bins[<<i, d>>] = 1 .. JList[i].rms[d].size

(* A command of a tape of the settings.                                    *)
CommandOK(h) ==
  /\ h.i \in DOMAIN JList /\ h.nk \in Int /\ h.j \in Int
  /\ h.m \in Dev /\ h.m = JList[h.i].devs[h.j]
  /\ \/ h.op \in {"order", "wait"} /\ h.d = 0 /\ h.c = 0
     \/ /\ h.op = "read"
        /\ h.d \in DOMAIN JList[h.i].rms
        /\ h.c \in 0 .. Pieces(RangeOf(h)) - 1
        /\ h.piece = Piece(RangeOf(h), h.c)

TapeOK == \A h \in tape : CommandOK(h)

(* What comes before a command: the order of its device, the wait for it,  *)
(* the piece before its own.                                               *)
OrderOf(h) == <<h.i, h.nk, 0, h.j, 0, 0>>
WaitOf(h) == <<h.i, h.nk, 1, h.j, 0, 0>>
PieceBefore(h) == <<h.i, h.nk, 1, h.j, h.d, h.c - 1>>

Less(p, q) ==
  \E n \in 1 .. 6 : p[n] < q[n] /\ \A k \in 1 .. n - 1 : p[k] = q[k]

InTape(q) == \E g \in tape : Place(g) = q

Needed(h, q) ==
  \/ q = OrderOf(h) /\ h.op # "order"
  \/ q = WaitOf(h) /\ h.op = "read"
  \/ q = PieceBefore(h) /\ h.op = "read" /\ h.c > 0

(* Commands leave the tape in its order.                                   *)
Closed ==
  \A g, h \in tape : \A q \in {OrderOf(h), WaitOf(h), PieceBefore(h)} :
    Needed(h, q) /\ Less(Place(g), q) => InTape(q)

(* The spectrum a device's registers will hold.                            *)
Coming(m) == IF m \in meas THEN next[m] ELSE spectrum[m]

(* What the order and the wait have achieved, if all went well.            *)
IsOrdered(h) == clean[h.m] => Coming(h.m) = [r |-> runs, i |-> h.i, nk |-> h.nk]
IsMeasured(h) == clean[h.m] => h.m \notin meas

(* The first n lines of a range's bins are of x.                           *)
BinsHave(x, r, n) ==
  \A v \in DOMAIN bins[<<x.i, x.d>>] :
    v <= n => bins[<<x.i, x.d>>][v] = Line(x, r, RangeOf(x).start + v - 1)

Follows(p, x, r) ==
  /\ p.i = x.i /\ p.nk = x.nk /\ p.m = x.m /\ p.d = x.d
  /\ p.c = x.c - 1 /\ p.whole /\ p.r = r

(* What comes before piece x of run r has arrived, or is the last posted.  *)
Arrived(x, r, list) ==
  IF list = <<>> THEN BinsHave(x, r, MaxM * x.c)
  ELSE Follows(list[Len(list)], x, r)

(* What a command needs is on the tape, or has been achieved.              *)
Prepared ==
  \A h \in tape :
    /\ h.op # "order" => InTape(OrderOf(h)) \/ IsOrdered(h)
    /\ h.op = "read" => InTape(WaitOf(h)) \/ IsMeasured(h)
    /\ h.op = "read" /\ h.c > 0 =>
         InTape(PieceBefore(h)) \/ (clean[h.m] => Arrived(h, runs, posted))

(* A piece is of its range, and holds its lines if all went well.          *)
PieceOK(p) ==
  /\ p.i \in DOMAIN JList /\ p.d \in DOMAIN JList[p.i].rms
  /\ p.c \in 0 .. Pieces(RangeOf(p)) - 1
  /\ DOMAIN p.dat = 1 .. Piece(RangeOf(p), p.c).n
  /\ p.whole => \A v \in DOMAIN p.dat :
                  p.dat[v] = Line(p, p.r, RangeOf(p).start + MaxM * p.c + v - 1)

(* A piece in its place in the queue.                                      *)
PostedAt(l, k) ==
  /\ PieceOK(l[k])
  /\ l[k].whole /\ l[k].c > 0 =>
       IF k = 1 THEN BinsHave(l[k], l[k].r, MaxM * l[k].c)
       ELSE Follows(l[k - 1], l[k], l[k].r)

PostedOK == \A k \in DOMAIN posted : PostedAt(posted, k)

(* What was fetched to the end is computed, or its last piece is posted.   *)
IsPosted(x, l) ==
  \E k \in DOMAIN l : LastPiece(l[k]) /\ x = <<l[k].i, l[k].nk, l[k].m, l[k].d>>

DueOK ==
  \A x \in due :
    JList[x[1]].rms[x[4]].size % MaxM # 0 => x \in done \/ IsPosted(x, posted)

(* s is a sequence, whatever of.                                           *)
IsSeq(s) == s \in Seq({s[k] : k \in DOMAIN s})

Typed ==
  /\ life \in {"gone", "started", "stopped", "undefined"}
  /\ config.known \subseteq Dev
  /\ run \in BOOLEAN
  /\ meas \subseteq Dev
  /\ spectrum = [m \in Dev |-> spectrum[m]] /\ next = [m \in Dev |-> next[m]]
  /\ clean \in [Dev -> BOOLEAN]
  /\ IsSeq(posted)
  /\ \A h \in tape : h.m \in Dev

(* What belongs to each stage of the object's life.                        *)
Life ==
  /\ work => life = "started"
  /\ posted # <<>> \/ thread # "none" => run
  /\ life = "gone" => ~run /\ tape = {}
  /\ life # "started" => due = {}

(* After stopAll no job is left, and only the value that was computed last *)
(* counts.                                                                 *)
SInv ==
  /\ Typed /\ Life
  /\ life = "started" =>
       JobsOK /\ BinsOK /\ TapeOK /\ Closed /\ Prepared /\ PostedOK /\ DueOK
  /\ ValueIsOwn
-----------------------------------------------------------------------------
(* Sequences of anything.                                                  *)
LEMMA SeqIs ==
  ASSUME NEW s, IsSeq(s)
  PROVE  Len(s) \in Nat /\ DOMAIN s = 1 .. Len(s)
BY DEF IsSeq

LEMMA AppendIs ==
  ASSUME NEW s, IsSeq(s), NEW x
  PROVE  /\ IsSeq(Append(s, x))
         /\ DOMAIN Append(s, x) = 1 .. Len(s) + 1
         /\ Len(Append(s, x)) = Len(s) + 1
         /\ \A k \in 1 .. Len(s) : Append(s, x)[k] = s[k]
         /\ Append(s, x)[Len(s) + 1] = x
         /\ Append(s, x) # <<>>
<1> DEFINE S == {s[k] : k \in DOMAIN s} \cup {x}
           t == Append(s, x)
<1>1. s \in Seq(S)
  BY DEF IsSeq
<1>2. /\ t \in Seq(S) /\ Len(t) = Len(s) + 1 /\ Len(s) \in Nat
      /\ \A k \in 1 .. Len(s) : t[k] = s[k]
      /\ t[Len(s) + 1] = x
  BY <1>1
<1> HIDE DEF S, t
<1>3. t \in Seq({t[k] : k \in DOMAIN t}) /\ DOMAIN t = 1 .. Len(t)
  BY <1>2
<1> QED
  BY <1>2, <1>3 DEF IsSeq, t

LEMMA TailIs ==
  ASSUME NEW s, IsSeq(s), s # <<>>
  PROVE  /\ IsSeq(Tail(s))
         /\ Len(Tail(s)) = Len(s) - 1 /\ DOMAIN Tail(s) = 1 .. Len(s) - 1
         /\ \A k \in 1 .. Len(s) - 1 : Tail(s)[k] = s[k + 1]
         /\ Head(s) = s[1] /\ 1 \in DOMAIN s
         /\ Tail(s) = <<>> <=> Len(s) = 1
<1> DEFINE S == {s[k] : k \in DOMAIN s}
           t == Tail(s)
<1>1. s \in Seq(S)
  BY DEF IsSeq
<1>2. /\ t \in Seq(S) /\ Len(t) = Len(s) - 1 /\ Len(s) \in Nat /\ Len(s) > 0
      /\ \A k \in 1 .. Len(s) - 1 : t[k] = s[k + 1]
      /\ Head(s) = s[1] /\ 1 \in DOMAIN s
  BY <1>1
<1> HIDE DEF S, t
<1>3. t \in Seq({t[k] : k \in DOMAIN t}) /\ DOMAIN t = 1 .. Len(t)
  BY <1>2
<1>4. t = <<>> <=> Len(s) = 1
  BY <1>2
<1>5. IsSeq(t) /\ DOMAIN t = 1 .. Len(s) - 1
  BY <1>2, <1>3 DEF IsSeq
<1> QED
  BY <1>2, <1>4, <1>5 DEF t

-----------------------------------------------------------------------------
(* The order of the tape.                                                  *)
LEMMA LessIs ==
  ASSUME NEW p, NEW q
  PROVE  Less(p, q) <=> \/ p[1] < q[1]
                        \/ p[2] < q[2] /\ p[1] = q[1]
                        \/ p[3] < q[3] /\ p[1] = q[1] /\ p[2] = q[2]
                        \/ p[4] < q[4] /\ p[1] = q[1] /\ p[2] = q[2] /\ p[3] = q[3]
                        \/ p[5] < q[5] /\ p[1] = q[1] /\ p[2] = q[2] /\ p[3] = q[3] /\ p[4] = q[4]
                        \/ p[6] < q[6] /\ p[1] = q[1] /\ p[2] = q[2] /\ p[3] = q[3] /\ p[4] = q[4]
                             /\ p[5] = q[5]
<1>1. 1 .. 6 = {1, 2, 3, 4, 5, 6}
  OBVIOUS
<1>2. /\ 1 .. 1 - 1 = {} /\ 1 .. 2 - 1 = {1} /\ 1 .. 3 - 1 = {1, 2} /\ 1 .. 4 - 1 = {1, 2, 3}
      /\ 1 .. 5 - 1 = {1, 2, 3, 4} /\ 1 .. 6 - 1 = {1, 2, 3, 4, 5}
  OBVIOUS
<1> QED
  BY <1>1, <1>2 DEF Less

LEMMA CommandIs ==
  ASSUME JobsOK, NEW h, CommandOK(h)
  PROVE  /\ h.i \in Int /\ h.nk \in Int /\ h.j \in Int /\ h.d \in Int /\ h.c \in Int
         /\ h.op \in {"order", "wait", "read"}
         /\ h.op # "read" => h.d = 0 /\ h.c = 0
         /\ h.op = "read" => h.d > 0 /\ h.c >= 0
BY DEF CommandOK, JobsOK

(* x is the next command of the tape.                                      *)
First(x) ==
  /\ JobsOK /\ TapeOK /\ Closed
  /\ x \in tape /\ \A g \in tape \ {x} : Before(x, g)

(* The next command comes before all that stay.                            *)
LEMMA FirstIsLess ==
  ASSUME NEW x, First(x), NEW h \in tape \ {x}
  PROVE  Less(Place(x), Place(h))
BY DEF First, Before, Less

LEMMA PlaceIs ==
  ASSUME NEW x, First(x), NEW h \in tape
  PROVE  /\ \A k \in 1 .. 6 : Place(h)[k] \in Int
         /\ Place(h)[1] = h.i /\ Place(h)[2] = h.nk
         /\ Place(h)[3] = IF h.op = "order" THEN 0 ELSE 1
         /\ Place(h)[4] = h.j /\ Place(h)[5] = h.d /\ Place(h)[6] = h.c
<1>1. /\ h.i \in Int /\ h.nk \in Int /\ h.j \in Int /\ h.d \in Int /\ h.c \in Int
  BY CommandIs DEF First, TapeOK
<1>2. 1 .. 6 = {1, 2, 3, 4, 5, 6}
  OBVIOUS
<1>3. /\ Place(h)[1] = h.i /\ Place(h)[2] = h.nk
      /\ Place(h)[3] = IF h.op = "order" THEN 0 ELSE 1
      /\ Place(h)[4] = h.j /\ Place(h)[5] = h.d /\ Place(h)[6] = h.c
  BY DEF Place
<1> QED
  BY <1>1, <1>2, <1>3

(* What the next command finds of those that stay: their orders are of its *)
(* own round or to come, their waits are behind an order, and no piece is  *)
(* asked for but in its turn.                                              *)
LEMMA SameRound ==
  ASSUME NEW x, First(x), NEW h \in tape \ {x}, h.op # "order", ~InTape(OrderOf(h))
  PROVE  x.i = h.i /\ x.nk = h.nk
<1> DEFINE p == Place(x)
           r == Place(h)
           q == OrderOf(h)
<1>1. Less(p, r)
  BY FirstIsLess
<1>2. ~Less(p, q)
  BY DEF First, Closed, Needed
<1>3. /\ p[1] = x.i /\ p[2] = x.nk /\ p[3] \in {0, 1} /\ p[4] \in Int /\ p[5] \in Int /\ p[6] \in Int
      /\ x.i \in Int /\ x.nk \in Int
  BY PlaceIs DEF First
<1>4. /\ r[1] = h.i /\ r[2] = h.nk /\ r[3] = 1 /\ h.i \in Int /\ h.nk \in Int
  BY PlaceIs
<1>5. q[1] = h.i /\ q[2] = h.nk /\ q[3] = 0
  BY DEF OrderOf
<1> HIDE DEF p, q, r
<1>6. x.i < h.i \/ (x.i = h.i /\ x.nk < h.nk) \/ (x.i = h.i /\ x.nk = h.nk)
  BY <1>1, <1>3, <1>4, LessIs
<1>7. ~(x.i < h.i) /\ ~(x.i = h.i /\ x.nk < h.nk)
  BY <1>2, <1>3, <1>5, LessIs
<1> QED
  BY <1>6, <1>7

LEMMA NoOrderAfter ==
  ASSUME NEW x, First(x), NEW h \in tape \ {x}, h.op = "read", ~InTape(WaitOf(h))
  PROVE  x.op # "order"
<1> DEFINE p == Place(x)
           r == Place(h)
           q == WaitOf(h)
<1>1. Less(p, r)
  BY FirstIsLess
<1>2. ~Less(p, q)
  BY DEF First, Closed, Needed
<1>3. /\ p[1] = x.i /\ p[2] = x.nk /\ p[4] \in Int /\ p[5] \in Int /\ p[6] \in Int
      /\ x.i \in Int /\ x.nk \in Int /\ (x.op = "order" => p[3] = 0)
  BY PlaceIs DEF First
<1>4. /\ r[1] = h.i /\ r[2] = h.nk /\ r[3] = 1 /\ h.i \in Int /\ h.nk \in Int
  BY PlaceIs
<1>5. q[1] = h.i /\ q[2] = h.nk /\ q[3] = 1
  BY DEF WaitOf
<1> HIDE DEF p, q, r
<1>6. ASSUME x.op = "order" PROVE FALSE
  <2>1. x.i < h.i \/ (x.i = h.i /\ x.nk < h.nk) \/ (x.i = h.i /\ x.nk = h.nk)
    BY <1>1, <1>3, <1>4, <1>6, LessIs
  <2>2. ~(x.i < h.i) /\ ~(x.i = h.i /\ x.nk < h.nk) /\ ~(x.i = h.i /\ x.nk = h.nk)
    BY <1>2, <1>3, <1>5, <1>6, LessIs
  <2> QED
    BY <2>1, <2>2
<1> QED
  BY <1>6

LEMMA InTurn ==
  ASSUME NEW x, First(x), NEW h \in tape \ {x}, h.op = "read", h.c > 0
  PROVE  InTape(PieceBefore(h))
<1> DEFINE p == Place(x)
           r == Place(h)
           q == PieceBefore(h)
<1>1. Less(p, r)
  BY FirstIsLess
<1>2. SUFFICES ASSUME ~InTape(q) PROVE FALSE
  OBVIOUS
<1>3. ~Less(p, q) /\ p # q
  BY <1>2 DEF First, Closed, Needed, InTape
<1>4. /\ p[1] \in Int /\ p[2] \in Int /\ p[3] \in {0, 1} /\ p[4] \in Int /\ p[5] \in Int /\ p[6] \in Int
  BY PlaceIs DEF First
<1>5. p = <<p[1], p[2], p[3], p[4], p[5], p[6]>>
  BY DEF Place
<1>6. /\ r[1] = h.i /\ r[2] = h.nk /\ r[3] = 1 /\ r[4] = h.j /\ r[5] = h.d /\ r[6] = h.c
      /\ h.i \in Int /\ h.nk \in Int /\ h.j \in Int /\ h.d \in Int /\ h.c \in Int
  BY PlaceIs
<1>7. /\ q[1] = h.i /\ q[2] = h.nk /\ q[3] = 1 /\ q[4] = h.j /\ q[5] = h.d /\ q[6] = h.c - 1
      /\ q = <<h.i, h.nk, 1, h.j, h.d, h.c - 1>>
  BY DEF PieceBefore
<1>8. ~(p[1] = h.i /\ p[2] = h.nk /\ p[3] = 1 /\ p[4] = h.j /\ p[5] = h.d /\ p[6] = h.c - 1)
  <2> HIDE DEF p, q
  <2> QED
    BY <1>3, <1>5, <1>7
<1> HIDE DEF p, q, r
<1>9. \/ p[1] < h.i
      \/ p[2] < h.nk /\ p[1] = h.i
      \/ p[3] < 1 /\ p[1] = h.i /\ p[2] = h.nk
      \/ p[4] < h.j /\ p[1] = h.i /\ p[2] = h.nk /\ p[3] = 1
      \/ p[5] < h.d /\ p[1] = h.i /\ p[2] = h.nk /\ p[3] = 1 /\ p[4] = h.j
      \/ p[6] < h.c /\ p[1] = h.i /\ p[2] = h.nk /\ p[3] = 1 /\ p[4] = h.j /\ p[5] = h.d
  BY ONLY <1>1, <1>6, LessIs
<1>10. ~ \/ p[1] < h.i
         \/ p[2] < h.nk /\ p[1] = h.i
         \/ p[3] < 1 /\ p[1] = h.i /\ p[2] = h.nk
         \/ p[4] < h.j /\ p[1] = h.i /\ p[2] = h.nk /\ p[3] = 1
         \/ p[5] < h.d /\ p[1] = h.i /\ p[2] = h.nk /\ p[3] = 1 /\ p[4] = h.j
         \/ p[6] < h.c - 1 /\ p[1] = h.i /\ p[2] = h.nk /\ p[3] = 1 /\ p[4] = h.j /\ p[5] = h.d
  BY ONLY <1>3, <1>7, LessIs
<1> QED
  BY ONLY <1>4, <1>6, <1>8, <1>9, <1>10

(* The next command leaves the tape: the others find what they need, but   *)
(* for those that needed this one.                                         *)
LEMMA FirstLeaves ==
  ASSUME NEW x, First(x), tape' = tape \ {x}, UNCHANGED JList
  PROVE  /\ TapeOK' /\ Closed'
         /\ \A q : InTape(q) /\ q # Place(x) => InTape(q)'
<1>1. TapeOK'
  BY DEF First, TapeOK, CommandOK, RangeOf, Pieces, Piece
<1>2. \A q : InTape(q) /\ q # Place(x) => InTape(q)'
  BY DEF InTape
<1>3. ASSUME NEW g \in tape', NEW h \in tape', NEW q \in {OrderOf(h), WaitOf(h), PieceBefore(h)},
             Needed(h, q), Less(Place(g), q)
      PROVE  InTape(q)'
  <2>1. g \in tape \ {x} /\ h \in tape \ {x} /\ InTape(q)
    BY <1>3 DEF First, Closed
  <2>2. Less(Place(x), Place(g))
    BY <2>1, FirstIsLess
  <2>3. Place(x) # q
    <3> SUFFICES ASSUME Place(x) = q PROVE FALSE
      OBVIOUS
    <3>1. Less(Place(g), Place(x))
      BY <1>3
    <3> DEFINE p == Place(x)
               r == Place(g)
    <3>2. \A k \in 1 .. 6 : p[k] \in Int /\ r[k] \in Int
      BY <2>1, PlaceIs DEF First
    <3>3. Less(p, r) /\ Less(r, p)
      BY <2>2, <3>1
    <3> HIDE DEF p, r
    <3>4. /\ p[1] \in Int /\ p[2] \in Int /\ p[3] \in Int /\ p[4] \in Int /\ p[5] \in Int /\ p[6] \in Int
          /\ r[1] \in Int /\ r[2] \in Int /\ r[3] \in Int /\ r[4] \in Int /\ r[5] \in Int /\ r[6] \in Int
      BY <3>2
    <3>7. FALSE
      BY ONLY <3>3, <3>4, LessIs
    <3> QED
      BY <3>7
  <2> QED
    BY <2>1, <2>3, <1>2
<1>4. Closed'
  BY <1>3 DEF Closed
<1> QED
  BY <1>1, <1>2, <1>4

(* A length is whole pieces and a rest that is less than a piece.          *)
LEMMA WholeAndRest ==
  ASSUME NEW n \in Nat
  PROVE  /\ n \div MaxM \in Nat
         /\ n % MaxM \in 0 .. MaxM - 1
         /\ n = MaxM * (n \div MaxM) + (n % MaxM)
BY PiecesAssumption

(* Where each piece of a range is and how long: full but for the last.     *)
LEMMA PieceIs ==
  ASSUME NEW r, r.start \in Nat, r.size \in Nat,
         NEW k \in Nat, k = r.size \div MaxM, NEW c \in 0 .. k
  PROVE  /\ Pieces(r) = k + 1
         /\ Piece(r, c).at = r.start + MaxM * c
         /\ c < k => Piece(r, c).n = MaxM
         /\ c = k => Piece(r, c).n = r.size % MaxM
<1>1. Pieces(r) = k + 1
  BY DEF Pieces
<1>2. Piece(r, c) = [at |-> r.start + MaxM * c,
                     n  |-> IF c = k THEN r.size - MaxM * c ELSE MaxM]
  BY <1>1 DEF Piece
<1>3. r.size - MaxM * k = r.size % MaxM
  <2>1. r.size = MaxM * k + (r.size % MaxM) /\ r.size % MaxM \in 0 .. MaxM - 1
    BY WholeAndRest
  <2>2. MaxM * k \in Nat
    BY PiecesAssumption
  <2> QED
    BY <2>1, <2>2, PiecesAssumption
<1> QED
  BY <1>1, <1>2, <1>3

(* The pieces of a range cover it (exe_SDiag, sdiagCollector.cpp:255),     *)
(* whatever its length and that of a piece.                                *)
THEOREM EveryRangeCovered ==
  ASSUME NEW r, r.start \in Nat, r.size \in Nat
  PROVE  Covered(r)
<1> DEFINE k == r.size \div MaxM
<1>1. k \in Nat /\ r.size % MaxM \in 0 .. MaxM - 1 /\ r.size = MaxM * k + (r.size % MaxM)
  BY WholeAndRest
<1>2. MaxM \in Nat \ {0}
  BY PiecesAssumption
<1> HIDE DEF k
<1>3. \A c \in 0 .. k : /\ Pieces(r) = k + 1
                        /\ Piece(r, c).at = r.start + MaxM * c
                        /\ c < k => Piece(r, c).n = MaxM
                        /\ c = k => Piece(r, c).n = r.size % MaxM
  <2> SUFFICES ASSUME NEW c \in 0 .. k
               PROVE  /\ Pieces(r) = k + 1
                      /\ Piece(r, c).at = r.start + MaxM * c
                      /\ c < k => Piece(r, c).n = MaxM
                      /\ c = k => Piece(r, c).n = r.size % MaxM
    OBVIOUS
  <2> QED
    BY <1>1, PieceIs DEF k
<1>4. Pieces(r) - 1 = k
  <2>1. 0 \in 0 .. k
    BY <1>1
  <2> QED
    BY <2>1, <1>1, <1>3
<1>5. Piece(r, 0).at = r.start
  BY <1>1, <1>2, <1>3
<1>6. Piece(r, k).at + Piece(r, k).n = r.start + r.size
  <2>1. Piece(r, k).at = r.start + MaxM * k /\ Piece(r, k).n = r.size % MaxM
    BY <1>1, <1>3
  <2> QED
    BY <2>1, <1>1, <1>2
<1>7. \A c \in 0 .. k : Piece(r, c).n \in 0 .. MaxM
  BY <1>1, <1>2, <1>3
<1>8. \A c \in 1 .. k : Piece(r, c).at = Piece(r, c - 1).at + Piece(r, c - 1).n
  <2> SUFFICES ASSUME NEW c \in 1 .. k
               PROVE  Piece(r, c).at = Piece(r, c - 1).at + Piece(r, c - 1).n
    OBVIOUS
  <2>1. c \in 0 .. k /\ c - 1 \in 0 .. k /\ c - 1 < k
    BY <1>1
  <2>2. Piece(r, c).at = r.start + MaxM * c
    BY <2>1, <1>3
  <2>3. Piece(r, c - 1).at = r.start + MaxM * (c - 1) /\ Piece(r, c - 1).n = MaxM
    BY <2>1, <1>3
  <2>4. MaxM * c = MaxM * (c - 1) + MaxM
    BY <1>1, <1>2, <2>1
  <2> QED
    BY <2>2, <2>3, <2>4, <1>1, <1>2
<1> QED
  BY <1>4, <1>5, <1>6, <1>7, <1>8 DEF Covered

(* Exactly the ranges of a multiple of a piece's length end in a piece of  *)
(* no registers, which no device gives, so that their value is never       *)
(* computed (sdiagCollector.cpp:255): why WholeIsComputed leaves them out. *)
THEOREM EmptyLastPiece ==
  ASSUME NEW r, r.start \in Nat, r.size \in Nat
  PROVE  Piece(r, Pieces(r) - 1).n = 0 <=> r.size % MaxM = 0
<1> DEFINE k == r.size \div MaxM
<1>1. k \in Nat
  BY WholeAndRest
<1>2. Pieces(r) = k + 1 /\ Piece(r, k).n = r.size % MaxM
  BY <1>1, PieceIs
<1> QED
  BY <1>1, <1>2

(* A piece of a range, in what the collector uses of it.                   *)
LEMMA PieceFits ==
  ASSUME NEW r, r.start \in Nat, r.size \in Nat, NEW c \in 0 .. Pieces(r) - 1
  PROVE  /\ Pieces(r) \in Nat \ {0} /\ c \in Nat
         /\ Piece(r, c).n \in Nat /\ MaxM * c \in Nat
         /\ Piece(r, c).at = r.start + MaxM * c
         /\ c < Pieces(r) - 1 => Piece(r, c).n = MaxM
         /\ c = Pieces(r) - 1 => MaxM * c + Piece(r, c).n = r.size
         /\ r.size % MaxM # 0 /\ Piece(r, c).at + Piece(r, c).n = r.start + r.size
              => c = Pieces(r) - 1
<1> DEFINE k == r.size \div MaxM
           e == r.size % MaxM
           n == Piece(r, c).n
           a == Piece(r, c).at
           t == r.start
           s == r.size
<1>1. /\ k \in Nat /\ e \in 0 .. MaxM - 1 /\ s = MaxM * k + e
      /\ MaxM \in Nat \ {0} /\ t \in Nat /\ s \in Nat
  BY WholeAndRest, PiecesAssumption
<1>2. Pieces(r) = k + 1
  BY <1>1 DEF Pieces
<1>3. c \in 0 .. k /\ c \in Nat
  BY <1>1, <1>2
<1>4. a = t + MaxM * c /\ (c < k => n = MaxM) /\ (c = k => n = e)
  <2> HIDE DEF n, a, t, s, e
  <2> QED
    BY <1>1, <1>3, PieceIs DEF n, a, t, s, e
<1> HIDE DEF k, e, n, a, t, s
<1>5. MaxM * c \in Nat
  BY ONLY <1>1, <1>3
<1>6. n \in Nat
  BY ONLY <1>1, <1>3, <1>4
<1>7. c = k => MaxM * c + n = s
  BY ONLY <1>1, <1>3, <1>4
<1>8. ASSUME e # 0, a + n = t + s, c < k PROVE FALSE
  <2>1. MaxM * c + MaxM = s
    BY ONLY <1>8, <1>1, <1>3, <1>4, <1>5
  <2>2. MaxM * (c + 1) = MaxM * k + e /\ c + 1 <= k
    BY ONLY <2>1, <1>8, <1>1, <1>3
  <2>3. MaxM * (c + 1) <= MaxM * k
    BY ONLY <2>2, <1>1, <1>3
  <2>4. MaxM * (c + 1) \in Nat /\ MaxM * k \in Nat
    BY ONLY <1>1, <1>3
  <2> QED
    BY ONLY <2>2, <2>3, <2>4, <1>1, <1>8
<1>9. e # 0 /\ a + n = t + s => c = k
  BY <1>8, <1>1, <1>3
<1> QED
  BY <1>1, <1>2, <1>3, <1>4, <1>5, <1>6, <1>7, <1>9 DEF n, a, t, s, e

-----------------------------------------------------------------------------
(* A tape that is written has before each command what it needs.           *)
LEMMA Written ==
  ASSUME JobsOK, NEW service, service \subseteq Dev, NEW h \in ExeSDiag(service)
  PROVE  /\ CommandOK(h)
         /\ \A q : Needed(h, q) => \E g \in ExeSDiag(service) : Place(g) = q
<1>1. PICK i \in DOMAIN JList, nk \in 0 .. NChan - 1 : h \in Round(i, nk, service)
  BY DEF ExeSDiag
<1> DEFINE T == Round(i, nk, service)
           js == Targets(i, nk, service)
           m(j) == JList[i].devs[j]
<1>2. T \subseteq ExeSDiag(service)
  BY DEF ExeSDiag
<1>3. \A j \in js : j \in Int /\ m(j) \in Dev
  BY DEF Targets
<1>4. i \in Int /\ nk \in Int
  BY SdiagAssumption DEF JobsOK
<1>5. \A j \in js : Order(i, nk, j) \in T
  BY DEF Round
<1>6. \A j \in js : \E af : Wait(i, nk, j, af) \in T
  BY DEF Round
<1>7. \A j \in js : \A d \in DOMAIN JList[i].rms : \A c \in 0 .. Pieces(JList[i].rms[d]) - 1 :
        Fetch(i, nk, j, d, c) \in T
  BY DEF Round
<1>8. \/ \E j \in js : h = Order(i, nk, j)
      \/ \E j \in js : \E af : h = Wait(i, nk, j, af)
      \/ \E j \in js : \E d \in DOMAIN JList[i].rms : \E c \in 0 .. Pieces(JList[i].rms[d]) - 1 :
           h = Fetch(i, nk, j, d, c)
  BY <1>1 DEF Round
<1>9. PICK j \in js : \/ h = Order(i, nk, j)
                      \/ \E af : h = Wait(i, nk, j, af)
                      \/ \E d \in DOMAIN JList[i].rms : \E c \in 0 .. Pieces(JList[i].rms[d]) - 1 :
                           h = Fetch(i, nk, j, d, c)
  BY <1>8
<1>10. PICK af : Wait(i, nk, j, af) \in T
  BY <1>6
<1> HIDE DEF T, js, m
<1>11. /\ Place(Order(i, nk, j)) = <<i, nk, 0, j, 0, 0>>
       /\ Place(Wait(i, nk, j, af)) = <<i, nk, 1, j, 0, 0>>
       /\ \A d, c : Place(Fetch(i, nk, j, d, c)) = <<i, nk, 1, j, d, c>>
  BY DEF Place, Order, Wait, Fetch
<1>12. j \in Int /\ JList[i].devs[j] \in Dev
  BY <1>3 DEF m
<1>13. CASE h = Order(i, nk, j)
  <2>1. CommandOK(h)
    BY <1>4, <1>12, <1>13 DEF Order, CommandOK
  <2>2. h.op = "order"
    BY <1>13 DEF Order
  <2> QED
    BY <2>1, <2>2 DEF Needed
<1>14. CASE \E a : h = Wait(i, nk, j, a)
  <2>1. CommandOK(h)
    BY <1>4, <1>12, <1>14 DEF Wait, CommandOK
  <2>2. h.op = "wait" /\ OrderOf(h) = <<i, nk, 0, j, 0, 0>>
    BY <1>14 DEF Wait, OrderOf
  <2> QED
    BY <2>1, <2>2, <1>2, <1>5, <1>11 DEF Needed
<1>15. ASSUME NEW d \in DOMAIN JList[i].rms, NEW c \in 0 .. Pieces(JList[i].rms[d]) - 1,
              h = Fetch(i, nk, j, d, c)
       PROVE  /\ CommandOK(h)
              /\ \A q : Needed(h, q) => \E g \in ExeSDiag(service) : Place(g) = q
  <2>1. /\ h.op = "read" /\ h.i = i /\ h.nk = nk /\ h.j = j /\ h.d = d /\ h.c = c
        /\ h.m = JList[i].devs[j] /\ h.piece = Piece(JList[i].rms[d], c)
    BY <1>15 DEF Fetch
  <2>2. CommandOK(h)
    BY <2>1, <1>4, <1>12 DEF CommandOK, RangeOf
  <2>3. c > 0 => c - 1 \in 0 .. Pieces(JList[i].rms[d]) - 1
    <3>1. Pieces(JList[i].rms[d]) \in Nat
      BY PieceFits DEF JobsOK
    <3> QED
      BY <3>1
  <2>4. c > 0 => Fetch(i, nk, j, d, c - 1) \in T
    BY <2>3, <1>7
  <2>5. /\ OrderOf(h) = <<i, nk, 0, j, 0, 0>> /\ WaitOf(h) = <<i, nk, 1, j, 0, 0>>
        /\ PieceBefore(h) = <<i, nk, 1, j, d, c - 1>>
    BY <2>1 DEF OrderOf, WaitOf, PieceBefore
  <2>6. ASSUME NEW q, Needed(h, q) PROVE \E g \in ExeSDiag(service) : Place(g) = q
    <3>1. CASE q = OrderOf(h)
      BY <3>1, <2>5, <1>2, <1>5, <1>11
    <3>2. CASE q = WaitOf(h)
      BY <3>2, <2>5, <1>2, <1>10, <1>11
    <3>3. CASE q = PieceBefore(h) /\ h.c > 0
      BY <3>3, <2>1, <2>4, <2>5, <1>2, <1>11
    <3> QED
      BY <2>6, <3>1, <3>2, <3>3 DEF Needed
  <2> QED
    BY <2>2, <2>6
<1> QED
  BY <1>9, <1>13, <1>14, <1>15

-----------------------------------------------------------------------------
(* What a step leaves as it is.                                            *)
LEMMA JobsFrame ==
  ASSUME JobsOK, UNCHANGED JList
  PROVE  JobsOK'
BY DEF JobsOK

LEMMA BinsFrame ==
  ASSUME BinsOK, UNCHANGED <<JList, bins>>
  PROVE  BinsOK'
BY DEF BinsOK, Bins

LEMMA TapeFrame ==
  ASSUME TapeOK, Closed, UNCHANGED <<JList, tape>>
  PROVE  TapeOK' /\ Closed'
<1>1. TapeOK'
  BY DEF TapeOK, CommandOK, RangeOf
<1>2. Closed'
  BY DEF Closed, InTape
<1> QED
  BY <1>1, <1>2

LEMMA PostedFrame ==
  ASSUME PostedOK, UNCHANGED <<JList, bins, posted>>
  PROVE  PostedOK'
BY DEF PostedOK, PostedAt, PieceOK, BinsHave, RangeOf

LEMMA DueFrame ==
  ASSUME DueOK, UNCHANGED <<JList, posted, due, done>>
  PROVE  DueOK'
BY DEF DueOK, IsPosted, LastPiece

LEMMA ArrivedFrame ==
  ASSUME NEW h, NEW r, Arrived(h, r, posted), UNCHANGED <<JList, bins, posted>>
  PROVE  Arrived(h, r, posted)'
BY DEF Arrived, BinsHave, RangeOf

(* What the invariant says while the collector is started.                 *)
Working == JobsOK /\ BinsOK /\ TapeOK /\ Closed /\ Prepared /\ PostedOK /\ DueOK

LEMMA FirstOfTape ==
  ASSUME Working, NEW h \in tape, NEW op, Command(op, h)
  PROVE  First(h) /\ CommandOK(h) /\ h.op = op
BY DEF Working, First, Command, TapeOK

-----------------------------------------------------------------------------
(* The object's life but for the thread.                                   *)
LEMMA InitSInv == Init => SInv
<1> SUFFICES ASSUME Init PROVE SInv
  OBVIOUS
<1>1. IsSeq(<<>>)
  BY DEF IsSeq
<1>2. Typed
  BY <1>1 DEF Init, Typed
<1>3. Life
  BY DEF Init, Life
<1>4. ValueIsOwn
  BY DEF Init, ValueIsOwn
<1> QED
  BY <1>2, <1>3, <1>4 DEF Init, SInv

(* The jobs of a configuration, and their bins.                            *)
LEMMA JobsOfSettings ==
  ASSUME NEW c \in Settings, NEW on \in On(c), NEW k \in DOMAIN on
  PROVE  /\ DOMAIN on \subseteq Int
         /\ JobList(c, on)[k].rms = [d \in DOMAIN c.sets[on[k]].ranges |-> Rms(c, on[k], d)]
         /\ DOMAIN c.sets[on[k]].ranges \subseteq Nat \ {0}
         /\ \A d \in DOMAIN c.sets[on[k]].ranges :
              Rms(c, on[k], d).start \in Nat /\ Rms(c, on[k], d).size \in Nat
<1>1. DOMAIN on \subseteq Int /\ on[k] \in DOMAIN c.sets
  BY DEF On
<1>2. JobList(c, on)[k].rms = [d \in DOMAIN c.sets[on[k]].ranges |-> Rms(c, on[k], d)]
  BY DEF JobList
<1>3. c.sets[on[k]].ranges \in Seq([start : 1 .. MaxS, size : Nat \ {0}])
  BY <1>1, SdiagAssumption
<1>4. DOMAIN c.sets[on[k]].ranges \subseteq Nat \ {0}
  BY <1>3
<1>5. ASSUME NEW d \in DOMAIN c.sets[on[k]].ranges
      PROVE  Rms(c, on[k], d).start \in Nat /\ Rms(c, on[k], d).size \in Nat
  <2> DEFINE r == c.sets[on[k]].ranges[d]
  <2>0. r \in [start : 1 .. MaxS, size : Nat \ {0}]
    <3> DEFINE s == c.sets[on[k]].ranges
               R == [start : 1 .. MaxS, size : Nat \ {0}]
    <3>1. s \in Seq(R) /\ d \in DOMAIN s
      BY <1>3
    <3> HIDE DEF s, R
    <3>2. s[d] \in R
      BY <3>1
    <3> QED
      BY <3>2 DEF s, R
  <2>1. r.start \in 1 .. MaxS /\ r.size \in Nat \ {0}
    BY <2>0
  <2>2. Rms(c, on[k], d) = [start |-> r.start,
                            size |-> IF r.start + r.size > MaxS THEN MaxS - r.start ELSE r.size]
    BY DEF Rms
  <2> HIDE DEF r
  <2> QED
    BY <2>1, <2>2, SdiagAssumption
<1> QED
  BY <1>1, <1>2, <1>4, <1>5

LEMMA StartSInv ==
  ASSUME SInv, NEW c \in Settings, Start(c)
  PROVE  SInv'
<1>1. PICK on \in On(c) : JList' = JobList(c, on)
  BY DEF Start
<1>2. /\ ~run /\ tape = {} /\ due = {} /\ posted = <<>>
  BY DEF SInv, Life, Start
<1>3. DOMAIN JList' = DOMAIN on
  BY <1>1 DEF JobList
<1>4. JobsOK'
  <2>1. \A k \in DOMAIN on :
          /\ k \in Int
          /\ DOMAIN JList'[k].rms \subseteq Nat \ {0}
          /\ \A d \in DOMAIN JList'[k].rms :
               JList'[k].rms[d].start \in Nat /\ JList'[k].rms[d].size \in Nat
    <3> SUFFICES ASSUME NEW k \in DOMAIN on
                 PROVE  /\ k \in Int
                        /\ DOMAIN JList'[k].rms \subseteq Nat \ {0}
                        /\ \A d \in DOMAIN JList'[k].rms :
                             JList'[k].rms[d].start \in Nat /\ JList'[k].rms[d].size \in Nat
      OBVIOUS
    <3> DEFINE ds == DOMAIN c.sets[on[k]].ranges
               f == [d \in ds |-> Rms(c, on[k], d)]
    <3>1. k \in Int /\ JList'[k].rms = f
      BY <1>1, JobsOfSettings
    <3>2. ds \subseteq Nat \ {0} /\ \A d \in ds : f[d].start \in Nat /\ f[d].size \in Nat
      BY JobsOfSettings
    <3>3. DOMAIN f = ds
      OBVIOUS
    <3> HIDE DEF f, ds
    <3> QED
      BY <3>1, <3>2, <3>3
  <2> QED
    BY <2>1, <1>3 DEF JobsOK
<1>5. BinsOK'
  <2>1. bins' = [x \in Bins' |-> [v \in 1 .. JList'[x[1]].rms[x[2]].size |-> NoBin]]
    BY DEF Start, Bins
  <2>2. \A i \in DOMAIN JList' : \A d \in DOMAIN JList'[i].rms : <<i, d>> \in Bins'
    BY DEF Bins
  <2>3. DOMAIN bins' = Bins' /\ bins' = [x \in DOMAIN bins' |-> bins'[x]]
    <3> HIDE DEF Bins
    <3> QED
      BY <2>1
  <2>4. ASSUME NEW i \in DOMAIN JList', NEW d \in DOMAIN JList'[i].rms
        PROVE  DOMAIN bins'[<<i, d>>] = 1 .. JList'[i].rms[d].size
    BY <2>1, <2>2
  <2> QED
    BY <2>3, <2>4 DEF BinsOK
<1>6. tape' = {} /\ due' = {} /\ posted' = <<>> /\ life' = "started"
  BY <1>2 DEF Start
<1>7. TapeOK' /\ Closed' /\ Prepared' /\ PostedOK' /\ DueOK'
  BY <1>6 DEF TapeOK, Closed, Prepared, PostedOK, DueOK
<1>8. Typed'
  <2>1. c.known \subseteq Dev /\ config' = c
    BY SdiagAssumption DEF Start
  <2>2. UNCHANGED <<run, tape, posted, meas, spectrum, next, clean>> /\ life' = "started"
    BY DEF Start, devs
  <2> QED
    BY <2>1, <2>2 DEF SInv, Typed
<1>9. Life'
  <2>1. UNCHANGED <<run, thread, posted>> /\ life' = "started"
    BY DEF Start
  <2> QED
    BY <2>1 DEF SInv, Life
<1>10. ValueIsOwn'
  <2>1. UNCHANGED last
    BY DEF Start
  <2> QED
    BY <2>1 DEF SInv, ValueIsOwn
<1> QED
  BY <1>4, <1>5, <1>7, <1>8, <1>9, <1>10 DEF SInv

LEMMA RunDiagSInv ==
  ASSUME SInv, NEW service \in SUBSET config.known, RunDiag(service)
  PROVE  SInv'
<1>1. /\ UNCHANGED <<life, config, JList, work, posted, bins, last, meas, spectrum, next, clean>>
      /\ run' = TRUE /\ thread' = "works" /\ tape' = ExeSDiag(service) /\ due' = {}
      /\ work
  BY DEF RunDiag, main, devs
<1>2. life = "started" /\ Working /\ Typed /\ Life /\ ValueIsOwn
  BY <1>1 DEF SInv, Life, Working
<1>3. service \subseteq Dev
  BY <1>2 DEF Typed
<1>4. \A h \in tape' : /\ CommandOK(h)
                       /\ \A q : Needed(h, q) => InTape(q)'
  BY <1>1, <1>2, <1>3, Written DEF Working, InTape
<1>5. TapeOK'
  BY <1>1, <1>4 DEF TapeOK, CommandOK, RangeOf
<1>6. Closed'
  BY <1>4 DEF Closed
<1>7. Prepared'
  BY <1>4 DEF Prepared, Needed
<1>8. JobsOK' /\ BinsOK' /\ PostedOK'
  BY <1>1, <1>2, JobsFrame, BinsFrame, PostedFrame DEF Working
<1>9. DueOK'
  BY <1>1 DEF DueOK
<1>10. Typed'
  BY <1>1, <1>2, <1>4 DEF Typed, CommandOK
<1>11. Life'
  BY <1>1, <1>2 DEF Life
<1>12. ValueIsOwn'
  BY <1>1, <1>2 DEF ValueIsOwn
<1> QED
  BY <1>5, <1>6, <1>7, <1>8, <1>9, <1>10, <1>11, <1>12 DEF SInv

LEMMA MeasuredSInv ==
  ASSUME SInv, NEW m \in Dev, Measured(m)
  PROVE  SInv'
<1>1. /\ UNCHANGED <<life, config, JList, work, run, thread, tape, posted, bins, last, clean,
                     due, done, runs>>
      /\ m \in meas /\ meas' = meas \ {m}
      /\ spectrum' = [spectrum EXCEPT ![m] = next[m]]
      /\ next' = [next EXCEPT ![m] = NoSpectrum]
  BY DEF Measured, main
<1>2. Typed /\ Life /\ ValueIsOwn
  BY DEF SInv
<1>3. Typed'
  BY <1>1, <1>2 DEF Typed
<1>4. Life' /\ ValueIsOwn'
  BY <1>1, <1>2 DEF Life, ValueIsOwn
<1>5. \A h \in Dev : Coming(h)' = Coming(h)
  BY <1>1, <1>2 DEF Typed, Coming
<1>6. ASSUME Working PROVE Working'
  <2>1. JobsOK' /\ BinsOK' /\ TapeOK' /\ Closed' /\ PostedOK' /\ DueOK'
    BY <1>1, <1>6, JobsFrame, BinsFrame, TapeFrame, PostedFrame, DueFrame DEF Working
  <2>2. Prepared'
    <3> SUFFICES ASSUME NEW h \in tape
                 PROVE  /\ h.op # "order" => InTape(OrderOf(h))' \/ IsOrdered(h)'
                        /\ h.op = "read" => InTape(WaitOf(h))' \/ IsMeasured(h)'
                        /\ h.op = "read" /\ h.c > 0 =>
                             InTape(PieceBefore(h))' \/ (clean'[h.m] => Arrived(h, runs, posted)')
      BY <1>1 DEF Prepared
    <3>1. \A q : InTape(q) => InTape(q)'
      BY <1>1 DEF InTape
    <3>2. h.m \in Dev
      BY <1>2 DEF Typed
    <3>3. IsOrdered(h) => IsOrdered(h)'
      BY <1>1, <1>5, <3>2 DEF IsOrdered
    <3>4. IsMeasured(h) => IsMeasured(h)'
      BY <1>1 DEF IsMeasured
    <3>5. Arrived(h, runs, posted) => Arrived(h, runs, posted)'
      BY <1>1 DEF Arrived, BinsHave, RangeOf
    <3> QED
      BY <1>1, <1>6, <3>1, <3>3, <3>4, <3>5 DEF Working, Prepared
  <2> QED
    BY <2>1, <2>2 DEF Working
<1> QED
  BY <1>1, <1>3, <1>4, <1>6 DEF SInv, Working

-----------------------------------------------------------------------------
(* The thread's commands.                                                  *)
LEMMA OrderedSInv ==
  ASSUME SInv, NEW h \in tape, Ordered(h)
  PROVE  SInv'
<1>1. /\ Command("order", h) /\ tape' = tape \ {h}
      /\ UNCHANGED <<life, config, JList, work, run, thread, posted, bins, last, spectrum,
                     due, done, runs>>
      /\ \/ /\ meas' = meas \cup {h.m}
            /\ next' = [next EXCEPT ![h.m] = [r |-> runs, i |-> h.i, nk |-> h.nk]]
            /\ clean' = [clean EXCEPT ![h.m] = TRUE]
         \/ /\ meas' = meas /\ next' = next
            /\ clean' = [clean EXCEPT ![h.m] = FALSE]
  BY DEF Ordered, main
<1>2. Typed /\ Life /\ ValueIsOwn /\ h.m \in Dev
  BY DEF SInv, Typed
<1>3. Typed'
  BY <1>1, <1>2 DEF Typed
<1>4. Life' /\ ValueIsOwn'
  BY <1>1, <1>2 DEF Life, ValueIsOwn
<1>5. ASSUME Working PROVE Working'
  <2>1. First(h) /\ CommandOK(h) /\ h.op = "order"
    BY <1>1, <1>5, FirstOfTape
  <2>2. TapeOK' /\ Closed' /\ \A q : InTape(q) /\ q # Place(h) => InTape(q)'
    BY <1>1, <2>1, FirstLeaves
  <2>3. JobsOK' /\ BinsOK' /\ PostedOK' /\ DueOK'
    BY <1>1, <1>5, JobsFrame, BinsFrame, PostedFrame, DueFrame DEF Working
  <2>4. Prepared'
    <3> SUFFICES ASSUME NEW g \in tape \ {h}
                 PROVE  /\ g.op # "order" => InTape(OrderOf(g))' \/ IsOrdered(g)'
                        /\ g.op = "read" => InTape(WaitOf(g))' \/ IsMeasured(g)'
                        /\ g.op = "read" /\ g.c > 0 => InTape(PieceBefore(g))'
      BY <1>1 DEF Prepared
    <3>1. g.m \in Dev
      BY <1>2 DEF Typed
    <3>2. g.m # h.m => /\ IsOrdered(g) => IsOrdered(g)'
                       /\ IsMeasured(g) => IsMeasured(g)'
      BY <1>1, <1>2, <3>1 DEF IsOrdered, IsMeasured, Coming, Typed
    <3>3. g.m = h.m /\ ~clean'[h.m] => IsOrdered(g)' /\ IsMeasured(g)'
      BY DEF IsOrdered, IsMeasured
    <3>4. clean'[h.m] => Coming(h.m)' = [r |-> runs, i |-> h.i, nk |-> h.nk]
      BY <1>1, <1>2 DEF Coming, Typed
    <3>5. g.op # "order" => InTape(OrderOf(g))' \/ IsOrdered(g)'
      <4> SUFFICES ASSUME g.op # "order", ~InTape(OrderOf(g))' PROVE IsOrdered(g)'
        OBVIOUS
      <4>1. CASE InTape(OrderOf(g))
        <5>1. OrderOf(g) = Place(h)
          BY <4>1, <2>2
        <5>2. g.i = h.i /\ g.nk = h.nk /\ g.j = h.j
          BY <5>1 DEF OrderOf, Place
        <5>3. g.m = h.m
          BY <5>2, <2>1 DEF First, TapeOK, CommandOK
        <5> QED
          BY <5>2, <5>3, <3>3, <3>4, <1>1 DEF IsOrdered
      <4>2. CASE ~InTape(OrderOf(g))
        <5>1. g.i = h.i /\ g.nk = h.nk
          BY <4>2, <2>1, SameRound
        <5>2. IsOrdered(g)
          BY <4>2, <1>5 DEF Working, Prepared
        <5> QED
          BY <5>1, <5>2, <3>2, <3>3, <3>4, <1>1 DEF IsOrdered
      <4> QED
        BY <4>1, <4>2
    <3>6. g.op = "read" => InTape(WaitOf(g))'
      <4> SUFFICES ASSUME g.op = "read" PROVE InTape(WaitOf(g))'
        OBVIOUS
      <4>1. InTape(WaitOf(g))
        BY <2>1, NoOrderAfter
      <4>2. WaitOf(g) # Place(h)
        BY <2>1 DEF WaitOf, Place
      <4> QED
        BY <4>1, <4>2, <2>2
    <3>7. g.op = "read" /\ g.c > 0 => InTape(PieceBefore(g))'
      <4> SUFFICES ASSUME g.op = "read", g.c > 0 PROVE InTape(PieceBefore(g))'
        OBVIOUS
      <4>1. InTape(PieceBefore(g))
        BY <2>1, InTurn
      <4>2. PieceBefore(g) # Place(h)
        BY <2>1 DEF PieceBefore, Place
      <4> QED
        BY <4>1, <4>2, <2>2
    <3> QED
      BY <3>5, <3>6, <3>7
  <2> QED
    BY <2>2, <2>3, <2>4 DEF Working
<1> QED
  BY <1>1, <1>3, <1>4, <1>5 DEF SInv, Working

LEMMA PollSInv ==
  ASSUME SInv, NEW h \in tape, Poll(h)
  PROVE  SInv'
<1>1. /\ Command("wait", h)
      /\ UNCHANGED <<life, config, JList, work, run, thread, posted, bins, last, meas, spectrum, next,
                     due, done, runs>>
      /\ \/ tape' = tape /\ clean' = clean
         \/ tape' = tape \ {h} /\ clean' = [clean EXCEPT ![h.m] = clean[h.m] /\ h.m \notin meas]
  BY DEF Poll, PollAgain, PollEnds, main, devs
<1>2. Typed /\ Life /\ ValueIsOwn /\ h.m \in Dev
  BY DEF SInv, Typed
<1>3. Typed'
  BY <1>1, <1>2 DEF Typed
<1>4. Life' /\ ValueIsOwn'
  BY <1>1, <1>2 DEF Life, ValueIsOwn
<1>5. ASSUME Working PROVE Working'
  <2>1. First(h) /\ CommandOK(h) /\ h.op = "wait"
    BY <1>1, <1>5, FirstOfTape
  <2>2. JobsOK' /\ BinsOK' /\ PostedOK' /\ DueOK'
    BY <1>1, <1>5, JobsFrame, BinsFrame, PostedFrame, DueFrame DEF Working
  <2>3. CASE tape' = tape /\ clean' = clean
    <3>1. TapeOK' /\ Closed'
      BY <1>1, <1>5, <2>3, TapeFrame DEF Working
    <3>2. Prepared'
      BY <1>1, <1>5, <2>3 DEF Working, Prepared, InTape, IsOrdered, IsMeasured, Coming,
                               Arrived, BinsHave, RangeOf
    <3> QED
      BY <2>2, <3>1, <3>2 DEF Working
  <2>4. CASE tape' = tape \ {h} /\ clean' = [clean EXCEPT ![h.m] = clean[h.m] /\ h.m \notin meas]
    <3>1. TapeOK' /\ Closed' /\ \A q : InTape(q) /\ q # Place(h) => InTape(q)'
      BY <1>1, <2>1, <2>4, FirstLeaves
    <3>2. \A m \in Dev : clean'[m] => clean[m]
      BY <1>2, <2>4 DEF Typed
    <3>3. clean'[h.m] => h.m \notin meas
      BY <1>2, <2>4 DEF Typed
    <3>4. Prepared'
      <4> SUFFICES ASSUME NEW g \in tape \ {h}
                   PROVE  /\ g.op # "order" => InTape(OrderOf(g))' \/ IsOrdered(g)'
                          /\ g.op = "read" => InTape(WaitOf(g))' \/ IsMeasured(g)'
                          /\ g.op = "read" /\ g.c > 0 => InTape(PieceBefore(g))'
        BY <2>4 DEF Prepared
      <4>1. g.m \in Dev
        BY <1>2 DEF Typed
      <4>2. IsOrdered(g) => IsOrdered(g)'
        BY <1>1, <3>2, <4>1 DEF IsOrdered, Coming
      <4>3. IsMeasured(g) => IsMeasured(g)'
        BY <1>1, <3>2, <4>1 DEF IsMeasured
      <4>4. g.op # "order" => InTape(OrderOf(g))' \/ IsOrdered(g)'
        <5>1. OrderOf(g) # Place(h)
          BY <2>1 DEF OrderOf, Place
        <5> QED
          BY <5>1, <3>1, <4>2, <1>5 DEF Working, Prepared
      <4>5. g.op = "read" => InTape(WaitOf(g))' \/ IsMeasured(g)'
        <5> SUFFICES ASSUME g.op = "read", ~InTape(WaitOf(g))' PROVE IsMeasured(g)'
          OBVIOUS
        <5>1. CASE InTape(WaitOf(g))
          <6>1. WaitOf(g) = Place(h)
            BY <5>1, <3>1
          <6>2. g.i = h.i /\ g.j = h.j
            BY <6>1 DEF WaitOf, Place
          <6>3. g.m = h.m
            BY <6>2, <2>1 DEF First, TapeOK, CommandOK
          <6> QED
            BY <6>3, <3>3, <1>1 DEF IsMeasured
        <5>2. CASE ~InTape(WaitOf(g))
          BY <5>2, <4>3, <1>5 DEF Working, Prepared
        <5> QED
          BY <5>1, <5>2
      <4>6. g.op = "read" /\ g.c > 0 => InTape(PieceBefore(g))'
        <5> SUFFICES ASSUME g.op = "read", g.c > 0 PROVE InTape(PieceBefore(g))'
          OBVIOUS
        <5>1. InTape(PieceBefore(g))
          BY <2>1, InTurn
        <5>2. PieceBefore(g) # Place(h)
          <6>1. g.d > 0 /\ h.d = 0
            BY <2>1, CommandIs DEF First, TapeOK
          <6> QED
            BY <6>1 DEF PieceBefore, Place
        <5> QED
          BY <5>1, <5>2, <3>1
      <4> QED
        BY <4>4, <4>5, <4>6
    <3> QED
      BY <2>2, <3>1, <3>4 DEF Working
  <2> QED
    BY <1>1, <2>3, <2>4
<1> QED
  BY <1>1, <1>3, <1>4, <1>5 DEF SInv, Working

(* The next command needs nothing any more.                                *)
LEMMA NothingBefore ==
  ASSUME NEW h, First(h), NEW q \in {OrderOf(h), WaitOf(h), PieceBefore(h)}, Needed(h, q)
  PROVE  ~InTape(q)
<1> SUFFICES ASSUME NEW o \in tape, Place(o) = q PROVE FALSE
  BY DEF InTape
<1> DEFINE p == Place(h)
<1>1. /\ p[1] = h.i /\ p[2] = h.nk /\ p[3] = (IF h.op = "order" THEN 0 ELSE 1)
      /\ p[4] = h.j /\ p[5] = h.d /\ p[6] = h.c
  BY PlaceIs DEF First
<1>2. /\ h.i \in Int /\ h.nk \in Int /\ h.j \in Int /\ h.d \in Int /\ h.c \in Int
      /\ h.op = "read" => h.d > 0
  BY CommandIs DEF First, TapeOK
<1>3. \/ /\ h.op # "order"
         /\ q[1] = h.i /\ q[2] = h.nk /\ q[3] = 0 /\ q[4] = h.j /\ q[5] = 0 /\ q[6] = 0
      \/ /\ h.op = "read"
         /\ q[1] = h.i /\ q[2] = h.nk /\ q[3] = 1 /\ q[4] = h.j /\ q[5] = 0 /\ q[6] = 0
      \/ /\ h.op = "read"
         /\ q[1] = h.i /\ q[2] = h.nk /\ q[3] = 1 /\ q[4] = h.j /\ q[5] = h.d /\ q[6] = h.c - 1
  BY DEF Needed, OrderOf, WaitOf, PieceBefore
<1>4. p = q \/ Less(p, q)
  <2>1. o = h => p = q
    OBVIOUS
  <2>2. o # h => Less(p, q)
    BY FirstIsLess
  <2> QED
    BY <2>1, <2>2
<1> HIDE DEF p
<1>5. p # q
  BY <1>1, <1>2, <1>3
<1>6. Less(p, q) => FALSE
  BY ONLY <1>1, <1>2, <1>3, LessIs
<1> QED
  BY <1>4, <1>5, <1>6

(* The piece that a command fetches.                                       *)
Fetched(h) ==
  [i |-> h.i, nk |-> h.nk, m |-> h.m, d |-> h.d, c |-> h.c,
   dat |-> Lines(h), whole |-> clean[h.m], r |-> runs, late |-> life # "started"]

(* It holds the lines of its place if all went well, and follows the one   *)
(* before it.                                                              *)
LEMMA FetchedOK ==
  ASSUME Working, NEW h \in tape, First(h), h.op = "read", clean[h.m] \in BOOLEAN
  PROVE  /\ PieceOK(Fetched(h))
         /\ clean[h.m] /\ h.c > 0 => Arrived(h, runs, posted)
<1> DEFINE p == Fetched(h)
           r == RangeOf(h)
<1>1. /\ CommandOK(h) /\ h.d \in DOMAIN JList[h.i].rms /\ h.i \in DOMAIN JList
      /\ h.c \in 0 .. Pieces(r) - 1 /\ h.piece = Piece(r, h.c)
  BY CommandIs DEF Working, TapeOK, CommandOK
<1>2. r.start \in Nat /\ r.size \in Nat
  BY <1>1 DEF Working, JobsOK, RangeOf
<1>3. /\ Piece(r, h.c).n \in Nat /\ Piece(r, h.c).at = r.start + MaxM * h.c
      /\ MaxM * h.c \in Nat
  BY <1>1, <1>2, PieceFits
<1>4. /\ p.i = h.i /\ p.nk = h.nk /\ p.m = h.m /\ p.d = h.d /\ p.c = h.c
      /\ p.dat = Lines(h) /\ p.whole = clean[h.m] /\ p.r = runs
  BY DEF Fetched
<1> HIDE DEF p
<1>5. RangeOf(p) = r
  BY <1>4 DEF RangeOf
<1> HIDE DEF r
<1>6. ~InTape(OrderOf(h)) /\ ~InTape(WaitOf(h))
  BY NothingBefore DEF Needed
<1>7. clean[h.m] => spectrum[h.m] = [r |-> runs, i |-> h.i, nk |-> h.nk]
  BY <1>6 DEF Working, Prepared, IsOrdered, IsMeasured, Coming
<1>8. DOMAIN p.dat = 1 .. Piece(r, h.c).n
  BY <1>1, <1>4 DEF Lines
<1>9. ASSUME p.whole, NEW v \in DOMAIN p.dat
      PROVE  p.dat[v] = Line(p, p.r, r.start + MaxM * p.c + v - 1)
  <2>1. p.dat[v] = [m |-> h.m, of |-> spectrum[h.m], pos |-> h.piece.at + v - 1]
    BY <1>1, <1>4, <1>8 DEF Lines
  <2> QED
    BY <2>1, <1>1, <1>3, <1>4, <1>7, <1>9 DEF Line
<1>10. PieceOK(p)
  BY <1>1, <1>4, <1>5, <1>8, <1>9 DEF PieceOK
<1>11. ASSUME clean[h.m], h.c > 0 PROVE Arrived(h, runs, posted)
  <2>1. ~InTape(PieceBefore(h))
    BY <1>11, NothingBefore DEF Needed
  <2> QED
    BY <2>1, <1>11 DEF Working, Prepared
<1> QED
  BY <1>10, <1>11 DEF p

(* A piece behind the others in the queue.                                 *)
LEMMA PostedMore ==
  ASSUME PostedOK, IsSeq(posted), NEW p, PieceOK(p),
         p.whole /\ p.c > 0 => Arrived(p, p.r, posted),
         NEW l, l = Append(posted, p)
  PROVE  /\ \A k \in DOMAIN l : PostedAt(l, k)
         /\ \A x : IsPosted(x, posted) => IsPosted(x, l)
         /\ LastPiece(p) => IsPosted(<<p.i, p.nk, p.m, p.d>>, l)
<1>1. PICK n : n = Len(posted)
  OBVIOUS
<1>2. /\ n \in Nat /\ DOMAIN posted = 1 .. n /\ DOMAIN l = 1 .. n + 1
      /\ \A k \in 1 .. n : l[k] = posted[k]
      /\ l[n + 1] = p
  BY <1>1, SeqIs, AppendIs
<1>3. posted = <<>> <=> n = 0
  BY <1>1 DEF IsSeq
<1>4. ASSUME NEW k \in 1 .. n PROVE PostedAt(l, k)
  <2>1. l[k] = posted[k] /\ (k # 1 => l[k - 1] = posted[k - 1])
    BY <1>2, <1>4
  <2>2. PostedAt(posted, k)
    BY <1>2, <1>4 DEF PostedOK
  <2> QED
    BY ONLY <2>1, <2>2 DEF PostedAt
<1>5. PostedAt(l, n + 1)
  <2>1. ASSUME p.whole, p.c > 0, n = 0 PROVE BinsHave(p, p.r, MaxM * p.c)
    BY <2>1, <1>3 DEF Arrived
  <2>2. ASSUME p.whole, p.c > 0, n # 0 PROVE Follows(l[n], p, p.r)
    BY <2>2, <1>1, <1>2, <1>3 DEF Arrived
  <2> QED
    BY <2>1, <2>2, <1>2 DEF PostedAt
<1>6. \A k \in DOMAIN l : PostedAt(l, k)
  BY <1>2, <1>4, <1>5
<1>7. \A x : IsPosted(x, posted) => IsPosted(x, l)
  BY <1>2 DEF IsPosted
<1>8. LastPiece(p) => IsPosted(<<p.i, p.nk, p.m, p.d>>, l)
  BY <1>2 DEF IsPosted
<1> QED
  BY <1>6, <1>7, <1>8

(* The last piece of a range is the one that is fetched to the end.        *)
LEMMA LastFetched ==
  ASSUME Working, NEW h \in tape, First(h), h.op = "read", ToTheEnd(h),
         JList[h.i].rms[h.d].size % MaxM # 0
  PROVE  LastPiece(Fetched(h))
<1> DEFINE r == RangeOf(h)
<1>1. /\ h.d \in DOMAIN JList[h.i].rms /\ h.i \in DOMAIN JList
      /\ h.c \in 0 .. Pieces(r) - 1 /\ h.piece = Piece(r, h.c)
  BY DEF Working, TapeOK, CommandOK
<1>2. r.start \in Nat /\ r.size \in Nat
  BY <1>1 DEF Working, JobsOK, RangeOf
<1>3. r.size % MaxM # 0 /\ h.piece.at + h.piece.n = r.start + r.size
  BY DEF RangeOf, ToTheEnd
<1>4. h.c = Pieces(r) - 1
  BY <1>1, <1>2, <1>3, PieceFits
<1> QED
  BY <1>4 DEF LastPiece, RangeOf, Fetched

(* What is posted keeps the queue and the account of what is due.          *)
LEMMA PostedSInv ==
  ASSUME Working, Typed, NEW h \in tape, First(h), h.op = "read",
         posted' = Append(posted, Fetched(h)),
         due' = (IF clean[h.m] /\ life = "started" /\ ToTheEnd(h)
                 THEN due \cup {<<h.i, h.nk, h.m, h.d>>} ELSE due),
         UNCHANGED <<JList, bins, done>>
  PROVE  PostedOK' /\ DueOK'
<1>1. PICK p : p = Fetched(h)
  OBVIOUS
<1>2. PICK l : l = Append(posted, p)
  OBVIOUS
<1>3. /\ p.i = h.i /\ p.nk = h.nk /\ p.m = h.m /\ p.d = h.d /\ p.c = h.c
      /\ p.whole = clean[h.m] /\ p.r = runs
  BY <1>1 DEF Fetched
<1>4. h.m \in Dev /\ clean[h.m] \in BOOLEAN /\ IsSeq(posted)
  BY DEF Typed
<1>5. PieceOK(p) /\ (clean[h.m] /\ h.c > 0 => Arrived(h, runs, posted))
  BY <1>1, <1>4, FetchedOK
<1>6. p.whole /\ p.c > 0 => Arrived(p, p.r, posted)
  BY <1>3, <1>5 DEF Arrived, BinsHave, Follows, RangeOf, Line
<1>7. /\ \A k \in DOMAIN l : PostedAt(l, k)
      /\ \A x : IsPosted(x, posted) => IsPosted(x, l)
      /\ LastPiece(p) => IsPosted(<<p.i, p.nk, p.m, p.d>>, l)
  BY <1>2, <1>4, <1>5, <1>6, PostedMore DEF Working
<1>8. posted' = l
  BY <1>1, <1>2
<1>9. \A k : PostedAt(l, k) => PostedAt(l, k)'
  BY DEF PostedAt, PieceOK, BinsHave, RangeOf
<1>10. \A x : IsPosted(x, l) => IsPosted(x, l)'
  BY DEF IsPosted, LastPiece
<1>11. PostedOK'
  BY <1>7, <1>8, <1>9 DEF PostedOK
<1>12. ASSUME NEW x \in due', JList[x[1]].rms[x[4]].size % MaxM # 0
       PROVE  x \in done \/ IsPosted(x, l)
  <2>1. CASE x \in due
    BY <2>1, <1>7, <1>12 DEF Working, DueOK
  <2>2. CASE x \notin due
    <3>1. x = <<h.i, h.nk, h.m, h.d>> /\ ToTheEnd(h)
      BY <2>2
    <3>2. LastPiece(p)
      BY <1>1, <1>12, <3>1, LastFetched
    <3> QED
      BY <3>1, <3>2, <1>3, <1>7
  <2> QED
    BY <2>1, <2>2
<1>13. DueOK'
  BY <1>8, <1>10, <1>12 DEF DueOK
<1> QED
  BY <1>11, <1>13

(* The other commands when a piece has been asked for: the next piece of   *)
(* the range now follows the last one posted, or one was not answered.     *)
LEMMA ReadPrepared ==
  ASSUME Working, Typed, NEW h \in tape, First(h), h.op = "read",
         tape' = tape \ {h},
         UNCHANGED <<JList, bins, meas, next, spectrum, runs>>,
         \/ posted' = Append(posted, Fetched(h)) /\ UNCHANGED clean
         \/ h.piece.n = 0 /\ UNCHANGED <<posted, clean>>
         \/ clean' = [clean EXCEPT ![h.m] = FALSE] /\ UNCHANGED posted
  PROVE  Prepared'
<1>1. /\ CommandOK(h) /\ h.d \in DOMAIN JList[h.i].rms /\ h.i \in DOMAIN JList
      /\ h.c \in 0 .. Pieces(RangeOf(h)) - 1 /\ h.piece = Piece(RangeOf(h), h.c)
      /\ h.m = JList[h.i].devs[h.j] /\ h.m \in Dev
  BY DEF Working, TapeOK, CommandOK
<1>2. h.d > 0 /\ h.d \in Int /\ h.c \in Int
  BY <1>1, CommandIs DEF Working
<1>3. \A q : InTape(q) /\ q # Place(h) => InTape(q)'
  BY FirstLeaves
<1>4. \A m \in Dev : clean'[m] => clean[m]
  BY DEF Typed
<1>5. Place(h) = <<h.i, h.nk, 1, h.j, h.d, h.c>>
  BY DEF Place
<1>6. SUFFICES ASSUME NEW g \in tape \ {h}
               PROVE  /\ g.op # "order" => InTape(OrderOf(g))' \/ IsOrdered(g)'
                      /\ g.op = "read" => InTape(WaitOf(g))' \/ IsMeasured(g)'
                      /\ g.op = "read" /\ g.c > 0 =>
                           \/ InTape(PieceBefore(g))'
                           \/ clean'[g.m] => /\ posted' # <<>>
                                             /\ Follows(posted'[Len(posted')], g, runs)
  BY DEF Prepared, Arrived
<1>7. /\ CommandOK(g) /\ g.m = JList[g.i].devs[g.j] /\ g.m \in Dev
  BY DEF Working, TapeOK, CommandOK
<1>8. g.op # "order" => InTape(OrderOf(g))' \/ IsOrdered(g)'
  <2>1. OrderOf(g) # Place(h)
    BY <1>5 DEF OrderOf
  <2>2. IsOrdered(g) => IsOrdered(g)'
    BY <1>4, <1>7 DEF IsOrdered, Coming
  <2> QED
    BY <2>1, <2>2, <1>3 DEF Working, Prepared
<1>9. g.op = "read" => InTape(WaitOf(g))' \/ IsMeasured(g)'
  <2>1. WaitOf(g) # Place(h)
    BY <1>2, <1>5 DEF WaitOf
  <2>2. IsMeasured(g) => IsMeasured(g)'
    BY <1>4, <1>7 DEF IsMeasured
  <2> QED
    BY <2>1, <2>2, <1>3 DEF Working, Prepared
<1>10. ASSUME g.op = "read", g.c > 0, ~InTape(PieceBefore(g))', clean'[g.m]
       PROVE  posted' # <<>> /\ Follows(posted'[Len(posted')], g, runs)
  <2>1. PieceBefore(g) = Place(h)
    <3>1. InTape(PieceBefore(g))
      BY <1>10, InTurn
    <3> QED
      BY <3>1, <1>3, <1>10
  <2>2. g.i = h.i /\ g.nk = h.nk /\ g.j = h.j /\ g.d = h.d /\ g.c - 1 = h.c
    BY <2>1, <1>5 DEF PieceBefore
  <2>3. g.m = h.m
    BY <2>2, <1>1, <1>7
  <2>4. clean[h.m] /\ clean'[h.m]
    BY <2>3, <1>4, <1>7, <1>10
  <2>5. h.piece.n # 0
    <3>1. g.c \in 0 .. Pieces(RangeOf(h)) - 1
      BY <2>2, <1>7, <1>10 DEF CommandOK, RangeOf
    <3>2. RangeOf(h).start \in Nat /\ RangeOf(h).size \in Nat
      BY <1>1 DEF Working, JobsOK, RangeOf
    <3>3. h.c < Pieces(RangeOf(h)) - 1
      BY <3>1, <3>2, <2>2, <1>1, <1>2, PieceFits
    <3>4. h.piece.n = MaxM
      BY <3>2, <3>3, <1>1, PieceFits
    <3> QED
      BY <3>4, PiecesAssumption
  <2>6. posted' = Append(posted, Fetched(h))
    BY <2>4, <2>5, <1>1 DEF Typed
  <2>7. posted' # <<>> /\ posted'[Len(posted')] = Fetched(h)
    <3>1. PICK p : p = Fetched(h)
      OBVIOUS
    <3>2. posted' = Append(posted, p) /\ IsSeq(posted)
      BY <2>6, <3>1 DEF Typed
    <3>3. posted' # <<>> /\ Len(posted') = Len(posted) + 1 /\ posted'[Len(posted) + 1] = p
      BY <3>2, AppendIs
    <3> QED
      BY <3>1, <3>3
  <2>8. Follows(Fetched(h), g, runs)
    BY <2>2, <2>3, <2>4 DEF Fetched, Follows
  <2> QED
    BY <2>7, <2>8
<1> QED
  BY <1>8, <1>9, <1>10

LEMMA ReadSInv ==
  ASSUME SInv, NEW h \in tape, Read(h)
  PROVE  SInv'
<1>1. /\ Command("read", h) /\ tape' = tape \ {h}
      /\ UNCHANGED <<life, config, JList, work, run, thread, bins, last, meas, spectrum,
                     next, done, runs>>
      /\ \/ /\ posted' = Append(posted, Fetched(h))
            /\ due' = IF clean[h.m] /\ life = "started" /\ ToTheEnd(h)
                      THEN due \cup {<<h.i, h.nk, h.m, h.d>>} ELSE due
            /\ UNCHANGED clean
         \/ h.piece.n = 0 /\ UNCHANGED <<posted, due, clean>>
         \/ clean' = [clean EXCEPT ![h.m] = FALSE] /\ UNCHANGED <<posted, due>>
  BY DEF Read, Fetched, main, devs
<1>2. Typed /\ Life /\ ValueIsOwn /\ h.m \in Dev
  BY DEF SInv, Typed
<1>3. Typed'
  <2>1. IsSeq(posted')
    BY <1>1, <1>2, AppendIs DEF Typed
  <2>2. clean' \in [Dev -> BOOLEAN]
    BY <1>1, <1>2 DEF Typed
  <2> QED
    BY <2>1, <2>2, <1>1, <1>2 DEF Typed, IsSeq
<1>4. Life'
  <2>1. run
    BY <1>1, <1>2 DEF Life, Command
  <2>2. life # "started" => due' = {}
    BY <1>1, <1>2 DEF Life
  <2>3. life # "gone"
    BY <2>1, <1>2 DEF Life
  <2> QED
    BY <2>1, <2>2, <2>3, <1>1, <1>2 DEF Life
<1>5. ValueIsOwn'
  BY <1>1, <1>2 DEF ValueIsOwn
<1>6. ASSUME Working PROVE Working'
  <2>1. First(h) /\ CommandOK(h) /\ h.op = "read"
    BY <1>1, <1>6, FirstOfTape
  <2>2. TapeOK' /\ Closed'
    BY <1>1, <2>1, FirstLeaves
  <2>3. JobsOK' /\ BinsOK'
    BY <1>1, <1>6, JobsFrame, BinsFrame DEF Working
  <2>4. Prepared'
    BY <1>1, <1>2, <1>6, <2>1, ReadPrepared
  <2>5. PostedOK' /\ DueOK'
    <3>1. CASE UNCHANGED <<posted, due>>
      BY <3>1, <1>1, <1>6, PostedFrame, DueFrame DEF Working
    <3>2. CASE /\ posted' = Append(posted, Fetched(h))
               /\ due' = IF clean[h.m] /\ life = "started" /\ ToTheEnd(h)
                         THEN due \cup {<<h.i, h.nk, h.m, h.d>>} ELSE due
      BY <3>2, <1>1, <1>2, <1>6, <2>1, PostedSInv
    <3> QED
      BY <1>1, <3>1, <3>2
  <2> QED
    BY <2>2, <2>3, <2>4, <2>5 DEF Working
<1> QED
  BY <1>1, <1>3, <1>4, <1>5, <1>6 DEF SInv, Working

LEMMA ThreadEndsSInv ==
  ASSUME SInv, ThreadEnds
  PROVE  SInv'
<1>1. /\ UNCHANGED <<life, config, JList, work, run, posted, bins, last, meas, spectrum, next, clean,
                     due, done, runs>>
      /\ tape' = {} /\ thread \in {"works", "told"} /\ thread' = "ended"
  BY DEF ThreadEnds, main, devs
<1>2. Typed' /\ Life' /\ ValueIsOwn'
  BY <1>1 DEF SInv, Typed, Life, ValueIsOwn, IsSeq
<1>3. ASSUME Working PROVE Working'
  <2>1. JobsOK' /\ BinsOK' /\ PostedOK' /\ DueOK'
    BY <1>1, <1>3, JobsFrame, BinsFrame, PostedFrame, DueFrame DEF Working
  <2>2. TapeOK' /\ Closed' /\ Prepared'
    BY <1>1 DEF TapeOK, Closed, Prepared
  <2> QED
    BY <2>1, <2>2 DEF Working
<1> QED
  BY <1>1, <1>2, <1>3 DEF SInv, Working

-----------------------------------------------------------------------------
(* The main thread.                                                        *)
LEMMA DeleteThredSInv ==
  ASSUME SInv, DeleteThred
  PROVE  SInv'
<1>1. /\ UNCHANGED <<life, config, JList, work, tape, posted, bins, last, meas, spectrum, next, clean,
                     due, done, runs>>
      /\ thread' = "none" /\ run' = FALSE /\ posted = <<>>
      /\ life \in {"started", "stopped"}
  BY DEF DeleteThred, main, devs
<1>2. Typed' /\ Life' /\ ValueIsOwn'
  BY <1>1 DEF SInv, Typed, Life, ValueIsOwn, IsSeq
<1>3. ASSUME Working PROVE Working'
  <2>1. JobsOK' /\ BinsOK' /\ TapeOK' /\ Closed' /\ PostedOK' /\ DueOK'
    BY <1>1, <1>3, JobsFrame, BinsFrame, TapeFrame, PostedFrame, DueFrame DEF Working
  <2>2. Prepared'
    BY <1>1, <1>3 DEF Working, Prepared, InTape, IsOrdered, IsMeasured, Coming,
          Arrived, BinsHave, RangeOf
  <2> QED
    BY <2>1, <2>2 DEF Working
<1> QED
  BY <1>1, <1>2, <1>3 DEF SInv, Working

LEMMA SetDateLateSInv ==
  ASSUME SInv, SetDateLate
  PROVE  SInv'
<1>1. /\ life = "stopped" /\ life' = "undefined" /\ thread' = "none" /\ tape' = {} /\ meas' = {}
      /\ UNCHANGED <<config, JList, work, run, posted, bins, last, spectrum, next, clean, due, done>>
  BY DEF SetDateLate
<1> QED
  BY <1>1 DEF SInv, Typed, Life, ValueIsOwn, IsSeq

LEMMA StopAllSInv ==
  ASSUME SInv, StopAll
  PROVE  SInv'
<1>1. /\ life = "started" /\ life' = "stopped" /\ work' = FALSE /\ due' = {}
      /\ thread' = IF thread = "works" THEN "told" ELSE thread
      /\ UNCHANGED <<config, run, tape, posted, last, meas, spectrum, next, clean>>
  BY DEF StopAll, devs
<1> QED
  BY <1>1 DEF SInv, Typed, Life, ValueIsOwn, IsSeq

LEMMA DestroySInv ==
  ASSUME SInv, Destroy
  PROVE  SInv'
<1>1. /\ life = "stopped" /\ life' = "gone" /\ thread' = "none" /\ run' = FALSE /\ tape' = {}
      /\ posted' = <<>> /\ last' = <<>> /\ clean' = [m \in Dev |-> FALSE]
      /\ UNCHANGED <<config, JList, work, bins, meas, spectrum, next, due, done>>
  BY DEF Destroy, devs
<1>2. IsSeq(<<>>)
  BY DEF IsSeq
<1>3. Typed'
  <2>1. IsSeq(posted')
    BY <1>1, <1>2
  <2> QED
    BY <2>1, <1>1 DEF SInv, Typed
<1>4. Life' /\ ValueIsOwn'
  BY <1>1 DEF SInv, Life, ValueIsOwn
<1> QED
  BY <1>1, <1>3, <1>4 DEF SInv

(* The bins of a range with a piece in its place.                          *)
LEMMA FilledIs ==
  ASSUME JobsOK, BinsOK, NEW p, PieceOK(p),
         p.whole /\ p.c > 0 => BinsHave(p, p.r, MaxM * p.c)
  PROVE  /\ <<p.i, p.d>> \in DOMAIN bins
         /\ DOMAIN Filled(p) = DOMAIN bins[<<p.i, p.d>>]
         /\ DOMAIN Filled(p) = 1 .. RangeOf(p).size
         /\ p.whole => \A v \in DOMAIN Filled(p) :
                         v <= MaxM * p.c + Piece(RangeOf(p), p.c).n =>
                           Filled(p)[v] = Line(p, p.r, RangeOf(p).start + v - 1)
<1> DEFINE r == RangeOf(p)
           n == Piece(r, p.c).n
           b == bins[<<p.i, p.d>>]
<1>1. p.i \in DOMAIN JList /\ p.d \in DOMAIN JList[p.i].rms /\ p.c \in 0 .. Pieces(r) - 1
  BY DEF PieceOK
<1>2. r.start \in Nat /\ r.size \in Nat
  BY <1>1 DEF JobsOK, RangeOf
<1>3. p.c \in Nat /\ n \in Nat /\ MaxM * p.c \in Nat
  BY <1>1, <1>2, PieceFits
<1>4. <<p.i, p.d>> \in DOMAIN bins /\ DOMAIN b = 1 .. r.size
  BY <1>1 DEF BinsOK, Bins, RangeOf
<1>5. /\ DOMAIN Filled(p) = DOMAIN b
      /\ \A v \in DOMAIN b :
           Filled(p)[v] = IF v - MaxM * p.c \in DOMAIN p.dat THEN p.dat[v - MaxM * p.c] ELSE b[v]
  BY DEF Filled
<1>6. /\ DOMAIN p.dat = 1 .. n
      /\ p.whole => \A v \in DOMAIN p.dat : p.dat[v] = Line(p, p.r, r.start + MaxM * p.c + v - 1)
  BY DEF PieceOK
<1>7. p.whole /\ p.c > 0 =>
        \A v \in DOMAIN b : v <= MaxM * p.c => b[v] = Line(p, p.r, r.start + v - 1)
  BY DEF BinsHave
<1> HIDE DEF r, n, b
<1>8. ASSUME p.whole, NEW v \in DOMAIN b, v <= MaxM * p.c + n
      PROVE  Filled(p)[v] = Line(p, p.r, r.start + v - 1)
  <2>1. PICK q : q = MaxM * p.c
    OBVIOUS
  <2>2. v \in 1 .. r.size /\ v \in Nat /\ q \in Nat
    BY <1>2, <1>3, <1>4, <1>8, <2>1
  <2>3. CASE v > q
    <3>1. PICK w : w = v - q
      OBVIOUS
    <3>2. w \in 1 .. n
      BY <1>3, <1>8, <2>1, <2>2, <2>3, <3>1
    <3>3. Filled(p)[v] = p.dat[w] /\ p.dat[w] = Line(p, p.r, r.start + q + w - 1)
      BY <1>5, <1>6, <1>8, <2>1, <3>1, <3>2
    <3>4. r.start + q + w - 1 = r.start + v - 1
      BY <1>2, <2>2, <3>1
    <3> QED
      BY <3>3, <3>4
  <2>4. CASE v <= q
    <3>1. p.c > 0
      BY <1>3, <2>1, <2>2, <2>4, PiecesAssumption
    <3>2. v - MaxM * p.c \notin DOMAIN p.dat
      BY <1>3, <1>6, <2>1, <2>2, <2>4
    <3> QED
      BY <1>5, <1>7, <1>8, <2>1, <2>4, <3>1, <3>2
  <2> QED
    BY <2>2, <2>3, <2>4
<1> QED
  BY <1>4, <1>5, <1>8 DEF r, n, b

(* With a piece in the bins, what comes before the next one has arrived.   *)
LEMMA NextArrived ==
  ASSUME JobsOK, BinsOK, NEW p, PieceOK(p),
         p.whole /\ p.c > 0 => BinsHave(p, p.r, MaxM * p.c),
         bins' = [bins EXCEPT ![<<p.i, p.d>>] = Filled(p)], UNCHANGED JList,
         NEW x, NEW r, Follows(p, x, r), x.c \in 0 .. Pieces(RangeOf(x)) - 1
  PROVE  BinsHave(x, r, MaxM * x.c)'
<1>1. p.i = x.i /\ p.nk = x.nk /\ p.m = x.m /\ p.d = x.d /\ p.c = x.c - 1 /\ p.whole /\ p.r = r
  BY DEF Follows
<1>2. RangeOf(p) = RangeOf(x) /\ RangeOf(x)' = RangeOf(x)
  BY <1>1 DEF RangeOf
<1>3. PICK g : g = RangeOf(x)
  OBVIOUS
<1>4. g.start \in Nat /\ g.size \in Nat /\ p.c \in 0 .. Pieces(g) - 1
  BY <1>1, <1>2, <1>3 DEF PieceOK, JobsOK, RangeOf
<1>5. p.c < Pieces(g) - 1 /\ p.c \in Nat /\ x.c = p.c + 1
  BY <1>1, <1>3, <1>4, PieceFits
<1>6. Piece(g, p.c).n = MaxM
  BY <1>4, <1>5, PieceFits
<1>7. MaxM * x.c = MaxM * p.c + MaxM
  BY <1>5, PiecesAssumption
<1>8. /\ <<p.i, p.d>> \in DOMAIN bins
      /\ \A v \in DOMAIN Filled(p) : v <= MaxM * x.c => Filled(p)[v] = Line(p, r, g.start + v - 1)
  BY <1>1, <1>2, <1>3, <1>6, <1>7, FilledIs
<1>9. bins'[<<x.i, x.d>>] = Filled(p)
  BY <1>1, <1>8
<1>10. \A pos : Line(p, r, pos) = Line(x, r, pos)
  BY <1>1 DEF Line
<1> QED
  BY <1>2, <1>3, <1>8, <1>9, <1>10 DEF BinsHave

(* setDate takes the first piece from the queue.                           *)
LEMMA PostedLess ==
  ASSUME Working, IsSeq(posted), posted # <<>>, NEW p, p = Head(posted),
         bins' = [bins EXCEPT ![<<p.i, p.d>>] = Filled(p)],
         posted' = Tail(posted), UNCHANGED JList
  PROVE  PostedOK'
<1>1. PICK n \in Nat : n = Len(posted) /\ DOMAIN posted = 1 .. n
  BY SeqIs
<1>2. PICK l : l = posted'
  OBVIOUS
<1>3. DOMAIN l = 1 .. n - 1 /\ (\A k \in 1 .. n - 1 : l[k] = posted[k + 1]) /\ p = posted[1] /\ 1 \in 1 .. n
  BY <1>1, <1>2, TailIs
<1>4. \A k \in 1 .. n : PostedAt(posted, k)
  BY <1>1 DEF Working, PostedOK
<1>5. PieceOK(p) /\ (p.whole /\ p.c > 0 => BinsHave(p, p.r, MaxM * p.c))
  BY <1>3, <1>4 DEF PostedAt
<1>6. ASSUME NEW k \in 1 .. n - 1 PROVE PostedAt(l, k)'
  <2>1. PICK q : q = l[k]
    OBVIOUS
  <2>2. PostedAt(posted, k + 1) /\ q = posted[k + 1] /\ k + 1 # 1 /\ k + 1 - 1 = k
    BY <1>3, <1>4, <2>1
  <2>3. PieceOK(q) /\ (q.whole /\ q.c > 0 => Follows(posted[k], q, q.r))
    BY <2>2 DEF PostedAt
  <2>4. PieceOK(q)'
    BY <2>3 DEF PieceOK, RangeOf
  <2>5. ASSUME q.whole, q.c > 0, k = 1 PROVE BinsHave(q, q.r, MaxM * q.c)'
    <3>1. Follows(p, q, q.r)
      BY <2>3, <2>5, <1>3
    <3>2. q.c \in 0 .. Pieces(RangeOf(q)) - 1
      BY <2>3 DEF PieceOK
    <3>3. PICK r : r = q.r
      OBVIOUS
    <3>4. BinsHave(q, r, MaxM * q.c)'
      BY <1>5, <3>1, <3>2, <3>3, NextArrived DEF Working
    <3> QED
      BY <3>3, <3>4
  <2>6. ASSUME q.whole, q.c > 0, k # 1 PROVE Follows(l[k - 1], q, q.r)
    <3>1. l[k - 1] = posted[k]
      BY <1>3, <2>6
    <3> QED
      BY <3>1, <2>3, <2>6
  <2> QED
    BY <2>1, <2>4, <2>5, <2>6 DEF PostedAt
<1> QED
  BY <1>2, <1>3, <1>6 DEF PostedOK

LEMMA DueLess ==
  ASSUME DueOK, IsSeq(posted), posted # <<>>, NEW p, p = Head(posted),
         posted' = Tail(posted), UNCHANGED <<JList, due>>, done \subseteq done',
         LastPiece(p) => <<p.i, p.nk, p.m, p.d>> \in done'
  PROVE  DueOK'
<1>1. PICK n \in Nat : n = Len(posted) /\ DOMAIN posted = 1 .. n
  BY SeqIs
<1>2. PICK l : l = posted'
  OBVIOUS
<1>3. DOMAIN l = 1 .. n - 1 /\ (\A k \in 1 .. n - 1 : l[k] = posted[k + 1]) /\ p = posted[1]
  BY <1>1, <1>2, TailIs
<1>4. ASSUME NEW x \in due, JList[x[1]].rms[x[4]].size % MaxM # 0
      PROVE  x \in done' \/ IsPosted(x, l)
  <2>1. CASE x \in done
    BY <2>1
  <2>2. CASE IsPosted(x, posted)
    <3>1. PICK k \in 1 .. n : /\ LastPiece(posted[k])
                              /\ x = <<posted[k].i, posted[k].nk, posted[k].m, posted[k].d>>
      BY <2>2, <1>1 DEF IsPosted
    <3>2. CASE k = 1
      BY <3>1, <3>2, <1>3
    <3>3. CASE k # 1
      <4>1. k - 1 \in 1 .. n - 1 /\ l[k - 1] = posted[k]
        BY <3>3, <1>3
      <4> QED
        BY <3>1, <4>1, <1>3 DEF IsPosted
    <3> QED
      BY <3>2, <3>3
  <2> QED
    BY <2>1, <2>2, <1>4 DEF DueOK
<1>5. \A x : IsPosted(x, l) => IsPosted(x, l)'
  BY DEF IsPosted, LastPiece
<1> QED
  BY <1>2, <1>4, <1>5 DEF DueOK

LEMMA SetDatePrepared ==
  ASSUME Working, IsSeq(posted), posted # <<>>, NEW p, p = Head(posted),
         bins' = [bins EXCEPT ![<<p.i, p.d>>] = Filled(p)],
         posted' = Tail(posted), UNCHANGED <<JList, tape, meas, spectrum, next, clean, runs>>
  PROVE  Prepared'
<1>1. PICK n \in Nat : n = Len(posted) /\ DOMAIN posted = 1 .. n
  BY SeqIs
<1>2. /\ posted' = <<>> <=> n = 1
      /\ Len(posted') = n - 1 /\ (\A k \in 1 .. n - 1 : posted'[k] = posted[k + 1]) /\ p = posted[1]
      /\ 1 \in 1 .. n
  BY <1>1, TailIs
<1>3. PostedAt(posted, 1)
  BY <1>1, <1>2 DEF Working, PostedOK
<1>4. PieceOK(p) /\ (p.whole /\ p.c > 0 => BinsHave(p, p.r, MaxM * p.c))
  BY <1>2, <1>3 DEF PostedAt
<1>5. SUFFICES ASSUME NEW h \in tape
               PROVE  /\ h.op # "order" => InTape(OrderOf(h))' \/ IsOrdered(h)'
                      /\ h.op = "read" => InTape(WaitOf(h))' \/ IsMeasured(h)'
                      /\ h.op = "read" /\ h.c > 0 =>
                           \/ InTape(PieceBefore(h))'
                           \/ clean'[h.m] => Arrived(h, runs, posted)'
  BY DEF Prepared
<1>6. \A q : InTape(q) => InTape(q)'
  BY DEF InTape
<1>7. (IsOrdered(h) => IsOrdered(h)') /\ (IsMeasured(h) => IsMeasured(h)')
  BY DEF IsOrdered, IsMeasured, Coming
<1>8. ASSUME h.op = "read", Arrived(h, runs, posted) PROVE Arrived(h, runs, posted)'
  <2>1. Follows(posted[n], h, runs)
    BY <1>1, <1>8 DEF Arrived
  <2>2. CASE n = 1
    <3>1. PICK r : r = runs
      OBVIOUS
    <3>2. h.c \in 0 .. Pieces(RangeOf(h)) - 1
      BY <1>8 DEF Working, TapeOK, CommandOK
    <3>3. Follows(p, h, r)
      BY <2>1, <2>2, <1>2, <3>1
    <3>4. BinsHave(h, r, MaxM * h.c)'
      BY <1>4, <3>2, <3>3, NextArrived DEF Working
    <3>5. BinsHave(h, runs, MaxM * h.c)'
      BY <3>1, <3>4 DEF BinsHave
    <3> QED
      BY <2>2, <3>5, <1>2 DEF Arrived
  <2>3. CASE n # 1
    <3>1. posted' # <<>> /\ posted'[Len(posted')] = posted[n]
      BY <2>3, <1>1, <1>2
    <3> QED
      BY <3>1, <2>1 DEF Arrived
  <2> QED
    BY <2>2, <2>3
<1> QED
  BY <1>6, <1>7, <1>8 DEF Working, Prepared

LEMMA SetDateSInv ==
  ASSUME SInv, SetDate
  PROVE  SInv'
<1>1. PICK p : p = Head(posted)
  OBVIOUS
<1>2. /\ life = "started" /\ posted # <<>>
      /\ bins' = [bins EXCEPT ![<<p.i, p.d>>] = Filled(p)]
      /\ IF LastPiece(p)
         THEN /\ last' = <<[i |-> p.i, nk |-> p.nk, m |-> p.m, start |-> JList[p.i].rms[p.d].start,
                            bins |-> Filled(p), whole |-> p.whole, r |-> p.r]>>
              /\ done' = done \cup {<<p.i, p.nk, p.m, p.d>>}
         ELSE UNCHANGED <<last, done>>
      /\ posted' = Tail(posted)
      /\ UNCHANGED <<life, config, JList, work, run, thread, tape, meas, spectrum, next,
                     clean, due, runs>>
  BY <1>1 DEF SetDate, main, devs
<1>3. Working /\ Typed /\ Life /\ ValueIsOwn /\ IsSeq(posted)
  BY <1>2 DEF SInv, Working, Typed
<1>4. Typed'
  <2>1. IsSeq(posted')
    BY <1>2, <1>3, TailIs
  <2> QED
    BY <2>1, <1>2, <1>3 DEF Typed
<1>5. Life'
  BY <1>2, <1>3 DEF Life
<1>6. PieceOK(p) /\ (p.whole /\ p.c > 0 => BinsHave(p, p.r, MaxM * p.c))
  <2>1. 1 \in DOMAIN posted /\ p = posted[1]
    BY <1>1, <1>2, <1>3, TailIs
  <2>2. PostedAt(posted, 1)
    BY <2>1, <1>3 DEF Working, PostedOK
  <2> QED
    BY <2>1, <2>2 DEF PostedAt
<1>7. /\ <<p.i, p.d>> \in DOMAIN bins /\ DOMAIN Filled(p) = DOMAIN bins[<<p.i, p.d>>]
      /\ DOMAIN Filled(p) = 1 .. RangeOf(p).size
      /\ p.whole => \A v \in DOMAIN Filled(p) :
                      v <= MaxM * p.c + Piece(RangeOf(p), p.c).n =>
                        Filled(p)[v] = Line(p, p.r, RangeOf(p).start + v - 1)
  BY <1>3, <1>6, FilledIs DEF Working
<1>8. JobsOK' /\ TapeOK' /\ Closed'
  BY <1>2, <1>3, JobsFrame, TapeFrame DEF Working
<1>9. BinsOK'
  <2>1. DOMAIN bins' = DOMAIN bins /\ \A x \in DOMAIN bins : DOMAIN bins'[x] = DOMAIN bins[x]
    BY <1>2, <1>7
  <2>2. bins' = [x \in DOMAIN bins' |-> bins'[x]]
    BY <1>2
  <2>3. \A i \in DOMAIN JList : \A d \in DOMAIN JList[i].rms : <<i, d>> \in DOMAIN bins
    BY <1>3 DEF Working, BinsOK, Bins
  <2> QED
    BY <2>1, <2>2, <2>3, <1>2, <1>3 DEF Working, BinsOK, Bins
<1>10. PostedOK'
  BY <1>1, <1>2, <1>3, PostedLess
<1>11. Prepared'
  BY <1>1, <1>2, <1>3, SetDatePrepared
<1>12. DueOK'
  <2>1. done \subseteq done' /\ (LastPiece(p) => <<p.i, p.nk, p.m, p.d>> \in done')
    BY <1>2
  <2> QED
    BY <2>1, <1>1, <1>2, <1>3, DueLess DEF Working
<1>13. ValueIsOwn'
  <2>1. CASE ~LastPiece(p)
    BY <2>1, <1>2, <1>3 DEF ValueIsOwn
  <2>2. CASE LastPiece(p)
    <3>1. PICK r : r = RangeOf(p)
      OBVIOUS
    <3>2. /\ r.start \in Nat /\ r.size \in Nat /\ p.c \in 0 .. Pieces(r) - 1
      BY <1>3, <1>6, <3>1 DEF Working, JobsOK, PieceOK, RangeOf
    <3>3. p.c = Pieces(r) - 1
      BY <2>2, <3>1 DEF LastPiece, RangeOf
    <3>4. MaxM * p.c + Piece(r, p.c).n = r.size
      BY <3>2, <3>3, PieceFits
    <3>5. PICK b : b = Filled(p)
      OBVIOUS
    <3>6. p.whole => \A v \in DOMAIN b : b[v] = Line(p, p.r, r.start + v - 1)
      BY <1>7, <3>1, <3>2, <3>4, <3>5
    <3>7. last' = <<[i |-> p.i, nk |-> p.nk, m |-> p.m, start |-> r.start,
                     bins |-> b, whole |-> p.whole, r |-> p.r]>>
      BY <1>2, <2>2, <3>1, <3>5 DEF RangeOf
    <3>8. ASSUME p.whole, NEW v \in DOMAIN b
          PROVE  /\ b[v].m = p.m /\ b[v].pos = r.start + v - 1
                 /\ b[v].of.r = p.r /\ b[v].of.i = p.i /\ b[v].of.nk = p.nk
      BY <3>6, <3>8 DEF Line
    <3> QED
      BY <3>7, <3>8 DEF ValueIsOwn
  <2> QED
    BY <2>1, <2>2
<1> QED
  BY <1>2, <1>4, <1>5, <1>8, <1>9, <1>10, <1>11, <1>12, <1>13 DEF SInv

(* Every step keeps the invariant.                                         *)
LEMMA NextSInv == SInv /\ [Next]_vars => SInv'
<1> SUFFICES ASSUME SInv, [Next]_vars PROVE SInv'
  OBVIOUS
<1>1. CASE UNCHANGED vars
  <2>1. UNCHANGED <<life, config, JList, work, run, thread, tape, posted, bins, last, meas, spectrum,
                    next, clean, due, done, runs>>
    BY <1>1 DEF vars, main, devs
  <2>2. Typed' /\ Life' /\ ValueIsOwn'
    BY <2>1 DEF SInv, Typed, Life, ValueIsOwn, IsSeq
  <2>3. ASSUME Working PROVE Working'
    <3>1. JobsOK' /\ BinsOK' /\ TapeOK' /\ Closed' /\ PostedOK' /\ DueOK'
      BY <2>1, <2>3, JobsFrame, BinsFrame, TapeFrame, PostedFrame, DueFrame DEF Working
    <3>2. Prepared'
      BY <2>1, <2>3 DEF Working, Prepared, InTape, IsOrdered, IsMeasured, Coming,
          Arrived, BinsHave, RangeOf
    <3> QED
      BY <3>1, <3>2 DEF Working
  <2> QED
    BY <2>1, <2>2, <2>3 DEF SInv, Working
<1>2. ASSUME NEW c \in Settings, Start(c) PROVE SInv'
  BY <1>2, StartSInv
<1>3. ASSUME NEW m \in Dev, Measured(m) PROVE SInv'
  BY <1>3, MeasuredSInv
<1>4. ASSUME NEW service \in SUBSET config.known, RunDiag(service) PROVE SInv'
  BY <1>4, RunDiagSInv
<1>5. CASE ThreadStep
  BY <1>5, OrderedSInv, PollSInv, ReadSInv, ThreadEndsSInv DEF ThreadStep
<1>6. CASE DeleteThred
  BY <1>6, DeleteThredSInv
<1>7. CASE SetDate
  BY <1>7, SetDateSInv
<1>8. CASE SetDateLate
  BY <1>8, SetDateLateSInv
<1>9. CASE StopAll
  BY <1>9, StopAllSInv
<1>10. CASE Destroy
  BY <1>10, DestroySInv
<1> QED
  BY <1>1, <1>2, <1>3, <1>4, <1>5, <1>6, <1>7, <1>8, <1>9, <1>10 DEF Next

-----------------------------------------------------------------------------
(* The tape, the queue and the bins agree on each range that is fetched.   *)
THEOREM SdiagInductive == Spec => []SInv
<1>1. Init => SInv
  BY InitSInv
<1>2. SInv /\ [Next]_vars => SInv'
  BY NextSInv
<1> QED
  BY <1>1, <1>2, PTL DEF Spec

(* A value is computed from its own lines (setDate,                        *)
(* sdiagCollector.cpp:336), though all devices, channels and runs share    *)
(* the bins and the pieces come through a queue.                           *)
THEOREM ValuesAreOwn == Spec => []ValueIsOwn
<1>1. SInv => ValueIsOwn
  BY DEF SInv
<1> QED
  BY <1>1, SdiagInductive, PTL

(* What a run has fetched to the last line is computed before its end is   *)
(* noticed (deleteThred, sdiagCollector.cpp:284), but for the ranges whose *)
(* last piece is empty.                                                    *)
THEOREM WholesAreComputed == Spec => []WholeIsComputed
<1>1. SInv => WholeIsComputed
  <2> SUFFICES ASSUME SInv, ~run, NEW x \in due, JList[x[1]].rms[x[4]].size % MaxM # 0
               PROVE  x \in done
    BY DEF WholeIsComputed
  <2>1. posted = <<>> /\ life = "started"
    BY DEF SInv, Life
  <2>2. DOMAIN posted = {}
    BY <2>1
  <2> QED
    BY <2>1, <2>2 DEF SInv, DueOK, IsPosted
<1> QED
  BY <1>1, SdiagInductive, PTL
=============================================================================
