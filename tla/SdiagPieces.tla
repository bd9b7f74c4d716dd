---------------------------- MODULE SdiagPieces ----------------------------
(***************************************************************************)
(* How a range of a spectrum is cut into the pieces it is fetched in       *)
(* (exe_SDiag, sdiagCollector.cpp).                                        *)
(***************************************************************************)
EXTENDS Integers

CONSTANT MaxM   \* registers of a piece (maxSizeM, 125)

ASSUME PiecesAssumption == MaxM \in Nat \ {0}

Pieces(r) == 1 + r.size \div MaxM

(* A piece's first line and its length, what is left for the last.         *)
Piece(r, c) ==
  [at |-> r.start + MaxM * c,
   n  |-> IF c + 1 = Pieces(r) THEN r.size - MaxM * c ELSE MaxM]

(* The pieces of a range follow one another from its first line to its     *)
(* last, and none is longer than a device gives at once                    *)
(* (sdiagCollector.cpp:255).  It is proved for every range in              *)
(* CollectorProofs.                                                        *)
Covered(r) ==
  LET k == Pieces(r) - 1
  IN  /\ Piece(r, 0).at = r.start
      /\ Piece(r, k).at + Piece(r, k).n = r.start + r.size
      /\ \A c \in 0 .. k : Piece(r, c).n \in 0 .. MaxM
      /\ \A c \in 1 .. k : Piece(r, c).at = Piece(r, c - 1).at + Piece(r, c - 1).n

=============================================================================
