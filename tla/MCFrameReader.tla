--------------------------- MODULE MCFrameReader ----------------------------
(* FrameReader with headers of two bytes and answers of different lengths. *)
EXTENDS FrameReader

MCBody == <<1, 3, 2>>
MCOneBody == <<2>>

=============================================================================
