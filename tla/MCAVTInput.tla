------------------------------ MODULE MCAVTInput ------------------------------
(* AVTInput for TLC: frames are records of a number and a capture time. *)
EXTENDS AVTInput

MCFrame == [n : 0 .. MaxFrame - 1, ts : 0 .. MaxFrame]
=============================================================================
