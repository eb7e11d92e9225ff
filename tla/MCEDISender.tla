----------------------------- MODULE MCEDISender ------------------------------
(***************************************************************************)
(* The configurations of the sender that are checked: UDP and TCP at three   *)
(* bitrates (8, 64 and 192 kbit/s), and one with FEC, in which the fragments *)
(* of two AF packets are pending together.                                   *)
(***************************************************************************)
EXTENDS EDISender

MCConfs ==
    [enable_pft : BOOLEAN, fec : {0}, atstf : BOOLEAN, len : {24, 192, 576}]
        \cup [enable_pft : {TRUE}, fec : {1}, atstf : {FALSE}, len : {24}]
=============================================================================
