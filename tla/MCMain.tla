-------------------------------- MODULE MCMain --------------------------------
(***************************************************************************)
(* The main program and its codes for TLC.  A behaviour is about the start  *)
(* of the program and the datagrams it receives, or about the loop that     *)
(* writes superframes to the outputs, or about Reed-Solomon, or about the   *)
(* CRC.                                                                     *)
(***************************************************************************)
EXTENDS ReedSolomon, Crc, STIInput, MCStartup, Outputs

VARIABLE role   \* "start", "loop", "codec" or "crc": what the behaviour is about

P(symsize, gfpoly, fcr, prim, nroots, pad) ==
    [symsize |-> symsize, gfpoly |-> gfpoly, fcr |-> fcr, prim |-> prim,
     nroots |-> nroots, pad |-> pad]

\* Codes over GF(8) and GF(16) as PFT's over GF(256): full and shortened, with other
\* first roots and primitive elements; the field of the program's own polynomial;
\* polynomials that are not primitive, refused (x^3 + x^2 + x + 1) and accepted (x has
\* the order 5, and 51 in GF(256)); parameters out of range; and a prim that shares a
\* factor with nn.
MCParams ==
    {P(3, 11, 1, 1, 4, 0), P(3, 11, 1, 1, 4, 1), P(3, 13, 0, 3, 3, 2),
     P(4, 19, 1, 1, 4, 10), P(4, 25, 0, 7, 3, 11), P(8, 285, 1, 1, 2, 252),
     P(3, 15, 1, 1, 4, 0), P(4, 31, 1, 1, 4, 0), P(8, 283, 1, 1, 2, 252),
     P(9, 11, 1, 1, 4, 0), P(4, 19, 1, 3, 4, 0)}
MCData(r) ==
    LET k == r.nn - r.nroots - r.pad
    IN  {[i \in 1 .. k |-> (x * i + x) % (r.nn + 1)] : x \in {0, 3}}

MCMessages == [1 .. 3 -> {0, 65, 255}]
MCBursts == ({0, 1, 16, 128, 255} \X {0, 1, 16, 128, 255}) \ {<<0, 0>>}

MCInit ==
    /\ role \in {"start", "loop", "codec", "crc"}
    /\ RSInit /\ CrcInit /\ STIInit /\ Init
    /\ role = "codec" <=> stage # "unused"
    /\ role = "crc" <=> crcStage # "unused"
    /\ role = "start" <=> main # "unused"
    /\ role # "start" => conf = Usual /\ padPending = 0
MCNext ==
    /\ \/ role = "start" /\ STINext /\ UNCHANGED <<ovars, rsVars, crcVars>>
       \/ role = "loop" /\ Next /\ UNCHANGED <<startVars, stiVars, rsVars, crcVars>>
       \/ role = "codec" /\ RSNext /\ UNCHANGED <<startVars, stiVars, ovars, crcVars>>
       \/ role = "crc" /\ CrcNext /\ UNCHANGED <<startVars, stiVars, ovars, rsVars>>
    /\ UNCHANGED role
MCSpec == MCInit /\ [][MCNext]_<<role, startVars, stiVars, ovars, rsVars, crcVars>>
=============================================================================
