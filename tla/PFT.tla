--------------------------------- MODULE PFT ----------------------------------
(***************************************************************************)
(* The packetisers of lib/edioutput as functions of lengths: how long the   *)
(* TAG items, the TAG packet and the AF packet are that carry a payload, and *)
(* which of its bytes each PF fragment carries.                              *)
(*                                                                         *)
(* A byte is represented by its position.  l is the length of an AF packet,  *)
(* m the number of fragments that can be recovered (configuration fec; zero  *)
(* disables Reed-Solomon).                                                   *)
(***************************************************************************)
EXTENDS Integers, Sequences

\* CEIL_DIV
CeilDiv(a, b) == IF a % b = 0 THEN a \div b ELSE a \div b + 1
-----------------------------------------------------------------------------
(* TAG items: four bytes of name, four of length, and the value. *)

TagStarPTR == 4 + 4 + 8
TagDSTI(atstf) == 4 + 4 + 2 + (IF atstf THEN 1 + 4 + 3 ELSE 0)
TagSSm(istd_length) == 4 + 4 + 3 + istd_length
TagODRAudioLevels == 4 + 4 + 2 * 2
TagODRVersion(version) == 4 + 4 + version + 4

\* The TAG packet of one EDI frame; tagpacket_alignment is zero, no padding.
\* version is the length of the version string, or -1 if the item is left out.
TagPacket(istd_length, atstf, version) ==
    TagStarPTR + TagDSTI(atstf) + TagSSm(istd_length) + TagODRAudioLevels
        + (IF version >= 0 THEN TagODRVersion(version) ELSE 0)

\* AFPacketiser::Assemble(): sync, length, sequence number, ar_cf and PT before
\* the TAG packet, a CRC behind it.
AFPacket(taglength) == 2 + 4 + 2 + 1 + 1 + taglength + 2
-----------------------------------------------------------------------------
(* Protect(): the AF packet is cut into chunks, each followed by its parity. *)

PARITYBYTES == 48
MaxChunk == 207     \* m_k

NumChunks(l) == CeilDiv(l, MaxChunk)
ChunkLen(l) == CeilDiv(l, NumChunks(l))
ZeroPad(l) == NumChunks(l) * ChunkLen(l) - l

\* Length of what is cut into fragments: the RS block, or the bare AF packet.
BlockLen(l, m) ==
    IF m > 0 THEN NumChunks(l) * (ChunkLen(l) + PARITYBYTES) ELSE l

\* The positions of chunk c and its parity in the RS block.
Chunk(l, c) ==
    LET n == ChunkLen(l) + PARITYBYTES IN c * n .. (c + 1) * n - 1
-----------------------------------------------------------------------------
(* ProtectAndFragment() *)

MaxPayload(l, m) ==
    IF m > 0 THEN (NumChunks(l) * PARITYBYTES) \div (m + 1) ELSE 1400

NumFragments(l, m) == CeilDiv(BlockLen(l, m), MaxPayload(l, m))

FragmentSize(l, m) == CeilDiv(BlockLen(l, m), NumFragments(l, m))

\* The piece of n bytes from the byte `from` on.
Piece(from, n) == [j \in 1 .. n |-> from + j - 1]

\* Mutant: the RS block is not interleaved.
FragmentContiguous(l, m, i) ==
    LET size == FragmentSize(l, m)
    IN  Piece(i * size, IF (i + 1) * size <= BlockLen(l, m) THEN size
                                                            ELSE BlockLen(l, m) - i * size)

\* The bytes of fragment i.  With Reed-Solomon the RS block is interleaved and
\* the rest of the last row is zero (-1); without it, it is cut into pieces, of
\* which the last ends with the AF packet.
Fragment(l, m, i) ==
    LET size == FragmentSize(l, m)
        n    == NumFragments(l, m)
        At(ix) == IF ix < BlockLen(l, m) THEN ix ELSE -1
    IN  IF m > 0
        THEN [j \in 1 .. size |-> At((j - 1) * n + i)]
        ELSE Piece(i * size, IF (i + 1) * size <= l THEN size ELSE l - i * size)
=============================================================================
