---------------------------------- MODULE Crc ---------------------------------
(***************************************************************************)
(* crc16() of lib/crc.c, as AFPacket.cpp and PFT.cpp use it: the CRC of a   *)
(* packet or header is appended to it in two bytes, and its receiver        *)
(* (external) computes it again.                                            *)
(***************************************************************************)
EXTENDS Integers, Sequences, Bitwise

CONSTANTS
    Messages,   \* byte sequences that get a CRC
    Bursts      \* damage to two adjacent bytes: pairs of bytes, not both zero

VARIABLES
    crcStage,   \* "unused", "idle", "sent", "checked"
    packet,     \* the message and its CRC, as the receiver gets it
    damaged,    \* history: the packet was damaged
    accepted    \* the receiver's verdict

crcVars == <<crcStage, packet, damaged, accepted>>

\* The table, with the index of a byte one less than its place.
crc16tab == <<
    \h0000, \h1021, \h2042, \h3063, \h4084, \h50a5, \h60c6, \h70e7,
    \h8108, \h9129, \ha14a, \hb16b, \hc18c, \hd1ad, \he1ce, \hf1ef,
    \h1231, \h0210, \h3273, \h2252, \h52b5, \h4294, \h72f7, \h62d6,
    \h9339, \h8318, \hb37b, \ha35a, \hd3bd, \hc39c, \hf3ff, \he3de,
    \h2462, \h3443, \h0420, \h1401, \h64e6, \h74c7, \h44a4, \h5485,
    \ha56a, \hb54b, \h8528, \h9509, \he5ee, \hf5cf, \hc5ac, \hd58d,
    \h3653, \h2672, \h1611, \h0630, \h76d7, \h66f6, \h5695, \h46b4,
    \hb75b, \ha77a, \h9719, \h8738, \hf7df, \he7fe, \hd79d, \hc7bc,
    \h48c4, \h58e5, \h6886, \h78a7, \h0840, \h1861, \h2802, \h3823,
    \hc9cc, \hd9ed, \he98e, \hf9af, \h8948, \h9969, \ha90a, \hb92b,
    \h5af5, \h4ad4, \h7ab7, \h6a96, \h1a71, \h0a50, \h3a33, \h2a12,
    \hdbfd, \hcbdc, \hfbbf, \heb9e, \h9b79, \h8b58, \hbb3b, \hab1a,
    \h6ca6, \h7c87, \h4ce4, \h5cc5, \h2c22, \h3c03, \h0c60, \h1c41,
    \hedae, \hfd8f, \hcdec, \hddcd, \had2a, \hbd0b, \h8d68, \h9d49,
    \h7e97, \h6eb6, \h5ed5, \h4ef4, \h3e13, \h2e32, \h1e51, \h0e70,
    \hff9f, \hefbe, \hdfdd, \hcffc, \hbf1b, \haf3a, \h9f59, \h8f78,
    \h9188, \h81a9, \hb1ca, \ha1eb, \hd10c, \hc12d, \hf14e, \he16f,
    \h1080, \h00a1, \h30c2, \h20e3, \h5004, \h4025, \h7046, \h6067,
    \h83b9, \h9398, \ha3fb, \hb3da, \hc33d, \hd31c, \he37f, \hf35e,
    \h02b1, \h1290, \h22f3, \h32d2, \h4235, \h5214, \h6277, \h7256,
    \hb5ea, \ha5cb, \h95a8, \h8589, \hf56e, \he54f, \hd52c, \hc50d,
    \h34e2, \h24c3, \h14a0, \h0481, \h7466, \h6447, \h5424, \h4405,
    \ha7db, \hb7fa, \h8799, \h97b8, \he75f, \hf77e, \hc71d, \hd73c,
    \h26d3, \h36f2, \h0691, \h16b0, \h6657, \h7676, \h4615, \h5634,
    \hd94c, \hc96d, \hf90e, \he92f, \h99c8, \h89e9, \hb98a, \ha9ab,
    \h5844, \h4865, \h7806, \h6827, \h18c0, \h08e1, \h3882, \h28a3,
    \hcb7d, \hdb5c, \heb3f, \hfb1e, \h8bf9, \h9bd8, \habbb, \hbb9a,
    \h4a75, \h5a54, \h6a37, \h7a16, \h0af1, \h1ad0, \h2ab3, \h3a92,
    \hfd2e, \hed0f, \hdd6c, \hcd4d, \hbdaa, \had8b, \h9de8, \h8dc9,
    \h7c26, \h6c07, \h5c64, \h4c45, \h3ca2, \h2c83, \h1ce0, \h0cc1,
    \hef1f, \hff3e, \hcf5d, \hdf7c, \haf9b, \hbfba, \h8fd9, \h9ff8,
    \h6e17, \h7e36, \h4e55, \h5e74, \h2e93, \h3eb2, \h0ed1, \h1ef0>>

\* What init_crc16tab() writes at index i of a table for the polynomial l_code.
init_crc16tab(l_code, l_init, i) ==
    LET nb == i ^^ 255
        crc[j \in 0 .. 8] ==
            IF j = 0 THEN l_init
            ELSE LET msb == (((nb \div 2^(8 - j)) % 2) + (crc[j - 1] \div 2^15)) % 2
                     shifted == (2 * crc[j - 1]) % 2^16
                 IN  IF msb = 1 THEN shifted ^^ l_code ELSE shifted
    IN  crc[8] ^^ \hff00

\* Mutant: the loop counts the length down before it tests it.
crc16Short(l_crc, data) ==
    LET crc[n \in 0 .. Len(data)] ==
            IF n = 0 THEN l_crc
            ELSE ((crc[n - 1] * 256) % 2^16)
                    ^^ crc16tab[((crc[n - 1] \div 2^8) ^^ data[n]) + 1]
    IN  crc[Len(data) - 1]

\* crc16(): the table is looked up once per byte.
crc16(l_crc, data) ==
    LET crc[n \in 0 .. Len(data)] ==
            IF n = 0 THEN l_crc
            ELSE ((crc[n - 1] * 256) % 2^16)
                    ^^ crc16tab[((crc[n - 1] \div 2^8) ^^ data[n]) + 1]
    IN  crc[Len(data)]

\* The CRC of a packet: all ones at first, inverted at last.
PacketCrc(msg) == crc16(\hffff, msg) ^^ \hffff

CrcInit ==
    /\ crcStage \in {"unused", "idle"}
    /\ packet = <<>>
    /\ damaged = FALSE
    /\ accepted = FALSE

\* The sender: the CRC goes behind the message, its high byte first.
AppendCrc(msg) ==
    /\ crcStage = "idle"
    /\ packet' = msg \o <<PacketCrc(msg) \div 2^8, PacketCrc(msg) % 2^8>>
    /\ crcStage' = "sent"
    /\ UNCHANGED <<damaged, accepted>>

\* The network (external) damages two adjacent bytes.
Burst(k, d) ==
    /\ crcStage = "sent" /\ ~damaged
    /\ packet' = [packet EXCEPT ![k] = @ ^^ d[1], ![k + 1] = @ ^^ d[2]]
    /\ damaged' = TRUE
    /\ UNCHANGED <<crcStage, accepted>>

\* The receiver.
CheckCrc ==
    /\ crcStage = "sent"
    /\ LET n == Len(packet) IN
       accepted' = (PacketCrc(SubSeq(packet, 1, n - 2)) =
                        packet[n - 1] * 2^8 + packet[n])
    /\ crcStage' = "checked"
    /\ UNCHANGED <<packet, damaged>>

CrcNext ==
    \/ \E msg \in Messages : AppendCrc(msg)
    \/ \E k \in 1 .. Len(packet) - 1, d \in Bursts : Burst(k, d)
    \/ CheckCrc
-----------------------------------------------------------------------------
\* The remainder of a bit sequence divided by the CCITT polynomial.
Remainder(bits) ==
    LET r[n \in 0 .. Len(bits)] ==
            IF n = 0 THEN 0
            ELSE LET x == 2 * r[n - 1] + bits[n]
                 IN  IF x >= 2^16 THEN x ^^ \h11021 ELSE x
    IN  r[Len(bits)]

BitsOf(bytes) == [k \in 1 .. 8 * Len(bytes) |->
    (bytes[((k - 1) \div 8) + 1] \div 2^(7 - ((k - 1) % 8))) % 2]

\* The table in the source is the table of the CCITT polynomial, entry by entry,
\* and init_crc16tab() makes the same one.
TableOfPolynomial ==
    crcStage = "idle" =>
        \A i \in 0 .. 255 :
            /\ crc16tab[i + 1] = Remainder(BitsOf(<<i, 0, 0>>))
            /\ crc16tab[i + 1] = init_crc16tab(\h1021, \hffff, i)

\* The receiver accepts a packet exactly if no burst of up to 16 bits hit it,
\* wherever the burst is, in the CRC too.
DetectsBursts == crcStage = "checked" => (accepted <=> ~damaged)

\* crc16() does what its polynomial promises: its table is the polynomial's, and
\* what is damaged is noticed.
CrcCorrect == TableOfPolynomial /\ DetectsBursts
=============================================================================
