------------------------------- MODULE STIInput -------------------------------
(***************************************************************************)
(* AVTInput::_readFrame() and _findDABFrameFromUDP(): a datagram of the     *)
(* encoder is an STI frame, with or without an RTP header, and the frame    *)
(* in it goes to the jitter buffer under the number that its two count      *)
(* fields give.  AVTInput models what follows.                              *)
(*                                                                         *)
(* A datagram is a record of the fields that the code reads, and of the     *)
(* bytes that recvfrom() has stored of it, at most 1500.  The place of the   *)
(* frame follows from the header alone: the code does not compare it with   *)
(* the bytes received, and takes what is in the buffer there.               *)
(*                                                                         *)
(* The encoder (external) counts its frames modulo 5000; it uses the size   *)
(* that it was set to, by hand or by the control message of Startup.        *)
(***************************************************************************)
EXTENDS Startup

CONSTANTS
    FirstFrame,     \* number of the encoder's first frame
    MaxDatagram     \* bound: datagrams received

ASSUME FirstFrameAssumption == FirstFrame \in Nat

VARIABLES
    previousRtpIndex,   \* _previousRtpIndex
    info,               \* _lastInfoFrameType, _lastInfoSize, _infoNbFrame
    encoded,            \* frames the encoder has sent
    datagrams,          \* datagrams received
    jumps,              \* history: the sequence number jumps reported
    gaps,               \* history: RTP datagrams that did not follow the last one
    lastRtp,            \* history: number of the last RTP datagram, -1 before
    pushed,             \* history: the frames given to _ordered.push(), every byte
                        \*   of which was received
    partial,            \* history: numbers of the other frames given to it
    intact,             \* history: the frames of the encoder that arrived whole
    short               \* history: numbers of the frames that arrived in part

stiVars == <<previousRtpIndex, info, encoded, datagrams, jumps, gaps, lastRtp,
             pushed, partial, intact, short>>

STIInit ==
    /\ StartInit
    /\ previousRtpIndex = -1
    /\ info = [type |-> "cantExtract", size |-> 0, nbFrame |-> 0]
    /\ encoded = 0 /\ datagrams = 0
    /\ jumps = 0 /\ gaps = 0 /\ lastRtp = -1
    /\ pushed = <<>> /\ intact = <<>>
    /\ partial = {} /\ short = {}
-----------------------------------------------------------------------------
(* The encoder. *)

\* The size of a frame: the one of the control message, if there is one.
EncoderFrameSize == IF control = <<>> THEN conf.encoder.frameSize ELSE 24 * control[1][3]

MAX_AVT_FRAME_SIZE == 1500

\* UDPSocket::receive(): a longer datagram is cut.
received(n) == IF n > MAX_AVT_FRAME_SIZE THEN MAX_AVT_FRAME_SIZE ELSE n

\* The datagram of frame n: the headers, that of each stream, the end of the header
\* and the streams.  A stream's length counts its CRC, if it has one.
Datagram(n) ==
    LET e == conf.encoder
        stl == EncoderFrameSize + (IF e.crc THEN 2 ELSE 0)
    IN [rtp |-> e.rtp, version |-> 2, payloadType |-> 34, seqnr |-> n % 5000, sti |-> TRUE,
        DFCTH |-> (n % 5000) \div 250, DFCTL |-> n % 250,
        NST |-> e.streams, STL |-> stl, lastBit |-> e.lastBit,
        size |-> received((IF e.rtp THEN 12 ELSE 0) + 16 + 4 * e.streams + 4 + stl * e.streams)]

\* Datagrams of frame n that bring less than their header announces: the end is
\* missing, or the header counts more streams than there are (11 bits).
Shortened(n) ==
    LET d == Datagram(n)
        cut == params.frameSize + 20
    IN {[d EXCEPT !.NST = 2047]} \cup {x \in {[d EXCEPT !.size = cut]} : cut < d.size}

\* Datagrams that are no frame of the encoder: too short, of another RTP payload,
\* no STI.
Junk ==
    {[Datagram(0) EXCEPT !.size = 8],
     [Datagram(0) EXCEPT !.rtp = TRUE, !.payloadType = 33],
     [Datagram(0) EXCEPT !.rtp = FALSE, !.sti = FALSE]}
-----------------------------------------------------------------------------
(* _findDABFrameFromUDP() *)

\* The RTP header is looked for if there is no STI frame at the start.
isRTP(d) == d.rtp /\ d.size >= 12 /\ d.version = 2 /\ d.payloadType = 34

\* Mutant: the sequence number is a full RTP one.
isJump16(d) == previousRtpIndex # -1 /\ (previousRtpIndex + 1) % 65536 # d.seqnr

isJump(d) == previousRtpIndex # -1 /\ (previousRtpIndex + 1) % 5000 # d.seqnr

\* The first stream is taken; a frame of no stream is an error.
found(d) == d.sti /\ (~d.rtp \/ isRTP(d)) /\ d.NST >= 1

frameNumber(d) == d.DFCTH * 250 + d.DFCTL

\* The flag is the last bit of the stream's header: "buf[index+3] & 0x80 >> 7".
dataSize(d) == d.STL - (IF d.lastBit THEN 2 ELSE 0)

\* Where the data of the first stream starts: "index += NST*4+4".
dataOffset(d) == (IF d.rtp THEN 12 ELSE 0) + 20 + 4 * d.NST

\* The data ends within the bytes received; within the buffer, whose other bytes
\* are zero.
isWhole(d) == dataOffset(d) + dataSize(d) <= d.size
inBuffer(d) == dataOffset(d) + dataSize(d) <= MAX_AVT_FRAME_SIZE

\* _info(): the frames are counted, those of a wrong size too.
infoAfter(type, size) ==
    [type |-> type, size |-> size,
     nbFrame |-> info.nbFrame + (IF type = "cantExtract" THEN 0 ELSE 1)]

\* Mutant: the size of the frame is not checked.
acceptsAnySize(d) == d.size > params.frameSize /\ found(d)

\* _readFrame(): the frame goes to the jitter buffer.
accepts(d) == d.size > params.frameSize /\ found(d) /\ dataSize(d) = params.frameSize

\* _readFrame() for the datagram d.
readFrame(d) ==
    /\ datagrams < MaxDatagram
    /\ datagrams' = datagrams + 1
    /\ LET looked == d.size > params.frameSize
       IN /\ IF looked /\ isRTP(d)
             THEN /\ jumps' = jumps + (IF isJump(d) THEN 1 ELSE 0)
                  /\ previousRtpIndex' = d.seqnr
             ELSE UNCHANGED <<jumps, previousRtpIndex>>
          /\ info' = IF looked /\ found(d)
                     THEN infoAfter(IF d.rtp THEN "stiRtp" ELSE "sti", dataSize(d))
                     ELSE infoAfter("cantExtract", 0)
          /\ pushed' = IF accepts(d) /\ isWhole(d)
                       THEN Append(pushed, [number |-> frameNumber(d), size |-> dataSize(d)])
                       ELSE pushed
          /\ partial' = IF accepts(d) /\ ~isWhole(d)
                        THEN partial \cup {frameNumber(d)} ELSE partial

\* The frame of the encoder arrives with all its bytes.
arrivesWhole(n, d) ==
    /\ d = Datagram(n) /\ conf.encoder.streams > 0
    /\ dataOffset(d) + EncoderFrameSize <= d.size

\* A frame of the encoder arrives, whole or in part; `lost' frames before it do not.
ReadFrame(lost) ==
    /\ main = "running"
    /\ LET n == FirstFrame + encoded + lost
       IN \E d \in {Datagram(n)} \cup Shortened(n) :
          /\ readFrame(d)
          /\ encoded' = encoded + lost + 1
          /\ IF arrivesWhole(n, d)
             THEN /\ intact' = Append(intact, [number |-> n % 5000, size |-> EncoderFrameSize])
                  /\ UNCHANGED short
             ELSE short' = short \cup {n % 5000} /\ UNCHANGED intact
          /\ IF d.rtp /\ d.size > params.frameSize
             THEN /\ gaps' = gaps + (IF lastRtp # -1 /\ n # lastRtp + 1 THEN 1 ELSE 0)
                  /\ lastRtp' = n
             ELSE UNCHANGED <<gaps, lastRtp>>
    /\ UNCHANGED startVars

\* The data is looked for outside of the buffer: ReadFrame has some bytes there, or
\* the process is ended for the access.
ReadOutside ==
    /\ main = "running" /\ datagrams < MaxDatagram
    /\ \E d \in Shortened(FirstFrame + encoded) : accepts(d) /\ ~inBuffer(d)
    /\ main' = "killed"
    /\ UNCHANGED <<conf, destinations, padOpen, padBlocking, padPending, params, control, stiVars>>

ReadJunk ==
    /\ main = "running"
    /\ \E d \in Junk : readFrame(d)
    /\ UNCHANGED <<startVars, encoded, gaps, lastRtp, intact, short>>

STINext ==
    \/ StartNext /\ UNCHANGED stiVars
    \/ \E lost \in 0 .. 1 : ReadFrame(lost)
    \/ ReadOutside
    \/ ReadJunk

STISpec == STIInit /\ [][STINext]_<<startVars, stiVars>>
-----------------------------------------------------------------------------
\* What goes to the jitter buffer with all its bytes received are the frames of the
\* encoder that arrived whole, without their CRC, under their numbers modulo 5000
\* and in the order of arrival.  (All of them or none: the CRC flag is read from a
\* bit that is not the flag, and if the bits differ every frame has the wrong
\* size.)  _readFrame() does not see that a datagram is shorter than its header
\* announces, so frames that arrived in part may go there too, filled up with
\* bytes that were not received; but nothing that is no frame of the encoder.
OnlyWholeFramesPushed ==
    /\ pushed # <<>> =>
        pushed = intact /\ \A k \in DOMAIN pushed : pushed[k].size = params.frameSize
    /\ partial \subseteq short

\* Once the encoder has its settings from the control message, every frame that
\* arrives whole is accepted, if its stream has no CRC and the last bit of the
\* stream's header is clear: the size in the message is the size expected.
AgreedFramesAccepted ==
    control # <<>> /\ ~conf.encoder.crc /\ ~conf.encoder.lastBit => pushed = intact

\* The jumps reported are the gaps in the RTP datagrams received, also where
\* the numbers wrap at 5000; other datagrams in between count for nothing.
JumpsAreGaps == jumps = gaps
=============================================================================
