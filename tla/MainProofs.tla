------------------------------ MODULE MainProofs ------------------------------
(***************************************************************************)
(* Proofs about the main program, its start (STIInput) and its loop         *)
(* (Outputs), which share no state: the options a start leaves to the loop  *)
(* are the constants of Outputs.                                            *)
(***************************************************************************)
EXTENDS STIInput, Outputs, SequenceTheorems, FiniteSetTheorems, TLAPS

(***************************************************************************)
(* The start and the datagrams that are received then: the encoder is set   *)
(* to valid parameters or not at all, and what goes to the jitter buffer    *)
(* whole are the encoder's frames, for every set of options, every first    *)
(* frame number and every number of datagrams.                              *)
(***************************************************************************)
svars == <<startVars, stiVars>>

(* The steps of main before and after setDabPlusParameters(). *)
Before == {"unused", "options", "outputs", "pad", "input", "control", "padport",
           "purge", "parameters"}
Set == {"stats", "first", "running"}
Ended == {"refused", "crashed", "killed"}

(* The parameters of the options, once they have been checked. *)
ParametersValid ==
    /\ BitrateValid(conf.bitrate \div 8) /\ conf.channels \in {1, 2}
    /\ params.index = conf.bitrate \div 8
    /\ params.frameSize = conf.bitrate * 3

(* The inductive invariant of the start. *)
StartTypeOK ==
    /\ conf \in Confs
    /\ main \in Before \cup Set \cup Ended
    /\ main \notin {"unused", "options"} \cup Ended => OptionsValid
    /\ main \in Set => ParametersValid

ControlInv ==
    /\ main \in Before => control = <<>>
    /\ control # <<>> =>
        /\ control = <<ControlMessage(params)>>
        /\ ParametersValid /\ OptionsValid
        /\ main = "refused" => conf.stats
        /\ main = "crashed" => conf.padlen # 0 /\ ~padOpen

StartInv == StartTypeOK /\ ControlInv

(* The initial states satisfy the invariant: main has sent nothing. *)
LEMMA StartInitInv == StartInit => StartInv
  BY DEF StartInit, StartInv, StartTypeOK, ControlInv, Before, Set, Ended

(* The steps that only move main on, before the parameters are set. *)
LEMMA MovesOn ==
  ASSUME StartInv, main \in Before, main' \in Before \cup Ended,
         main' \notin {"unused", "options"} \cup Ended => OptionsValid,
         UNCHANGED <<conf, params, control>>
  PROVE  StartInv'
  BY DEF StartInv, StartTypeOK, ControlInv, Before, Set, Ended, OptionsValid, ParametersValid,
         BitrateValid, ControlMessage

(* The results of the functions that open a socket. *)
LEMMA AfterRange ==
  ASSUME NEW next, NEW r \in {"open", "error", "throws"}
  PROVE  After(r, next) \in {next, "refused", "crashed"}
  BY DEF After

LEMMA OpenRange ==
  ASSUME NEW u
  PROVE  /\ openSocketSrv(u) \subseteq {"open", "error", "throws"}
         /\ openSocketCli(u) \subseteq {"open", "error", "throws"}
<1>1. openSocketCli(u) \subseteq {"open", "error", "throws"}
  BY DEF openSocketCli
<1>2. CASE ~parseURI(u)
  BY <1>1, <1>2 DEF openSocketSrv
<1>3. CASE parseURI(u)
  <2> DEFINE B == reinit(u.port)
             J == IF u.address = "" THEN {TRUE} ELSE joinGroup(u.address)
             R == {IF bound /\ joined THEN "open" ELSE "throws" : bound \in B, joined \in J}
  <2>1. openSocketSrv(u) = R
    BY <1>3 DEF openSocketSrv
  <2> HIDE DEF B, J
  <2>2. R \subseteq {"open", "throws"}
    OBVIOUS
  <2>. QED
    BY <1>1, <2>1, <2>2
<1>. QED
  BY <1>2, <1>3

(* Every step of the start keeps the invariant. *)
LEMMA StartNextInv == StartInv /\ StartNext => StartInv'
<1> SUFFICES ASSUME StartInv, StartNext PROVE StartInv'
  OBVIOUS
<1>1. CASE CheckOptions
  BY <1>1, MovesOn DEF CheckOptions, Before, Ended, StartInv, StartTypeOK
<1>2. CASE ConnectOutputs
  <2>1. main' \in {"pad", "crashed"}
    BY <1>2 DEF ConnectOutputs
  <2>. QED
    BY <1>2, <2>1, MovesOn DEF ConnectOutputs, Before, Ended, StartInv, StartTypeOK
<1>3. CASE OpenPad
  <2>1. main' \in {"input", "crashed"}
    BY <1>3 DEF OpenPad
  <2>. QED
    BY <1>3, <2>1, MovesOn DEF OpenPad, Before, Ended, StartInv, StartTypeOK
<1>4. CASE OpenInput
  <2>1. main' \in {"control", "refused", "crashed"}
    BY <1>4, AfterRange, OpenRange DEF OpenInput
  <2>. QED
    BY <1>4, <2>1, MovesOn DEF OpenInput, Before, Ended, StartInv, StartTypeOK
<1>5. CASE OpenControl
  <2>1. main' \in {"padport", "refused", "crashed"}
    BY <1>5, AfterRange, OpenRange DEF OpenControl
  <2>. QED
    BY <1>5, <2>1, MovesOn DEF OpenControl, Before, Ended, StartInv, StartTypeOK
<1>6. CASE OpenPadPort
  <2>1. main' \in {"parameters", "purge", "crashed"}
    BY <1>6 DEF OpenPadPort
  <2>. QED
    BY <1>6, <2>1, MovesOn DEF OpenPadPort, Before, Ended, StartInv, StartTypeOK
<1>7. CASE Purge
  <2>1. main' \in {"parameters", "purge"}
    BY <1>7 DEF Purge
  <2>. QED
    BY <1>7, <2>1, MovesOn DEF Purge, Before, Ended, StartInv, StartTypeOK
<1>8. CASE SetDabPlusParameters
  <2> DEFINE index == conf.bitrate \div 8
             rateOk == BitrateValid(index) /\ conf.rate \in {32000, 48000}
             valid == rateOk /\ conf.channels \in {1, 2}
  <2>1. /\ main = "parameters" /\ control = <<>> /\ OptionsValid /\ conf \in Confs
        /\ UNCHANGED <<conf, padOpen>>
    BY <1>8 DEF SetDabPlusParameters, StartInv, StartTypeOK, ControlInv, Before, Set, Ended
  <2>2. /\ params'.index = index /\ params'.frameSize = conf.bitrate * 3
        /\ \/ valid /\ main' = "stats" /\ control' = Append(control, ControlMessage(params'))
           \/ valid /\ main' \in {"stats", "crashed"} /\ control' = control
           \/ ~valid /\ main' = "refused" /\ control' = control
    BY <1>8 DEF SetDabPlusParameters
  <2>3. CASE valid
    <3>1. main' = "stats" \/ (main' = "crashed" /\ control' = <<>>)
      BY <2>1, <2>2, <2>3
    <3>2. ParametersValid' /\ OptionsValid'
      BY <2>1, <2>2, <2>3 DEF ParametersValid, BitrateValid, OptionsValid
    <3>3. control' = <<>> \/ control' = <<ControlMessage(params)>>'
      BY <2>1, <2>2, <2>3 DEF ControlMessage
    <3>. QED
      BY <2>1, <3>1, <3>2, <3>3 DEF StartInv, StartTypeOK, ControlInv, Before, Set, Ended
  <2>4. CASE ~valid
    <3>1. main' = "refused" /\ control' = <<>>
      BY <2>1, <2>2, <2>4
    <3>. QED
      BY <2>1, <3>1 DEF StartInv, StartTypeOK, ControlInv, Before, Set, Ended
  <2>. QED
    BY <2>3, <2>4
<1>9. CASE OpenStats
  <2>1. main = "stats" /\ main' \in {"first", "refused"} /\ (main' = "refused" => conf.stats)
    BY <1>9 DEF OpenStats
  <2>2. UNCHANGED <<conf, params, control, padOpen>>
    BY <1>9 DEF OpenStats
  <2>. QED
    BY <2>1, <2>2 DEF StartInv, StartTypeOK, ControlInv, Before, Set, Ended, OptionsValid,
       ParametersValid, BitrateValid, ControlMessage
<1>10. CASE FirstTurn
  <2>1. /\ main = "first" /\ main' \in {"crashed", "running"}
        /\ main' = "crashed" => conf.padlen # 0 /\ ~padOpen
    BY <1>10 DEF FirstTurn, requestThrows
  <2>2. UNCHANGED <<conf, params, control, padOpen>>
    BY <1>10 DEF FirstTurn
  <2>. QED
    BY <2>1, <2>2 DEF StartInv, StartTypeOK, ControlInv, Before, Set, Ended, OptionsValid,
       ParametersValid, BitrateValid, ControlMessage
<1>. QED
  BY <1>1, <1>2, <1>3, <1>4, <1>5, <1>6, <1>7, <1>8, <1>9, <1>10 DEF StartNext
-----------------------------------------------------------------------------
(* The datagrams of the encoder: their size, and whether they are looked at  *)
(* and accepted, depend on the options and not on the number of the frame.   *)

Numbered == [number : Int, size : Int]

(* The sizes that the program and the encoder have in the loop are whole    *)
(* multiples of 24; if the control message was sent they agree.             *)
LEMMA SizesAgree ==
  ASSUME StartInv, main = "running"
  PROVE  /\ params.frameSize \in Nat /\ params.frameSize >= 24 /\ params.frameSize % 24 = 0
         /\ params.frameSize <= 576
         /\ EncoderFrameSize \in Nat /\ EncoderFrameSize % 24 = 0
         /\ control # <<>> => EncoderFrameSize = params.frameSize
<1>1. ParametersValid /\ conf \in Confs
  BY DEF StartInv, StartTypeOK, Set
<1>2. conf.bitrate \in Int /\ conf.encoder.frameSize \in Nat /\ conf.encoder.frameSize % 24 = 0
  BY <1>1, ConfsAssumption
<1>3. PICK b \in Int : b = conf.bitrate
  BY <1>2
<1>4. PICK i \in Int : i = params.index
  BY <1>1, <1>3 DEF ParametersValid
<1>5. i * 8 = b /\ i \in 1 .. 24 /\ params.frameSize = b * 3
  BY <1>1, <1>3, <1>4 DEF ParametersValid, BitrateValid
<1>6. /\ params.frameSize = 24 * i
      /\ 24 * i \in Nat /\ 24 * i >= 24 /\ 24 * i <= 576 /\ (24 * i) % 24 = 0 /\ i % 256 = i
  BY <1>5
<1>7. CASE control = <<>>
  BY <1>2, <1>6, <1>7 DEF EncoderFrameSize
<1>8. CASE control # <<>>
  <2>1. control = <<ControlMessage(params)>>
    BY <1>8 DEF StartInv, ControlInv
  <2>2. control[1][3] = i
    BY <2>1, <1>4, <1>6 DEF ControlMessage
  <2>. QED
    BY <1>8, <2>2, <1>6 DEF EncoderFrameSize
<1>. QED
  BY <1>7, <1>8

(* A number modulo 5000 is what the two count fields of the header give. *)
LEMMA CountFields ==
  ASSUME NEW n \in Nat
  PROVE  ((n % 5000) \div 250) * 250 + (n % 250) = n % 5000
  OBVIOUS

(* The numbers modulo 5000 of a frame and of one before it show a gap, as    *)
(* frames are lost one at a time.                                            *)
LEMMA JumpIsGap ==
  ASSUME NEW m \in Nat, NEW n \in Nat, n \in {m + 1, m + 2}
  PROVE  ((m % 5000) + 1) % 5000 # n % 5000 <=> n # m + 1
  OBVIOUS

(* The datagram of frame n, in the loop. *)
LEMMA DatagramIs ==
  ASSUME StartInv, main = "running", NEW n \in Nat
  PROVE  /\ Datagram(n).size \in 20 .. MAX_AVT_FRAME_SIZE
         /\ Datagram(n).size = Datagram(0).size
         /\ conf.encoder.streams > 0 =>
              Datagram(n).size > EncoderFrameSize \/ Datagram(n).size = MAX_AVT_FRAME_SIZE
         /\ isRTP(Datagram(n)) <=> conf.encoder.rtp
         /\ Datagram(n).rtp = conf.encoder.rtp
         /\ Datagram(n).seqnr = n % 5000
         /\ frameNumber(Datagram(n)) = n % 5000
         /\ dataOffset(Datagram(n)) = dataOffset(Datagram(0))
         /\ dataSize(Datagram(n)) = dataSize(Datagram(0))
         /\ accepts(Datagram(n)) <=> accepts(Datagram(0))
         /\ isWhole(Datagram(n)) <=> isWhole(Datagram(0))
<1> DEFINE e == conf.encoder
           stl == EncoderFrameSize + (IF e.crc THEN 2 ELSE 0)
           full == (IF e.rtp THEN 12 ELSE 0) + 16 + 4 * e.streams + 4 + stl * e.streams
           sz == received(full)
<1>1. e.streams \in Nat /\ e.rtp \in BOOLEAN /\ e.crc \in BOOLEAN
  BY ConfsAssumption DEF StartInv, StartTypeOK
<1>2. stl \in Nat /\ stl >= EncoderFrameSize /\ EncoderFrameSize \in Nat
  <2>1. EncoderFrameSize \in Nat
    BY SizesAgree
  <2>. QED
    BY <1>1, <2>1
<1>3. /\ full \in Nat /\ full >= 20 /\ (e.rtp => full >= 32)
      /\ e.streams > 0 => full > stl
  <2> HIDE DEF e, stl
  <2>1. stl * e.streams \in Nat /\ (e.streams > 0 => stl * e.streams >= stl)
    BY <1>1, <1>2
  <2>. QED
    BY <1>1, <1>2, <2>1
<1>4. \A k \in Nat :
        /\ Datagram(k).size = sz /\ Datagram(k).rtp = e.rtp /\ Datagram(k).version = 2
        /\ Datagram(k).payloadType = 34 /\ Datagram(k).seqnr = k % 5000
        /\ Datagram(k).DFCTH = (k % 5000) \div 250 /\ Datagram(k).DFCTL = k % 250
        /\ Datagram(k).sti = TRUE /\ Datagram(k).NST = e.streams
        /\ Datagram(k).STL = stl /\ Datagram(k).lastBit = e.lastBit
  BY DEF Datagram
<1> HIDE DEF stl, full, e
<1>5. conf.encoder = e
  BY DEF e
<1>13. sz \in 20 .. MAX_AVT_FRAME_SIZE /\ (e.rtp => sz >= 32) /\ (sz = full \/ sz = MAX_AVT_FRAME_SIZE)
  BY <1>3 DEF received, MAX_AVT_FRAME_SIZE
<1> HIDE DEF sz
<1>6. \A k \in Nat : isRTP(Datagram(k)) <=> e.rtp
  BY <1>4, <1>13 DEF isRTP, MAX_AVT_FRAME_SIZE
<1>7. frameNumber(Datagram(n)) = n % 5000
  <2>1. PICK h \in Int : h = (n % 5000) \div 250
    OBVIOUS
  <2>2. PICK l \in Int : l = n % 250
    OBVIOUS
  <2>3. Datagram(n).DFCTH = h /\ Datagram(n).DFCTL = l
    BY <1>4, <2>1, <2>2
  <2>4. frameNumber(Datagram(n)) = h * 250 + l
    BY <2>3 DEF frameNumber
  <2>5. h * 250 + l = n % 5000
    BY <2>1, <2>2, CountFields
  <2>. QED
    BY <2>4, <2>5
<1>8. /\ dataSize(Datagram(n)) = dataSize(Datagram(0))
      /\ dataOffset(Datagram(n)) = dataOffset(Datagram(0))
  BY <1>4 DEF dataSize, dataOffset
<1>9. found(Datagram(n)) <=> found(Datagram(0))
  BY <1>4, <1>6 DEF found
<1>10. Datagram(n).size = Datagram(0).size
  BY <1>4
<1>11. /\ accepts(Datagram(n)) <=> accepts(Datagram(0))
       /\ isWhole(Datagram(n)) <=> isWhole(Datagram(0))
  BY <1>8, <1>9, <1>10 DEF accepts, isWhole
<1>12. e.streams > 0 => sz > EncoderFrameSize \/ sz = MAX_AVT_FRAME_SIZE
  BY <1>1, <1>2, <1>3, <1>13
<1>. QED
  BY <1>4, <1>5, <1>6, <1>7, <1>8, <1>10, <1>11, <1>12, <1>13

(* The datagrams of frame n that bring less than they announce: they have the *)
(* number of the frame, are looked at if a whole one is, and are never found  *)
(* to be whole.                                                               *)
LEMMA ShortenedIs ==
  ASSUME StartInv, main = "running", NEW n \in Nat, NEW d \in Shortened(n)
  PROVE  /\ d.size > params.frameSize <=> Datagram(n).size > params.frameSize
         /\ isRTP(d) <=> conf.encoder.rtp
         /\ d.rtp = conf.encoder.rtp
         /\ d.seqnr = n % 5000
         /\ frameNumber(d) = n % 5000
         /\ ~(accepts(d) /\ isWhole(d))
<1>1. params.frameSize \in 24 .. 576
  <2>1. params.frameSize \in Nat /\ params.frameSize >= 24 /\ params.frameSize <= 576
    BY SizesAgree
  <2>. QED
    BY <2>1
<1>2. /\ Datagram(n).size \in 20 .. 1500
      /\ isRTP(Datagram(n)) <=> conf.encoder.rtp
      /\ Datagram(n).rtp = conf.encoder.rtp
      /\ Datagram(n).seqnr = n % 5000
      /\ frameNumber(Datagram(n)) = n % 5000
  BY DatagramIs DEF MAX_AVT_FRAME_SIZE
<1>3. /\ conf.encoder.rtp \in BOOLEAN /\ Datagram(n).NST \in Nat
      /\ Datagram(n).sti = TRUE
  BY ConfsAssumption DEF StartInv, StartTypeOK, Datagram
<1>4. CASE d = [Datagram(n) EXCEPT !.NST = 2047]
  <2>1. /\ d.NST = 2047 /\ d.size = Datagram(n).size /\ d.rtp = Datagram(n).rtp
        /\ d.version = Datagram(n).version /\ d.payloadType = Datagram(n).payloadType
        /\ d.seqnr = Datagram(n).seqnr /\ d.DFCTH = Datagram(n).DFCTH
        /\ d.DFCTL = Datagram(n).DFCTL
    BY <1>4 DEF Datagram
  <2>2. isRTP(d) <=> isRTP(Datagram(n))
    BY <2>1 DEF isRTP
  <2>3. frameNumber(d) = frameNumber(Datagram(n))
    BY <2>1 DEF frameNumber
  <2>4. ~(accepts(d) /\ isWhole(d))
    <3> SUFFICES ASSUME accepts(d), isWhole(d) PROVE FALSE
      OBVIOUS
    <3>1. dataOffset(d) >= 8208 /\ dataOffset(d) \in Nat
      BY <1>2, <1>3, <2>1 DEF dataOffset
    <3>2. dataSize(d) \in Nat
      BY <1>1 DEF accepts
    <3>. QED
      BY <1>2, <2>1, <3>1, <3>2 DEF isWhole
  <2>. QED
    BY <1>2, <2>1, <2>2, <2>3, <2>4
<1>5. CASE d = [Datagram(n) EXCEPT !.size = params.frameSize + 20]
           /\ params.frameSize + 20 < Datagram(n).size
  <2>1. /\ d.size = params.frameSize + 20 /\ d.NST = Datagram(n).NST /\ d.rtp = Datagram(n).rtp
        /\ d.version = Datagram(n).version /\ d.payloadType = Datagram(n).payloadType
        /\ d.seqnr = Datagram(n).seqnr /\ d.DFCTH = Datagram(n).DFCTH
        /\ d.DFCTL = Datagram(n).DFCTL
    BY <1>5 DEF Datagram
  <2>6. d.size >= 12 /\ Datagram(n).size >= 12 /\ d.size > params.frameSize
        /\ Datagram(n).size > params.frameSize
    <3>1. PICK f \in 24 .. 576 : f = params.frameSize
      BY <1>1
    <3>2. PICK z \in 20 .. 1500 : z = Datagram(n).size
      BY <1>2
    <3>3. f + 20 < z /\ d.size = f + 20
      BY <1>5, <2>1, <3>1, <3>2
    <3>4. f + 20 >= 12 /\ z >= 12 /\ f + 20 > f /\ z > f
      BY <3>3
    <3>. QED
      BY <3>1, <3>2, <3>3, <3>4
  <2>2. isRTP(d) <=> isRTP(Datagram(n))
    BY <2>1, <2>6 DEF isRTP
  <2>3. frameNumber(d) = frameNumber(Datagram(n))
    BY <2>1 DEF frameNumber
  <2>4. ~(accepts(d) /\ isWhole(d))
    <3> SUFFICES ASSUME accepts(d), isWhole(d) PROVE FALSE
      OBVIOUS
    <3>1. d.NST \in Nat /\ d.NST >= 1 /\ dataSize(d) = params.frameSize
      BY <1>3, <2>1 DEF accepts, found
    <3>2. dataOffset(d) >= 24 /\ dataOffset(d) \in Nat
      BY <1>2, <1>3, <2>1, <3>1 DEF dataOffset
    <3>. QED
      BY <1>1, <2>1, <3>1, <3>2 DEF isWhole
  <2>. QED
    BY <1>2, <2>1, <2>2, <2>3, <2>4, <2>6
<1>. QED
  BY <1>4, <1>5 DEF Shortened

(* A datagram of the encoder that is accepted has a stream, and its frame    *)
(* has the size that the encoder was set to, without its CRC.                *)
LEMMA AcceptedIsWhole ==
  ASSUME StartInv, main = "running", accepts(Datagram(0))
  PROVE  /\ conf.encoder.streams > 0
         /\ dataSize(Datagram(0)) = params.frameSize
         /\ EncoderFrameSize = params.frameSize
<1>1. /\ conf.encoder.crc \in BOOLEAN /\ conf.encoder.lastBit \in BOOLEAN
      /\ conf.encoder.streams \in Nat
  BY ConfsAssumption DEF StartInv, StartTypeOK
<1>2. PICK p \in Nat : p = params.frameSize /\ p % 24 = 0
  BY SizesAgree
<1>3. PICK f \in Nat : f = EncoderFrameSize /\ f % 24 = 0
  BY SizesAgree
<1>4. Datagram(0).NST >= 1 /\ dataSize(Datagram(0)) = p
  BY <1>2 DEF accepts, found
<1>5. /\ Datagram(0).STL = f + (IF conf.encoder.crc THEN 2 ELSE 0)
      /\ Datagram(0).lastBit = conf.encoder.lastBit
  BY <1>3 DEF Datagram
<1>6. dataSize(Datagram(0)) \in {f - 2, f, f + 2}
  BY <1>1, <1>3, <1>5 DEF dataSize
<1>7. p = f
  BY <1>2, <1>3, <1>4, <1>6
<1>8. conf.encoder.streams > 0
  BY <1>1, <1>4 DEF Datagram
<1>. QED
  BY <1>2, <1>3, <1>4, <1>7, <1>8

(* With the settings of the control message and no CRC or flag, a datagram   *)
(* that has a stream is accepted.                                            *)
LEMMA AgreedIsAccepted ==
  ASSUME StartInv, main = "running", control # <<>>, conf.encoder.streams > 0,
         ~conf.encoder.crc, ~conf.encoder.lastBit
  PROVE  accepts(Datagram(0))
<1>1. /\ EncoderFrameSize = params.frameSize /\ EncoderFrameSize \in Nat
      /\ conf.encoder.streams \in Nat
  BY SizesAgree, ConfsAssumption DEF StartInv, StartTypeOK
<1>2. Datagram(0).size > params.frameSize /\ (isRTP(Datagram(0)) <=> conf.encoder.rtp)
  <2>1. /\ isRTP(Datagram(0)) <=> conf.encoder.rtp
        /\ Datagram(0).size > EncoderFrameSize \/ Datagram(0).size = MAX_AVT_FRAME_SIZE
    BY DatagramIs, 0 \in Nat
  <2>2. params.frameSize \in Nat /\ params.frameSize <= 576
    BY SizesAgree
  <2>. QED
    BY <1>1, <2>1, <2>2 DEF MAX_AVT_FRAME_SIZE
<1>3. found(Datagram(0))
  BY <1>1, <1>2 DEF found, Datagram
<1>4. dataSize(Datagram(0)) = params.frameSize
  BY <1>1 DEF dataSize, Datagram
<1>. QED
  BY <1>2, <1>3, <1>4 DEF accepts

(* The datagrams that are not the encoder's are neither taken for RTP nor    *)
(* accepted.                                                                 *)
LEMMA JunkIgnored ==
  ASSUME StartInv, main = "running", NEW d \in Junk
  PROVE  ~isRTP(d) /\ ~accepts(d)
<1>1. params.frameSize \in Nat /\ params.frameSize >= 24
  BY SizesAgree
<1>2. CASE d = [Datagram(0) EXCEPT !.size = 8]
  <2>1. d.size = 8
    BY <1>2 DEF Datagram
  <2>. QED
    BY <1>1, <2>1 DEF isRTP, accepts
<1>3. CASE d = [Datagram(0) EXCEPT !.rtp = TRUE, !.payloadType = 33]
  <2>1. d.rtp = TRUE /\ d.payloadType = 33
    BY <1>3 DEF Datagram
  <2>. QED
    BY <2>1 DEF isRTP, accepts, found
<1>4. CASE d = [Datagram(0) EXCEPT !.rtp = FALSE, !.sti = FALSE]
  <2>1. d.rtp = FALSE /\ d.sti = FALSE
    BY <1>4 DEF Datagram
  <2>. QED
    BY <2>1 DEF isRTP, accepts, found
<1>. QED
  BY <1>2, <1>3, <1>4 DEF Junk
-----------------------------------------------------------------------------
(* The inductive invariant of the datagrams. *)

(* RTP datagrams of the encoder are looked at. *)
RtpSeen == conf.encoder.rtp /\ Datagram(0).size > params.frameSize

(* Nothing is received before the loop. *)
IdleInv ==
    main \notin {"running", "killed"} =>
        encoded = 0 /\ pushed = <<>> /\ intact = <<>> /\ partial = {}

(* The last RTP number belongs to the last frame, if they are looked at.     *)
RtpInv ==
    /\ encoded \in Nat
    /\ RtpSeen /\ encoded > 0 =>
        lastRtp = FirstFrame + encoded - 1 /\ previousRtpIndex = lastRtp % 5000
    /\ ~(RtpSeen /\ encoded > 0) => lastRtp = -1 /\ previousRtpIndex = -1

(* The frames of the encoder arrive with all their bytes, unless they come in  *)
(* datagrams that are too long; they are accepted and whole to the code.       *)
Arrives == conf.encoder.streams > 0 /\ dataOffset(Datagram(0)) + EncoderFrameSize <= Datagram(0).size
Accepted == accepts(Datagram(0)) /\ isWhole(Datagram(0))

(* All frames of the encoder that arrive whole are accepted or none.         *)

PushedInv ==
    main \in {"running", "killed"} =>
        /\ pushed \in Seq(Numbered) /\ intact \in Seq(Numbered)
        /\ Accepted =>
            pushed = intact /\ \A k \in DOMAIN pushed : pushed[k].size = params.frameSize
        /\ ~Accepted => pushed = <<>>
        /\ ~Arrives => intact = <<>>

STIInv ==
    /\ StartInv /\ IdleInv /\ RtpInv /\ PushedInv /\ partial \subseteq short
    /\ AgreedFramesAccepted /\ JumpsAreGaps

(* What is accepted arrives, and with the settings of the control message what  *)
(* arrives is accepted.                                                         *)
LEMMA AcceptedArrives ==
  ASSUME StartInv, main = "running"
  PROVE  /\ accepts(Datagram(0)) => (isWhole(Datagram(0)) <=> Arrives)
         /\ control # <<>> /\ ~conf.encoder.crc /\ ~conf.encoder.lastBit => (Accepted <=> Arrives)
<1>1. accepts(Datagram(0)) => (isWhole(Datagram(0)) <=> Arrives)
  <2> SUFFICES ASSUME accepts(Datagram(0)) PROVE isWhole(Datagram(0)) <=> Arrives
    OBVIOUS
  <2>1. dataSize(Datagram(0)) = EncoderFrameSize /\ conf.encoder.streams > 0
    BY AcceptedIsWhole
  <2>. QED
    BY <2>1 DEF isWhole, Arrives
<1>2. ASSUME control # <<>>, ~conf.encoder.crc, ~conf.encoder.lastBit
      PROVE  Accepted <=> Arrives
  <2>1. Arrives => accepts(Datagram(0))
    BY <1>2, AgreedIsAccepted DEF Arrives
  <2>. QED
    BY <1>1, <2>1 DEF Accepted
<1>. QED
  BY <1>1, <1>2

(* What Datagram and accepts depend on stays as it is once main runs. *)
LEMMA SettingsStay ==
  ASSUME UNCHANGED <<conf, params, control>>
  PROVE  /\ (Accepted' <=> Accepted) /\ (Arrives' <=> Arrives) /\ (RtpSeen' <=> RtpSeen)
         /\ (StartInv /\ UNCHANGED <<main, padOpen>> => StartInv')
<1>1. params' = params /\ conf' = conf /\ control' = control
  OBVIOUS
<1>2. EncoderFrameSize' = EncoderFrameSize
  BY <1>1 DEF EncoderFrameSize
<1>3. Datagram(0)' = Datagram(0)
  BY <1>1, <1>2, SMT DEF Datagram, received, MAX_AVT_FRAME_SIZE
<1>4. Accepted' <=> Accepted
  BY <1>1, <1>3 DEF Accepted, accepts, found, isRTP, dataSize, isWhole, dataOffset
<1>5. RtpSeen' <=> RtpSeen
  BY <1>1, <1>3 DEF RtpSeen
<1>7. Arrives' <=> Arrives
  BY <1>1, <1>2, <1>3 DEF Arrives, dataOffset
<1>6. StartInv /\ UNCHANGED <<main, padOpen>> => StartInv'
  BY <1>1 DEF StartInv, StartTypeOK, ControlInv, OptionsValid, ParametersValid, BitrateValid,
     ControlMessage
<1>. QED
  BY <1>4, <1>5, <1>6, <1>7

(* The initial states satisfy the invariant: no datagram has arrived. *)
LEMMA STIInitInv == STIInit => STIInv
<1> SUFFICES ASSUME STIInit PROVE STIInv
  OBVIOUS
<1>1. StartInv /\ main \notin {"running", "killed"}
  BY StartInitInv DEF STIInit, StartInit
<1>2. encoded = 0 /\ lastRtp = -1 /\ previousRtpIndex = -1 /\ jumps = gaps
      /\ pushed = <<>> /\ intact = <<>> /\ partial = {} /\ short = {}
  BY DEF STIInit
<1>. QED
  BY <1>1, <1>2 DEF STIInv, IdleInv, RtpInv, PushedInv, JumpsAreGaps, AgreedFramesAccepted

(* The start does not touch what the loop receives, and ends with it empty. *)
LEMMA StartKeeps ==
  ASSUME STIInv, StartNext, UNCHANGED stiVars
  PROVE  STIInv'
<1>1. StartInv'
  BY StartNextInv DEF STIInv
<1>2. main \notin {"running", "killed"}
  <2>1. CheckOptions \/ ConnectOutputs \/ OpenPad \/ OpenInput => main \notin {"running", "killed"}
    BY DEF CheckOptions, ConnectOutputs, OpenPad, OpenInput
  <2>2. OpenControl \/ OpenPadPort \/ Purge => main \notin {"running", "killed"}
    BY DEF OpenControl, OpenPadPort, Purge
  <2>3. SetDabPlusParameters => main \notin {"running", "killed"}
    BY DEF SetDabPlusParameters
  <2>4. OpenStats \/ FirstTurn => main \notin {"running", "killed"}
    BY DEF OpenStats, FirstTurn
  <2>. QED
    BY <2>1, <2>2, <2>3, <2>4 DEF StartNext
<1>3. /\ encoded = 0 /\ pushed = <<>> /\ intact = <<>> /\ lastRtp = -1 /\ previousRtpIndex = -1
      /\ jumps = gaps /\ partial = {}
  BY <1>2 DEF STIInv, IdleInv, RtpInv, JumpsAreGaps
<1>4. /\ encoded' = 0 /\ pushed' = <<>> /\ intact' = <<>> /\ lastRtp' = -1
      /\ previousRtpIndex' = -1 /\ jumps' = gaps' /\ partial' = {}
  BY <1>3 DEF stiVars
<1>. QED
  BY <1>1, <1>4 DEF STIInv, IdleInv, RtpInv, PushedInv, JumpsAreGaps, AgreedFramesAccepted

(* A step that leaves the settings, the frames and the RTP number alone: main    *)
(* goes on, or it is ended.                                                      *)
LEMMA NothingRead ==
  ASSUME STIInv, StartInv', UNCHANGED <<conf, params, control>>,
         main' = main \/ (main = "running" /\ main' = "killed"),
         UNCHANGED <<encoded, gaps, lastRtp, intact, short, jumps, previousRtpIndex, pushed, partial>>
  PROVE  STIInv'
<1>1. IdleInv' /\ JumpsAreGaps' /\ AgreedFramesAccepted' /\ (partial \subseteq short)'
  BY DEF STIInv, IdleInv, JumpsAreGaps, AgreedFramesAccepted
<1>2. RtpInv'
  BY SettingsStay DEF STIInv, RtpInv
<1>3. PushedInv'
  BY SettingsStay DEF STIInv, PushedInv
<1>. QED
  BY <1>1, <1>2, <1>3 DEF STIInv

(* A datagram that is not the encoder's changes neither the RTP number nor   *)
(* the frames.                                                               *)
LEMMA JunkKeeps ==
  ASSUME STIInv, ReadJunk
  PROVE  STIInv'
<1>1. /\ main = "running" /\ UNCHANGED <<conf, params, control, main, padOpen>>
      /\ UNCHANGED <<encoded, gaps, lastRtp, intact, short>>
  BY DEF ReadJunk, startVars
<1>2. PICK d \in Junk : readFrame(d)
  BY DEF ReadJunk
<1>3. ~isRTP(d) /\ ~accepts(d)
  BY <1>1, JunkIgnored DEF STIInv
<1>4. UNCHANGED <<jumps, previousRtpIndex, pushed, partial>>
  BY <1>2, <1>3 DEF readFrame
<1>5. StartInv'
  BY <1>1, SettingsStay DEF STIInv
<1>. QED
  BY <1>1, <1>4, <1>5, NothingRead

(* The process is ended: nothing else changes. *)
LEMMA OutsideKeeps ==
  ASSUME STIInv, ReadOutside
  PROVE  STIInv'
<1>1. /\ main = "running" /\ main' = "killed" /\ UNCHANGED <<conf, params, control, padOpen>>
      /\ UNCHANGED <<encoded, gaps, lastRtp, intact, short, jumps, previousRtpIndex, pushed, partial>>
  BY DEF ReadOutside, stiVars
<1>2. StartInv'
  BY <1>1 DEF STIInv, StartInv, StartTypeOK, ControlInv, OptionsValid, ParametersValid,
     BitrateValid, ControlMessage, Before, Set, Ended
<1>. QED
  BY <1>1, <1>2, NothingRead

(* A frame of the encoder: the jump reported is a gap, and the frame is       *)
(* pushed, if it is whole and frames are accepted at all.                     *)
LEMMA FrameKeeps ==
  ASSUME STIInv, NEW lost \in 0 .. 1, ReadFrame(lost)
  PROVE  STIInv'
<1> DEFINE n == FirstFrame + encoded + lost
<1>1. /\ main = "running" /\ UNCHANGED <<conf, params, control, main, padOpen>> /\ StartInv
  BY DEF ReadFrame, STIInv, startVars
<1>2. encoded \in Nat /\ FirstFrame \in Nat /\ n \in Nat /\ n = FirstFrame + encoded + lost
  BY FirstFrameAssumption DEF STIInv, RtpInv
<1>3. PICK d \in {Datagram(n)} \cup Shortened(n) :
      /\ readFrame(d)
      /\ encoded' = encoded + lost + 1
      /\ IF arrivesWhole(n, d)
         THEN /\ intact' = Append(intact, [number |-> n % 5000, size |-> EncoderFrameSize])
              /\ short' = short
         ELSE short' = short \cup {n % 5000} /\ intact' = intact
      /\ IF d.rtp /\ d.size > params.frameSize
         THEN /\ gaps' = gaps + (IF lastRtp # -1 /\ n # lastRtp + 1 THEN 1 ELSE 0)
              /\ lastRtp' = n
         ELSE gaps' = gaps /\ lastRtp' = lastRtp
  BY DEF ReadFrame
<1> HIDE DEF n
<1>4. /\ d.size > params.frameSize <=> Datagram(0).size > params.frameSize
      /\ (isRTP(d) <=> conf.encoder.rtp) /\ d.rtp = conf.encoder.rtp
      /\ d.seqnr = n % 5000 /\ frameNumber(d) = n % 5000
  <2>1. Datagram(n).size = Datagram(0).size
    BY <1>1, <1>2, DatagramIs
  <2>2. CASE d = Datagram(n)
    <3>1. (isRTP(d) <=> conf.encoder.rtp) /\ d.rtp = conf.encoder.rtp
      BY <1>1, <1>2, <2>2, DatagramIs
    <3>2. d.seqnr = n % 5000 /\ frameNumber(d) = n % 5000
      BY <1>1, <1>2, <2>2, DatagramIs
    <3>. QED
      BY <2>1, <2>2, <3>1, <3>2
  <2>3. CASE d \in Shortened(n)
    <3>1. d.size > params.frameSize <=> Datagram(n).size > params.frameSize
      BY <1>1, <1>2, <2>3, ShortenedIs
    <3>2. (isRTP(d) <=> conf.encoder.rtp) /\ d.rtp = conf.encoder.rtp
      BY <1>1, <1>2, <2>3, ShortenedIs
    <3>3. d.seqnr = n % 5000 /\ frameNumber(d) = n % 5000
      BY <1>1, <1>2, <2>3, ShortenedIs
    <3>. QED
      BY <2>1, <3>1, <3>2, <3>3
  <2>. QED
    BY <1>3, <2>2, <2>3
<1>5. /\ jumps' = IF d.size > params.frameSize /\ isRTP(d)
                  THEN jumps + (IF isJump(d) THEN 1 ELSE 0) ELSE jumps
      /\ previousRtpIndex' = IF d.size > params.frameSize /\ isRTP(d)
                             THEN d.seqnr ELSE previousRtpIndex
      /\ pushed' = IF accepts(d) /\ isWhole(d)
                   THEN Append(pushed, [number |-> frameNumber(d), size |-> dataSize(d)])
                   ELSE pushed
      /\ partial' = IF accepts(d) /\ ~isWhole(d)
                    THEN partial \cup {frameNumber(d)} ELSE partial
  BY <1>3 DEF readFrame
<1>6. /\ StartInv' /\ (RtpSeen' <=> RtpSeen) /\ main' = "running" /\ params' = params
      /\ conf' = conf /\ control' = control
      /\ (Accepted' <=> Accepted) /\ (Arrives' <=> Arrives)
  BY <1>1, SettingsStay
<1>7. encoded' \in Nat /\ encoded' > 0 /\ n = FirstFrame + encoded' - 1
  <2>1. encoded' = encoded + lost + 1
    BY <1>3
  <2> QED  BY ONLY <1>2, <2>1, lost \in 0 .. 1
<1>8. RtpInv' /\ JumpsAreGaps'
  <2>1. CASE RtpSeen
    <3>1. /\ previousRtpIndex' = n % 5000 /\ lastRtp' = n
          /\ jumps' = jumps + (IF isJump(d) THEN 1 ELSE 0)
          /\ gaps' = gaps + (IF lastRtp # -1 /\ n # lastRtp + 1 THEN 1 ELSE 0)
      BY <1>3, <1>4, <1>5, <2>1 DEF RtpSeen
    <3>2. isJump(d) <=> (lastRtp # -1 /\ n # lastRtp + 1)
      <4>1. CASE encoded = 0
        <5>1. lastRtp = -1 /\ previousRtpIndex = -1
          BY <4>1 DEF STIInv, RtpInv
        <5>. QED
          BY <5>1 DEF isJump
      <4>2. CASE encoded # 0
        <5>1. lastRtp = FirstFrame + encoded - 1 /\ previousRtpIndex = lastRtp % 5000
          BY <1>2, <2>1, <4>2 DEF STIInv, RtpInv
        <5>2. lastRtp \in Nat /\ n \in {lastRtp + 1, lastRtp + 2}
          BY <1>2, <4>2, <5>1
        <5>3. previousRtpIndex # -1 /\ lastRtp # -1
          BY <5>1, <5>2
        <5>4. isJump(d) <=> ((lastRtp % 5000) + 1) % 5000 # n % 5000
          BY <1>4, <5>1, <5>3 DEF isJump
        <5>. QED
          BY <1>2, <5>2, <5>3, <5>4, JumpIsGap
      <4>. QED
        BY <4>1, <4>2
    <3>3. jumps' = gaps'
      <4>1. jumps = gaps
        BY DEF STIInv, JumpsAreGaps
      <4>. QED
        BY <3>1, <3>2, <4>1
    <3>. QED
      BY <1>6, <1>7, <2>1, <3>1, <3>3 DEF RtpInv, JumpsAreGaps
  <2>2. CASE ~RtpSeen
    <3>1. UNCHANGED <<jumps, gaps, lastRtp, previousRtpIndex>>
      BY <1>3, <1>4, <1>5, <2>2 DEF RtpSeen
    <3>. QED
      BY <1>6, <1>7, <2>2, <3>1 DEF STIInv, RtpInv, JumpsAreGaps
  <2>. QED
    BY <2>1, <2>2
<1>9. PushedInv' /\ (partial \subseteq short)'
  <2>1. /\ pushed \in Seq(Numbered) /\ intact \in Seq(Numbered)
        /\ EncoderFrameSize \in Nat /\ n % 5000 \in Int
        /\ Accepted =>
             pushed = intact /\ \A k \in DOMAIN pushed : pushed[k].size = params.frameSize
        /\ ~Accepted => pushed = <<>>
        /\ ~Arrives => intact = <<>>
        /\ partial \subseteq short
    BY <1>1, <1>2, SizesAgree DEF STIInv, PushedInv
  <2>2. intact' \in Seq(Numbered)
    <3> DEFINE x == [number |-> n % 5000, size |-> EncoderFrameSize]
    <3>1. x \in Numbered
      BY <2>1 DEF Numbered
    <3>2. intact' = intact \/ intact' = Append(intact, x)
      BY <1>3
    <3> HIDE DEF x
    <3>3. Append(intact, x) \in Seq(Numbered)
      BY <2>1, <3>1
    <3>. QED
      BY ONLY <2>1, <3>2, <3>3
  <2>3. CASE d = Datagram(n)
    <3>1. /\ d.size = Datagram(0).size /\ dataOffset(d) = dataOffset(Datagram(0))
          /\ dataSize(d) = dataSize(Datagram(0))
      BY <1>1, <1>2, <2>3, DatagramIs
    <3>2. (accepts(d) <=> accepts(Datagram(0))) /\ (isWhole(d) <=> isWhole(Datagram(0)))
      BY <1>1, <1>2, <2>3, DatagramIs
    <3>3. arrivesWhole(n, d) <=> Arrives
      BY <2>3, <3>1 DEF arrivesWhole, Arrives
    <3>4. accepts(Datagram(0)) => (isWhole(Datagram(0)) <=> Arrives)
      BY <1>1, AcceptedArrives
    <3>5. (partial \subseteq short)'
      BY <1>3, <1>4, <1>5, <2>1, <3>2, <3>3, <3>4
    <3>6. ~Arrives => intact' = <<>>
      BY <1>3, <2>1, <3>3
    <3>7. CASE Accepted
      <4>1. /\ dataSize(d) = params.frameSize /\ EncoderFrameSize = params.frameSize
        BY <1>1, <3>1, <3>7, AcceptedIsWhole DEF Accepted
      <4> DEFINE x == [number |-> n % 5000, size |-> params.frameSize]
      <4>2. pushed' = Append(pushed, x) /\ intact' = Append(intact, x)
        BY <1>3, <1>4, <1>5, <3>2, <3>3, <3>4, <3>7, <4>1 DEF Accepted
      <4>3. x.size = params.frameSize
        OBVIOUS
      <4> HIDE DEF x
      <4>4. \A k \in DOMAIN pushed' : pushed'[k].size = params.frameSize
        <5>1. DOMAIN pushed = 1 .. Len(pushed) /\ Len(pushed) \in Nat
          BY <2>1
        <5>2. /\ DOMAIN pushed' = 1 .. Len(pushed) + 1
              /\ \A k \in 1 .. Len(pushed) + 1 :
                   pushed'[k] = IF k = Len(pushed) + 1 THEN x ELSE pushed[k]
          BY <2>1, <4>2
        <5>3. \A k \in 1 .. Len(pushed) + 1 : k # Len(pushed) + 1 => k \in 1 .. Len(pushed)
          BY <5>1
        <5>. QED
          BY <2>1, <3>7, <4>3, <5>1, <5>2, <5>3
      <4>5. pushed' = intact'
        BY <2>1, <3>7, <4>2
      <4>. QED
        BY <1>6, <2>2, <3>5, <3>6, <3>7, <4>4, <4>5 DEF PushedInv
    <3>8. CASE ~Accepted
      <4>1. pushed' = <<>>
        BY <1>5, <2>1, <3>2, <3>8 DEF Accepted
      <4>. QED
        BY <1>6, <2>2, <3>5, <3>6, <3>8, <4>1 DEF PushedInv
    <3>. QED
      BY <3>7, <3>8
  <2>4. CASE d \in Shortened(n) /\ d # Datagram(n)
    <3>1. ~(accepts(d) /\ isWhole(d))
      BY <1>1, <1>2, <2>4, ShortenedIs
    <3>2. pushed' = pushed
      BY <1>5, <3>1
    <3>3. ~arrivesWhole(n, d)
      BY <2>4 DEF arrivesWhole
    <3>4. intact' = intact /\ short' = short \cup {n % 5000}
      BY <1>3, <3>3
    <3>5. (partial \subseteq short)'
      BY <1>4, <1>5, <2>1, <3>4
    <3>. QED
      BY <1>6, <2>1, <3>2, <3>4, <3>5 DEF PushedInv
  <2>. QED
    BY <1>3, <2>3, <2>4
<1>10. AgreedFramesAccepted'
  <2>1. control # <<>> /\ ~conf.encoder.crc /\ ~conf.encoder.lastBit => (Accepted <=> Arrives)
    BY <1>1, AcceptedArrives
  <2>. QED
    BY <1>6, <1>9, <2>1 DEF PushedInv, AgreedFramesAccepted
<1>11. IdleInv'
  BY <1>6 DEF IdleInv
<1>. QED
  BY <1>6, <1>8, <1>9, <1>10, <1>11 DEF STIInv

(* Every step keeps the invariant. *)
LEMMA STINextInv == STIInv /\ [STINext]_svars => STIInv'
<1> SUFFICES ASSUME STIInv, [STINext]_svars PROVE STIInv'
  OBVIOUS
<1>1. CASE StartNext /\ UNCHANGED stiVars
  BY <1>1, StartKeeps
<1>2. ASSUME NEW lost \in 0 .. 1, ReadFrame(lost) PROVE STIInv'
  BY <1>2, FrameKeeps
<1>3. CASE ReadJunk
  BY <1>3, JunkKeeps
<1>4. CASE ReadOutside
  BY <1>4, OutsideKeeps
<1>5. CASE UNCHANGED svars
  <2>1. /\ UNCHANGED <<conf, params, control, main, padOpen>>
        /\ UNCHANGED <<encoded, gaps, lastRtp, intact, short, jumps, previousRtpIndex,
                       pushed, partial>>
    BY <1>5 DEF svars, startVars, stiVars
  <2>2. StartInv'
    BY <2>1, SettingsStay DEF STIInv
  <2>. QED
    BY <2>1, <2>2, NothingRead
<1>. QED
  BY <1>1, <1>2, <1>3, <1>4, <1>5 DEF STINext, svars

(* The inductive invariant holds in every reachable state. *)
LEMMA STIInvariant == STISpec => []STIInv
  BY STIInitInv, STINextInv, PTL DEF STISpec, svars
-----------------------------------------------------------------------------
(* setDabPlusParameters() and the steps after it: the control message is     *)
(* sent at most once, only for options and parameters that are all valid,    *)
(* and the superframes that it asks for fit main's buffer.                   *)
THEOREM EncoderSet == STISpec => []EncoderSetOnlyIfValid
<1>1. STIInv => EncoderSetOnlyIfValid
  <2> SUFFICES ASSUME STIInv PROVE EncoderSetOnlyIfValid
    OBVIOUS
  <2>1. SuperframeFits
    <3> SUFFICES ASSUME main \in Set
                 PROVE  /\ 5 * params.frameSize <= 24 * 120
                        /\ 5 * params.frameSize = (conf.bitrate \div 8) * 120
                        /\ (5 * params.frameSize) % 120 = 0
      BY DEF SuperframeFits, Set
    <3>1. ParametersValid /\ conf.bitrate \in Int
      BY ConfsAssumption DEF STIInv, StartInv, StartTypeOK
    <3>2. PICK b \in Int : b = conf.bitrate /\ params.frameSize = b * 3
      BY <3>1 DEF ParametersValid
    <3>3. (b \div 8) * 8 = b /\ (b \div 8) \in 1 .. 24
      BY <3>1, <3>2 DEF ParametersValid, BitrateValid
    <3>4. /\ 5 * (b * 3) <= 24 * 120 /\ 5 * (b * 3) = (b \div 8) * 120
          /\ (5 * (b * 3)) % 120 = 0
      BY <3>3
    <3>. QED
      BY <3>2, <3>4
  <2>2. Len(control) <= 1
    BY DEF STIInv, StartInv, ControlInv
  <2>3. control # <<>> => main \in Set \cup Ended
    BY DEF STIInv, StartInv, StartTypeOK, ControlInv, Set, Ended
  <2>4. control # <<>> => /\ main = "refused" => conf.stats
                          /\ main = "crashed" => conf.padlen # 0 /\ ~padOpen
                          /\ OptionsValid /\ conf.channels \in {1, 2}
    BY DEF STIInv, StartInv, ControlInv, ParametersValid
  <2>. QED
    BY <2>1, <2>2, <2>3, <2>4 DEF EncoderSetOnlyIfValid, Set, Ended
<1>. QED
  BY <1>1, STIInvariant, PTL

(* _readFrame(): what goes to the jitter buffer whole are the encoder's      *)
(* frames, under their numbers and in their order, or none of them; what     *)
(* goes there in part arrived in part.                                       *)
THEOREM WholeFramesPushed == STISpec => []OnlyWholeFramesPushed
<1>1. STIInv => OnlyWholeFramesPushed
  BY DEF STIInv, IdleInv, PushedInv, OnlyWholeFramesPushed
<1>. QED
  BY <1>1, STIInvariant, PTL

(* The control message of _sendCtrlMessage() and the size that _readFrame()  *)
(* expects agree: every frame that arrives whole is accepted.                *)
THEOREM AgreedAccepted == STISpec => []AgreedFramesAccepted
<1>1. STIInv => AgreedFramesAccepted
  BY DEF STIInv
<1>. QED
  BY <1>1, STIInvariant, PTL

(* _findDABFrameFromUDP(): the jumps of the RTP number that are reported are *)
(* the gaps in the frames received, also where the number wraps at 5000.     *)
THEOREM JumpsCorrect == STISpec => []JumpsAreGaps
<1>1. STIInv => JumpsAreGaps
  BY DEF STIInv
<1>. QED
  BY <1>1, STIInvariant, PTL

-----------------------------------------------------------------------------
(***************************************************************************)
(* The loop and the level meter: what a turn keeps (OutputInv), that the    *)
(* levels of a superframe are its own (LevelsFresh) and that all outputs    *)
(* say the same of them (LevelsAgree), for every number of superframes,     *)
(* every limit on the errors and every choice of outputs.                   *)
(***************************************************************************)
Level == SUBSET (1 .. MaxSuperframe)

AF == [superframe : Nat, block : Nat, dlfc : Nat, seconds : Nat, tsta : Nat, levels : Level]

\* The variables of the loop; those of the EDI output; those of the level meter.
LoopType ==
    /\ pc \in {"input", "decode", "zmq", "edi", "count", "stats", "ended", "crashed"}
    /\ superframe \in 0 .. MaxSuperframe
    /\ block \in 0 .. 5
    /\ send_error_count \in 0 .. MaxErrors + 1
    /\ retval \in {0, 4}
    /\ zmqError \subseteq 1 .. MaxSuperframe

EdiType ==
    /\ m_edi_time \in Nat
    /\ m_timestamp \in 0 .. 2^24 - 1
    /\ dlfc \in 0 .. 4999
    /\ af \in Seq(AF)

MeterType ==
    /\ peaks \in Level /\ m_peak \in Level /\ m_audio \in Level
    /\ levels \in Seq(Level) /\ stats \in Seq(Level)
    /\ notices \in Seq({"gone", "back"})

FlagType == success \in BOOLEAN /\ m_state \in BOOLEAN /\ m_destination_available \in BOOLEAN

\* Inside the turn of a superframe.
InTurn == pc \in {"decode", "zmq", "edi", "count", "stats"}

\* The superframes that failed are those counted, and the one of this turn
\* if it is not counted yet.
Uncounted == pc \in {"edi", "count", "crashed"} /\ ~success

ErrorInv ==
    /\ IsFiniteSet(zmqError)
    /\ zmqError \subseteq 1 .. superframe
    /\ InTurn => superframe > 0
    /\ pc \in {"decode", "zmq"} => superframe \notin zmqError
    /\ pc \in {"edi", "count"} /\ ~success => superframe \in zmqError
    /\ Cardinality(zmqError) = send_error_count + (IF Uncounted THEN 1 ELSE 0)
    /\ retval = 4 <=> send_error_count > MaxErrors
    /\ send_error_count > MaxErrors => pc = "ended"

\* The last AF packet, by the place in the loop.
LastAF == af[Len(af)]

Complete(n) == LastAF.superframe = n /\ (LastAF.block = 4 \/ n \in zmqError)

\* What PartsInOrder says of the packet k of s, e being the superframes that failed.
PartAt(s, e, k) ==
    /\ k = 1 => s[k].block = 0
    /\ k < Len(s) =>
        /\ s[k + 1].dlfc = (s[k].dlfc + 1) % 5000
        /\ \/ /\ s[k + 1].superframe = s[k].superframe
              /\ s[k + 1].block = s[k].block + 1
           \/ /\ s[k + 1].superframe = s[k].superframe + 1
              /\ s[k + 1].block = 0
              /\ s[k].block = 4 \/ s[k].superframe \in e

PartInv ==
    /\ pc = "edi" => block < 5
    /\ pc = "edi" /\ block > 0 => af # <<>>
    /\ pc = "edi" \/ af # <<>> => UseEDI
    /\ af # <<>> =>
        /\ dlfc = (LastAF.dlfc + 1) % 5000
        /\ pc \in {"decode", "zmq"} => Complete(superframe - 1)
        /\ pc = "edi" /\ block = 0 => Complete(superframe - 1)
        /\ pc = "edi" /\ block > 0 => LastAF.superframe = superframe /\ block = LastAF.block + 1
        /\ pc \in {"count", "stats", "input"} => Complete(superframe)

\* The levels measured so far, and what of them the outputs have been told.
LevelInv ==
    /\ Len(levels) = IF pc = "decode" THEN superframe - 1 ELSE superframe
    /\ pc \in {"zmq", "edi", "count", "stats"} =>
        peaks = levels[superframe] /\ (UseStats => m_audio = peaks)
    /\ \A k \in DOMAIN af :
        af[k].superframe \in 1 .. Len(levels) /\ af[k].levels = levels[af[k].superframe]
    /\ \A n \in DOMAIN stats : n \in DOMAIN levels /\ stats[n] = levels[n]
    /\ UseStats /\ pc \in {"input", "decode"} => Len(stats) = Len(levels)
    /\ UseStats /\ pc \in {"zmq", "edi", "count", "stats"} => Len(stats) = Len(levels) - 1

\* What decode_frame() left behind is of superframes that failed since.
PeakInv ==
    \A i \in m_peak : i \in 1 .. Len(levels) /\ \A j \in i .. Len(levels) : levels[j] = {}

NoticeInv == NoticesAlternate /\ (m_destination_available <=> Len(notices) % 2 = 0)

\* The inductive invariant.
OInv ==
    /\ LoopType /\ EdiType /\ MeterType /\ FlagType
    /\ ErrorInv
    /\ PartInv /\ PartsInOrder
    /\ LevelInv
    /\ PeakInv /\ LevelsFresh
    /\ NoticeInv
-----------------------------------------------------------------------------
\* The first state of the loop.
LEMMA InitOInv == Init => OInv
<1> SUFFICES ASSUME Init PROVE OInv
  OBVIOUS
<1> USE OutputAssumption DEF Init, MeterInit
<1>1. LoopType
  BY DEF LoopType
<1>2. 0 \in 0 .. 2^24 - 1 /\ 0 \in 0 .. 4999
  OBVIOUS
<1>3. EdiType
  BY <1>2, EmptySeq DEF EdiType
<1>4. MeterType
  BY EmptySeq DEF MeterType, Level
<1>5. FlagType
  BY DEF FlagType
<1>6. Cardinality(zmqError) = 0 /\ IsFiniteSet(zmqError)
  BY FS_EmptySet
<1>7. ErrorInv
  BY <1>6 DEF ErrorInv, InTurn, Uncounted
<1>8. PartInv /\ PartsInOrder
  BY DEF PartInv, PartsInOrder
<1>9. LevelInv
  BY DEF LevelInv
<1>10. PeakInv /\ LevelsFresh
  BY DEF PeakInv, LevelsFresh
<1>11. Len(notices) = 0 /\ m_destination_available
  OBVIOUS
<1>12. NoticeInv
  BY <1>11 DEF NoticeInv, NoticesAlternate
<1> QED
  BY <1>1, <1>3, <1>4, <1>5, <1>7, <1>8, <1>9, <1>10, <1>12 DEF OInv

\* The variables of the loop keep their types.
LEMMA LoopTypeStep ==
    ASSUME OInv, [Next]_ovars
    PROVE  LoopType'
<1> USE OutputAssumption DEF OInv, LoopType
<1>1. CASE NextSuperframe
  BY <1>1 DEF NextSuperframe
<1>2. CASE TimeOut
  BY <1>2 DEF TimeOut
<1>3. CASE Decode
  BY <1>3 DEF Decode
<1>4. CASE WriteZMQ
  <2>1. superframe \in 1 .. MaxSuperframe
    BY <1>4 DEF WriteZMQ, ErrorInv, InTurn
  <2>2. zmqError' \subseteq 1 .. MaxSuperframe
    BY <1>4, <2>1 DEF WriteZMQ
  <2> QED
    BY <1>4, <2>2 DEF WriteZMQ
<1>5. CASE WriteEDI
  BY <1>5 DEF WriteEDI, PartInv
<1>6. CASE TaiFails
  BY <1>6 DEF TaiFails
<1>7. CASE Count
  BY <1>7 DEF Count, ErrorInv
<1>8. CASE SendStats
  BY <1>8 DEF SendStats
<1>9. CASE UNCHANGED ovars
  BY <1>9 DEF ovars
<1> QED
  BY <1>1, <1>2, <1>3, <1>4, <1>5, <1>6, <1>7, <1>8, <1>9 DEF Next

\* The timestamp and the AF packets keep their types.
LEMMA EdiTypeStep ==
    ASSUME OInv, [Next]_ovars
    PROVE  EdiType'
<1> USE DEF OInv, EdiType
<1>1. CASE NextSuperframe
  <2>1. superframe \in Nat /\ Time(superframe) \in Nat
    BY OutputAssumption DEF LoopType, Time
  <2>2. ASSUME NEW t \in Nat
        PROVE  t \div 1000 \in Nat /\ (m_timestamp + (t % 1000) * 2^14) % 2^24 \in 0 .. 2^24 - 1
    <3>1. t % 1000 \in 0 .. 999
      OBVIOUS
    <3>2. (m_timestamp + (t % 1000) * 2^14) \in Nat
      BY <3>1
    <3> QED
      BY <3>2
  <2>3. m_edi_time' \in Nat /\ m_timestamp' \in 0 .. 2^24 - 1
    <3>1. CASE UseEDI
      <4>1. set_tist(Time(superframe))
        BY <1>1, <3>1 DEF NextSuperframe
      <4> QED
        BY ONLY <2>1, <2>2, <4>1 DEF set_tist
    <3>2. CASE ~UseEDI
      BY <1>1, <3>2 DEF NextSuperframe
    <3> QED
      BY <3>1, <3>2
  <2> QED
    BY <1>1, <2>3 DEF NextSuperframe
<1>2. CASE WriteEDI
  <2>1. [superframe |-> superframe, block |-> block, dlfc |-> dlfc, seconds |-> m_edi_time,
         tsta |-> m_timestamp, levels |-> peaks] \in AF
    BY DEF AF, LoopType, MeterType
  <2>2. af' \in Seq(AF)
    BY <1>2, <2>1, AppendProperties DEF WriteEDI, AFPacket
  <2>3. dlfc' \in 0 .. 4999
    BY <1>2 DEF WriteEDI, AFPacket
  <2> QED
    BY <1>2, <2>2, <2>3 DEF WriteEDI
<1>3. UNCHANGED edi => EdiType'
  BY DEF edi
<1>4. TimeOut \/ Decode \/ WriteZMQ \/ TaiFails \/ Count \/ SendStats \/ UNCHANGED ovars
        => UNCHANGED edi
  <2>1. (TimeOut => UNCHANGED edi) /\ (TaiFails => UNCHANGED edi) /\ (Count => UNCHANGED edi)
    BY DEF TimeOut, TaiFails, Count
  <2>2. Decode => UNCHANGED edi
    BY DEF Decode
  <2>3. WriteZMQ => UNCHANGED edi
    BY DEF WriteZMQ
  <2>4. SendStats => UNCHANGED edi
    BY DEF SendStats
  <2> QED
    BY <2>1, <2>2, <2>3, <2>4 DEF ovars
<1> QED
  BY ONLY <1>1, <1>2, <1>3, <1>4, [Next]_ovars DEF Next

\* The level meter and the flags keep their types.
LEMMA MeterTypeStep ==
    ASSUME OInv, [Next]_ovars
    PROVE  MeterType' /\ FlagType'
<1> USE DEF OInv, MeterType
<1>1. FlagType'
  <2> USE DEF FlagType
  <2>1. CASE SendStats
    BY <2>1 DEF SendStats, send_stats, Unavailable, Available, OtherError, publisher, edi
  <2>2. CASE Decode
    BY <2>2 DEF Decode, update_audio_levels, edi
  <2>3. CASE WriteZMQ
    BY <2>3 DEF WriteZMQ, edi, meter, publisher
  <2>4. CASE WriteEDI
    BY <2>4 DEF WriteEDI, meter, publisher
  <2> QED
    BY <2>1, <2>2, <2>3, <2>4
    DEF Next, NextSuperframe, TimeOut, TaiFails, Count, ovars, edi, meter, publisher
<1>2. CASE Decode
  <2>1. superframe \in 1 .. MaxSuperframe
    BY <1>2 DEF Decode, ErrorInv, InTurn, LoopType
  <2>2. peaks' \in Level /\ m_peak' \in Level
    BY <1>2, <2>1 DEF Decode, decode_frame, CheckFails, DecodeFails, DecodeSucceeds, get_peaks, Level
  <2>3. levels' \in Seq(Level)
    BY <1>2, <2>2, AppendProperties DEF Decode, decode_frame
  <2> QED
    BY <1>1, <1>2, <2>2, <2>3 DEF Decode, update_audio_levels
<1>3. CASE SendStats
  <2>1. {} \in Level
    BY DEF Level
  <2>2. stats' \in Seq(Level) /\ m_audio' \in Level
    <3>1. CASE UseStats
      <4>1. stats' = Append(stats, m_audio) /\ m_audio' = {}
        BY <1>3, <3>1 DEF SendStats, send_stats
      <4> QED
        BY <2>1, <4>1, AppendProperties
    <3>2. CASE ~UseStats
      BY <1>3, <3>2 DEF SendStats, publisher
    <3> QED
      BY <3>1, <3>2
  <2>3. notices' = notices \/ notices' = Append(notices, "gone") \/ notices' = Append(notices, "back")
    BY <1>3 DEF SendStats, send_stats, publisher, Unavailable, Available, OtherError
  <2>4. notices' \in Seq({"gone", "back"})
    BY <2>3, AppendProperties
  <2> QED
    BY <1>1, <1>3, <2>1, <2>2, <2>4 DEF SendStats
<1>4. UNCHANGED meter => MeterType'
  BY DEF meter, decoder, publisher
<1> QED
  BY <1>1, <1>2, <1>3, <1>4
  DEF Next, NextSuperframe, TimeOut, WriteZMQ, WriteEDI, TaiFails, Count, ovars

\* The errors are counted: what a step adds to zmqError is counted before the next
\* superframe is read.
LEMMA ErrorStep ==
    ASSUME OInv, [Next]_ovars
    PROVE  ErrorInv'
<1> USE OutputAssumption DEF ErrorInv, LoopType, FlagType, InTurn, Uncounted
<1>0. LoopType /\ FlagType /\ ErrorInv
  BY DEF OInv
<1>1. CASE NextSuperframe
  <2>1. pc = "input" /\ pc' = "decode" /\ superframe' = superframe + 1
    BY <1>1 DEF NextSuperframe
  <2>2. UNCHANGED <<zmqError, send_error_count, retval>>
    BY <1>1 DEF NextSuperframe
  <2> QED
    BY <1>0, <2>1, <2>2
<1>2. CASE TimeOut
  BY <1>0, <1>2 DEF TimeOut
<1>3. CASE Decode
  BY <1>0, <1>3 DEF Decode
<1>4. CASE WriteZMQ
  <2>1. pc = "zmq" /\ pc' \in {"edi", "count"} /\ UNCHANGED <<superframe, send_error_count, retval>>
    BY <1>4 DEF WriteZMQ
  <2>2. CASE success'
    <3>1. zmqError' = zmqError
      BY <1>4, <2>2 DEF WriteZMQ
    <3> QED
      BY <1>0, <2>1, <2>2, <3>1
  <2>3. CASE ~success'
    <3>1. zmqError' = zmqError \cup {superframe}
      BY <1>4, <2>3 DEF WriteZMQ
    <3>2. superframe \notin zmqError /\ IsFiniteSet(zmqError)
      BY <1>0, <2>1
    <3>3. Cardinality(zmqError') = Cardinality(zmqError) + 1 /\ IsFiniteSet(zmqError')
      BY <3>1, <3>2, FS_AddElement
    <3>4. Cardinality(zmqError) = send_error_count
      BY <1>0, <2>1
    <3>5. Cardinality(zmqError') = send_error_count' + (IF Uncounted' THEN 1 ELSE 0)
      BY <2>1, <2>3, <3>3, <3>4
    <3>6. zmqError' \subseteq 1 .. superframe' /\ superframe' \in zmqError'
      BY <1>0, <2>1, <3>1
    <3>7. (retval = 4 <=> send_error_count > MaxErrors)' /\ ~(send_error_count > MaxErrors)'
      BY <1>0, <2>1
    <3> QED
      BY <1>0, <2>1, <3>3, <3>5, <3>6, <3>7
  <2> QED
    BY <2>2, <2>3
<1>5. CASE WriteEDI
  <2>1. pc = "edi" /\ pc' \in {"edi", "count", "crashed"}
        /\ UNCHANGED <<superframe, success, send_error_count, retval, zmqError>>
    BY <1>5 DEF WriteEDI
  <2> QED
    BY <1>0, <2>1
<1>6. CASE TaiFails
  BY <1>0, <1>6 DEF TaiFails
<1>7. CASE Count
  <2>1. pc = "count" /\ UNCHANGED <<superframe, success, zmqError>> /\ pc' \in {"ended", "stats"}
    BY <1>7 DEF Count
  <2>2. Cardinality(zmqError) = send_error_count'
    BY <1>0, <1>7 DEF Count
  <2>3. retval # 4 /\ ~(send_error_count > MaxErrors)
    BY <1>0, <2>1
  <2>4. (retval' = 4 <=> send_error_count' > MaxErrors) /\ (send_error_count' > MaxErrors => pc' = "ended")
    BY <1>7, <2>3 DEF Count
  <2>5. send_error_count' \in Nat
    BY <1>0, <1>7 DEF Count
  <2>6. ~Uncounted'
    BY <2>1
  <2>10. Cardinality(zmqError') = send_error_count'
    BY <2>1, <2>2, Zenon
  <2>7. Cardinality(zmqError') = send_error_count' + (IF Uncounted' THEN 1 ELSE 0)
    <3>0. \A n \in Nat : n = n + 0
      OBVIOUS
    <3>1. send_error_count' = send_error_count' + 0
      BY ONLY <2>5, <3>0, Zenon
    <3>2. (IF Uncounted' THEN 1 ELSE 0) = 0
      BY <2>6
    <3> QED
      BY ONLY <2>10, <3>1, <3>2, Zenon
  <2>8. (retval = 4 <=> send_error_count > MaxErrors)' /\ (send_error_count > MaxErrors => pc = "ended")'
    BY <2>4
  <2>9. IsFiniteSet(zmqError') /\ zmqError' \subseteq 1 .. superframe' /\ (InTurn' => superframe' > 0)
    BY <1>0, <2>1
  <2> QED
    BY <2>1, <2>7, <2>8, <2>9
<1>8. CASE SendStats
  BY <1>0, <1>8 DEF SendStats
<1>9. CASE UNCHANGED ovars
  BY <1>0, <1>9 DEF ovars
<1> QED
  BY <1>1, <1>2, <1>3, <1>4, <1>5, <1>6, <1>7, <1>8, <1>9 DEF Next

\* The last AF packet fits the place in the loop.
LEMMA PartStep ==
    ASSUME OInv, [Next]_ovars
    PROVE  PartInv' /\ PartsInOrder'
<1>0. LoopType /\ EdiType /\ FlagType /\ ErrorInv /\ PartInv /\ PartsInOrder
  BY DEF OInv
<1> USE OutputAssumption DEF PartInv, LastAF, Complete, LoopType
<1>b. /\ \A k \in 1 .. Len(af) : PartAt(af, zmqError, k)
      /\ (\A k \in 1 .. Len(af') : PartAt(af', zmqError', k)) => PartsInOrder'
  <2>1. \A k \in 1 .. Len(af) : PartAt(af, zmqError, k)
    BY ONLY <1>0 DEF PartsInOrder, PartAt
  <2>2. ASSUME \A k \in 1 .. Len(af') : PartAt(af', zmqError', k) PROVE PartsInOrder'
    BY ONLY <2>2 DEF PartsInOrder, PartAt
  <2> QED
    BY <2>1, <2>2
<1>a. UNCHANGED af /\ zmqError \subseteq zmqError' => PartsInOrder'
  <2> SUFFICES ASSUME UNCHANGED af, zmqError \subseteq zmqError', NEW k \in 1 .. Len(af)
               PROVE  PartAt(af, zmqError', k)
    BY <1>b
  <2>1. PartAt(af, zmqError, k)
    BY <1>b
  <2> QED
    BY ONLY <2>1, zmqError \subseteq zmqError' DEF PartAt
<1>1. CASE NextSuperframe
  <2>1. pc = "input" /\ pc' = "decode" /\ superframe' = superframe + 1
        /\ UNCHANGED <<block, dlfc, af, zmqError>>
    BY <1>1 DEF NextSuperframe
  <2> QED
    BY <1>0, <1>a, <2>1
<1>2. CASE TimeOut
  <2>1. pc = "input" /\ pc' = "ended" /\ UNCHANGED <<superframe, block, dlfc, af, zmqError>>
    BY <1>2 DEF TimeOut, edi
  <2> QED
    BY <1>0, <1>a, <2>1
<1>3. CASE Decode
  <2>1. pc = "decode" /\ pc' = "zmq" /\ UNCHANGED <<superframe, block, dlfc, af, zmqError>>
    BY <1>3 DEF Decode, edi
  <2> QED
    BY <1>0, <1>a, <2>1
<1>4. CASE WriteZMQ
  <2>1. pc = "zmq" /\ pc' = (IF UseEDI THEN "edi" ELSE "count") /\ block' = 0
        /\ UNCHANGED <<superframe, dlfc, af>>
    BY <1>4 DEF WriteZMQ, edi
  <2>2. zmqError \subseteq zmqError'
    BY <1>4 DEF WriteZMQ
  <2> QED
    BY <1>0, <1>a, <2>1, <2>2
<1>5. CASE WriteEDI
  <2> DEFINE p == [superframe |-> superframe, block |-> block, dlfc |-> dlfc, seconds |-> m_edi_time,
                   tsta |-> m_timestamp, levels |-> peaks]
  <2>1. pc = "edi" /\ af' = Append(af, p) /\ dlfc' = (dlfc + 1) % 5000 /\ block' = block + 1
        /\ UNCHANGED <<superframe, success, zmqError>>
        /\ pc' \in {IF success /\ block + 1 < 5 THEN "edi" ELSE "count", "crashed"}
    BY <1>5 DEF WriteEDI, AFPacket
  <2>2. p \in AF
    <3>1. superframe \in Nat /\ block \in Nat /\ dlfc \in Nat /\ m_edi_time \in Nat /\ m_timestamp \in Nat
      BY <1>0 DEF EdiType
    <3>2. peaks \in Level
      BY DEF OInv, MeterType
    <3> QED
      BY ONLY <3>1, <3>2 DEF AF
  <2>3. af \in Seq(AF)
    BY <1>0 DEF EdiType
  <2>4. Len(af) \in Nat /\ Len(af') = Len(af) + 1 /\ af' # <<>> /\ af'[Len(af')] = p
        /\ \A k \in 1 .. Len(af) : af'[k] = af[k]
    BY <2>1, <2>2, <2>3, AppendProperties, LenProperties
  <2>5. p.superframe = superframe /\ p.block = block /\ p.dlfc = dlfc
    OBVIOUS
  <2> HIDE DEF p
  <2>6. ~success => superframe \in zmqError
    BY <1>0, <2>1 DEF ErrorInv
  <2>7. pc' = "edi" => block' < 5
    BY <2>1
  <2>8. pc' = "count" => block = 4 \/ superframe \in zmqError
    <3>1. ~success \/ ~(block + 1 < 5) => block = 4 \/ superframe \in zmqError
      BY <1>0, <2>1, <2>6
    <3> QED
      BY <2>1, <3>1
  <2>9. PartInv'
    BY <1>0, <2>1, <2>4, <2>5, <2>7, <2>8
  <2>10. PartsInOrder'
    <3> SUFFICES ASSUME NEW k \in 1 .. Len(af')
                 PROVE  PartAt(af', zmqError, k)
      BY <1>b, <2>1
    <3>1. CASE k < Len(af)
      <4>1. k \in 1 .. Len(af) /\ k + 1 \in 1 .. Len(af) /\ af'[k] = af[k] /\ af'[k + 1] = af[k + 1]
        BY <2>4, <3>1
      <4> QED
        BY <1>b, <2>4, <3>1, <4>1 DEF PartAt
    <3>2. CASE k = Len(af) /\ k > 0
      <4>1. af # <<>> /\ af'[k] = af[Len(af)] /\ af'[k + 1] = p /\ k \in 1 .. Len(af)
        BY <2>3, <2>4, <3>2, EmptySeq
      <4>2. k = 1 => af[k].block = 0
        BY <1>b, <4>1 DEF PartAt
      <4>3. dlfc = (af[Len(af)].dlfc + 1) % 5000
        BY <1>0, <4>1
      <4>4. CASE block = 0
        <5>1. af[Len(af)].superframe = superframe - 1
              /\ (af[Len(af)].block = 4 \/ af[Len(af)].superframe \in zmqError)
          BY <1>0, <2>1, <4>1, <4>4
        <5>2. superframe = (superframe - 1) + 1
          BY <1>0
        <5> QED
          BY <2>5, <3>2, <4>1, <4>2, <4>3, <4>4, <5>1, <5>2 DEF PartAt
      <4>5. CASE block > 0
        <5>1. af[Len(af)].superframe = superframe /\ block = af[Len(af)].block + 1
          BY <1>0, <2>1, <4>1, <4>5
        <5> QED
          BY <2>5, <3>2, <4>1, <4>2, <4>3, <5>1 DEF PartAt
      <4> QED
        BY <1>0, <4>4, <4>5
    <3>3. CASE k = Len(af')
      <4>1. af'[k] = p
        BY <2>4, <3>3
      <4>2. k = 1 => block = 0
        <5>1. k = 1 => af = <<>>
          BY <2>3, <2>4, <3>3, EmptySeq
        <5> QED
          BY <1>0, <2>1, <5>1
      <4> QED
        BY <2>5, <3>3, <4>1, <4>2 DEF PartAt
    <3> QED
      BY <2>4, <3>1, <3>2, <3>3
  <2> QED
    BY <2>9, <2>10
<1>6. CASE TaiFails
  <2>1. pc = "edi" /\ pc' = "crashed" /\ UNCHANGED <<superframe, block, dlfc, af, zmqError>>
    BY <1>6 DEF TaiFails, edi
  <2> QED
    BY <1>0, <1>a, <2>1
<1>7. CASE Count
  <2>1. pc = "count" /\ pc' \in {"ended", "stats"} /\ UNCHANGED <<superframe, block, dlfc, af, zmqError>>
    BY <1>7 DEF Count, edi
  <2> QED
    BY <1>0, <1>a, <2>1
<1>8. CASE SendStats
  <2>1. pc = "stats" /\ pc' = "input" /\ UNCHANGED <<superframe, block, dlfc, af, zmqError>>
    BY <1>8 DEF SendStats, edi
  <2> QED
    BY <1>0, <1>a, <2>1
<1>9. CASE UNCHANGED ovars
  <2>1. UNCHANGED <<pc, superframe, block, dlfc, af, zmqError>>
    BY <1>9 DEF ovars, edi
  <2> QED
    BY <1>0, <1>a, <2>1
<1> QED
  BY <1>1, <1>2, <1>3, <1>4, <1>5, <1>6, <1>7, <1>8, <1>9 DEF Next

\* Decode appends the level of the superframe, and no other step changes levels.
LEMMA LevelsStep ==
    ASSUME OInv, [Next]_ovars
    PROVE  \/ /\ Decode
              /\ pc = "decode" /\ pc' = "zmq"
              /\ superframe = Len(levels) + 1
              /\ levels' = Append(levels, peaks')
              /\ Len(levels') = superframe /\ levels'[superframe] = peaks'
              /\ \A j \in 1 .. Len(levels) : levels'[j] = levels[j]
           \/ ~Decode /\ UNCHANGED <<levels, m_peak>>
<1>1. CASE Decode
  <2>1. pc = "decode" /\ pc' = "zmq" /\ levels' = Append(levels, peaks')
    BY <1>1 DEF Decode, decode_frame
  <2>2. superframe \in Nat /\ superframe > 0 /\ Len(levels) = superframe - 1
    BY <2>1, OutputAssumption DEF OInv, LoopType, ErrorInv, InTurn, LevelInv
  <2>3. superframe = Len(levels) + 1
    BY <2>2
  <2>4. levels \in Seq(Level) /\ peaks' \in Level
    BY MeterTypeStep DEF OInv, MeterType
  <2>5. Len(levels') = Len(levels) + 1 /\ levels'[Len(levels) + 1] = peaks'
        /\ \A j \in 1 .. Len(levels) : levels'[j] = levels[j]
    BY <2>1, <2>4, AppendProperties
  <2> QED
    BY <1>1, <2>1, <2>3, <2>5
<1>2. CASE ~Decode
  <2>1. UNCHANGED meter => UNCHANGED <<levels, m_peak>>
    BY DEF meter, decoder
  <2>2. SendStats => UNCHANGED <<levels, m_peak>>
    BY DEF SendStats
  <2>3. (NextSuperframe => UNCHANGED meter) /\ (TimeOut => UNCHANGED meter) /\ (WriteZMQ => UNCHANGED meter)
    BY DEF NextSuperframe, TimeOut, WriteZMQ
  <2>4. (WriteEDI => UNCHANGED meter) /\ (TaiFails => UNCHANGED meter) /\ (Count => UNCHANGED meter)
    BY DEF WriteEDI, TaiFails, Count
  <2>5. UNCHANGED ovars => UNCHANGED meter
    BY DEF ovars
  <2> QED
    BY ONLY <1>2, <2>1, <2>2, <2>3, <2>4, <2>5, [Next]_ovars DEF Next
<1> QED
  BY <1>1, <1>2

\* What failed superframes leave in m_peak goes to the next one that succeeds.
LEMMA PeakStep ==
    ASSUME OInv, [Next]_ovars
    PROVE  PeakInv' /\ LevelsFresh'
<1>0. PeakInv /\ LevelsFresh /\ levels \in Seq(Level) /\ DOMAIN levels = 1 .. Len(levels) /\ Len(levels) \in Nat
  BY LenProperties DEF OInv, MeterType
<1>1. CASE ~Decode
  <2>1. UNCHANGED <<levels, m_peak>>
    BY <1>1, LevelsStep
  <2> QED
    BY <1>0, <2>1 DEF PeakInv, LevelsFresh
<1>2. CASE Decode
  <2> DEFINE n == Len(levels) + 1
  <2>1. /\ superframe = n
        /\ Len(levels') = n /\ levels'[n] = peaks'
        /\ \A j \in 1 .. Len(levels) : levels'[j] = levels[j]
    BY <1>2, LevelsStep
  <2>2. levels' \in Seq(Level) /\ DOMAIN levels' = 1 .. n
    BY <2>1, MeterTypeStep, LenProperties DEF MeterType
  <2>3. \/ peaks' = {} /\ (m_peak' = m_peak \/ m_peak' = m_peak \cup {n})
        \/ peaks' = m_peak \cup {n} /\ m_peak' = {}
    BY <1>2, <2>1 DEF Decode, decode_frame, CheckFails, DecodeFails, DecodeSucceeds, get_peaks
  <2>4. n \in Nat /\ n > 0 /\ Len(levels) = n - 1
    BY <1>0
  <2> HIDE DEF n
  <2>5. PeakInv'
    <3> SUFFICES ASSUME NEW i \in m_peak'
                 PROVE  i \in 1 .. n /\ \A j \in i .. n : levels'[j] = {}
      BY <2>1 DEF PeakInv
    <3>1. peaks' = {} /\ (i \in m_peak \/ i = n)
      BY <2>3
    <3>2. CASE i = n
      BY <2>1, <2>4, <3>1, <3>2
    <3>3. CASE i \in m_peak
      <4>1. i \in 1 .. n - 1 /\ \A j \in i .. n - 1 : levels[j] = {}
        BY <1>0, <2>4, <3>3 DEF PeakInv
      <4>2. ASSUME NEW j \in i .. n PROVE levels'[j] = {}
        <5>1. CASE j = n
          BY <2>1, <3>1, <5>1
        <5>2. CASE j # n
          <6>1. j \in i .. n - 1 /\ j \in 1 .. Len(levels)
            BY <2>4, <4>1, <5>2
          <6> QED
            BY <2>1, <4>1, <6>1
        <5> QED
          BY <5>1, <5>2
      <4> QED
        BY <2>4, <4>1, <4>2
    <3> QED
      BY <3>1, <3>2, <3>3
  <2>6. LevelsFresh'
    <3> SUFFICES ASSUME NEW k \in 1 .. n
                 PROVE  /\ levels'[k] # {} => k \in levels'[k]
                        /\ \A i \in levels'[k] \ {k} : i < k /\ \A j \in i .. k - 1 : levels'[j] = {}
      BY <2>2 DEF LevelsFresh
    <3>1. CASE k = n
      <4>1. peaks' = {} \/ peaks' = m_peak \cup {n}
        BY <2>3
      <4>2. ASSUME NEW i \in m_peak PROVE i < n /\ \A j \in i .. n - 1 : levels'[j] = {}
        <5>1. i \in 1 .. n - 1 /\ \A j \in i .. n - 1 : levels[j] = {}
          BY <1>0, <2>4 DEF PeakInv
        <5> QED
          BY <2>1, <2>4, <5>1
      <4> QED
        BY <2>1, <3>1, <4>1, <4>2
    <3>2. CASE k # n
      <4>1. k \in 1 .. Len(levels) /\ k \in DOMAIN levels /\ levels'[k] = levels[k]
        BY <1>0, <2>1, <2>4, <3>2
      <4>2. levels[k] # {} => k \in levels[k]
        BY <1>0, <4>1 DEF LevelsFresh
      <4>3. ASSUME NEW i \in levels[k] \ {k} PROVE i < k /\ \A j \in i .. k - 1 : levels'[j] = {}
        <5>1. i < k /\ \A j \in i .. k - 1 : levels[j] = {}
          BY <1>0, <4>1 DEF LevelsFresh
        <5>2. levels[k] \in Level
          BY <1>0, <4>1, ElementOfSeq
        <5>3. i \in 1 .. MaxSuperframe
          BY <5>2 DEF Level
        <5>4. \A j \in i .. k - 1 : j \in 1 .. Len(levels)
          BY <1>0, <4>1, <5>3, OutputAssumption
        <5> QED
          BY <2>1, <5>1, <5>4
      <4> QED
        BY <4>1, <4>2, <4>3
    <3> QED
      BY <3>1, <3>2
  <2> QED
    BY <2>5, <2>6
<1> QED
  BY <1>1, <1>2

\* The outputs are told the levels measured.
LEMMA LevelStep ==
    ASSUME OInv, [Next]_ovars
    PROVE  LevelInv'
<1>0. LoopType /\ ErrorInv /\ LevelInv /\ af \in Seq(AF) /\ levels \in Seq(Level) /\ stats \in Seq(Level)
  BY DEF OInv, MeterType, EdiType
<1>a. /\ Len(levels) \in Nat /\ DOMAIN levels = 1 .. Len(levels)
      /\ Len(stats) \in Nat /\ DOMAIN stats = 1 .. Len(stats) /\ DOMAIN af = 1 .. Len(af)
  BY <1>0, LenProperties
<1>b. superframe \in Nat /\ (InTurn => superframe > 0)
  BY <1>0, OutputAssumption DEF LoopType, ErrorInv
<1>c. ASSUME UNCHANGED <<levels, af, stats>>
      PROVE  /\ \A k \in DOMAIN af' : af'[k].superframe \in 1 .. Len(levels')
                                      /\ af'[k].levels = levels'[af'[k].superframe]
             /\ \A n \in DOMAIN stats' : n \in DOMAIN levels' /\ stats'[n] = levels'[n]
  BY <1>0, <1>c DEF LevelInv
<1>1. CASE NextSuperframe
  <2>1. pc = "input" /\ pc' = "decode" /\ superframe' = superframe + 1
        /\ UNCHANGED <<af, peaks, m_audio, levels, stats>>
    BY <1>1 DEF NextSuperframe, meter, decoder, publisher
  <2>2. Len(levels) = superframe /\ (UseStats => Len(stats) = Len(levels))
    BY <1>0, <2>1 DEF LevelInv
  <2>3. Len(levels') = superframe' - 1
    BY <1>b, <2>1, <2>2
  <2> QED
    BY <1>c, <2>1, <2>2, <2>3 DEF LevelInv
<1>2. CASE TimeOut
  <2>1. pc = "input" /\ pc' = "ended" /\ UNCHANGED <<superframe, af, peaks, m_audio, levels, stats>>
    BY <1>2 DEF TimeOut, meter, decoder, publisher, edi
  <2> QED
    BY <1>0, <1>c, <2>1 DEF LevelInv
<1>3. CASE Decode
  <2>1. /\ pc = "decode" /\ pc' = "zmq"
        /\ superframe = Len(levels) + 1
        /\ Len(levels') = superframe /\ levels'[superframe] = peaks'
        /\ \A j \in 1 .. Len(levels) : levels'[j] = levels[j]
    BY <1>3, LevelsStep
  <2>2. UNCHANGED <<superframe, af, stats>> /\ (UseStats => m_audio' = peaks')
    BY <1>3 DEF Decode, update_audio_levels, edi
  <2>3. DOMAIN levels' = 1 .. Len(levels')
    BY MeterTypeStep, LenProperties DEF MeterType
  <2>4. ASSUME NEW k \in DOMAIN af
        PROVE  af[k].superframe \in 1 .. Len(levels') /\ af[k].levels = levels'[af[k].superframe]
    <3>1. af[k].superframe \in 1 .. Len(levels) /\ af[k].levels = levels[af[k].superframe]
      BY <1>0 DEF LevelInv
    <3> QED
      BY <1>a, <2>1, <3>1
  <2>5. ASSUME NEW n \in DOMAIN stats
        PROVE  n \in DOMAIN levels' /\ stats[n] = levels'[n]
    <3>1. n \in 1 .. Len(levels) /\ stats[n] = levels[n]
      BY <1>0, <1>a DEF LevelInv
    <3> QED
      BY <1>a, <2>1, <2>3, <3>1
  <2>6. UseStats => Len(stats) = Len(levels') - 1
    <3>1. UseStats => Len(stats) = Len(levels)
      BY <1>0, <2>1 DEF LevelInv
    <3>2. Len(levels) = Len(levels') - 1
      BY <1>a, <2>1
    <3> QED
      BY <3>1, <3>2
  <2> QED
    BY <2>1, <2>2, <2>4, <2>5, <2>6 DEF LevelInv
<1>4. CASE WriteZMQ
  <2>1. pc = "zmq" /\ pc' \in {"edi", "count"} /\ UNCHANGED <<superframe, af, peaks, m_audio, levels, stats>>
    BY <1>4 DEF WriteZMQ, meter, decoder, publisher, edi
  <2> QED
    BY <1>0, <1>c, <2>1 DEF LevelInv
<1>5. CASE WriteEDI
  <2> DEFINE p == [superframe |-> superframe, block |-> block, dlfc |-> dlfc, seconds |-> m_edi_time,
                   tsta |-> m_timestamp, levels |-> peaks]
  <2>1. pc = "edi" /\ pc' \in {"edi", "count", "crashed"}
        /\ UNCHANGED <<superframe, peaks, m_audio, levels, stats>>
    BY <1>5 DEF WriteEDI, meter, decoder, publisher
  <2>2. af' = Append(af, p) /\ af' \in Seq(AF)
    BY <1>5, EdiTypeStep DEF WriteEDI, AFPacket, EdiType
  <2>3. p.superframe = superframe /\ p.levels = peaks
    OBVIOUS
  <2> HIDE DEF p
  <2>4. DOMAIN af' = 1 .. Len(af) + 1 /\ af'[Len(af) + 1] = p /\ Len(af) \in Nat
        /\ \A k \in 1 .. Len(af) : af'[k] = af[k]
    <3>1. Len(af') = Len(af) + 1 /\ DOMAIN af' = 1 .. Len(af')
      BY <1>0, <2>2, LenProperties, AppendIsConcat, ConcatProperties
    <3> QED
      BY <1>0, <2>2, <3>1, LenProperties
  <2>5. superframe \in 1 .. Len(levels) /\ peaks = levels[superframe]
    BY <1>0, <1>b, <2>1 DEF LevelInv, InTurn
  <2>6. ASSUME NEW k \in DOMAIN af'
        PROVE  af'[k].superframe \in 1 .. Len(levels) /\ af'[k].levels = levels[af'[k].superframe]
    <3>1. CASE k = Len(af) + 1
      BY <2>3, <2>4, <2>5, <3>1
    <3>2. CASE k # Len(af) + 1
      <4>1. k \in DOMAIN af /\ af'[k] = af[k]
        BY <1>a, <2>4, <3>2
      <4> QED
        BY <1>0, <4>1 DEF LevelInv
    <3> QED
      BY <3>1, <3>2
  <2> QED
    BY <1>0, <2>1, <2>6 DEF LevelInv
<1>6. CASE TaiFails
  <2>1. pc = "edi" /\ pc' = "crashed" /\ UNCHANGED <<superframe, af, peaks, m_audio, levels, stats>>
    BY <1>6 DEF TaiFails, meter, decoder, publisher, edi
  <2> QED
    BY <1>0, <1>c, <2>1 DEF LevelInv
<1>7. CASE Count
  <2>1. pc = "count" /\ pc' \in {"ended", "stats"} /\ UNCHANGED <<superframe, af, peaks, m_audio, levels, stats>>
    BY <1>7 DEF Count, meter, decoder, publisher, edi
  <2> QED
    BY <1>0, <1>c, <2>1 DEF LevelInv
<1>8. CASE SendStats
  <2>1. pc = "stats" /\ pc' = "input" /\ UNCHANGED <<superframe, af, levels>>
    BY <1>8 DEF SendStats, edi
  <2>2. Len(levels) = superframe /\ superframe > 0 /\ peaks = levels[superframe]
        /\ (UseStats => m_audio = peaks /\ Len(stats) = Len(levels) - 1)
    BY <1>0, <1>b, <2>1 DEF LevelInv, InTurn
  <2>3. CASE UseStats
    <3>1. stats' = Append(stats, m_audio) /\ m_audio \in Level
      BY <1>8, <2>3 DEF SendStats, send_stats, OInv, MeterType
    <3>2. Len(stats') = Len(stats) + 1 /\ stats'[Len(stats) + 1] = m_audio
          /\ \A n \in 1 .. Len(stats) : stats'[n] = stats[n]
      BY <1>0, <3>1, AppendProperties
    <3>3. Len(stats) + 1 = superframe /\ Len(stats') = superframe
      BY <1>a, <1>b, <2>2, <2>3, <3>2
    <3>4. DOMAIN stats' = 1 .. superframe
      BY <3>3, MeterTypeStep, LenProperties DEF MeterType
    <3>5. ASSUME NEW n \in DOMAIN stats' PROVE n \in DOMAIN levels /\ stats'[n] = levels[n]
      <4>1. n \in DOMAIN levels
        BY <1>a, <2>2, <3>4
      <4>2. CASE n = superframe
        BY <2>2, <2>3, <3>2, <3>3, <4>2
      <4>3. CASE n # superframe
        <5>1. n \in 1 .. Len(stats)
          BY <1>a, <1>b, <3>3, <3>4, <4>3
        <5> QED
          BY <1>0, <1>a, <3>2, <4>1, <5>1 DEF LevelInv
      <4> QED
        BY <4>1, <4>2, <4>3
    <3> QED
      BY <1>0, <2>1, <2>2, <3>3, <3>5 DEF LevelInv
  <2>4. CASE ~UseStats
    <3>1. UNCHANGED stats
      BY <1>8, <2>4 DEF SendStats, publisher
    <3> QED
      BY <1>0, <1>c, <2>1, <2>2, <2>4, <3>1 DEF LevelInv
  <2> QED
    BY <2>3, <2>4
<1>9. CASE UNCHANGED ovars
  <2>1. UNCHANGED <<pc, superframe, af, peaks, m_audio, levels, stats>>
    BY <1>9 DEF ovars, meter, decoder, publisher, edi
  <2> QED
    BY <1>0, <1>c, <2>1 DEF LevelInv
<1> QED
  BY <1>1, <1>2, <1>3, <1>4, <1>5, <1>6, <1>7, <1>8, <1>9 DEF Next

\* A notice is given when the availability of the destination changes.
LEMMA NoticeStep ==
    ASSUME OInv, [Next]_ovars
    PROVE  NoticeInv'
<1>0. NoticeInv /\ notices \in Seq({"gone", "back"}) /\ m_destination_available \in BOOLEAN
  BY DEF OInv, MeterType, FlagType
<1>a. Len(notices) \in Nat /\ DOMAIN notices = 1 .. Len(notices)
  BY <1>0, LenProperties
<1>1. UNCHANGED <<m_destination_available, notices>> => NoticeInv'
  BY <1>0 DEF NoticeInv, NoticesAlternate
<1>2. ASSUME NEW word \in {"gone", "back"}, notices' = Append(notices, word),
             word = "gone" <=> Len(notices) % 2 = 0
      PROVE  NoticesAlternate' /\ Len(notices') = Len(notices) + 1
  <2>1. DOMAIN notices' = 1 .. Len(notices) + 1 /\ Len(notices') = Len(notices) + 1
        /\ notices'[Len(notices) + 1] = word
        /\ \A k \in 1 .. Len(notices) : notices'[k] = notices[k]
    BY <1>0, <1>2, AppendProperties, LenProperties
  <2>2. ASSUME NEW k \in DOMAIN notices'
        PROVE  notices'[k] = IF k % 2 = 1 THEN "gone" ELSE "back"
    <3>1. CASE k = Len(notices) + 1
      <4>1. k % 2 = 1 <=> Len(notices) % 2 = 0
        BY <1>a, <3>1
      <4> QED
        BY <1>2, <2>1, <3>1, <4>1
    <3>2. CASE k # Len(notices) + 1
      <4>1. k \in DOMAIN notices /\ notices'[k] = notices[k]
        BY <1>a, <2>1, <3>2
      <4> QED
        BY <1>0, <4>1 DEF NoticeInv, NoticesAlternate
    <3> QED
      BY <3>1, <3>2
  <2> QED
    BY <2>1, <2>2 DEF NoticesAlternate
<1>b. Len(notices) % 2 = 0 <=> (Len(notices) + 1) % 2 # 0
  BY <1>a
<1>3. CASE SendStats
  <2>1. CASE UseStats /\ Unavailable /\ m_destination_available
    <3>1. notices' = Append(notices, "gone") /\ m_destination_available' = FALSE
      BY <2>1 DEF Unavailable
    <3>2. Len(notices) % 2 = 0
      BY <1>0, <2>1 DEF NoticeInv
    <3>3. NoticesAlternate' /\ Len(notices') = Len(notices) + 1
      BY <1>2, <3>1, <3>2
    <3> QED
      BY <1>b, <3>1, <3>2, <3>3 DEF NoticeInv
  <2>2. CASE UseStats /\ Available /\ ~m_destination_available
    <3>1. notices' = Append(notices, "back") /\ m_destination_available' = TRUE
      BY <2>2 DEF Available
    <3>2. Len(notices) % 2 # 0
      BY <1>0, <2>2 DEF NoticeInv
    <3>3. NoticesAlternate' /\ Len(notices') = Len(notices) + 1
      BY <1>2, <3>1, <3>2
    <3> QED
      BY <1>b, <3>1, <3>2, <3>3 DEF NoticeInv
  <2>3. \/ UseStats /\ Unavailable /\ m_destination_available
        \/ UseStats /\ Available /\ ~m_destination_available
        \/ UNCHANGED <<m_destination_available, notices>>
    BY <1>0, <1>3 DEF SendStats, send_stats, publisher, Unavailable, Available, OtherError
  <2> QED
    BY <1>1, <2>1, <2>2, <2>3
<1>4. CASE ~SendStats
  <2>1. UNCHANGED meter => UNCHANGED <<m_destination_available, notices>>
    BY DEF meter, publisher
  <2>2. Decode => UNCHANGED <<m_destination_available, notices>>
    BY DEF Decode, update_audio_levels
  <2>3. (NextSuperframe => UNCHANGED meter) /\ (TimeOut => UNCHANGED meter) /\ (WriteZMQ => UNCHANGED meter)
    BY DEF NextSuperframe, TimeOut, WriteZMQ
  <2>4. (WriteEDI => UNCHANGED meter) /\ (TaiFails => UNCHANGED meter) /\ (Count => UNCHANGED meter)
    BY DEF WriteEDI, TaiFails, Count
  <2>5. UNCHANGED ovars => UNCHANGED meter
    BY DEF ovars
  <2> QED
    BY ONLY <1>1, <1>4, <2>1, <2>2, <2>3, <2>4, <2>5, [Next]_ovars DEF Next
<1> QED
  BY <1>3, <1>4
-----------------------------------------------------------------------------
\* The inductive invariant holds in every state.
LEMMA Invariance == Spec => []OInv
<1>1. Init => OInv
  BY InitOInv
<1>2. OInv /\ [Next]_ovars => OInv'
  <2> SUFFICES ASSUME OInv, [Next]_ovars PROVE OInv'
    OBVIOUS
  <2>1. LoopType' /\ EdiType' /\ MeterType' /\ FlagType'
    BY LoopTypeStep, EdiTypeStep, MeterTypeStep
  <2>2. ErrorInv' /\ PartInv' /\ PartsInOrder' /\ LevelInv'
    BY ErrorStep, PartStep, LevelStep
  <2>3. PeakInv' /\ LevelsFresh' /\ NoticeInv'
    BY PeakStep, NoticeStep
  <2> QED
    BY <2>1, <2>2, <2>3 DEF OInv
<1> QED
  BY <1>1, <1>2, PTL DEF Spec

\* What a turn of main's loop keeps, whichever output fails: the parts of EDI in
\* order with consecutive frame counts, the errors counted up to the limit and no
\* further, and the loss of the statistics' receiver said once.
THEOREM OutputsCorrect == Spec => []OutputInv
<1>1. OInv => OutputInv
  <2> SUFFICES ASSUME OInv PROVE OutputInv
    OBVIOUS
  <2>1. OTypeOK
    <3>1. peaks \subseteq 1 .. MaxSuperframe /\ m_peak \subseteq 1 .. MaxSuperframe
      BY DEF OInv, MeterType, Level
    <3> QED
      BY <3>1 DEF OInv, LoopType, EdiType, FlagType, OTypeOK
  <2>2. AbortsOnErrors
    <3>1. ErrorInv /\ LoopType /\ MaxErrors \in Nat
      BY OutputAssumption DEF OInv
    <3>2. CASE pc = "ended"
      <4>1. Cardinality(zmqError) = send_error_count
        BY <3>1, <3>2 DEF ErrorInv, Uncounted, LoopType
      <4> QED
        BY <3>1, <3>2, <4>1 DEF ErrorInv, LoopType, AbortsOnErrors
    <3>3. CASE pc # "ended"
      <4>1. retval # 4 /\ send_error_count <= MaxErrors /\ send_error_count \in Nat
        BY <3>1, <3>3 DEF ErrorInv, LoopType
      <4>2. Cardinality(zmqError) = send_error_count \/ Cardinality(zmqError) = send_error_count + 1
        BY <3>1, <4>1 DEF ErrorInv
      <4>3. Cardinality(zmqError) <= MaxErrors + 1
        BY <3>1, <4>1, <4>2
      <4> QED
        BY <3>3, <4>1, <4>3 DEF AbortsOnErrors
    <3> QED
      BY <3>2, <3>3
  <2> QED
    BY <2>1, <2>2 DEF OInv, OutputInv, NoticeInv
<1> QED
  BY <1>1, Invariance, PTL

\* The levels given for a superframe are its own, or 0, or those of superframes
\* that failed to decode directly before it: AACDecoder resets its peaks when, and
\* only when, they have been asked for.
THEOREM LevelsOfSuperframe == Spec => []LevelsFresh
<1>1. OInv => LevelsFresh
  BY DEF OInv
<1> QED
  BY <1>1, Invariance, PTL

\* EDI and the statistics are given the same levels for the same superframe.
THEOREM OutputsAgree == Spec => []LevelsAgree
<1>1. OInv => LevelsAgree
  <2> SUFFICES ASSUME OInv PROVE LevelsAgree
    OBVIOUS
  <2>1. LevelInv /\ levels \in Seq(Level) /\ stats \in Seq(Level)
    BY DEF OInv, MeterType
  <2>2. DOMAIN levels = 1 .. Len(levels) /\ DOMAIN stats = 1 .. Len(stats)
        /\ Len(levels) \in Nat /\ Len(stats) \in Nat
    BY <2>1, LenProperties
  <2>3. Len(stats) <= Len(levels)
    <3>1. CASE Len(stats) = 0
      BY <2>2, <3>1
    <3>2. CASE Len(stats) > 0
      <4>1. Len(stats) \in DOMAIN stats
        BY <2>2, <3>2
      <4>2. Len(stats) \in DOMAIN levels
        BY <2>1, <4>1 DEF LevelInv
      <4> QED
        BY <2>2, <4>2
    <3> QED
      BY <2>2, <3>1, <3>2
  <2> QED
    BY <2>1, <2>3 DEF LevelInv, LevelsAgree
<1> QED
  BY <1>1, Invariance, PTL
=============================================================================
