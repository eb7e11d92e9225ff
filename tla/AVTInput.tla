------------------------------- MODULE AVTInput -------------------------------
(***************************************************************************)
(* src/AVTInput.cpp, called from the main loop of odr-sourcecompanion.cpp:  *)
(* the 24 ms frames of an encoder arrive over UDP, go through the           *)
(* OrderedQueue and are assembled into superframes of five parts; PAD       *)
(* frames are fetched from ODR-PadEnc, queued, and sent to the encoder one  *)
(* per request.                                                             *)
(*                                                                         *)
(* All of it runs in the main thread; pc says where it is.  The encoder,    *)
(* the network and ODR-PadEnc (external) interleave with it at every step.  *)
(* Time is counted in frames of 24 ms: the encoder sends one frame per      *)
(* unit, so that the number of frames sent is the current time, and a       *)
(* capture timestamp is its value when the packet is read.  The frame n     *)
(* carries the index n % MaxIndex.                                          *)
(***************************************************************************)
EXTENDS OrderedQueue, Sequences

CONSTANTS
    PadPort,        \* _pad_port # 0: the PAD socket is open, and PAD goes to the encoder
    PadLen,         \* padlen # 0: ODR-PadEnc is asked for PAD
    MaxPadQueue,    \* MAX_PAD_FRAME_QUEUE_SIZE
    Buf,            \* size of main's output buffer, in parts of 24 ms
    MayTimeOut,     \* avt_timeout may elapse
    Steady,         \* main takes a turn between two frames of the encoder
    MaxFrame,       \* bound: the encoder sends the frames 0 .. MaxFrame - 1
    MaxPad,         \* bound: PAD replies of ODR-PadEnc, and PAD messages of the encoder
    MaxFault,       \* bound: packets lost, duplicated or damaged by the network
    Window          \* bound: the network delays a frame by less than Window frames

\* Superframes of five parts keep their phase across the wrap-around of the
\* index, and main's buffer has room for one (outbuf is 24*120 bytes, the
\* largest superframe setDabPlusParameters() accepts).
ASSUME SuperframeAssumption == MaxIndex % 5 = 0
ASSUME BufAssumption == Buf \in Nat /\ Buf >= 5
ASSUME FlagAssumption == {PadPort, PadLen, MayTimeOut, Steady} \subseteq BOOLEAN
ASSUME PadAssumption == MaxPadQueue \in Nat \ {0} /\ MaxPad \in Nat
ASSUME NetAssumption == MaxFrame \in Nat /\ MaxFault \in Nat /\ Window \in Nat
ASSUME FrameDef == Frame = [n : 0 .. MaxFrame - 1, ts : 0 .. MaxFrame]

VARIABLES
    pc,             \* "fill", "drain", "assemble", "part", "timedout"
    part,           \* the frame pop() returned
    frameAligned,   \* _frameAligned
    nbFrames,       \* _nbFrames
    currentFrame,   \* _currentFrame up to _currentFrameSize: its parts' numbers
    expectedFrameIndex,     \* _expectedFrameIndex
    frameZeroTimestamp,     \* _frameZeroTimestamp
    padFrameQueue,  \* _padFrameQueue
    out,            \* the last superframe getNextFrame() returned, with its ts
    sent, inflight, faults,         \* the encoder and the network
    padReplies, padMade,            \* replies in the PAD socket; replies made
    padMessages, padAsked, padSent, \* messages of the encoder, and PAD sent to it
    warned,         \* history: a sequence error since the last alignment
    origin          \* history: the frame of the last alignment

queueVars == <<stock, lastIndexPop, duplicated, overruns, pushed, popped>>
assembly == <<frameAligned, nbFrames, currentFrame, expectedFrameIndex,
              frameZeroTimestamp, warned, origin>>
netVars == <<sent, inflight, faults>>
padenc == <<padReplies, padMade>>
padVars == <<padFrameQueue, padMessages, padAsked, padSent>>
avars == <<queueVars, pc, part, assembly, out, netVars, padenc, padVars>>

AInit ==
    /\ Init
    /\ pc = "fill"
    /\ part = None
    /\ frameAligned = FALSE
    /\ nbFrames = 0
    /\ currentFrame = <<>>
    /\ expectedFrameIndex = 0
    /\ frameZeroTimestamp = 0
    /\ padFrameQueue = <<>>
    /\ out = None
    /\ sent = 0 /\ inflight = {} /\ faults = 0
    /\ padReplies = <<>> /\ padMade = 0
    /\ padMessages = <<>> /\ padAsked = 0 /\ padSent = <<>>
    /\ warned = FALSE
    /\ origin = None
-----------------------------------------------------------------------------
(* The environment.  main looks at its sockets only where pc says below; what *)
(* happens outside of it at other times commutes with main's steps, and is    *)
(* left to the next time main looks.                                          *)

\* The encoder sends its next frame: at any time, or once per turn of main when
\* main is Steady (its turns take 1 ms, and the encoder sends every 24 ms).
Send ==
    /\ pc = IF Steady THEN "fill" ELSE "drain"
    /\ sent < MaxFrame
    /\ \A n \in inflight : sent - n < Window
    /\ sent' = sent + 1
    /\ inflight' = inflight \cup {sent}
    /\ UNCHANGED <<queueVars, pc, part, assembly, out, faults, padenc, padVars>>

Lose(n) ==
    /\ pc = "drain"
    /\ faults < MaxFault
    /\ inflight' = inflight \ {n}
    /\ faults' = faults + 1
    /\ UNCHANGED <<queueVars, pc, part, assembly, out, sent, padenc, padVars>>

\* The encoder requests a PAD frame (0xFD 0x17), or sends another message.
SendMessage(m) ==
    /\ PadPort /\ pc \in {"drain", "part"}
    /\ padAsked + Len(padMessages) < MaxPad
    /\ padMessages' = Append(padMessages, m)
    /\ UNCHANGED <<queueVars, pc, part, assembly, out, netVars, padenc,
                   padFrameQueue, padAsked, padSent>>

\* ODR-PadEnc answers a request: PAD data, data whose length byte is zero, or
\* data of the wrong length.
PadEncReply(kind) ==
    /\ PadLen /\ pc = "fill"
    /\ padMade < MaxPad
    /\ padMade' = padMade + 1
    /\ padReplies' = Append(padReplies, [id |-> padMade + 1, kind |-> kind])
    /\ UNCHANGED <<queueVars, pc, part, assembly, out, netVars, padVars>>
-----------------------------------------------------------------------------
(* main: the PAD fill loop. *)

\* padQueueFull()
padQueueFull == Len(padFrameQueue) >= MaxPadQueue

\* pushPADFrame() does nothing without a PAD port, or for an empty frame.
pushPADFrame(r) ==
    padFrameQueue' = IF PadPort /\ r.kind = "pad"
                     THEN Append(padFrameQueue, r.id) ELSE padFrameQueue

\* One turn of the loop: PadInterface::request() has a reply.
FillPAD ==
    /\ pc = "fill" /\ PadLen /\ ~padQueueFull
    /\ padReplies # <<>>
    /\ LET r == Head(padReplies) IN
       IF r.kind = "wrong"
       THEN pc' = "drain" /\ UNCHANGED padFrameQueue
       ELSE pushPADFrame(r) /\ UNCHANGED pc
    /\ padReplies' = Tail(padReplies)
    /\ UNCHANGED <<queueVars, part, assembly, out, netVars, padMade,
                   padMessages, padAsked, padSent>>

\* The loop ends: the queue is full, or no reply is there yet.
FillDone ==
    /\ pc = "fill"
    /\ ~PadLen \/ padQueueFull \/ padReplies = <<>>
    /\ pc' = "drain"
    /\ UNCHANGED <<queueVars, part, assembly, out, netVars, padenc, padVars>>
-----------------------------------------------------------------------------
(* getNextFrame(): read all messages, in priority, and all frames. *)

\* Mutant: _sendPADFrame() leaves the frame it sends in the queue.
sendPADFrameNoPop ==
    IF padFrameQueue # <<>>
    THEN padSent' = Append(padSent, Head(padFrameQueue)) /\ UNCHANGED padFrameQueue
    ELSE UNCHANGED <<padFrameQueue, padSent>>

\* _sendPADFrame(): nothing is sent when no PAD frame is queued.
sendPADFrame ==
    IF padFrameQueue # <<>>
    THEN /\ padSent' = Append(padSent, Head(padFrameQueue))
         /\ padFrameQueue' = Tail(padFrameQueue)
    ELSE UNCHANGED <<padFrameQueue, padSent>>

\* _checkMessage() has a message; _interpretMessage() acts on PAD requests only.
\* The loops of getNextFrame() call it before each frame is read, and until
\* there is no message after each pop.
CheckMessage ==
    /\ pc \in {"drain", "part"}
    /\ padMessages # <<>>
    /\ padMessages' = Tail(padMessages)
    /\ padAsked' = padAsked + 1
    /\ IF Head(padMessages) = "request"
       THEN sendPADFrame ELSE UNCHANGED <<padFrameQueue, padSent>>
    /\ UNCHANGED <<queueVars, pc, part, assembly, out, netVars, padenc>>

\* _checkMessage() has none.  Without a PAD port the socket it receives from blocks and
\* is bound to no port: it never returns, and nothing is read.
NoMessage == PadPort /\ padMessages = <<>>

\* _readFrame() receives frame n, whole, and pushes it with its capture time.
\* The network may have duplicated the packet.
ReadFrame(n) ==
    /\ pc = "drain" /\ NoMessage
    /\ Push(n % MaxIndex, [n |-> n, ts |-> sent])
    /\ \/ inflight' = inflight \ {n} /\ UNCHANGED faults
       \/ faults < MaxFault /\ faults' = faults + 1 /\ UNCHANGED inflight
    /\ UNCHANGED <<pc, part, assembly, out, sent, padenc, padVars>>

\* _readFrame() receives a packet that holds no frame of the configured size.
ReadJunk(n) ==
    /\ pc = "drain" /\ NoMessage
    /\ faults < MaxFault
    /\ faults' = faults + 1
    /\ inflight' = inflight \ {n}
    /\ UNCHANGED <<queueVars, pc, part, assembly, out, sent, padenc, padVars>>

\* Neither a message nor a packet is there.
DrainDone ==
    /\ pc = "drain" /\ NoMessage
    /\ pc' = "assemble"
    /\ UNCHANGED <<queueVars, part, assembly, out, netVars, padenc, padVars>>
-----------------------------------------------------------------------------
(* getNextFrame(): assemble the next superframe. *)

PopPart(gap) ==
    /\ pc = "assemble" /\ nbFrames < 5
    /\ part' = [index |-> Ahead(gap), frame |-> stock[Ahead(gap)]]
    /\ PopFrame(gap)
    /\ pc' = "part"
    /\ UNCHANGED <<assembly, out, netVars, padenc, padVars>>

\* Mutant: the expected index is not advanced.
AcceptSameIndex ==
    /\ currentFrame' = Append(currentFrame, part.frame.n)
    /\ nbFrames' = nbFrames + 1
    /\ expectedFrameIndex' = part.index

\* The part joins _currentFrame.
Accept ==
    /\ currentFrame' = Append(currentFrame, part.frame.n)
    /\ nbFrames' = nbFrames + 1
    /\ expectedFrameIndex' = (part.index + 1) % MaxIndex

\* Not aligned: only a first part of a superframe is accepted.
Align ==
    /\ ~frameAligned /\ part.index % 5 = 0
    /\ frameAligned' = TRUE
    /\ frameZeroTimestamp' = part.frame.ts
    /\ warned' = FALSE
    /\ origin' = part.frame
    /\ Accept

Skip ==
    /\ ~frameAligned /\ part.index % 5 # 0
    /\ UNCHANGED assembly

\* Mutant: the first part of a superframe does not advance the time.
ContinueTimeLags ==
    /\ frameAligned /\ part.index % 5 = nbFrames
    /\ frameZeroTimestamp' = IF nbFrames = 0 THEN frameZeroTimestamp
                             ELSE frameZeroTimestamp + 1
    /\ warned' = (warned \/ expectedFrameIndex # part.index)
    /\ Accept
    /\ UNCHANGED <<frameAligned, origin>>

\* Mutant: the phase of the part is not compared with the number of parts.
ContinueAnyPhase ==
    /\ frameAligned
    /\ frameZeroTimestamp' = frameZeroTimestamp + 1
    /\ warned' = (warned \/ expectedFrameIndex # part.index)
    /\ Accept
    /\ UNCHANGED <<frameAligned, origin>>

\* Aligned, and the part has the phase of the next one: it is accepted even
\* when it is not the expected one, with a warning.
Continue ==
    /\ frameAligned /\ part.index % 5 = nbFrames
    /\ frameZeroTimestamp' = frameZeroTimestamp + 1
    /\ warned' = (warned \/ expectedFrameIndex # part.index)
    /\ Accept
    /\ UNCHANGED <<frameAligned, origin>>

\* Mutant: the size of the parts is not reset.
ResetKeepsSize ==
    /\ frameAligned /\ part.index % 5 # nbFrames
    /\ nbFrames' = 0
    /\ frameAligned' = FALSE
    /\ expectedFrameIndex' = 0
    /\ UNCHANGED <<currentFrame, frameZeroTimestamp, warned, origin>>

\* Aligned, and the part has the wrong phase: it is dropped, with the parts
\* assembled so far, even if it is the first part of a superframe.
Reset ==
    /\ frameAligned /\ part.index % 5 # nbFrames
    /\ nbFrames' = 0
    /\ currentFrame' = <<>>
    /\ frameAligned' = FALSE
    /\ expectedFrameIndex' = 0
    /\ UNCHANGED <<frameZeroTimestamp, warned, origin>>

TakePart ==
    /\ pc = "part" /\ NoMessage
    /\ Align \/ Skip \/ Continue \/ Reset
    /\ part' = None
    /\ pc' = "assemble"
    /\ UNCHANGED <<queueVars, out, netVars, padenc, padVars>>

AssembleDone == pc = "assemble" /\ (nbFrames = 5 \/ PopEmpty)

\* A superframe is returned; it stays aligned.  main writes it to its outputs
\* and starts over.
Return ==
    /\ AssembleDone
    /\ nbFrames = 5 /\ Len(currentFrame) <= Buf
    /\ out' = [parts |-> currentFrame, ts |-> frameZeroTimestamp]
    /\ currentFrame' = <<>>
    /\ nbFrames' = 0
    /\ pc' = "fill"
    /\ UNCHANGED <<queueVars, part, frameAligned, expectedFrameIndex,
                   frameZeroTimestamp, warned, origin, netVars, padenc, padVars>>

\* Nothing to return yet: main tries again after a pause, or times out.
ReturnNothing ==
    /\ AssembleDone
    /\ ~(nbFrames = 5 /\ Len(currentFrame) <= Buf)
    /\ pc' \in {"fill"} \cup (IF MayTimeOut THEN {"timedout"} ELSE {})
    /\ UNCHANGED <<queueVars, part, assembly, out, netVars, padenc, padVars>>
-----------------------------------------------------------------------------
Environment ==
    \/ Send
    \/ \E n \in inflight : Lose(n)
    \/ \E m \in {"request", "other"} : SendMessage(m)
    \/ \E kind \in {"pad", "empty", "wrong"} : PadEncReply(kind)

Main ==
    \/ FillPAD
    \/ FillDone
    \/ CheckMessage
    \/ \E n \in inflight : ReadFrame(n) \/ ReadJunk(n)
    \/ DrainDone
    \/ \E gap \in Index : PopPart(gap)
    \/ TakePart
    \/ Return
    \/ ReturnNothing

ANext == Environment \/ Main

ASpec == AInit /\ [][ANext]_avars

\* The main thread keeps running, the encoder keeps sending, and of the packets
\* that stay in the network one is there in some read that looks for it.
AFairSpec ==
    /\ ASpec
    /\ WF_avars(Main)
    /\ SF_avars(Send)
    /\ SF_avars(\E n \in inflight : ReadFrame(n))
-----------------------------------------------------------------------------
Part == [index : Index, frame : Frame]

\* Type correctness of the members of AVTInput and of its environment.
ATypeOK ==
    /\ TypeOK
    /\ pc \in {"fill", "drain", "assemble", "part", "timedout"}
    /\ pc = "part" => part \in Part
    /\ pc # "part" => part = None
    /\ frameAligned \in BOOLEAN
    /\ nbFrames \in 0 .. 5
    /\ currentFrame \in Seq(Nat)
    /\ expectedFrameIndex \in Index
    /\ frameZeroTimestamp \in Nat
    /\ padFrameQueue \in Seq(Nat)
    /\ out # None => out \in [parts : Seq(Nat), ts : Nat]
    /\ sent \in 0 .. MaxFrame
    /\ inflight \subseteq 0 .. MaxFrame - 1
    /\ faults \in Nat
    /\ padReplies \in Seq([id : Nat, kind : {"pad", "empty", "wrong"}])
    /\ padMade \in Nat
    /\ padMessages \in Seq({"request", "other"})
    /\ padAsked \in Nat
    /\ padSent \in Seq(Nat)
    /\ warned \in BOOLEAN
    /\ origin \in Frame \cup {None}

\* The frame under assembly holds nbFrames parts, each in the position of its
\* phase, and none without alignment: memcpy() never writes past the five parts
\* of _currentFrame, and never mixes phases.
AssemblyAligned ==
    /\ Len(currentFrame) = nbFrames
    /\ \A k \in 1 .. nbFrames : currentFrame[k] % 5 = k - 1
    /\ nbFrames > 0 => frameAligned

\* The state of the assembly between any two steps of getNextFrame(): typed and
\* aligned, wherever in the superframe frames are lost, repeated or late.
AssemblyInv == ATypeOK /\ AssemblyAligned

\* Every superframe returned consists of five parts in the positions of their
\* phases, whatever the network lost, reordered, duplicated or damaged.
SuperframesAligned ==
    out # None =>
        /\ Len(out.parts) = 5
        /\ \A k \in 1 .. 5 : out.parts[k] % 5 = k - 1

\* Without a sequence error since the last alignment, the parts under assembly
\* are contiguous: they are the ones just before the expected index.
ContiguousUnlessWarned ==
    frameAligned /\ ~warned =>
        \A k \in 1 .. nbFrames :
            (currentFrame[k] + nbFrames - k + 1) % MaxIndex = expectedFrameIndex

\* Without a sequence error, the timestamp stays the capture time of the frame
\* of the last alignment plus 24 ms for each index since: jitter never adds up.
TimestampTracks ==
    frameAligned /\ ~warned =>
        (origin.n + frameZeroTimestamp - origin.ts + 1) % MaxIndex = expectedFrameIndex

\* PAD frames reach the encoder in the order in which ODR-PadEnc made them, none
\* twice, and at most one per message of the encoder.
PADInOrder ==
    LET pads == padSent \o padFrameQueue IN
    /\ \A i, j \in DOMAIN pads : i < j => pads[i] < pads[j]
    /\ Len(padSent) <= padAsked

\* main never queues more than MAX_PAD_FRAME_QUEUE_SIZE PAD frames.
PADQueueBounded == Len(padFrameQueue) <= MaxPadQueue

\* The PAD queue between main's fill loop and the requests of the encoder is an
\* ordered one of bounded length, whatever ODR-PadEnc has answered at once.
PADInv == PADInOrder /\ PADQueueBounded

\* Unless main times out, a fault of the network (a packet lost, damaged or
\* duplicated) costs at most the superframe it hits and the next one, whose first
\* part may be the one that resets the alignment.  The superframes after those
\* come out again, whatever PAD traffic there is: main hangs neither in
\* getNextFrame() nor in the PAD fill loop.
Recovers ==
    <>(\/ pc = "timedout"
       \/ out # None /\ out.parts[5] >= 5 * (MaxFrame \div 5) - 1 - 10 * MaxFault)
=============================================================================
