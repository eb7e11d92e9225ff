-------------------------------- MODULE Startup -------------------------------
(***************************************************************************)
(* main() of odr-sourcecompanion.cpp up to its loop, with what it calls:    *)
(* ZMQ::connect(), EDI::add_*_destination(), PadInterface::open(),          *)
(* AVTInput::prepare() and setDabPlusParameters(), and StatsPublisher().    *)
(*                                                                         *)
(* The options are one record, conf.  A URI is the record [colon, address,  *)
(* port]: what _parseURI() looks at.  The system calls are external.        *)
(***************************************************************************)
EXTENDS Integers, Sequences

CONSTANTS
    Confs,          \* the options to try
    NoUri           \* an option that is not given

\* The bitrate is an integer.  The encoder sends frames of 8 kbit/s or a multiple
\* of it, which are 24 bytes in 24 ms.
ASSUME ConfsAssumption ==
    \A c \in Confs :
        /\ c.bitrate \in Int
        /\ c.encoder.rtp \in BOOLEAN /\ c.encoder.crc \in BOOLEAN
        /\ c.encoder.lastBit \in BOOLEAN
        /\ c.encoder.streams \in Nat
        /\ c.encoder.frameSize \in Nat /\ c.encoder.frameSize % 24 = 0

VARIABLES
    main,           \* "unused", "options", "outputs", "pad", "input", "control",
                    \*   "padport", "purge", "parameters", "stats", "first",
                    \*   "running"; "refused" (exit code 1), "crashed" (uncaught),
                    \*   "killed" (by the system, in STIInput)
    conf,
    destinations,   \* m_edi_conf.destinations
    padOpen,        \* PadInterface::open() was called
    padBlocking,    \* _input_pad_socket is as UDPSocket() made it: blocking, unbound
    padPending,     \* datagrams that wait in _input_pad_socket
    params,         \* _subChannelIndex, _audioMode, _dac and _dab24msFrameSize
    control         \* the control messages sent to the encoder

startVars == <<main, conf, destinations, padOpen, padBlocking, padPending, params, control>>

StartInit ==
    /\ main \in {"unused", "options"}
    /\ conf \in Confs
    /\ destinations = {}
    /\ padOpen = FALSE
    /\ padBlocking = TRUE
    /\ padPending \in 0 .. 1
    /\ params = [index |-> 8, mode |-> 0, dac |-> 1, frameSize |-> 192]
    /\ control = <<>>

\* The checks of the options, in their order, and the command of --startup-check.
OptionsValid ==
    /\ conf.identifier <= 32
    /\ conf.padlen \in 0 .. 255
    /\ conf.input # NoUri
    /\ conf.check # "fails"
    /\ conf.zmq # "none" \/ conf.edi # {}

CheckOptions ==
    /\ main = "options"
    /\ main' = IF OptionsValid THEN "outputs" ELSE "refused"
    /\ UNCHANGED <<conf, destinations, padOpen, padBlocking, padPending, params, control>>

\* ZMQ::connect() throws if the key file or the URI is bad.
zmqConnects == conf.zmq # "bad"

\* An EDI URL that is neither tcp:// nor udp://, or has no port, only gives a
\* message; stoi() throws if the port is no number.
ConnectOutputs ==
    /\ main = "outputs"
    /\ LET urls == {u \in conf.edi : u.proto \in {"tcp", "udp"} /\ u.colon}
       IN IF zmqConnects /\ \A u \in urls : u.number
          THEN main' = "pad" /\ destinations' = urls
          ELSE main' = "crashed" /\ UNCHANGED destinations
    /\ UNCHANGED <<conf, padOpen, padBlocking, padPending, params, control>>

\* PadInterface::open() throws if it cannot have its socket.
OpenPad ==
    /\ main = "pad"
    /\ padOpen' = (conf.padlen # 0 /\ conf.padIdent)
    /\ main' \in {"input"} \cup (IF padOpen' THEN {"crashed"} ELSE {})
    /\ UNCHANGED <<conf, destinations, padBlocking, padPending, params, control>>
-----------------------------------------------------------------------------
(* AVTInput::prepare() *)

\* _parseURI(): a port that strtol() cannot read is 0.
parseURI(u) == u.colon /\ u.port \in 1 .. 65535

\* UDPSocket::reinit(): false, an exception, if there is nothing to bind to.
reinit(port) == IF port = 0 THEN {TRUE} ELSE BOOLEAN

\* UDPSocket::joinGroup(): also if the address is not a multicast group.
joinGroup(address) == IF address = "group" THEN BOOLEAN ELSE {FALSE}

\* _openSocketSrv(): what it may come to.
openSocketSrv(u) ==
    IF ~parseURI(u) THEN {"error"}
    ELSE {IF bound /\ joined THEN "open" ELSE "throws" :
            bound \in reinit(u.port),
            joined \in IF u.address = "" THEN {TRUE} ELSE joinGroup(u.address)}

\* _openSocketCli(): resolveUdpDestination() throws if it cannot resolve.
openSocketCli(u) == IF ~parseURI(u) THEN {"error"} ELSE {"open", "throws"}

After(result, next) == [open |-> next, error |-> "refused", throws |-> "crashed"][result]

OpenInput ==
    /\ main = "input"
    /\ \E r \in openSocketSrv(conf.input) : main' = After(r, "control")
    /\ UNCHANGED <<conf, destinations, padOpen, padBlocking, padPending, params, control>>

OpenControl ==
    /\ main = "control"
    /\ IF conf.output = NoUri THEN main' = "padport"
       ELSE \E r \in openSocketCli(conf.output) : main' = After(r, "padport")
    /\ UNCHANGED <<conf, destinations, padOpen, padBlocking, padPending, params, control>>

\* _openSocketSrv() for the PAD port; _purgeMessages() follows, whatever it
\* returned.
OpenPadPort ==
    /\ main = "padport"
    /\ IF conf.padPort = 0 THEN main' = "parameters" /\ UNCHANGED padBlocking
       ELSE \E r \in openSocketSrv([colon |-> TRUE, address |-> "", port |-> conf.padPort]) :
              /\ main' = IF r = "throws" THEN "crashed" ELSE "purge"
              /\ padBlocking' = (r # "open")
    /\ UNCHANGED <<conf, destinations, padOpen, padPending, params, control>>

\* UDPSocket::receive(): an empty packet if there is none.  A socket that blocks
\* and is bound to no port never returns from recvfrom().
receive ==
    /\ ~padBlocking
    /\ padPending' = IF padPending > 0 THEN padPending - 1 ELSE 0

\* _purgeMessages(): one turn of the loop.
Purge ==
    /\ main = "purge"
    /\ receive
    /\ main' = IF padPending > 0 THEN "purge" ELSE "parameters"
    /\ UNCHANGED <<conf, destinations, padOpen, padBlocking, params, control>>
-----------------------------------------------------------------------------
(* AVTInput::setDabPlusParameters() *)

BitrateValid(index) == index * 8 = conf.bitrate /\ index \in 1 .. 24

audioMode ==
    IF conf.channels = 1 THEN (IF conf.mode = "lc" THEN 0 ELSE 1)
    ELSE CASE conf.mode = "lc" -> 2 [] conf.mode = "sbr" -> 3 [] conf.mode = "ps" -> 4

\* Mutant: the rate is sent in place of the index.
ControlMessageRate(p) == <<253, 7, p.index * 8, p.mode, p.dac, 0>>

\* _sendCtrlMessage(): the bytes of the message.
ControlMessage(p) == <<253, 7, p.index % 256, p.mode, p.dac, 0>>

\* Mutant: the message is sent before the channels have been checked.
SetDabPlusParametersEarly ==
    /\ main = "parameters"
    /\ params' = [index |-> conf.bitrate \div 8, frameSize |-> conf.bitrate * 3,
                  dac |-> IF conf.rate = 48000 THEN 1 ELSE 0, mode |-> audioMode]
    /\ IF conf.output = NoUri THEN UNCHANGED control
       ELSE control' = Append(control, ControlMessage(params'))
    /\ main' = IF /\ BitrateValid(conf.bitrate \div 8) /\ conf.rate \in {32000, 48000}
                  /\ conf.channels \in {1, 2}
               THEN "stats" ELSE "refused"
    /\ UNCHANGED <<conf, destinations, padOpen, padBlocking, padPending>>

\* What is set before a check that fails stays set.  UDPSocket::send() throws for
\* an error other than a refused connection.
SetDabPlusParameters ==
    /\ main = "parameters"
    /\ LET index == conf.bitrate \div 8
           rateOk == BitrateValid(index) /\ conf.rate \in {32000, 48000}
           valid == rateOk /\ conf.channels \in {1, 2}
       IN /\ params' = [index |-> index,
                        frameSize |-> conf.bitrate * 3,
                        dac |-> IF rateOk THEN (IF conf.rate = 48000 THEN 1 ELSE 0) ELSE params.dac,
                        mode |-> IF valid THEN audioMode ELSE params.mode]
          /\ IF valid /\ conf.output # NoUri
             THEN \/ main' = "stats" /\ control' = Append(control, ControlMessage(params'))
                  \/ main' = "crashed" /\ UNCHANGED control
             ELSE main' = (IF valid THEN "stats" ELSE "refused") /\ UNCHANGED control
    /\ UNCHANGED <<conf, destinations, padOpen, padBlocking, padPending>>

\* StatsPublisher(): its exception is caught.
OpenStats ==
    /\ main = "stats"
    /\ main' \in {"first"} \cup (IF conf.stats THEN {"refused"} ELSE {})
    /\ UNCHANGED <<conf, destinations, padOpen, padBlocking, padPending, params, control>>

\* PadInterface::request(), called if there is a PAD length, throws a logic_error if
\* open() has not been called.
requestThrows == conf.padlen # 0 /\ ~padOpen

\* The first turn of the loop.  getNextFrame() starts with _checkMessage(), which
\* receives from the PAD socket whether or not there is a PAD port.
FirstTurn ==
    /\ main = "first"
    /\ IF requestThrows
       THEN main' = "crashed" /\ UNCHANGED padPending
       ELSE main' = "running" /\ receive
    /\ UNCHANGED <<conf, destinations, padOpen, padBlocking, params, control>>

StartNext ==
    \/ CheckOptions \/ ConnectOutputs \/ OpenPad
    \/ OpenInput \/ OpenControl \/ OpenPadPort \/ Purge
    \/ SetDabPlusParameters \/ OpenStats \/ FirstTurn

\* main runs: nothing but a system call that does not return stops it.
StartSpec ==
    StartInit /\ [][StartNext]_startVars /\ WF_startVars(StartNext)
-----------------------------------------------------------------------------
\* Once the loop starts, a superframe of five frames fits the 24 * 120 bytes of
\* main's outbuf and is the outbuf_size that main computes on its own; it cuts
\* into the 120-byte columns of the decoder and the five parts of EDI.
SuperframeFits ==
    main \in {"stats", "first", "running"} =>
        LET superframe == 5 * params.frameSize
        IN /\ superframe <= 24 * 120
           /\ superframe = (conf.bitrate \div 8) * 120
           /\ superframe % 120 = 0

\* A start that is refused for its options or its audio parameters has not
\* changed the encoder's settings: at most one message is sent to it, after
\* everything has been checked but the statistics socket, and the superframes it
\* makes the encoder send fit main's buffer.
EncoderSetOnlyIfValid ==
    /\ SuperframeFits
    /\ Len(control) <= 1
    /\ control # <<>> =>
        /\ main \in {"stats", "first", "running", "crashed", "refused", "killed"}
        /\ main = "refused" => conf.stats
        /\ main = "crashed" => conf.padlen # 0 /\ ~padOpen
        /\ OptionsValid /\ conf.channels \in {1, 2}

\* "\return nonzero on error" (AVTInput.h): prepare() returns.
PrepareReturns == main = "input" ~> main \in {"parameters", "refused", "crashed"}

\* "--pad-port=port  Port opened for PAD Frame requests (def=0 not opened)" (the usage
\* text): the program works without a PAD port, so its loop comes to read frames.
LoopStarts == main = "first" ~> main \in {"running", "crashed"}
=============================================================================
