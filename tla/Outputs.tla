------------------------------- MODULE Outputs --------------------------------
(***************************************************************************)
(* The second half of main's loop in odr-sourcecompanion.cpp, and           *)
(* src/Outputs.cpp: the level of each superframe that AVTInput returns is   *)
(* measured (LevelMeter), and it goes to ZeroMQ in one piece and to EDI in  *)
(* five parts, each of them one AF packet.                                  *)
(*                                                                         *)
(* ZeroMQ, the bulletin servers and the input are external.  The n-th       *)
(* superframe has the timestamp StartMs + 120 * n, in milliseconds.         *)
(***************************************************************************)
EXTENDS LevelMeter, Integers, FiniteSets

CONSTANTS
    UseZMQ,         \* a ZeroMQ output is configured
    UseEDI,         \* an EDI output is configured
    TistEnabled,    \* tist_enabled: option -T is given
    DelayMs,        \* tist_delay_ms
    StartMs,        \* timestamp of the superframe 0
    MaxErrors,      \* 10: sending may fail this often
    TaiMayFail,     \* no TAI bulletin may be had when it is asked for first
    MaxSuperframe   \* bound: superframes AVTInput returns

ASSUME OutputAssumption ==
    /\ {UseZMQ, UseEDI, TistEnabled, TaiMayFail} \subseteq BOOLEAN
    /\ UseZMQ \/ UseEDI
    /\ {DelayMs, StartMs, MaxErrors, MaxSuperframe} \subseteq Nat

VARIABLES
    pc,             \* "input", "decode", "zmq", "edi", "count", "stats", "ended",
                    \*   "crashed"
    superframe,     \* the number of superframes read
    block,          \* i: the part that goes to EDI next
    success,
    send_error_count,
    retval,
    m_edi_time,     \* seconds of the timestamp
    m_timestamp,    \* its rest, in units of 2^-14 ms, modulo 2^24
    m_state,        \* ClockTAI: the offset is known
    dlfc,           \* TagDSTI: the frame count of the next AF packet
    af,             \* history: the AF packets given to the EDI sender
    zmqError        \* history: superframes ZeroMQ failed on

edi == <<m_edi_time, m_timestamp, m_state, dlfc, af>>
meter == <<decoder, publisher>>
ovars == <<pc, superframe, block, success, send_error_count, retval, edi, zmqError, meter>>

Init ==
    /\ MeterInit
    /\ pc = "input"
    /\ superframe = 0
    /\ block = 0
    /\ success = TRUE
    /\ send_error_count = 0
    /\ retval = 0
    /\ m_edi_time = 0
    /\ m_timestamp = 0
    /\ m_state = FALSE
    /\ dlfc = 0
    /\ af = <<>>
    /\ zmqError = {}

\* Milliseconds of superframe n with the delay of -T added.
Time(n) == StartMs + 120 * n + DelayMs

\* EDI::set_tist(): the milliseconds are added to m_timestamp.
set_tist(ms) ==
    /\ m_edi_time' = ms \div 1000
    /\ m_timestamp' = (m_timestamp + (ms % 1000) * 2^14) % 2^24

\* getNextFrame() returns a superframe.
NextSuperframe ==
    /\ pc = "input" /\ superframe < MaxSuperframe
    /\ superframe' = superframe + 1
    /\ IF UseEDI THEN set_tist(Time(superframe)) ELSE UNCHANGED <<m_edi_time, m_timestamp>>
    /\ success' = TRUE
    /\ pc' = "decode"
    /\ UNCHANGED <<block, send_error_count, retval, m_state, dlfc, af, zmqError, meter>>

\* The timeout elapses without a superframe: the loop ends.
TimeOut ==
    /\ pc = "input"
    /\ pc' = "ended"
    /\ UNCHANGED <<superframe, block, success, send_error_count, retval, edi, zmqError,
                   meter>>

\* The levels of the superframe, which the statistics keep.
Decode ==
    /\ pc = "decode"
    /\ decode_frame(superframe)
    /\ update_audio_levels
    /\ pc' = "zmq"
    /\ UNCHANGED <<superframe, block, success, send_error_count, retval, edi, zmqError>>

\* ZMQ::write_frame(): an exception is a failure, a full pipe (EAGAIN) is not.
WriteZMQ ==
    /\ pc = "zmq"
    /\ success' \in IF UseZMQ THEN BOOLEAN ELSE {TRUE}
    /\ zmqError' = IF success' THEN zmqError ELSE zmqError \cup {superframe}
    /\ block' = 0
    /\ pc' = IF UseEDI THEN "edi" ELSE "count"
    /\ UNCHANGED <<superframe, send_error_count, retval, edi, meter>>

\* The tags of one AF packet.
AFPacket ==
    /\ af' = Append(af, [superframe |-> superframe, block |-> block, dlfc |-> dlfc,
                         seconds |-> m_edi_time, tsta |-> m_timestamp,
                         levels |-> peaks])
    /\ dlfc' = (dlfc + 1) % 5000

\* EDI::write_frame() for one part; main leaves the loop over the parts if
\* success is false, ZeroMQ's failure included.  Nor does it catch what the EDI
\* sender throws (EDISender), a UDP destination that cannot send for one.
WriteEDI ==
    /\ pc = "edi"
    /\ m_state' = TRUE
    /\ AFPacket
    /\ block' = block + 1
    /\ pc' \in {IF success /\ block' < 5 THEN "edi" ELSE "count", "crashed"}
    /\ UNCHANGED <<superframe, success, send_error_count, retval, m_edi_time,
                   m_timestamp, zmqError, meter>>

\* ClockTAI::get_offset() throws the first time, whether timestamps are enabled
\* or not; main does not catch it.
TaiFails ==
    /\ pc = "edi" /\ ~m_state /\ TaiMayFail
    /\ pc' = "crashed"
    /\ UNCHANGED <<superframe, block, success, send_error_count, retval, edi, zmqError,
                   meter>>

\* Mutant: a success resets the count.
CountConsecutive ==
    /\ pc = "count"
    /\ send_error_count' = IF success THEN 0 ELSE send_error_count + 1
    /\ IF send_error_count' > MaxErrors
       THEN retval' = 4 /\ pc' = "ended"
       ELSE retval' = retval /\ pc' = "stats"
    /\ UNCHANGED <<superframe, block, success, edi, zmqError, meter>>

\* The failed superframes are counted, and the loop ends when there are too many.
Count ==
    /\ pc = "count"
    /\ send_error_count' = IF success THEN send_error_count ELSE send_error_count + 1
    /\ IF send_error_count' > MaxErrors
       THEN retval' = 4 /\ pc' = "ended"
       ELSE retval' = retval /\ pc' = "stats"
    /\ UNCHANGED <<superframe, block, success, edi, zmqError, meter>>

\* Mutant: the statistics follow the reset of the peaks.
SendStatsAfterReset ==
    /\ pc = "stats"
    /\ peaks' = {}
    /\ stats' = IF UseStats THEN Append(stats, peaks') ELSE stats
    /\ pc' = "input"
    /\ UNCHANGED <<superframe, block, success, send_error_count, retval, edi, zmqError,
                   m_decoder_set_up, m_peak, levels, m_audio, m_destination_available, notices>>

\* The peaks are reset and the statistics sent; not if the loop has ended before.
SendStats ==
    /\ pc = "stats"
    /\ peaks' = {}
    /\ IF UseStats THEN send_stats ELSE UNCHANGED publisher
    /\ pc' = "input"
    /\ UNCHANGED <<superframe, block, success, send_error_count, retval, edi, zmqError,
                   m_decoder_set_up, m_peak, levels>>

Next ==
    \/ NextSuperframe \/ TimeOut \/ Decode \/ WriteZMQ \/ WriteEDI \/ TaiFails
    \/ Count \/ SendStats

Spec == Init /\ [][Next]_ovars
-----------------------------------------------------------------------------
\* Type correctness; the error count stops at the limit.
OTypeOK ==
    /\ pc \in {"input", "decode", "zmq", "edi", "count", "stats", "ended", "crashed"}
    /\ superframe \in 0 .. MaxSuperframe
    /\ block \in 0 .. 5
    /\ success \in BOOLEAN
    /\ send_error_count \in 0 .. MaxErrors + 1
    /\ retval \in {0, 4}
    /\ m_edi_time \in Nat
    /\ m_timestamp \in 0 .. 2^24 - 1
    /\ m_state \in BOOLEAN
    /\ dlfc \in 0 .. 4999
    /\ zmqError \subseteq 1 .. MaxSuperframe
    /\ peaks \subseteq 1 .. MaxSuperframe /\ m_peak \subseteq 1 .. MaxSuperframe

\* The AF packets carry the parts of each superframe in order, from the first
\* on, with consecutive frame counts; unless ZeroMQ failed on a superframe, no
\* part of it is missing before the next superframe begins.
PartsInOrder ==
    \A k \in 1 .. Len(af) :
        /\ k = 1 => af[k].block = 0
        /\ k < Len(af) =>
            /\ af[k + 1].dlfc = (af[k].dlfc + 1) % 5000
            /\ \/ /\ af[k + 1].superframe = af[k].superframe
                  /\ af[k + 1].block = af[k].block + 1
               \/ /\ af[k + 1].superframe = af[k].superframe + 1
                  /\ af[k + 1].block = 0
                  /\ af[k].block = 4 \/ af[k].superframe \in zmqError

\* The program gives up, with the exit code 4, exactly when sending has failed
\* on more than MaxErrors superframes, however many succeeded in between.
AbortsOnErrors ==
    /\ retval = 4 <=> Cardinality(zmqError) > MaxErrors /\ pc = "ended"
    /\ Cardinality(zmqError) <= MaxErrors + 1

\* What a turn of the loop keeps, whichever output fails: the parts of EDI in order,
\* the errors counted, and the loss of the statistics' receiver said once.
OutputInv == OTypeOK /\ PartsInOrder /\ AbortsOnErrors /\ NoticesAlternate

\* All outputs say the same of a superframe: its levels in the EDI packets are
\* those of the statistics, and each superframe has its own, in order.
LevelsAgree ==
    /\ \A k \in DOMAIN af : af[k].levels = levels[af[k].superframe]
    /\ Len(stats) <= Len(levels)
    /\ \A n \in DOMAIN stats : stats[n] = levels[n]

\* "Shift ms by 14 to Timestamp level 2" (Outputs.cpp): the timestamp of an AF
\* packet is the time of its superframe within the second.
TimestampOfSuperframe ==
    \A k \in DOMAIN af :
        af[k].tsta = (Time(af[k].superframe - 1) % 1000) * 2^14
=============================================================================
