------------------------------ MODULE LevelMeter -------------------------------
(***************************************************************************)
(* The peak levels of the audio: src/AACDecoder.cpp decodes each superframe *)
(* only for its peaks, src/StatsPublish.cpp sends them to a UNIX socket.    *)
(* fdk-aac and the receiver of the statistics are external.                 *)
(*                                                                         *)
(* A level is the maximum over some access units (AUs); the model keeps the *)
(* set of the superframes they belong to, {} for the level 0.               *)
(***************************************************************************)
EXTENDS Naturals, Sequences

CONSTANTS
    DacRate48, Sbr, \* dac_rate and sbr_flag, in the header of the superframes
    UseStats        \* a stats_publisher is configured

ASSUME MeterAssumption == {DacRate48, Sbr, UseStats} \subseteq BOOLEAN

VARIABLES
    m_decoder_set_up,
    m_peak,                     \* of AACDecoder
    peaks,                      \* peak_left and peak_right of main
    m_audio,                    \* m_audio_left and _right of StatsPublisher
    m_destination_available,
    levels,                     \* history: the peaks of each superframe
    stats,                      \* history: the levels of each send_stats()
    notices                     \* history: what is said of the destination

decoder == <<m_decoder_set_up, m_peak, peaks, levels>>
publisher == <<m_audio, m_destination_available, stats, notices>>

MeterInit ==
    /\ m_decoder_set_up = FALSE
    /\ m_peak = {} /\ peaks = {} /\ m_audio = {}
    /\ m_destination_available = TRUE
    /\ levels = <<>> /\ stats = <<>> /\ notices = <<>>

\* The number of AUs in a superframe.
num_aus == IF DacRate48 THEN (IF Sbr THEN 3 ELSE 6) ELSE (IF Sbr THEN 2 ELSE 4)

\* Mutant: the decoder keeps its peaks.
get_peaksKept == m_peak' = peaks'

\* get_peaks(): the peaks are reset.
get_peaks == m_peak' = {}

\* The order of the AUs is wrong, or the decoder cannot be configured.  (With six
\* AUs the end of the last one is written past the array au_start and read back
\* from there, so that the check may fail for a frame that is right.)
CheckFails ==
    /\ peaks' = {}
    /\ UNCHANGED <<m_decoder_set_up, m_peak>>

\* decode_au() throws after k AUs: main takes the levels for 0, but what the AUs
\* gave stays in m_peak.
DecodeFails(n, k) ==
    /\ peaks' = {}
    /\ m_peak' = IF k = 0 THEN m_peak ELSE m_peak \cup {n}
    /\ m_decoder_set_up' = TRUE

DecodeSucceeds(n) ==
    /\ peaks' = m_peak \cup {n}
    /\ get_peaks
    /\ m_decoder_set_up' = TRUE

\* decode_frame() and get_peaks() for superframe n, and main's catch.
decode_frame(n) ==
    /\ \/ CheckFails
       \/ \E k \in 0 .. num_aus - 1 : DecodeFails(n, k)
       \/ DecodeSucceeds(n)
    /\ levels' = Append(levels, peaks')

\* update_audio_levels() of StatsPublisher.
update_audio_levels ==
    /\ m_audio' = IF UseStats THEN peaks' ELSE m_audio
    /\ UNCHANGED <<m_destination_available, stats, notices>>

\* EAGAIN, ECONNREFUSED or ENOENT: said once.
Unavailable ==
    /\ m_destination_available' = FALSE
    /\ notices' = IF m_destination_available THEN Append(notices, "gone") ELSE notices

Available ==
    /\ m_destination_available' = TRUE
    /\ notices' = IF m_destination_available THEN notices ELSE Append(notices, "back")

\* Another error, or a datagram cut short, changes nothing.
OtherError == UNCHANGED <<m_destination_available, notices>>

\* send_stats(): the levels are cleared whether they could be sent or not.
send_stats ==
    /\ stats' = Append(stats, m_audio)
    /\ Unavailable \/ Available \/ OtherError
    /\ m_audio' = {}
-----------------------------------------------------------------------------
\* The levels of a superframe are of that superframe, or 0; but the peaks of
\* superframes that failed to decode just before it may be among them.  No
\* superframe counts for the levels of two, and a success always counts.
LevelsFresh ==
    \A n \in DOMAIN levels :
        /\ levels[n] # {} => n \in levels[n]
        /\ \A i \in levels[n] \ {n} : i < n /\ \A j \in i .. n - 1 : levels[j] = {}

\* The availability of the destination is reported once for each change, "gone"
\* first, although send_stats() tries again for every superframe.
NoticesAlternate ==
    \A k \in DOMAIN notices : notices[k] = IF k % 2 = 1 THEN "gone" ELSE "back"
=============================================================================
