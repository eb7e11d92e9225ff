------------------------------ MODULE EDISender -------------------------------
(***************************************************************************)
(* edi::Sender (lib/edioutput/Transport.cpp): the main thread assembles AF   *)
(* packets.  Without PFT it hands each to the TCP clients at once; with PFT  *)
(* it cuts it into fragments and stores them in a map under the time each is *)
(* due, and the thread run() hands over those whose time has come.           *)
(*                                                                         *)
(* Times are ticks of steady_clock.  The clock advances while an AF packet   *)
(* is assembled: that takes microseconds, and a tick is a nanosecond.  The   *)
(* destinations are external: handing a fragment to all of them is one step  *)
(* that succeeds or throws.  packets and the field packet of a fragment are  *)
(* history: the number of the AF packet, which its sequence number gives     *)
(* modulo 2^16.                                                              *)
(***************************************************************************)
EXTENDS PFT, Functions, FiniteSets, FiniteSetsExt

CONSTANTS
    Confs,          \* the configurations: PFT enabled or not, fec, timestamps
                    \* enabled or not, bytes of a part of a superframe
    VersionLen,     \* length of the version string
    Micro,          \* ticks of a microsecond
    Spread,         \* fragment_spreading_factor of the 24 ms, in microseconds
    WriteUntil,     \* bound: no packet is stamped after this time
    MaxPackets      \* bound: AF packets written

ASSUME SenderAssumption ==
    /\ Confs \subseteq [enable_pft : BOOLEAN, fec : 0 .. PARITYBYTES - 1,
                       atstf : BOOLEAN, len : Nat \ {0}]
    /\ \A c \in Confs : c.fec > 0 => c.enable_pft
    /\ {VersionLen, Spread, WriteUntil, MaxPackets} \subseteq Nat
    /\ Micro \in Nat \ {0}

MaxTime == WriteUntil + Micro * Spread

\* The AF packet of a frame; every ten seconds it has the version item.
PacketsOf(c) == {AFPacket(TagPacket(c.len, c.atstf, v)) : v \in {-1, VersionLen}}

\* llrint(a / b): the nearest integer, of two the even one.
Rounded(a, b) ==
    LET q == a \div b
        r == a % b
    IN  IF 2 * r < b \/ (2 * r = b /\ q % 2 = 0) THEN q ELSE q + 1

\* inter_fragment_wait_time for n fragments, a whole number of microseconds.
WaitTime(n) == Micro * (IF n > 1 /\ Spread > 0 THEN Rounded(Spread, n) ELSE 1)

\* An AF packet of up to 192 kbit/s fits one fragment where there is no FEC.
ASSUME SizeAssumption == \A c \in Confs : \A l \in PacketsOf(c) : l <= 1400

\* fragment_spreading_factor is less than one, and there are far fewer fragments
\* than microseconds: the last one is due within Spread.
ASSUME SpreadAssumption ==
    \A c \in Confs : \A l \in PacketsOf(c) :
        LET n == NumFragments(l, c.fec)
        IN  (n - 1) * WaitTime(n) <= Micro * Spread

VARIABLES
    conf,               \* the configuration, constant once the program runs
    pc,                 \* main thread: "idle", "stamp", "insert" in write(),
                        \* "stop", "join", "done" in ~Sender(), "terminated"
    run,                \* run(): "off", "sleep", "lock", "pass", "ended", "terminated"
    m_running,
    m_seq, m_pseq,      \* sequence numbers of the AF and the PFT layer
    packets,            \* history: AF packets assembled
    m_pending_frames,   \* time -> fragment
    af,                 \* length of the AF packet in write()
    edi_fragments,      \* its fragments
    now,                \* the time write() read, 0 outside of it
    passNow,            \* the time run() read, 0 outside of its pass
    clock,
    sent,               \* history: what the destinations were handed
    written             \* history: the fragments put into m_pending_frames

packet == <<af, edi_fragments, now, m_seq, m_pseq, packets>>
main == <<pc, m_running, packet, written>>
thread == <<run, passNow>>
svars == <<conf, main, thread, m_pending_frames, clock, sent>>

\* Sender::Sender(): the thread exists only with PFT, which a UDP destination
\* or set_fec() enables.
Init ==
    /\ conf \in Confs
    /\ pc = "idle"
    /\ run = IF conf.enable_pft THEN "sleep" ELSE "off"
    /\ m_running = conf.enable_pft
    /\ m_seq = 0 /\ m_pseq = 0 /\ packets = 0
    /\ m_pending_frames = << >>
    /\ af = 0 /\ edi_fragments = << >>
    /\ now = 0 /\ passNow = 0 /\ clock = 0
    /\ sent = << >>
    /\ written = {}
-----------------------------------------------------------------------------
(* write(), in the main thread *)

\* AFPacketiser::Assemble() numbers the packet.
Assembled ==
    /\ pc = "idle" /\ packets < MaxPackets /\ clock < WriteUntil
    /\ clock' = clock + 1
    /\ m_seq' = (m_seq + 1) % 2^16
    /\ packets' = packets + 1

\* PFT::Assemble(): the fragments of the AF packet, with their headers.
Assemble(l) ==
    LET n == NumFragments(l, conf.fec)
    IN  /\ edi_fragments' = [i \in 1 .. n |-> [packet |-> packets', seq |-> m_seq,
                                pseq |-> m_pseq, findex |-> i - 1, fcount |-> n]]
        /\ m_pseq' = (m_pseq + 1) % 2^16

WritePFT ==
    /\ conf.enable_pft
    /\ Assembled
    /\ af' \in PacketsOf(conf)
    /\ Assemble(af')
    /\ pc' = "stamp"
    /\ UNCHANGED <<conf, thread, m_running, m_pending_frames, now, sent, written>>

\* PFT is disabled: the AF packet goes to the destinations.
WriteAF ==
    /\ ~conf.enable_pft
    /\ Assembled
    /\ sent' = Append(sent, [packet |-> packets', seq |-> m_seq,
                             pseq |-> 0, findex |-> 0, fcount |-> 0])
    /\ UNCHANGED <<conf, pc, thread, m_running, m_pseq, m_pending_frames, af, edi_fragments, now, written>>

\* The destination throws, and main does not catch it.
WriteThrows ==
    /\ ~conf.enable_pft
    /\ Assembled
    /\ pc' = "terminated"
    /\ UNCHANGED <<conf, thread, m_running, m_pseq, m_pending_frames, af, edi_fragments, now, sent, written>>

\* now is read before the mutex is locked.
Stamp ==
    /\ pc = "stamp"
    /\ now' = clock
    /\ pc' = "insert"
    /\ UNCHANGED <<conf, thread, m_running, m_seq, m_pseq, packets, m_pending_frames, af, edi_fragments, clock, sent, written>>

\* The mutex is free while run() is not in its pass.
Unlocked == run # "pass"

\* The fragments under their times; where two have the same, the later one stays.
Spaced(start) ==
    LET n == Len(edi_fragments)
        at(i) == start + (i - 1) * WaitTime(n)
    IN  [t \in {at(i) : i \in 1 .. n} |->
            edi_fragments[Max({i \in 1 .. n : at(i) = t})]]

\* The map g after assignments to its entries: f has the keys and the values.
Assigned(f, g) ==
    [x \in (DOMAIN f) \cup (DOMAIN g) |-> IF x \in DOMAIN f THEN f[x] ELSE g[x]]

\* Mutant: the map is keyed by a coarser time.
InsertCoarse ==
    /\ pc = "insert" /\ Unlocked
    /\ m_pending_frames' = Assigned(Spaced(now \div 2), m_pending_frames)
    /\ written' = written \cup Range(edi_fragments)
    /\ af' = 0 /\ edi_fragments' = << >> /\ now' = 0
    /\ pc' = "idle"
    /\ UNCHANGED <<conf, thread, m_running, m_seq, m_pseq, packets, clock, sent>>

\* Each fragment is stored under its time, over what is stored there already.
Insert ==
    /\ pc = "insert" /\ Unlocked
    /\ m_pending_frames' = Assigned(Spaced(now), m_pending_frames)
    /\ written' = written \cup Range(edi_fragments)
    /\ af' = 0 /\ edi_fragments' = << >> /\ now' = 0
    /\ pc' = "idle"
    /\ UNCHANGED <<conf, thread, m_running, m_seq, m_pseq, packets, clock, sent>>
-----------------------------------------------------------------------------
(* ~Sender(), in the main thread *)

Destroy ==
    /\ pc = "idle"
    /\ pc' = "stop"
    /\ UNCHANGED <<conf, thread, m_running, packet, m_pending_frames, clock, sent, written>>

\* Mutant: m_running is not reset.
StopForgotten ==
    /\ pc = "stop" /\ Unlocked
    /\ pc' = "join"
    /\ UNCHANGED <<conf, thread, m_running, packet, m_pending_frames, clock, sent, written>>

Stop ==
    /\ pc = "stop" /\ Unlocked
    /\ m_running' = FALSE
    /\ pc' = "join"
    /\ UNCHANGED <<conf, thread, packet, m_pending_frames, clock, sent, written>>

Join ==
    /\ pc = "join" /\ run \in {"off", "ended"}
    /\ pc' = "done"
    /\ UNCHANGED <<conf, thread, m_running, packet, m_pending_frames, clock, sent, written>>
-----------------------------------------------------------------------------
(* run(), in the thread *)

\* m_running is read without the mutex, after the sleep.
RunTest ==
    /\ run = "sleep"
    /\ run' = IF m_running THEN "lock" ELSE "ended"
    /\ UNCHANGED <<conf, main, m_pending_frames, passNow, clock, sent>>

\* Mutant: the time is read once, before the loop.
RunLockStale ==
    /\ run = "lock"
    /\ run' = "pass"
    /\ UNCHANGED <<conf, main, m_pending_frames, passNow, clock, sent>>

RunLock ==
    /\ run = "lock"
    /\ run' = "pass"
    /\ passNow' = clock
    /\ UNCHANGED <<conf, main, m_pending_frames, clock, sent>>

Due == {t \in DOMAIN m_pending_frames : t <= passNow}

\* The earliest fragment that is due goes to the destinations.
RunSend ==
    /\ run = "pass" /\ Due # {}
    /\ sent' = Append(sent, m_pending_frames[Min(Due)])
    /\ m_pending_frames' = Restrict(m_pending_frames, DOMAIN m_pending_frames \ {Min(Due)})
    /\ UNCHANGED <<conf, main, thread, clock>>

\* A destination throws (no address, no route): an exception that leaves the
\* thread's function ends the program.
RunThrows ==
    /\ run = "pass" /\ Due # {}
    /\ run' = "terminated"
    /\ pc' = "terminated"
    /\ UNCHANGED <<conf, m_running, packet, m_pending_frames, passNow, clock, sent, written>>

RunUnlock ==
    /\ run = "pass" /\ Due = {}
    /\ run' = "sleep"
    /\ passNow' = 0
    /\ UNCHANGED <<conf, main, m_pending_frames, clock, sent>>
-----------------------------------------------------------------------------
\* Time passes; write() gets to read it before WriteUntil.
Tick ==
    /\ pc \notin {"done", "terminated"}
    /\ clock < IF pc = "stamp" THEN WriteUntil ELSE MaxTime
    /\ clock' = clock + 1
    /\ UNCHANGED <<conf, main, thread, m_pending_frames, sent>>

Next ==
    \/ WritePFT \/ WriteAF \/ WriteThrows \/ Stamp \/ Insert
    \/ Destroy \/ Stop \/ Join
    \/ RunTest \/ RunLock \/ RunSend \/ RunThrows \/ RunUnlock
    \/ Tick

Spec == Init /\ [][Next]_svars

\* Both threads and the clock go on.  run() is outside of the mutex for 500
\* microseconds between two passes, so that main gets it in the end.
Fairness ==
    /\ WF_svars(Stamp) /\ SF_svars(Insert)
    /\ SF_svars(Stop) /\ WF_svars(Join)
    /\ WF_svars(RunTest \/ RunLock \/ RunSend \/ RunUnlock)
    /\ WF_svars(Tick)

FairSpec == Spec /\ Fairness
-----------------------------------------------------------------------------
\* Type correctness; no fragment is due later than Spread after its packet.
STypeOK ==
    /\ pc \in {"idle", "stamp", "insert", "stop", "join", "done", "terminated"}
    /\ run \in {"off", "sleep", "lock", "pass", "ended", "terminated"}
    /\ m_running \in BOOLEAN
    /\ {m_seq, m_pseq} \subseteq 0 .. 2^16 - 1 /\ packets \in 0 .. MaxPackets
    /\ {clock, now, passNow} \subseteq 0 .. MaxTime
    /\ DOMAIN m_pending_frames \subseteq 0 .. MaxTime
    /\ af \in PacketsOf(conf) \cup {0}

\* write() stores a fragment over another one that is due at the same time.
\* Without FEC, as the companion runs it, every AF packet is one fragment, and
\* none is ever lost this way: what was written is pending or has been sent,
\* and nothing is both.
NoneLost ==
    conf.fec = 0 /\ conf.enable_pft =>
        /\ written = Range(sent) \cup Range(m_pending_frames)
        /\ Range(sent) \cap Range(m_pending_frames) = {}

\* Whatever the threads do, the destinations are handed the fragments of an AF
\* packet in order and once each, and AF packets that are not fragmented in the
\* order they were written in.
FragmentsInOrder ==
    \A i, j \in DOMAIN sent : i < j =>
        /\ sent[i].packet = sent[j].packet => sent[i].findex < sent[j].findex
        /\ conf.fec = 0 => sent[i].packet < sent[j].packet

\* What main and run() keep of the map of pending fragments, in which one is
\* stored over another if they are due at the same time: nothing is lost from it
\* or overtaken in it.
PendingInv == STypeOK /\ NoneLost /\ FragmentsInOrder

\* Each byte of the RS block, or of the AF packet, is in exactly one fragment
\* (PFT::ProtectAndFragment), and the lengths fit the fields of the PF header:
\* 14 bits for Plen, 8 bits for RSk and RSz.
Reassembles ==
    pc = "stamp" => \A m \in 0 .. 5 :
        LET F == [i \in 0 .. NumFragments(af, m) - 1 |-> Fragment(af, m, i)]
            at == UNION {{<<i, j>> : j \in {k \in DOMAIN F[i] : F[i][k] >= 0}} :
                            i \in DOMAIN F}
        IN  /\ {F[p[1]][p[2]] : p \in at} = 0 .. BlockLen(af, m) - 1
            /\ Cardinality(at) = BlockLen(af, m)
            /\ \A i \in DOMAIN F : Len(F[i]) < 2^14
            /\ m > 0 => ChunkLen(af) <= MaxChunk /\ ZeroPad(af) < 2^8

\* "number of fragments that can be recovered" (EDIConfig.h), for every number
\* up to five, above which PFT::PFT warns: when any m fragments of an AF packet
\* are lost, no chunk has lost more bytes than it has parity, which is what
\* Reed-Solomon can restore when it knows which are lost; and all bytes are there
\* when none is lost.
Recoverable ==
    /\ Reassembles
    /\ pc = "stamp" =>
        \A m \in 1 .. 5, c \in 0 .. NumChunks(af) - 1 :
            \A i \in 0 .. NumFragments(af, m) - 1 :
                LET f == Fragment(af, m, i)
                IN  m * Cardinality({j \in DOMAIN f : f[j] \in Chunk(af, c)}) <= PARITYBYTES

\* Every fragment that is pending leaves the map, unless the program ends first.
PendingSent ==
    \A s \in 1 .. MaxPackets :
        (\E t \in DOMAIN m_pending_frames : m_pending_frames[t].packet = s)
            ~> \/ \A t \in DOMAIN m_pending_frames : m_pending_frames[t].packet # s
               \/ pc \in {"stop", "join", "done", "terminated"}

\* ~Sender() gets the mutex, and the thread it joins ends.
DestructorEnds == pc = "stop" ~> pc \in {"done", "terminated"}
=============================================================================
