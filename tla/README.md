# ODR-SourceCompanion in TLA+

ODR-SourceCompanion takes the audio of a hardware DAB+ encoder (AVT AE1/AE4)
from the network and hands it to an ODR multiplexer. It receives 24 ms frames
over UDP, puts them in order, joins five of them to a superframe, and sends the
superframes on over ZeroMQ or EDI; it carries PAD (text and slides) from
ODR-PadEnc to the encoder in the other direction.

This directory holds TLA+ modules that model its parts, the TLC configurations
that check them on small instances, and TLAPS proofs of most of the safety
properties for instances of any size.
`PROJECT.json` relates every definition to the lines of code that it models.
Paths below are relative to the repository.

## Inventory

| Part | State | Operations | What is hard |
|---|---|---|---|
| `OrderedQueue` (`src/OrderedQueue.cpp`) | stock of frames by cyclic index, last index popped, counters | `push`, `pop` | order across the wrap-around, gaps, late and duplicated frames, a full stock |
| `AVTInput` (`src/AVTInput.cpp`) | superframe under assembly, alignment, expected index, time of the superframe, PAD queue | `getNextFrame`, `_readFrame`, `_checkMessage`, `_sendPADFrame`, `pushPADFrame` | faults of the network at any point of a superframe; two sockets and a queue served from one loop |
| main loop (`src/odr-sourcecompanion.cpp`) | error count, return value | PAD fill loop, timeout, writing to the outputs | one of two outputs failing, when to give up |
| outputs (`src/Outputs.cpp`) | timestamp, frame counts | `ZMQ::write_frame`, `EDI::write_frame`, `EDI::set_tist` | time carried from one superframe to the next; exceptions |
| `TCPSendClient` (`lib/Socket.cpp`) | queue, socket, flags | `sendall`, destructor, thread `process` | two threads, reconnection, bounded queue, ending |
| `ThreadsafeQueue` (`lib/ThreadsafeQueue.h`) | queue, wakeup flag | `push`, `try_pop`, `trigger_wakeup`, `wait_and_pop` | lost notifications, wakeups that overtake items |
| `ClockTAI` (`lib/ClockTAI.cpp`) | bulletin, cached offset, future, cache file | `get_offset`, `get_valid_offset` | asynchronous refresh, failing servers, expiry, restarts |
| EDI sender (`lib/edioutput/Transport.cpp`) | pending fragments by time | `write`, thread `run`, destructor | two threads, equal keys, ending |
| EDI packetisers (`lib/edioutput/`) | sequence numbers | `AFPacketiser`, `PFT`, TAG items | arithmetic of chunks and fragments |
| `Logger` (`lib/Log.cpp`) | message queue, backends | `logstr`, `register_backend`, thread `io_process`, destructor | messages queued when the program ends, lost notifications |
| TCP server side (`lib/Socket.cpp`) | connections with a queue and a thread each, preroll; messages received | `TCPDataDispatcher::write`, listener, `TCPConnection::process`; `TCPReceiveServer` | slow clients, clients that come during a write, failing listeners, ending |
| start (`src/odr-sourcecompanion.cpp`, `AVTInput::prepare`, `setDabPlusParameters`) | options, sockets, audio parameters | the steps up to the loop | any of many steps failing |
| STI and RTP headers (`src/AVTInput.cpp`) | last RTP number | `_findDABFrameFromUDP` | sizes, numbers and flags in a few bits |
| level meter (`src/AACDecoder.cpp`, `src/StatsPublish.cpp`) | peaks, availability of the destination | `decode_frame`, `get_peaks`, `send_stats` | peaks carried over from failed superframes |
| codes (`lib/fec/`, `lib/crc.c`) | tables | `init_rs`, `encode_rs`, `decode_rs`, `crc16` | field arithmetic, errors and erasures at the limit |
| `PadInterface` (`src/PadInterface.cpp`) | socket | `open`, `request` | replies of any size |

The main thread runs the input, the outputs and the main loop. The sender thread
of each TCP destination, the EDI thread (with PFT only), the TAI task and the
logging thread run beside it, and share nothing with it but a queue or members
under a mutex. With a PAD port, main never waits for input: it polls its sockets and
sleeps 1 ms. Without one its first receive from the PAD socket does not return (run
`startup_nopad`), so that `AVTInput` models a loop that runs for `PadPort` only.

The correctness properties looked for: frames leave in the encoder's order, and
none is left out without need; superframes never mix phases, and come out again
after a fault; timestamps follow the frames; PAD is neither repeated nor
reordered; a failing output or peer neither blocks nor confuses the rest; every
thread can be ended; the offset of the TAI clock is right and is kept up to date;
the encoder is set to what the program expects, or not at all; the codes are what
their definitions say.

## Modules

* **`OrderedQueue`**: `_stock` is a function from indexes to frames or `None`;
  `Push` is `push()` (`Store` or `Overrun`, after the initialisation of the
  position), `PopFrame`/`PopEmpty` the outcomes of `pop()`. `Found(gap)` says
  where the search loop ends. `pushed` and `popped` are history counters.
* **`JitterBuffer`** extends it with an encoder that numbers its frames
  0, 1, 2, ... and a network that delays, reorders, duplicates and loses them.
  The queue sees the numbers modulo `MaxIndex` only; `reader` remembers the full
  number of the last frame popped, and `stray` that a frame came from outside the
  `MaxIndex` frames ahead of the reader.
* **`AVTInput`** extends `OrderedQueue` with the superframe assembly and PAD.
  `pc` is the place of the main thread: the PAD fill loop (`fill`), the loop that
  reads messages and frames (`drain`), the assembly (`assemble`, and `part` with
  a part in hand, when messages are read again), or the end after a timeout. Time
  is counted in frames of 24 ms. `MCAVTInput` gives TLC the set of frames.
* **`LevelMeter`**: the decoder's peaks and the statistics. A level is the set of
  the superframes whose audio went into it.
* **`Outputs`** extends it with a turn of the main loop, from the superframe to
  the statistics; EDI parts become AF packets with frame count, timestamp and
  levels.
* **`ThreadsafeQueue`**: each critical section is an action; the notification
  after the unlock is one of its own, and a sleeping consumer may wake up
  spuriously.
* **`TCPSendClient`** extends it with the owner (`opc`), the sender thread
  (`spc`), the peer and the connection. `fds` counts open descriptors.
* **`LossyFifo`**: what `TCPSendClient` promises. Buffers are delivered in order,
  none twice; a pending one may be lost. `TCPSendClient` implements it with the
  buffer in hand and the queue as `pending`.
* **`TCPDataDispatcher`**: the owner (`dpc`), the listener (`lpc`) and a sender
  thread per client (`cpc`). `write()` holds the mutex from `WriteLock` to
  `WriteDone`; dropping a client is `StopConnection` and, when its thread has
  ended, `JoinConnection`. A sender thread polls with a timeout, but its socket
  blocks: with less room than the buffer takes it is `blocked` in `::send()` until
  the client reads or goes away, which it need not do. The destructor clears the
  list without the mutex: if the listener adds a client at that moment the model
  stops (`undefined`).
* **`TCPReceiveServer`**: the thread (`rpc`) that serves one client after another,
  and the owner (`roc`).
* **`Logger`** on an instance of `ThreadsafeQueue`: callers and destructor
  (`logpc`), the logging thread (`iopc`). Messages are numbers.
* **`MCThreads`** runs these three and `TCPSendClient`, one in each behaviour.
* **`Startup`**: `main` is the step of `main()` before its loop, and the first
  receive in it; a step may refuse the options (exit code 1), end in an exception
  that nothing catches, or wait in a receive that does not return. The
  options are a record; `MCStartup` gives TLC all the configurations that differ
  in at most two options from one that works.
* **`STIInput`** extends it with the datagrams that arrive then, as records of the
  header fields and the number of bytes received, from an encoder with or without
  RTP, CRC and a second stream. A datagram may arrive cut (`received`, `Shortened`).
  `dataOffset` is where the code takes the frame from; `pushed` are the frames that
  go to the jitter buffer with all their bytes received, `partial` the others.
* **`ReedSolomon`**: `init_rs()`, `encode_rs()` and `decode_rs()` as operators on
  the control block, and the class with a channel that damages symbols; the
  product of the field is defined a second time, without the tables, for the
  properties. A codec over a polynomial that is not primitive, which `init_rs()`
  may accept, is constructed and not used. **`Crc`**: the table of the code, the function that computes such a
  table, `crc16()`, and a network that damages bytes.
* **`MCMain`** runs these two, `STIInput` and `Outputs`, one in each behaviour.
* **`ClockTAI`**: `get_valid_offset()` step by step, run by the main thread the
  first time and by the asynchronous task later, under the mutex; `get_offset()`
  reads the time, waits for the mutex and then acts. A bulletin is known by its
  expiry and announces all the leap seconds before it.
* **`PFT`**: the EDI packetisers as functions of lengths. A byte is its position,
  so that a fragment is the sequence of the positions it carries.
* **`EDISender`** extends it with `edi::Sender`: `write()` and the destructor in
  the main thread (`pc`), `run()` in the other (`run`). `write()` reads the time
  before it locks the mutex (`Stamp`, then `Insert`); `run()` holds the mutex for
  its pass and sends one fragment per step. `Spaced` gives the fragments of a
  packet their times, as `llrint()` rounds them, and `Assigned` stores them over
  what the map has. `packets` is a history counter: it tells packets apart whose
  16-bit sequence numbers are the same. `MCEDISender` gives TLC the
  configurations.
* **`OrderedQueueProofs`**, **`JitterBufferProofs`**, **`AVTInputProofs`**,
  **`TCPSendClientProofs`**, **`ClockTAIProofs`**, **`EDISenderProofs`** (with
  `PFT`): the theorems about the module of the same name. **`MainProofs`**: those
  about the main program, its start (`Startup`, `STIInput`) and its loop
  (`Outputs`, `LevelMeter`). **`ThreadsProofs`**: those about `TCPDataDispatcher`,
  `TCPReceiveServer` and `Logger`.

Operators whose comment says *Mutant* are not part of the models. They are
changes that a bug in the code could make, kept to show that each property would
notice it.

## Runs

| Run | Shows | Instance |
|---|---|---|
| `jitter_buffer` | the stock is bounded, all frames are accounted for, `pop()` takes the nearest frame, passes over a gap only at capacity, and is never stuck there; frames leave in the encoder's order; within a delay of `Capacity` frames none is left out | 5 indexes, 8 frames (the index wraps), capacity 3, delay below 3, losses and duplicates |
| `avt_assembly` | superframes keep the phases of their parts; without a sequence error they are contiguous and their time follows the index | 10 indexes, 12 frames, one fault, reordering |
| `avt_live` | PAD order and bound; recovery after a fault | 15 frames, one fault, 3 PAD replies and 3 messages, a timeout at any time |
| `threads` | `TCPSendClient`: bounded queue, no `logic_error` on reconnection, few discards, the queue drains, refinement of `LossyFifo`. `TCPDataDispatcher`: contiguous streams, bounded queues, `write()` returns. `TCPReceiveServer`: disconnections are marked. `Logger`: what is taken from the queue is written, once and in order. Destructors return, and `write()` does, unless they join a thread that is in a `::send()` that blocks for good | client: queue of 2 instead of 512, 5 buffers, 2 broken connections; dispatcher: 2 clients, 2 writes, queue and preroll of 1; receiver: 2 clients of 2 blocks, 1 timeout instead of 10; logger: 4 messages, a file and a tracer |
| `clock_tai` | right offset, never going back, refreshes never fail, leap seconds applied | 2 leap seconds, 3 bulletins, 6 hours, a restart, a foreign write to the cache |
| `edi_sender` | the map of pending fragments loses and reorders nothing without FEC, pending fragments are sent, the destructor returns; the fragments carry each byte once and survive the loss of up to five | 2 AF packets, three bitrates, with and without PFT, timestamps and version tag; one configuration with FEC |
| `main_program` | loop: EDI parts in order; the program gives up exactly after too many failures; the levels of a superframe are its own and those of superframes that failed to decode since the last success, and the same in EDI and in the statistics. Codes and start: with a primitive polynomial and a `prim` coprime to `nn` the codec is not refused, its tables are inverse to each other, the encoder yields codewords, the decoder corrects what `2 * errors + erasures <= nroots` allows; the CRC table is the polynomial's, bursts are detected; the superframe fits, the encoder is set only to valid parameters, the frames that arrive whole go on under their numbers and beside them only frames that arrived in part, RTP jumps are gaps | loop: 5 superframes, limit 2 instead of 10, both outputs, decoding may fail after any access unit; codes: three codes over GF(8), two over GF(16), one over GF(256) with the program's polynomial; a polynomial that is refused and two that are accepted without being primitive, parameters out of range, a `prim` that shares a factor with `nn`; up to 3 damaged symbols, every set of erasures with at most one that is not damaged; 27 messages, bursts of two bytes; start: some 1900 configurations, 4 datagrams from number 4998 on, losses, cut datagrams and others |

Some of the properties that a run lists are conjunctions of named parts, each
stated and commented in its module: `AssemblyInv` (`ATypeOK`, `AssemblyAligned`),
`PADInv` (`PADInOrder`, `PADQueueBounded`), `OutputInv` (`OTypeOK`,
`PartsInOrder`, `AbortsOnErrors`, `NoticesAlternate`), `ClientInv` (`CTypeOK`,
`QueueBounded`, `ConnectsInvalidSocket`, `DiscardsBounded`), `DispatcherInv`
(`ContiguousStream`, `QueuesBounded`, `ThrowsWithMessage`), `RefreshInv`
(`TTypeOK`, `RefreshNeverFails`), `PendingInv` (`STypeOK`, `NoneLost`,
`FragmentsInOrder`), `CrcCorrect` (`TableOfPolynomial`, `DetectsBursts`);
`Recoverable` includes `Reassembles`, `EncodesCodeword` includes `TablesInverse`,
`EncoderSetOnlyIfValid` includes `SuperframeFits`. `DestructorsReturn` and
`QueuesDrain` of `MCThreads` join the liveness of the four classes.

Five more runs show where the code departs from what it says of itself; each
expects a violation, and `findings` in `PROJECT.json` quotes the sentence:

* `jitter_buffer_reorder`: a frame that arrives behind the reader is stored and
  returned a whole index loop (5000 frames, two minutes) later, in the place of
  the frame that should be there, although the queue "returns the frames
  in-order". It takes nothing but the first two frames being swapped.
* `outputs_tist`: `set_tist()` adds the milliseconds of each superframe to
  `m_timestamp`, which it should set.
* `tcp_client_leak`: `m_sock = TCPSocket()` does not close the old descriptor.
* `startup_hang`: a PAD port above 65535 makes `prepare()` wait for ever, since
  it purges the socket that it could not open.
* `startup_nopad`: without `--pad-port`, the default, the first turn of the loop
  waits for ever: `_checkMessage()` receives from the PAD socket, which was not
  opened and therefore blocks.

Read off the code while modelling, and not checked by a run of its own: when
ZeroMQ fails on a superframe, EDI gets only the first of its five parts, since
the flag `success` is shared (`PartsInOrder` allows for it); the CRC flag of an
STI stream is read from the last bit of its header (`OnlyWholeFramesPushed`: if
the bits differ, no frame is taken); `_readFrame()` compares neither the offset of
the data nor its end with the bytes received, so that a datagram that is cut is taken
as a frame, filled up from the rest of the buffer (`partial`), or from behind it
(`ReadOutside`); `init_rs()` asks only that x to the power `nn` is 1, and so accepts
polynomials that are not primitive where `nn` is composite, as 255 is (x has the order
51 modulo 0x11b), and its search for `iprim` does not end if `prim` shares a factor with
`nn` (the program uses 0x11d and 1, which are right); `getNextFrame()`
may join parts of two superframes of the encoder if an index jump keeps the phase
(the comment at `src/AVTInput.cpp:440` promises contiguous parts), and then does
not take the time from the packets again; the uptime in the version tag
multiplies by 1000/24 instead of 24/1000; an EDI output without `-T` still needs
a TAI bulletin; `get_offset()` waits, in the main loop, for a refresh that holds
the mutex while it downloads, although the header calls the download
asynchronous; a cache file is overwritten without being truncated; a PAD length
without a PAD socket is accepted, and ends the program at the first request; with
EDI URLs that are all invalid and no ZeroMQ the program runs without an output.

With FEC, which no option of the program enables (`set_fec()` is not called), an
AF packet has several fragments, and those of two packets of one burst can be due
at the same time: the later one replaces the other in the map and the other is
never sent. `NoneLost` is therefore stated for the program as it runs, where an
AF packet (at most 700 bytes, for 192 kbit/s and a version string of 40 bytes)
is one fragment.

### Bounds

Index loops of 5 or 10 instead of 5000 let the index wrap within the run, and are
multiples of five like 5000, so that the phase survives the wrap. Capacities of 2
and 3 instead of 40 make a full stock, a gap and an overrun frequent. One fault
in the assembly runs is enough: a fault changes the assembly only through the
next few parts, and every position of it within the superframe is tried, in the
first loop and across the wrap. With 15 frames, `Recovers` is really tested for faults
in the first two superframes. `Window` bounds the delay of a packet; with it, a
packet cannot be a loop late. In `Outputs` the frame count stays far below its
modulus. In `ClockTAI` the last hour stands for all later ones: a refresh is
always due in it. In `EDISender` a tick stands for a nanosecond, a microsecond is
one tick (`Micro`) and the 24 ms are 10, so that the fragments of two packets meet;
the lengths are real. The
loss of fragments and their reassembly are checked for every `fec` up to 5 on the
AF packets of each configuration.

In `threads` one buffer more than a queue holds is enough to drop a client or to
discard a buffer, and two clients to have one that is slow beside one that is not.
In `main_program` the codes that are used in full are over fields of 8 and 16 elements, where
the erasures, errors and shortened blocks at the limit of `nroots` all occur; 7 is prime
and 15 is not, which is what the test of the polynomial depends on. The field of the
program, with 256 elements, is used with two roots instead of 48 and blocks of three
symbols. An entry of `index_of` that is never set has one of two values. The CRC has its real width and table. Options are varied two
at a time, since each check of the start reads one or two.

### Fairness

* `JitterBuffer`: main keeps calling `pop()`.
* `AVTInput`: main keeps running; the encoder keeps sending; a packet that stays
  in the network is there for some read. `Steady` says that main takes a turn
  between two frames (a turn takes 1 ms, a frame 24 ms); without it a stock can
  overflow, and the safety run allows that.
* `TCPSendClient`: both threads run once the owner has called `sendall()` or the
  destructor, which it need not do; a send ends if the peer reads or the connection
  is broken. Nothing is asked of the peer. The code sets no timeout on `::send()`, so
  the destructor may wait for a peer that neither reads nor breaks off, and the
  property says that it waits for nothing else (`[](spc = "send")`). The queue drains
  if the peer stays.
* `TCPDataDispatcher`, `TCPReceiveServer`, `Logger`: each thread runs, and a call
  that has begun is finished; no client need read, connect or send anything, and
  no owner need call anything. A dispatcher's `send()` gives up after 10 ms while
  there is no room, but `::send()` blocks if the room is smaller than the buffer.
  `WriteReturns` and `DispatcherDestroyed` allow waiting for such a thread for good
  (`JoinBlocked`), and for nothing else.
* `Startup`: main runs. Nothing but a system call that does not return stops it.
* `EDISender`: both threads run and time passes. Main gets the mutex in the end
  (strong fairness), since `run()` sleeps 500 microseconds without it between two
  passes.
* `ClockTAI`: time passes, the threads run and get the mutex if it is free again
  and again, and a download ends one way or the other.

No run checks for deadlock: every model has bounds at which it stops, and
progress is stated as liveness instead.

## Proofs

Each proof module defines the inductive invariant of its component, shows that the
initial states satisfy it and that every action keeps it, one step per action, and
derives the properties of the runs from it. The theorems hold for every value of
the constants that satisfies the assumptions of the component's module. Most of
these give types and signs (bounds are natural numbers, flags are Boolean); those
that say more are named below. The bounds on the environment (frames, faults,
clients, breaks) are among the constants, so that a theorem covers behaviours of
any length. Fairness is not used.

`OrderedQueueProofs`, for every number of indexes, capacity and set of frames:

* `TypeCorrect`, `Bounded`, `FramesConserved`: the inductive invariant is
  `TypeOK /\ StockBounded /\ Conservation`. `StockBounded` needs its second
  conjunct (an uninitialised reader has an empty stock), and `Conservation` the
  cardinality of the stock after each operation (`StoreStocked`, `PopStocked`).
* `PopsInOrder`: `pop()` returns the nearest frame in cyclic distance. It rests
  on `AheadDistance` and `PopNearest`, which relate the search from the last
  index to the distance modulo `MaxIndex`.

`JitterBufferProofs` adds the encoder's numbers, for every delay of the network,
with losses and duplicates:

* `PlacesInLoop`: as long as no frame came from outside the loop ahead of the
  reader, every stocked frame `n` has `reader < n <= reader + MaxIndex` and
  stands at `n % MaxIndex`. The invariant is `JTypeOK /\ Safe /\ StockInLoop`.
* `ReturnsInEncoderOrder`: under the same condition `pop()` returns the smallest
  number in the stock, and one greater than the last. Within one loop the cyclic
  distance of the indexes is the distance of the numbers.
* `LeavesOutNoFrame` (the action property `NoGapWithinWindow`): with no frame lost
  and none from outside the loop, a read leaves none out if the network delays no
  frame by more than the stock can hold. The invariant `GInv` follows the frames
  into the network: each frame ahead of the reader that was sent is in the stock or
  in the network (`NoneMissing`), and one in the network is among the last `Window`
  sent (`FlightBounded`). When `pop()` gives up on a frame, the stock is full, and
  the `Capacity` frames in it would all have overtaken the missing one.

`AVTInputProofs`, for every delay, loss and repetition. Assumed: `MaxIndex` is a
multiple of 5 (5000 in the code), so that an index has the phase of its frame
(`PhaseOfIndex`), and the buffer holds at least five frames.

* `AssemblyCorrect`, `SuperframesCorrect`, `PartsContiguous`, `TimestampCorrect`:
  the invariant `AInv` adds to the properties that each frame in the stock, and
  the part in hand, is at the remainder of its number (`Placed`), and that an
  aligned input has a frame it was aligned by. The four properties need each
  other: the time follows the index only while the parts are contiguous.
* `PADCorrect`: what was sent, what is queued, what waits in the socket and what
  ODR-PadEnc makes next follow each other (`PADOrder`).

`MainProofs`, the start, for every set of options, first number and number of
datagrams, whole and cut.
Assumed: the encoder's frames are a multiple of 24 bytes (8 kbit/s). Without that
`WholeFramesPushed` is false: a frame two bytes short, with a CRC and without the
bit that the code takes for the CRC flag, would be accepted with its CRC.

* `EncoderSet`: the invariant `StartInv` says which checks lie behind each step of
  `main()`, and that a control message, once sent, is that of the parameters.
* `WholeFramesPushed`, `AgreedAccepted`: whether a datagram is accepted depends on
  the options and not on the frame's number (`DatagramIs`), so that all frames that
  arrive whole or none are taken, and others only under the number of a frame that
  arrived in part (`PushedInv`); the two count fields give the number modulo 5000
  (`CountFields`).
* `JumpsCorrect`: the last RTP number is that of the last frame (`RtpInv`), and
  frames are lost one at a time, so that the remainders tell a gap (`JumpIsGap`).

`MainProofs`, the loop, for every choice of outputs, limit of errors and number of
superframes, with any output failing at any time. The invariant `OInv` gives the
last AF packet by the place in the loop (`PartInv`), equates the superframes that
failed with the counter (`ErrorInv`: the counter lags by the one of this turn), and
says that what is left in `m_peak` belongs to superframes that failed since the last
success (`PeakInv`). From it follow `OutputsCorrect`, `LevelsOfSuperframe` and
`OutputsAgree`.

`TCPSendClientProofs`, for every queue size and all interleavings of the owner,
the thread and the peer:

* `ClientCorrect`: socket, flag and connection agree (`SocketInv`), the queue is
  above its limit only inside `sendall()` (`LengthInv`), and every discard is paid
  for by a call beyond the first `MAX_QUEUE_SIZE` (`DiscardInv`).
* `ClientImplementsFifo`: the refinement of `LossyFifo`, action by action: a push
  accepts, a send delivers, a discard and a failed send lose, the rest stutters.
* `PeerReceivesInOrder`: a consequence of `LossyFifo` alone, carried over by the
  refinement: what the peer has received is in order and has nothing twice.

`ThreadsProofs`:

* `DispatcherCorrect`, for every number of clients: the preroll is the end of what
  was written, and what a running client has received, is being sent and has in
  its queue are consecutive numbers up to the last one pushed (`StreamInv`). A
  thread that has been stopped keeps only the first part, hence the split.
* `DisconnectsCorrect`: whether another client may follow the last message
  depends on the place of the thread (`LastInv`).
* `LogCorrect`: the queue is the end of what was logged (`QueuedInv`), the rest is
  written, by level and since the registration (`WrittenInv`).

`ClockTAIProofs`, for every finite set of leap seconds, every set of expiry times,
and every history of the servers, the cache file and restarts:

* `RefreshCorrect`: once there is an offset there is a bulletin in memory, and
  `get_valid_offset()` has it to choose from (`BulletinInv`).
* `OffsetsCorrect`, `OffsetNeverGoesBack` (an action property): an offset is what
  its bulletin says at its time, and the result of the task is no older than the
  offset in use (`OffsetInv`).

`EDISenderProofs`, for every set of configurations, number of AF packets, length of
the parts and of the version string, spreading and resolution of the clock. Assumed:
an AF packet has at most 1400 bytes (`SizeAssumption`; it has at most 700 in the
program), `fec` is below the 48 parity bytes, above which the payload of a fragment,
a divisor, may be zero (`PFT` warns above 5), and the last fragment is due within the spread (`SpreadAssumption`; the
factor is 0.95, and rounding to microseconds adds half of one per fragment, which
the last interval, that follows no fragment, leaves room for).

* `SenderKeepsFragments` (`PendingInv`): the invariant `SInv` says that what
  `write()` has in hand are the fragments of the last packet (`InHand`), that all
  others are of earlier ones (`Numbered`), and that the times in the map follow the
  order of the fragments (`DueInOrder`) and, without FEC, of the packets
  (`PacketsInOrder`). Nothing is stored over without FEC because the time that
  `write()` reads is later than every time in the map (`FreshTime`): the clock
  advances while a packet is assembled, and packets of one fragment are due at once.
  It is needed before `write()` gets the mutex, while `run()` may take fragments out.
* `SenderPacketsRecoverable` (`Recoverable`): about the arithmetic of
  `ProtectAndFragment()`. Of `n` fragments each takes every `n`-th byte of the block,
  so that each position is in one of them (`RowColumn`, `WholeBlock`). The payload is
  chosen so that `48 * n >= (m + 1) * L` for chunks of `L` bytes with their parity
  (`FragmentsPerChunk`); a fragment has at most `L / n`, rounded up, bytes of a chunk
  (`FewRows`, `LossBounded`), and `m` lost fragments cost it at most its 48 parity
  bytes. That Reed-Solomon then restores them is `Corrects`, which is model-checked.

Only model-checked:

* liveness (`FullDrains`, `Recovers`, `DestructorsReturn`, `QueuesDrain`,
  `WriteReturns`, `LeapApplied`, `PendingSent`, `DestructorEnds`), which is out of
  the prover's reach;
* `EncodesCodeword`, `Corrects` and `CrcCorrect`, which are about what recursive
  definitions compute.

## What is not modelled

* `AVTInput`: the bytes of PAD messages, which are abstracted to their kind.
* `PadInterface`: the flag that selects a message about reachability.
* `main()`: reading the command line; numbers on it are taken to be numbers. The
  text of the level display.
* Outputs: the version tag, encryption keys and the contents of ZeroMQ frames.
* `ThreadsafeQueue`: `push_overflow()` and `push_wait_if_full()`, which nothing
  calls.
* Sockets: `TCPClient` and the connection with a timeout, which nothing uses;
  name resolution. The TCP server classes are modelled, although no option of the
  program reaches them.
* `ClockTAI`: cache files that are torn by an interrupted write; the remote
  control, which is compiled out.
* EDI: the bytes of the headers, and TAG items other than those that are sent.
* `StatsPublish`: the counters of underruns and overruns, which nothing calls.
* Codes: `crc8` and `crc32`, which nothing calls; what a codec over a polynomial
  that is not primitive computes, which depends on memory that was never set.
* `encryption.c` and `utils.c` are pure I/O; `zmq.hpp` is vendored, fdk-aac a
  library.
