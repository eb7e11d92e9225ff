----------------------------- MODULE JitterBuffer -----------------------------
(***************************************************************************)
(* OrderedQueue at work: an encoder numbers its frames 0, 1, 2, ..., a      *)
(* network (external: UDP) delays, reorders, duplicates and loses them, and *)
(* AVTInput pushes frame n under the index n % MaxIndex, which is all that  *)
(* the STI header says of n.  The history variables keep the full frame     *)
(* numbers the code cannot see.                                             *)
(***************************************************************************)
EXTENDS OrderedQueue

CONSTANTS
    MaxFrame,   \* bound: the encoder sends the frames 0 .. MaxFrame - 1
    Window,     \* the network delays a frame by less than Window frames
    MayLose,    \* the network may lose frames
    MayDuplicate \* the network may duplicate frames

ASSUME FramesAreNumbers == MaxFrame \in Nat /\ Frame = 0 .. MaxFrame - 1
ASSUME WindowAssumption == Window \in Nat

VARIABLES
    sent,       \* the number of frames sent
    inflight,   \* frames in the network
    reader,     \* history: full number of the frame at lastIndexPop
    stray,      \* history: a frame was pushed outside the loop ahead of reader
    lost        \* history: a frame was lost in the network or refused

netvars == <<sent, inflight>>
history == <<reader, stray, lost>>
jvars == <<vars, netvars, history>>

JInit ==
    /\ Init
    /\ sent = 0
    /\ inflight = {}
    /\ reader = -1
    /\ stray = FALSE
    /\ lost = FALSE

\* The frames that a reader at r can still return in order: the next MaxIndex.
InLoop(n, r) == r < n /\ n <= r + MaxIndex

\* The encoder sends its next frame.
Send ==
    /\ sent < MaxFrame
    /\ \A n \in inflight : sent - n < Window
    /\ sent' = sent + 1
    /\ inflight' = inflight \cup {sent}
    /\ UNCHANGED <<vars, history>>

Lose(n) ==
    /\ MayLose
    /\ inflight' = inflight \ {n}
    /\ lost' = TRUE
    /\ UNCHANGED <<vars, sent, reader, stray>>

\* A frame arrives and is pushed; a duplicate of it may stay in the network.
Deliver(n) ==
    /\ pushed < MaxPush
    /\ Push(n, n)
    /\ \/ inflight' = inflight \ {n}
       \/ MayDuplicate /\ UNCHANGED inflight
    /\ reader' = IF lastIndexPop = -1 THEN n - 1 ELSE reader
    /\ stray' = (stray \/ ~InLoop(n, reader'))
    /\ lost' = (lost \/ overruns' # overruns)
    /\ UNCHANGED sent

Read(gap) ==
    /\ PopFrame(gap)
    /\ reader' = stock[Ahead(gap)]
    /\ UNCHANGED <<netvars, stray, lost>>

JNext ==
    \/ Send
    \/ \E n \in inflight : Lose(n) \/ Deliver(n)
    \/ \E gap \in Index : Read(gap)

JSpec == JInit /\ [][JNext]_jvars

\* The main loop calls pop() again and again; the network promises nothing.
JFairSpec == JSpec /\ WF_jvars(\E gap \in Index : Read(gap))
-----------------------------------------------------------------------------
\* Type correctness of the queue, the network and the history variables.
JTypeOK ==
    /\ TypeOK
    /\ sent \in 0 .. MaxFrame
    /\ inflight \subseteq Frame
    /\ reader \in Int
    /\ stray \in BOOLEAN
    /\ lost \in BOOLEAN

\* While no frame came outside the loop ahead of the reader, each frame in the
\* stock is in that loop and stands at its own index.
StockInLoop ==
    ~stray =>
        /\ lastIndexPop # -1 => reader % MaxIndex = lastIndexPop
        /\ \A i \in Stocked : InLoop(stock[i], reader) /\ stock[i] % MaxIndex = i

\* pop() returns frames in the order in which the encoder numbered them, across
\* the wrap-around of the index, gaps and full stocks, as long as every frame
\* that was pushed was ahead of the reader and within one index loop of it.
InOrder ==
    [][~stray /\ popped' # popped =>
          /\ reader' > reader
          /\ \A i \in Stocked : stock[i] >= reader']_jvars

\* The purpose of the buffer: if the network delays no frame by Capacity frames
\* or more, then without a loss, an overrun or a frame behind the reader, pop()
\* leaves out no frame.
NoGapWithinWindow ==
    [][~stray /\ ~lost /\ Window <= Capacity /\ popped' # popped =>
          reader' = reader + 1]_jvars

\* What OrderedQueue.h says of the class: frames come "potentially out-of-order"
\* and the queue "returns the frames in-order".
ReturnsInOrder == [][popped' # popped => reader' > reader]_jvars
=============================================================================
