----------------------------- MODULE OrderedQueue -----------------------------
(***************************************************************************)
(* The jitter buffer of src/OrderedQueue.{h,cpp}: frames are pushed with a  *)
(* cyclic index, in any order, and popped in cyclic index order.            *)
(*                                                                         *)
(* _stock (a std::map keyed by index) is a function on every index whose    *)
(* value is None where the map has no entry.  The queue is used by one      *)
(* thread only, so push() and pop() are atomic.  pushed and popped are      *)
(* history counters: calls of push() and frames returned by pop().          *)
(***************************************************************************)
EXTENDS Integers, FiniteSets

CONSTANTS
    MaxIndex,   \* _maxIndex: indexes are taken modulo this number
    Capacity,   \* _capacity: frames the stock may hold
    Frame,      \* contents of a frame (payload and capture timestamp)
    None,       \* no entry in the stock, or the empty buffer pop() returns
    RawIndex,   \* indexes callers pass to push(), before the modulo
    MaxPush     \* bound: calls of push() in a behaviour

ASSUME MaxIndexAssumption == MaxIndex \in Nat \ {0}
ASSUME CapacityAssumption == Capacity \in Nat
ASSUME FrameAssumption == None \notin Frame
ASSUME RawIndexAssumption == RawIndex \subseteq {i \in Int : i >= -MaxIndex}

VARIABLES
    stock,          \* _stock
    lastIndexPop,   \* _lastIndexPop: -1 until the first push
    duplicated,     \* _duplicated: frames replaced by one of the same index
    overruns,       \* _overruns: frames refused by a full stock
    pushed,         \* history: number of calls of push()
    popped          \* history: number of frames pop() returned

vars == <<stock, lastIndexPop, duplicated, overruns, pushed, popped>>

Index == 0 .. MaxIndex - 1

\* The keys of _stock; _stock.size() is its cardinality.
Stocked == {i \in Index : stock[i] # None}

Full == Cardinality(Stocked) >= Capacity

\* The index `gap` places after nextIndex = (_lastIndexPop + 1) % _maxIndex.
Ahead(gap) == (lastIndexPop + 1 + gap) % MaxIndex

Init ==
    /\ stock = [i \in Index |-> None]
    /\ lastIndexPop = -1
    /\ duplicated = 0
    /\ overruns = 0
    /\ pushed = 0
    /\ popped = 0
-----------------------------------------------------------------------------
\* Mutants: the position is not reduced to an index; it is the first frame's own.
InitUnreduced(index) ==
    lastIndexPop' = IF lastIndexPop = -1 THEN index + MaxIndex - 1 ELSE lastIndexPop

InitAtIndex(index) ==
    lastIndexPop' = IF lastIndexPop = -1 THEN index ELSE lastIndexPop

\* The first frame initialises the position of the reader just before it.
InitLastIndexPop(index) ==
    lastIndexPop' = IF lastIndexPop = -1
                    THEN (index + MaxIndex - 1) % MaxIndex
                    ELSE lastIndexPop

\* Mutants: the stock's size is not compared with its capacity; the frame that
\* was there already is not counted.
StoreUnbounded(index, frame) ==
    /\ duplicated' = IF stock[index] # None THEN duplicated + 1 ELSE duplicated
    /\ stock' = [stock EXCEPT ![index] = frame]
    /\ UNCHANGED overruns

StoreUncounted(index, frame) ==
    /\ ~Full
    /\ stock' = [stock EXCEPT ![index] = frame]
    /\ UNCHANGED <<duplicated, overruns>>

\* A frame that is in the stock already is replaced: it could be a frame of the
\* previous index loop.
Store(index, frame) ==
    /\ ~Full
    /\ duplicated' = IF stock[index] # None THEN duplicated + 1 ELSE duplicated
    /\ stock' = [stock EXCEPT ![index] = frame]
    /\ UNCHANGED overruns

\* A full stock refuses the frame, whatever its index.
Overrun ==
    /\ Full
    /\ overruns' = overruns + 1
    /\ UNCHANGED <<stock, duplicated>>

\* push(): index is what the caller passes.
Push(i, frame) ==
    LET index == (i + MaxIndex) % MaxIndex IN
    /\ pushed' = pushed + 1
    /\ InitLastIndexPop(index)
    /\ Store(index, frame) \/ Overrun
    /\ UNCHANGED popped
-----------------------------------------------------------------------------
\* Mutants: the search goes on over a gap whatever the stock's size is; it gives
\* up at a gap whatever the stock's size is; a full stock yields its lowest index.
FoundBeyondGap(gap) ==
    /\ stock[Ahead(gap)] # None
    /\ \A g \in 0 .. gap - 1 : stock[Ahead(g)] = None

FoundNextOnly(gap) ==
    /\ stock[Ahead(gap)] # None
    /\ gap = 0

FoundLowest(gap) ==
    /\ stock[Ahead(gap)] # None
    /\ \/ gap = 0
       \/ Full /\ stock[Ahead(0)] = None /\ \A i \in Stocked : Ahead(gap) <= i

\* The loop of pop() tries Ahead(0), and goes on to Ahead(1), Ahead(2), ...
\* only while the stock is full.  gap is the first place where it finds a frame.
Found(gap) ==
    /\ stock[Ahead(gap)] # None
    /\ \A g \in 0 .. gap - 1 : stock[Ahead(g)] = None
    /\ gap = 0 \/ Full

\* pop() finds a frame `gap` places ahead, removes it and returns it.
PopFrame(gap) ==
    /\ Found(gap)
    /\ stock' = [stock EXCEPT ![Ahead(gap)] = None]
    /\ lastIndexPop' = Ahead(gap)
    /\ popped' = popped + 1
    /\ UNCHANGED <<duplicated, overruns, pushed>>

\* pop() returns an empty buffer: no frame, or a gap in a stock that is not full.
PopEmpty == \A gap \in Index : ~Found(gap)

Pop == \E gap \in Index : PopFrame(gap)

Next ==
    \/ \E i \in RawIndex, frame \in Frame : pushed < MaxPush /\ Push(i, frame)
    \/ Pop

Spec == Init /\ [][Next]_vars
-----------------------------------------------------------------------------
\* Type correctness of the members of OrderedQueue.
TypeOK ==
    /\ stock \in [Index -> Frame \cup {None}]
    /\ lastIndexPop \in Index \cup {-1}
    /\ duplicated \in Nat
    /\ overruns \in Nat
    /\ pushed \in Nat
    /\ popped \in Nat

\* _stock never holds more frames than its capacity, and pop() has a position
\* to start from (_lastIndexPop initialised) whenever there is a frame in it.
StockBounded ==
    /\ Cardinality(Stocked) <= Capacity
    /\ lastIndexPop = -1 => Stocked = {}

\* No frame gets lost silently: each frame given to push() is in the stock, was
\* returned by pop(), was replaced by one of the same index (counted in
\* _duplicated) or was refused (counted in _overruns).
Conservation ==
    pushed = Cardinality(Stocked) + popped + duplicated + overruns

\* Places from index a (exclusive) to index b, going forward.
Distance(a, b) == (b - a - 1 + MaxIndex) % MaxIndex

\* pop() never returns a frame while one that is nearer, in cyclic order, waits
\* in the stock, and it passes over missing frames only when the stock is at
\* capacity; the position never moves otherwise, except for its initialisation.
PopOrder ==
    [][lastIndexPop # -1 /\ UNCHANGED pushed =>
          LET d == Distance(lastIndexPop, lastIndexPop') IN
          /\ \A i \in Stocked : Distance(lastIndexPop, i) >= d
          /\ d > 0 => Cardinality(Stocked) = Capacity
          /\ Stocked' = Stocked \ {lastIndexPop'}]_vars

\* A stock at capacity is always read from again: a gap does not block pop()
\* for good ("The queue will fill to capacity if there is a gap").
FullDrains == (Full /\ Capacity > 0) ~> ~Full
=============================================================================
