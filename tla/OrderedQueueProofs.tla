-------------------------- MODULE OrderedQueueProofs --------------------------
(***************************************************************************)
(* Proofs about OrderedQueue, for every index loop, capacity, set of frames *)
(* and number of pushes.                                                    *)
(***************************************************************************)
EXTENDS OrderedQueue, FiniteSetTheorems, TLAPS

\* Remainders by MaxIndex are indexes.
LEMMA ModIndex ==
    ASSUME NEW n \in Int
    PROVE  n % MaxIndex \in Index
  BY MaxIndexAssumption DEF Index

\* The place of the reader, gap steps ahead, is an index.
LEMMA AheadIndex ==
    ASSUME TypeOK, NEW gap \in Index
    PROVE  Ahead(gap) \in Index
  <1>1. lastIndexPop + 1 + gap \in Int
    BY MaxIndexAssumption DEF TypeOK, Index
  <1> QED  BY <1>1, ModIndex DEF Ahead

\* The keys of the stock are a finite set.
LEMMA StockedFinite ==
    /\ IsFiniteSet(Stocked)
    /\ Cardinality(Stocked) \in Nat
  <1>1. IsFiniteSet(Index)
    BY FS_Interval, MaxIndexAssumption DEF Index
  <1>2. IsFiniteSet(Stocked)
    BY <1>1, FS_Subset DEF Stocked
  <1> QED  BY <1>2, FS_CardinalityType

\* The same in the next state.
LEMMA StockedFinitePrime ==
    /\ IsFiniteSet(Stocked')
    /\ Cardinality(Stocked') \in Nat
  <1>1. IsFiniteSet(Index)
    BY FS_Interval, MaxIndexAssumption DEF Index
  <1>2. IsFiniteSet(Stocked')
    BY <1>1, FS_Subset DEF Stocked
  <1> QED  BY <1>2, FS_CardinalityType

\* A frame that is stored adds its index to the keys.
LEMMA StoreStocked ==
    ASSUME TypeOK, NEW index \in Index, NEW frame \in Frame, Store(index, frame)
    PROVE  /\ Stocked' = Stocked \cup {index}
           /\ Cardinality(Stocked') = IF index \in Stocked
                                      THEN Cardinality(Stocked)
                                      ELSE Cardinality(Stocked) + 1
  <1>1. frame # None
    BY FrameAssumption
  <1>2. Stocked' = Stocked \cup {index}
    BY <1>1 DEF Stocked, Store, TypeOK
  <1> QED  BY <1>2, StockedFinite, FS_AddElement

\* A frame that pop() returns takes its index from the keys.
LEMMA PopStocked ==
    ASSUME TypeOK, NEW gap \in Index, PopFrame(gap)
    PROVE  /\ Ahead(gap) \in Stocked
           /\ Stocked' = Stocked \ {Ahead(gap)}
           /\ Cardinality(Stocked') = Cardinality(Stocked) - 1
  <1>1. Ahead(gap) \in Stocked
    BY AheadIndex DEF PopFrame, Found, Stocked
  <1>2. Stocked' = Stocked \ {Ahead(gap)}
    <2>1. stock' = [stock EXCEPT ![Ahead(gap)] = None]
      BY DEF PopFrame
    <2>2. ASSUME NEW i \in Index
          PROVE  stock'[i] = IF i = Ahead(gap) THEN None ELSE stock[i]
      BY <2>1, AheadIndex DEF TypeOK
    <2> QED  BY <2>2 DEF Stocked
  <1> QED  BY <1>1, <1>2, StockedFinite, FS_RemoveElement

-----------------------------------------------------------------------------
\* push() keeps the types, whatever index it is called with.
LEMMA PushType ==
    ASSUME TypeOK, NEW i \in Int, NEW frame \in Frame, Push(i, frame)
    PROVE  TypeOK' /\ lastIndexPop' # -1
  <1> DEFINE index == (i + MaxIndex) % MaxIndex
  <1>1. index \in Index
    BY ModIndex, MaxIndexAssumption
  <1>2. (index + MaxIndex - 1) % MaxIndex \in Index
    <2>1. index + MaxIndex - 1 \in Int
      BY <1>1, MaxIndexAssumption DEF Index
    <2> QED  BY <2>1, ModIndex
  <1>3. -1 \notin Index
    BY DEF Index
  <1> HIDE DEF index
  <1>4. /\ lastIndexPop' \in Index \cup {-1} /\ lastIndexPop' # -1
        /\ pushed' \in Nat /\ popped' \in Nat
    BY <1>2, <1>3 DEF Push, InitLastIndexPop, TypeOK, index
  <1>5. CASE Store(index, frame)
    BY <1>1, <1>4, <1>5 DEF Store, TypeOK
  <1>6. CASE Overrun
    BY <1>4, <1>6 DEF Overrun, TypeOK
  <1> QED  BY <1>5, <1>6 DEF Push, index

\* pop() keeps the types.
LEMMA PopType ==
    ASSUME TypeOK, NEW gap \in Index, PopFrame(gap)
    PROVE  TypeOK' /\ lastIndexPop' # -1
  <1>1. -1 \notin Index
    BY DEF Index
  <1> QED  BY <1>1, AheadIndex DEF PopFrame, TypeOK

\* Each step keeps the types.
LEMMA TypeStep ==
    ASSUME TypeOK, [Next]_vars
    PROVE  TypeOK'
  <1>1. ASSUME NEW i \in RawIndex, NEW frame \in Frame, Push(i, frame)
        PROVE  TypeOK'
    BY <1>1, PushType, RawIndexAssumption
  <1>2. ASSUME NEW gap \in Index, PopFrame(gap)
        PROVE  TypeOK'
    BY <1>2, PopType
  <1>3. CASE UNCHANGED vars
    BY <1>3 DEF vars, TypeOK, Index
  <1> QED  BY <1>1, <1>2, <1>3 DEF Next, Pop

\* The members of OrderedQueue keep their types.
THEOREM TypeCorrect == Spec => []TypeOK
  <1>1. Init => TypeOK
    BY DEF Init, TypeOK
  <1>2. TypeOK /\ [Next]_vars => TypeOK'
    BY TypeStep
  <1> QED  BY <1>1, <1>2, PTL DEF Spec
-----------------------------------------------------------------------------
\* The invariants need no strengthening but the types: together they are
\* inductive, because each step changes the keys of the stock by one at most.
Safe == StockBounded /\ Conservation

\* push() keeps the bound of the stock and the account of the frames.
LEMMA PushSafe ==
    ASSUME TypeOK, Safe, NEW i \in Int, NEW frame \in Frame, Push(i, frame)
    PROVE  Safe'
  <1> DEFINE index == (i + MaxIndex) % MaxIndex
  <1>1. index \in Index
    BY ModIndex, MaxIndexAssumption
  <1> HIDE DEF index
  <1>2. Cardinality(Stocked) \in Nat /\ Cardinality(Stocked') \in Nat /\ Capacity \in Nat
    BY StockedFinite, StockedFinitePrime, CapacityAssumption
  <1>3. pushed' = pushed + 1 /\ popped' = popped
    BY DEF Push
  <1>4. lastIndexPop' # -1
    BY PushType
  <1>5. CASE Store(index, frame)
    <2>1. Cardinality(Stocked) < Capacity
      BY <1>2, <1>5 DEF Store, Full
    <2>2. Cardinality(Stocked') = IF index \in Stocked THEN Cardinality(Stocked)
                                  ELSE Cardinality(Stocked) + 1
      BY <1>1, <1>5, StoreStocked
    <2>3. duplicated' = IF index \in Stocked THEN duplicated + 1 ELSE duplicated
      BY <1>1, <1>5 DEF Store, Stocked
    <2>4. overruns' = overruns
      BY <1>5 DEF Store
    <2>5. StockBounded'
      BY <1>2, <1>4, <2>1, <2>2 DEF StockBounded
    <2>6. Conservation'
      BY <1>2, <1>3, <2>2, <2>3, <2>4 DEF Conservation, Safe, TypeOK
    <2> QED  BY <2>5, <2>6 DEF Safe
  <1>6. CASE Overrun
    <2>1. Stocked' = Stocked
      BY <1>6 DEF Overrun, Stocked
    <2>2. StockBounded'
      BY <1>4, <2>1 DEF StockBounded, Safe
    <2>3. Conservation'
      BY <1>2, <1>3, <1>6, <2>1 DEF Overrun, Conservation, Safe, TypeOK
    <2> QED  BY <2>2, <2>3 DEF Safe
  <1> QED  BY <1>5, <1>6 DEF Push, index

\* pop() keeps the bound of the stock and the account of the frames.
LEMMA PopSafe ==
    ASSUME TypeOK, Safe, NEW gap \in Index, PopFrame(gap)
    PROVE  Safe'
  <1>1. Cardinality(Stocked') = Cardinality(Stocked) - 1
    BY PopStocked
  <1>2. Cardinality(Stocked) \in Nat /\ Cardinality(Stocked') \in Nat /\ Capacity \in Nat
    BY StockedFinite, StockedFinitePrime, CapacityAssumption
  <1>3. StockBounded'
    BY <1>1, <1>2, PopType DEF StockBounded, Safe
  <1>4. Conservation'
    BY <1>1, <1>2 DEF PopFrame, Conservation, Safe, TypeOK
  <1> QED  BY <1>3, <1>4 DEF Safe

\* A step that leaves the queue alone keeps them.
LEMMA UnchangedSafe ==
    ASSUME TypeOK, Safe, UNCHANGED vars
    PROVE  TypeOK' /\ Safe'
  <1>1. Stocked' = Stocked
    BY DEF vars, Stocked
  <1>2. Safe'
    BY <1>1 DEF vars, Safe, StockBounded, Conservation
  <1>3. TypeOK'
    BY DEF vars, TypeOK, Index
  <1> QED  BY <1>2, <1>3

\* Each step keeps the bound of the stock and the account of the frames.
LEMMA SafeStep ==
    ASSUME TypeOK, Safe, [Next]_vars
    PROVE  Safe'
  <1>1. ASSUME NEW i \in RawIndex, NEW frame \in Frame, Push(i, frame)
        PROVE  Safe'
    BY <1>1, PushSafe, RawIndexAssumption
  <1>2. ASSUME NEW gap \in Index, PopFrame(gap)
        PROVE  Safe'
    BY <1>2, PopSafe
  <1>3. CASE UNCHANGED vars
    BY <1>3, UnchangedSafe
  <1> QED  BY <1>1, <1>2, <1>3 DEF Next, Pop

\* Both hold initially: the stock is empty, and nothing has been counted.
LEMMA SafeInit == Init => Safe
  <1> SUFFICES ASSUME Init PROVE Safe
    OBVIOUS
  <1>1. Stocked = {}
    BY DEF Init, Stocked
  <1>2. Cardinality(Stocked) = 0
    BY <1>1, FS_EmptySet
  <1> QED  BY <1>1, <1>2, CapacityAssumption DEF Init, Safe, StockBounded, Conservation

\* _stock never exceeds its capacity, and its reader is initialised before there
\* is anything to read.
THEOREM Bounded == Spec => []StockBounded
  <1>1. Spec => []TypeOK
    BY TypeCorrect
  <1>2. TypeOK /\ Safe /\ [Next]_vars => Safe'
    BY SafeStep
  <1>3. Safe => StockBounded
    BY DEF Safe
  <1> QED  BY <1>1, <1>2, <1>3, SafeInit, PTL DEF Spec

\* Every frame that was pushed is in the stock, was returned, or is counted as
\* duplicated or overrun: push() and pop() lose none silently.
THEOREM FramesConserved == Spec => []Conservation
  <1>1. Spec => []TypeOK
    BY TypeCorrect
  <1>2. TypeOK /\ Safe /\ [Next]_vars => Safe'
    BY SafeStep
  <1>3. Safe => Conservation
    BY DEF Safe
  <1> QED  BY <1>1, <1>2, <1>3, SafeInit, PTL DEF Spec
-----------------------------------------------------------------------------
\* Adding m before or after the remainder is taken makes no difference.
LEMMA ModAdd ==
    ASSUME NEW r \in Int, NEW m \in Int
    PROVE  ((r % MaxIndex) + m) % MaxIndex = (r + m) % MaxIndex
  <1> DEFINE M == MaxIndex
             s == r % M
             q == r \div M
             t == (s + m) % M
             p == (s + m) \div M
  <1>1. M \in Nat \ {0}
    BY MaxIndexAssumption
  <1>2. s \in 0 .. M - 1 /\ q \in Int
    BY <1>1
  <1>3. r = M * q + s
    BY <1>1
  <1> HIDE DEF M, s, q
  <1>4. t \in 0 .. M - 1 /\ p \in Int
    BY <1>1, <1>2
  <1>5. s + m = M * p + t
    BY <1>1, <1>2
  <1> HIDE DEF t, p
  <1>6. r + m = M * (q + p) + t
    BY <1>1, <1>2, <1>3, <1>4, <1>5
  <1>7. (M * (q + p) + t) % M = t
    BY <1>1, <1>2, <1>4
  <1> QED  BY <1>6, <1>7 DEF M, s, t

\* A whole loop makes no difference to the remainder.
LEMMA ModLoop ==
    ASSUME NEW r \in Int
    PROVE  (r + MaxIndex) % MaxIndex = r % MaxIndex
  <1>1. MaxIndex % MaxIndex = 0 /\ MaxIndex \in Int
    BY MaxIndexAssumption
  <1>2. ((MaxIndex % MaxIndex) + r) % MaxIndex = (MaxIndex + r) % MaxIndex
    BY <1>1, ModAdd
  <1>3. 0 + r = r /\ MaxIndex + r = r + MaxIndex
    BY <1>1
  <1> QED  BY <1>1, <1>2, <1>3

\* A number below 2 * MaxIndex wraps around once at most.
LEMMA ModWrap ==
    ASSUME NEW n \in 0 .. 2 * MaxIndex - 1
    PROVE  n % MaxIndex = IF n < MaxIndex THEN n ELSE n - MaxIndex
  <1>1. CASE n < MaxIndex
    BY <1>1, MaxIndexAssumption
  <1>2. CASE n >= MaxIndex
    BY <1>2, MaxIndexAssumption
  <1> QED  BY <1>1, <1>2, MaxIndexAssumption

\* The place `gap` steps ahead of the reader is at the distance gap from it, and
\* every index is the place ahead at its own distance.
LEMMA AheadDistance ==
    ASSUME NEW last \in Index, NEW gap \in Index
    PROVE  /\ Distance(last, (last + 1 + gap) % MaxIndex) = gap
           /\ Distance(last, gap) \in Index
           /\ (last + 1 + Distance(last, gap)) % MaxIndex = gap
  <1> USE MaxIndexAssumption DEF Index
  <1>1. last + 1 + gap \in 0 .. 2 * MaxIndex - 1
    OBVIOUS
  <1> DEFINE a == (last + 1 + gap) % MaxIndex
  <1>2. a = IF last + 1 + gap < MaxIndex THEN last + 1 + gap ELSE last + 1 + gap - MaxIndex
    BY <1>1, ModWrap
  <1> HIDE DEF a
  <1>3. a - last - 1 + MaxIndex \in 0 .. 2 * MaxIndex - 1
    BY <1>2
  <1>4. (a - last - 1 + MaxIndex) % MaxIndex = gap
    BY <1>2, <1>3, ModWrap
  <1>5. gap - last - 1 + MaxIndex \in 0 .. 2 * MaxIndex - 1
    OBVIOUS
  <1> DEFINE d == (gap - last - 1 + MaxIndex) % MaxIndex
  <1>6. d = IF gap - last - 1 < 0 THEN gap - last - 1 + MaxIndex ELSE gap - last - 1
    BY <1>5, ModWrap
  <1> HIDE DEF d
  <1>7. d \in 0 .. MaxIndex - 1 /\ last + 1 + d \in 0 .. 2 * MaxIndex - 1
    BY <1>6
  <1>8. (last + 1 + d) % MaxIndex = gap
    BY <1>6, <1>7, ModWrap
  <1> QED  BY <1>4, <1>7, <1>8 DEF Distance, a, d

\* No frame in the stock is nearer than the one that pop() returns.
LEMMA PopNearest ==
    ASSUME TypeOK, lastIndexPop \in Index, NEW gap \in Index, PopFrame(gap),
           NEW i \in Stocked
    PROVE  Distance(lastIndexPop, i) >= gap
  <1> DEFINE h == Distance(lastIndexPop, i)
  <1>1. i \in Index /\ stock[i] # None
    BY DEF Stocked
  <1>2. h \in Index /\ Ahead(h) = i
    BY <1>1, AheadDistance DEF Ahead
  <1>3. h \in Nat /\ gap \in Nat
    BY <1>2 DEF Index
  <1> HIDE DEF h
  <1>4. SUFFICES ASSUME h < gap PROVE FALSE
    BY <1>3 DEF h
  <1>5. h \in 0 .. gap - 1
    BY <1>3, <1>4
  <1> QED  BY <1>1, <1>2, <1>5 DEF PopFrame, Found

\* pop() returns the nearest frame in cyclic order, and passes over missing ones
\* only if the stock is at capacity.
THEOREM PopsInOrder == Spec => PopOrder
  <1> DEFINE d == Distance(lastIndexPop, lastIndexPop')
             Step == lastIndexPop # -1 /\ UNCHANGED pushed =>
                        /\ \A i \in Stocked : Distance(lastIndexPop, i) >= d
                        /\ d > 0 => Cardinality(Stocked) = Capacity
                        /\ Stocked' = Stocked \ {lastIndexPop'}
  <1>1. ASSUME TypeOK, StockBounded, Next
        PROVE  Step
    <2> SUFFICES ASSUME lastIndexPop # -1, UNCHANGED pushed
                 PROVE  /\ \A i \in Stocked : Distance(lastIndexPop, i) >= d
                        /\ d > 0 => Cardinality(Stocked) = Capacity
                        /\ Stocked' = Stocked \ {lastIndexPop'}
      OBVIOUS
    <2>1. PICK gap \in Index : PopFrame(gap)
      <3>1. ~(pushed' = pushed + 1)
        BY <1>1 DEF TypeOK
      <3> QED  BY <1>1, <3>1 DEF Next, Pop, Push
    <2>2. lastIndexPop \in Index /\ gap \in Nat
      BY <1>1 DEF TypeOK, Index
    <2>3. d = gap
      BY <2>1, <2>2, AheadDistance DEF PopFrame, Ahead
    <2>4. \A i \in Stocked : Distance(lastIndexPop, i) >= gap
      BY <1>1, <2>1, <2>2, PopNearest
    <2>5. ASSUME gap > 0
          PROVE  Cardinality(Stocked) = Capacity
      <3>1. Full
        BY <2>1, <2>2, <2>5 DEF PopFrame, Found
      <3> QED  BY <1>1, <3>1, StockedFinite, CapacityAssumption DEF Full, StockBounded
    <2>6. Stocked' = Stocked \ {lastIndexPop'}
      BY <1>1, <2>1, PopStocked DEF PopFrame
    <2> QED  BY <2>3, <2>4, <2>5, <2>6
  <1>2. TypeOK /\ StockBounded /\ [Next]_vars => [Step]_vars
    BY <1>1
  <1>3. Spec => []TypeOK /\ []StockBounded
    BY TypeCorrect, Bounded
  <1> QED  BY <1>2, <1>3, PTL DEF Spec, PopOrder
=============================================================================
