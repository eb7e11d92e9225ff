-------------------------- MODULE JitterBufferProofs --------------------------
(***************************************************************************)
(* Proof that the jitter buffer returns frames in the order of the encoder  *)
(* as long as none is pushed outside the loop ahead of its reader, for      *)
(* every index loop, capacity, delay and number of frames, and whatever the *)
(* network loses or duplicates, and that it then leaves none out if no      *)
(* frame is lost and none comes later than the stock can wait for it.       *)
(***************************************************************************)
EXTENDS JitterBuffer, OrderedQueueProofs

\* In the loop ahead of the reader, the distance of its index tells the frame.
LEMMA LoopPosition ==
    ASSUME NEW r \in Int, NEW x \in Int, InLoop(x, r)
    PROVE  /\ Distance(r % MaxIndex, x % MaxIndex) \in Index
           /\ x = r + 1 + Distance(r % MaxIndex, x % MaxIndex)
  <1> DEFINE k == x - r - 1
             last == r % MaxIndex
  <1>1. k \in Index
    BY MaxIndexAssumption DEF InLoop, Index
  <1>2. last \in Index
    BY ModIndex
  <1>3. x = r + (1 + k) /\ 1 + k \in Int
    BY <1>1 DEF Index
  <1> HIDE DEF k
  <1>4. (last + (1 + k)) % MaxIndex = x % MaxIndex
    BY <1>3, ModAdd
  <1>5. last + (1 + k) = last + 1 + k
    BY <1>1, <1>2, MaxIndexAssumption DEF Index
  <1>6. Distance(last, (last + 1 + k) % MaxIndex) = k
    BY <1>1, <1>2, AheadDistance
  <1> QED  BY <1>1, <1>3, <1>4, <1>5, <1>6 DEF Index

-----------------------------------------------------------------------------
\* The inductive invariant: the queue's own, and the frames' places in the loop.
JInv == JTypeOK /\ Safe /\ StockInLoop

\* Initially nothing is stocked.
LEMMA JInvInit == JInit => JInv
  <1> SUFFICES ASSUME JInit PROVE JInv
    OBVIOUS
  <1>1. TypeOK
    BY DEF JInit, Init, TypeOK
  <1>2. Safe
    BY SafeInit DEF JInit
  <1>3. sent \in 0 .. MaxFrame /\ inflight \subseteq Frame /\ reader \in Int
    BY FramesAreNumbers DEF JInit
  <1>5. stray \in BOOLEAN /\ lost \in BOOLEAN
    BY Zenon DEF JInit
  <1>4. StockInLoop
    BY DEF JInit, Init, StockInLoop, Stocked
  <1> QED  BY <1>1, <1>2, <1>3, <1>4, <1>5 DEF JInv, JTypeOK

\* A step of the network leaves the queue and its reader alone.
LEMMA NetStep ==
    ASSUME JInv, UNCHANGED <<vars, reader, stray>>
    PROVE  TypeOK' /\ Safe' /\ StockInLoop'
  <1>1. TypeOK' /\ Safe'
    BY UnchangedSafe DEF JInv, JTypeOK
  <1>2. Stocked' = Stocked
    BY DEF vars, Stocked
  <1>3. StockInLoop'
    BY <1>2 DEF JInv, StockInLoop, vars, InLoop
  <1> QED  BY <1>1, <1>3

\* A frame that is pushed into the loop ahead of the reader takes its own place.
LEMMA DeliverStep ==
    ASSUME JInv, NEW n \in inflight, Deliver(n)
    PROVE  JInv'
  <1>1. n \in Frame /\ n \in Int
    BY FramesAreNumbers DEF JInv, JTypeOK
  <1>2. TypeOK /\ Safe /\ Push(n, n)
    BY DEF JInv, JTypeOK, Deliver
  <1>3. TypeOK' /\ lastIndexPop' # -1
    BY <1>1, <1>2, PushType
  <1>4. Safe'
    BY <1>1, <1>2, PushSafe
  <1>5. JTypeOK'
    <2>1. inflight' \subseteq Frame /\ sent' \in 0 .. MaxFrame
      BY DEF JInv, JTypeOK, Deliver
    <2>2. reader' \in Int
      BY <1>1 DEF JInv, JTypeOK, Deliver
    <2>3. stray' \in BOOLEAN /\ lost' \in BOOLEAN
      BY DEF Deliver
    <2> QED  BY <1>3, <2>1, <2>2, <2>3 DEF JTypeOK
  <1> DEFINE index == (n + MaxIndex) % MaxIndex
  <1>6. index = n % MaxIndex /\ index \in Index
    BY <1>1, ModLoop, ModIndex
  <1>7. ASSUME ~stray'
        PROVE  /\ lastIndexPop' = reader' % MaxIndex
               /\ \A i \in Stocked : InLoop(stock[i], reader') /\ stock[i] % MaxIndex = i
    <2>1. ~stray
      BY <1>7 DEF Deliver
    <2>2. CASE lastIndexPop = -1
      <3>1. Stocked = {}
        BY <1>2, <2>2 DEF Safe, StockBounded
      <3>2. reader' = n - 1 /\ lastIndexPop' = (index + MaxIndex - 1) % MaxIndex
        BY <1>2, <2>2 DEF Deliver, Push, InitLastIndexPop
      <3> DEFINE m == MaxIndex - 1
      <3>3. m \in Int /\ index + MaxIndex - 1 = index + m /\ (n - 1) + MaxIndex = n + m
        BY <1>1, <1>6, MaxIndexAssumption DEF Index
      <3> HIDE DEF m
      <3>4. (index + m) % MaxIndex = (n + m) % MaxIndex
        BY <1>1, <1>6, <3>3, ModAdd
      <3>5. ((n - 1) + MaxIndex) % MaxIndex = (n - 1) % MaxIndex
        BY <1>1, ModLoop
      <3> QED  BY <3>1, <3>2, <3>3, <3>4, <3>5
    <2>3. CASE lastIndexPop # -1
      <3>1. reader' = reader /\ lastIndexPop' = lastIndexPop
        BY <1>2, <2>3 DEF Deliver, Push, InitLastIndexPop
      <3> QED  BY <2>1, <2>3, <3>1 DEF JInv, StockInLoop
    <2> QED  BY <2>2, <2>3
  <1>8. StockInLoop'
    <2> SUFFICES ASSUME ~stray'
                 PROVE  /\ lastIndexPop' # -1 => reader' % MaxIndex = lastIndexPop'
                        /\ \A i \in Stocked' :
                              InLoop(stock'[i], reader') /\ stock'[i] % MaxIndex = i
      BY DEF StockInLoop, InLoop
    <2> HIDE DEF index
    <2>1. CASE Store(index, n)
      <3>1. InLoop(n, reader')
        BY DEF Deliver
      <3>2. ASSUME NEW i \in Stocked'
            PROVE  InLoop(stock'[i], reader') /\ stock'[i] % MaxIndex = i
        <4>1. i \in Index /\ (i # index => i \in Stocked /\ stock'[i] = stock[i])
          BY <1>2, <2>1 DEF Stocked, Store, TypeOK
        <4>2. stock'[index] = n
          BY <1>2, <1>6, <2>1 DEF Store, TypeOK
        <4> QED  BY <1>6, <1>7, <3>1, <4>1, <4>2
      <3> QED  BY <1>7, <3>2
    <2>2. CASE Overrun
      <3>1. stock' = stock /\ Stocked' = Stocked
        BY <2>2 DEF Overrun, Stocked
      <3> QED  BY <1>7, <3>1
    <2> QED  BY <1>2, <2>1, <2>2 DEF Push, index
  <1> QED  BY <1>4, <1>5, <1>8 DEF JInv

\* The frame that is read is the next one of the loop, and so the others in the
\* stock are in the loop ahead of it.
LEMMA ReadOrder ==
    ASSUME JInv, NEW gap \in Index, Read(gap), ~stray
    PROVE  /\ reader' \in Int
           /\ reader' > reader
           /\ reader' = reader + 1 + gap
           /\ reader' % MaxIndex = lastIndexPop'
           /\ \A i \in Stocked : stock[i] >= reader'
           /\ \A i \in Stocked' : InLoop(stock[i], reader') /\ stock[i] % MaxIndex = i
  <1>1. TypeOK /\ PopFrame(gap) /\ reader \in Int
    BY DEF JInv, JTypeOK, Read
  <1>2. /\ Ahead(gap) \in Stocked
        /\ Stocked' = Stocked \ {Ahead(gap)}
    BY <1>1, PopStocked
  <1>3. lastIndexPop # -1 /\ lastIndexPop \in Index
    BY <1>1, <1>2 DEF JInv, Safe, StockBounded, TypeOK
  <1>4. reader % MaxIndex = lastIndexPop
    BY <1>3 DEF JInv, StockInLoop
  <1>5. \A i \in Stocked : /\ i \in Index /\ stock[i] \in Int
                           /\ InLoop(stock[i], reader) /\ stock[i] % MaxIndex = i
    BY <1>1, FramesAreNumbers DEF JInv, StockInLoop, Stocked, TypeOK
  <1>6. \A i \in Stocked : /\ Distance(lastIndexPop, i) \in Index
                           /\ stock[i] = reader + 1 + Distance(lastIndexPop, i)
    BY <1>1, <1>4, <1>5, LoopPosition
  <1>7. \A i \in Stocked : Distance(lastIndexPop, i) >= gap
    BY <1>1, <1>3, PopNearest
  <1>8. Distance(lastIndexPop, Ahead(gap)) = gap
    BY <1>3, AheadDistance DEF Ahead
  <1>9. reader' = stock[Ahead(gap)] /\ reader' = reader + 1 + gap /\ gap \in Nat
    BY <1>2, <1>6, <1>8 DEF Read, Index
  <1>10. reader' \in Int /\ reader' > reader
    BY <1>1, <1>9
  <1>11. reader' % MaxIndex = lastIndexPop'
    BY <1>1, <1>2, <1>5, <1>9 DEF PopFrame
  <1>12. ASSUME NEW i \in Stocked
         PROVE  stock[i] >= reader'
    <2>1. Distance(lastIndexPop, i) \in Int
      BY <1>6 DEF Index
    <2> QED  BY <1>1, <1>6, <1>7, <1>9, <2>1
  <1>13. ASSUME NEW i \in Stocked'
         PROVE  InLoop(stock[i], reader') /\ stock[i] % MaxIndex = i
    <2>1. i \in Stocked /\ i # Ahead(gap)
      BY <1>2
    <2>2. stock[i] # reader'
      BY <1>2, <1>5, <1>9, <2>1
    <2>3. stock[i] \in Int /\ stock[i] >= reader' /\ stock[i] <= reader + MaxIndex
      BY <1>5, <1>12, <2>1 DEF InLoop
    <2>4. InLoop(stock[i], reader')
      BY <1>1, <1>10, <2>2, <2>3, MaxIndexAssumption DEF InLoop
    <2> QED  BY <1>5, <2>1, <2>4
  <1> QED  BY <1>9, <1>10, <1>11, <1>12, <1>13

\* Reading keeps the invariant.
LEMMA ReadStep ==
    ASSUME JInv, NEW gap \in Index, Read(gap)
    PROVE  JInv'
  <1>1. TypeOK /\ Safe /\ PopFrame(gap)
    BY DEF JInv, JTypeOK, Read
  <1>2. TypeOK' /\ Safe'
    BY <1>1, PopType, PopSafe
  <1>3. Ahead(gap) \in Stocked
    BY <1>1, PopStocked
  <1>4. reader' \in Int
    BY <1>1, <1>3, FramesAreNumbers DEF Read, Stocked, TypeOK
  <1>5. JTypeOK'
    BY <1>2, <1>4 DEF JInv, JTypeOK, Read, netvars
  <1>6. StockInLoop'
    <2> SUFFICES ASSUME ~stray'
                 PROVE  /\ reader' % MaxIndex = lastIndexPop'
                        /\ \A i \in Stocked' :
                              InLoop(stock'[i], reader') /\ stock'[i] % MaxIndex = i
      BY DEF StockInLoop, InLoop
    <2>1. ~stray
      BY DEF Read
    <2>2. ASSUME NEW i \in Stocked' PROVE stock'[i] = stock[i]
      <3>1. i \in Index /\ stock'[i] # None
        BY DEF Stocked
      <3>2. Ahead(gap) \in Index
        BY <1>1, AheadIndex
      <3> QED  BY <1>1, <3>1, <3>2 DEF PopFrame, TypeOK
    <2> QED  BY <2>1, <2>2, ReadOrder
  <1> QED  BY <1>2, <1>5, <1>6 DEF JInv

\* Every step keeps the invariant.
LEMMA JInvStep ==
    ASSUME JInv, [JNext]_jvars
    PROVE  JInv'
  <1>1. CASE Send
    <2>1. TypeOK' /\ Safe' /\ StockInLoop'
      BY <1>1, NetStep DEF Send, history
    <2>2. JTypeOK'
      BY <1>1, <2>1, FramesAreNumbers DEF Send, history, JInv, JTypeOK
    <2> QED  BY <2>1, <2>2 DEF JInv
  <1>2. ASSUME NEW n \in inflight, Lose(n) PROVE JInv'
    <2>1. TypeOK' /\ Safe' /\ StockInLoop'
      BY <1>2, NetStep DEF Lose
    <2>2. JTypeOK'
      BY <1>2, <2>1 DEF Lose, JInv, JTypeOK
    <2> QED  BY <2>1, <2>2 DEF JInv
  <1>3. ASSUME NEW n \in inflight, Deliver(n) PROVE JInv'
    BY <1>3, DeliverStep
  <1>4. ASSUME NEW gap \in Index, Read(gap) PROVE JInv'
    BY <1>4, ReadStep
  <1>5. CASE UNCHANGED jvars
    <2>1. TypeOK' /\ Safe' /\ StockInLoop'
      BY <1>5, NetStep DEF jvars, history
    <2>2. JTypeOK'
      BY <1>5, <2>1 DEF jvars, netvars, history, JInv, JTypeOK
    <2> QED  BY <2>1, <2>2 DEF JInv
  <1> QED  BY <1>1, <1>2, <1>3, <1>4, <1>5 DEF JNext

\* While no frame was pushed outside the loop ahead of the reader, each frame in
\* the stock is in that loop, at its own index.
THEOREM PlacesInLoop == JSpec => []StockInLoop
  <1>1. JInv /\ [JNext]_jvars => JInv'
    BY JInvStep
  <1>2. JInv => StockInLoop
    BY DEF JInv
  <1> QED  BY <1>1, <1>2, JInvInit, PTL DEF JSpec

\* pop() returns frames in the order of the encoder as long as no frame was
\* pushed outside the loop ahead of the reader, whatever else the network does.
THEOREM ReturnsInEncoderOrder == JSpec => InOrder
  <1> DEFINE Step == ~stray /\ popped' # popped =>
                        /\ reader' > reader
                        /\ \A i \in Stocked : stock[i] >= reader'
  <1>1. ASSUME JInv, JNext
        PROVE  Step
    <2> SUFFICES ASSUME ~stray, popped' # popped
                 PROVE  /\ reader' > reader
                        /\ \A i \in Stocked : stock[i] >= reader'
      OBVIOUS
    <2>1. PICK gap \in Index : Read(gap)
      BY <1>1 DEF JNext, Send, Lose, Deliver, Push, vars
    <2> QED  BY <1>1, <2>1, ReadOrder
  <1>2. JInv /\ [JNext]_jvars => [Step]_jvars
    BY <1>1
  <1>3. JInv /\ [JNext]_jvars => JInv'
    BY JInvStep
  <1> QED  BY <1>2, <1>3, JInvInit, PTL DEF JSpec, InOrder
-----------------------------------------------------------------------------
\* A frame that is still in the network is one of the last Window that were sent,
\* and a frame in the stock was sent.
FlightBounded ==
    /\ reader >= -1
    /\ \A n \in inflight : n < sent /\ (sent - n <= Window \/ sent - n <= 1)
    /\ \A i \in Stocked : stock[i] < sent

\* Frame n is still to come or waits in the stock.
Coming(n) == n \in inflight \/ stock[n % MaxIndex] = n

\* Without a loss and a stray frame, every frame that was sent and is ahead of
\* the reader is still to come or waits in the stock.
NoneMissing ==
    ~stray /\ ~lost =>
        \A n \in 0 .. sent - 1 :
            /\ lastIndexPop = -1 => n \in inflight
            /\ lastIndexPop # -1 /\ n > reader => Coming(n)

\* The inductive invariant of the buffer's purpose.
GInv == JInv /\ FlightBounded /\ NoneMissing

\* The types of what GInv speaks about.
LEMMA Numbers ==
    ASSUME JInv
    PROVE  /\ sent \in Nat /\ sent <= MaxFrame /\ reader \in Int
           /\ \A n \in inflight : n \in Nat
           /\ \A i \in Stocked : i \in Index /\ stock[i] \in Nat
           /\ IsFiniteSet(Stocked)
           /\ \A n \in 0 .. sent - 1 : n \in Nat /\ n \in Frame
           /\ lastIndexPop \in Int
  <1>1. sent \in Nat /\ sent <= MaxFrame /\ reader \in Int
    BY FramesAreNumbers DEF JInv, JTypeOK
  <1>2. \A n \in inflight : n \in Nat
    BY FramesAreNumbers DEF JInv, JTypeOK
  <1>3. \A i \in Stocked : i \in Index /\ stock[i] \in Nat
    BY FramesAreNumbers DEF JInv, JTypeOK, TypeOK, Stocked
  <1>4. \A n \in 0 .. sent - 1 : n \in Nat /\ n \in Frame
    BY <1>1, FramesAreNumbers
  <1>5. lastIndexPop \in Int
    BY DEF JInv, JTypeOK, TypeOK, Index
  <1> QED  BY <1>1, <1>2, <1>3, <1>4, <1>5, StockedFinite

\* Initially nothing was sent.
LEMMA GInvInit == JInit => GInv
  <1> SUFFICES ASSUME JInit PROVE GInv
    OBVIOUS
  <1>1. FlightBounded
    BY DEF JInit, Init, FlightBounded, Stocked
  <1>2. NoneMissing
    BY DEF JInit, NoneMissing
  <1> QED  BY <1>1, <1>2, JInvInit DEF GInv

\* The encoder waits for a frame that is about to be Window frames late.
LEMMA SendGap ==
    ASSUME GInv, Send
    PROVE  FlightBounded' /\ NoneMissing'
  <1>1. /\ sent \in Nat
        /\ \A n \in inflight : n \in Nat
        /\ \A i \in Stocked : stock[i] \in Nat
    BY Numbers DEF GInv
  <1>2. /\ sent' = sent + 1 /\ inflight' = inflight \cup {sent}
        /\ \A n \in inflight : sent - n < Window
        /\ reader' = reader /\ stray' = stray /\ lost' = lost
        /\ stock' = stock /\ lastIndexPop' = lastIndexPop /\ Stocked' = Stocked
    BY DEF Send, vars, history, Stocked
  <1>3. \A n \in inflight' : n < sent' /\ (sent' - n <= Window \/ sent' - n <= 1)
    <2>1. ASSUME NEW n \in inflight PROVE n < sent' /\ sent' - n <= Window
      <3>1. n < sent /\ sent - n < Window /\ n \in Nat
        BY <1>1, <1>2 DEF GInv, FlightBounded
      <3> QED  BY <1>1, <1>2, <3>1, WindowAssumption
    <2>2. sent < sent' /\ sent' - sent <= 1
      BY <1>1, <1>2
    <2> QED  BY <1>2, <2>1, <2>2
  <1>4. \A i \in Stocked' : stock'[i] < sent'
    BY <1>1, <1>2 DEF GInv, FlightBounded
  <1>5. FlightBounded'
    BY <1>2, <1>3, <1>4 DEF GInv, FlightBounded
  <1>6. ASSUME ~stray', ~lost', NEW n \in 0 .. sent' - 1
        PROVE  /\ lastIndexPop' = -1 => n \in inflight'
               /\ lastIndexPop' # -1 /\ n > reader' => Coming(n)'
    <2>1. n = sent \/ n \in 0 .. sent - 1
      BY <1>1, <1>2
    <2>2. CASE n = sent
      BY <1>2, <2>2 DEF Coming
    <2>3. CASE n \in 0 .. sent - 1
      BY <1>2, <1>6, <2>3 DEF GInv, NoneMissing, Coming
    <2> QED  BY <2>1, <2>2, <2>3
  <1> QED  BY <1>5, <1>6 DEF NoneMissing

\* A frame that is delivered is stored at its own place, where no other frame of
\* the loop can be, or its refusal is recorded.
LEMMA DeliverGap ==
    ASSUME GInv, NEW n \in inflight, Deliver(n)
    PROVE  FlightBounded' /\ NoneMissing'
  <1>1. /\ sent \in Nat /\ reader \in Int
        /\ \A k \in inflight : k \in Nat
        /\ \A i \in Stocked : i \in Index /\ stock[i] \in Nat
        /\ \A k \in 0 .. sent - 1 : k \in Nat /\ k \in Frame
    BY Numbers DEF GInv
  <1>2. n \in Nat /\ n \in Frame /\ n < sent
    BY <1>1, FramesAreNumbers DEF GInv, JInv, JTypeOK, FlightBounded
  <1>3. TypeOK /\ Safe /\ Push(n, n) /\ JInv'
    BY DeliverStep DEF GInv, JInv, JTypeOK, Deliver
  <1> DEFINE index == (n + MaxIndex) % MaxIndex
  <1>4. index = n % MaxIndex /\ index \in Index
    BY <1>2, ModLoop, ModIndex
  <1>5. Store(index, n) \/ Overrun
    BY <1>3 DEF Push
  <1> HIDE DEF index
  <1>6. /\ sent' = sent
        /\ inflight' \subseteq inflight
        /\ \A k \in inflight : k # n => k \in inflight'
        /\ reader' = (IF lastIndexPop = -1 THEN n - 1 ELSE reader)
        /\ (~stray' => ~stray /\ InLoop(n, reader'))
        /\ (~lost' => ~lost /\ overruns' = overruns)
    BY DEF Deliver
  <1>7. lastIndexPop' # -1
    BY <1>2, <1>3, PushType
  <1>8. \A i \in Stocked' : i \in Index /\ (stock'[i] = n \/ (i \in Stocked /\ stock'[i] = stock[i]))
    <2>1. CASE Store(index, n)
      BY <1>3, <1>4, <2>1 DEF Store, Stocked, TypeOK
    <2>2. CASE Overrun
      BY <2>2 DEF Overrun, Stocked
    <2> QED  BY <1>5, <2>1, <2>2
  <1>9. FlightBounded'
    <2>1. reader' >= -1
      <3>1. reader >= -1
        BY DEF GInv, FlightBounded
      <3> QED  BY <1>1, <1>2, <1>6, <3>1
    <2>2. \A k \in inflight' : k < sent' /\ (sent' - k <= Window \/ sent' - k <= 1)
      BY <1>6 DEF GInv, FlightBounded
    <2>3. \A i \in Stocked' : stock'[i] < sent'
      BY <1>2, <1>6, <1>8 DEF GInv, FlightBounded
    <2> QED  BY <2>1, <2>2, <2>3 DEF FlightBounded
  <1>10. ASSUME ~stray', ~lost', NEW k \in 0 .. sent' - 1, k > reader'
         PROVE  Coming(k)'
    <2>1. ~stray /\ ~lost /\ InLoop(n, reader') /\ overruns' = overruns
      BY <1>6, <1>10
    <2>2. k \in 0 .. sent - 1 /\ k \in Nat /\ reader' \in Int
      BY <1>1, <1>2, <1>6, <1>10
    <2>3. Store(index, n)
      <3>1. CASE Overrun
        <4>1. overruns' = overruns + 1 /\ overruns \in Nat
          BY <1>3, <3>1 DEF Overrun, TypeOK
        <4> QED  BY <2>1, <4>1
      <3> QED  BY <1>5, <3>1
    <2>4. stock'[index] = n
      BY <1>3, <1>4, <2>3 DEF Store, TypeOK
    <2>5. CASE k = n
      BY <1>4, <2>4, <2>5 DEF Coming
    <2>6. CASE k # n /\ k \in inflight
      BY <1>6, <2>6 DEF Coming
    <2>7. CASE k # n /\ k \notin inflight
      <3>1. lastIndexPop # -1
        BY <2>1, <2>2, <2>7 DEF GInv, NoneMissing
      <3>2. reader' = reader /\ k > reader
        BY <1>6, <1>10, <3>1
      <3>3. stock[k % MaxIndex] = k
        BY <2>1, <2>2, <2>7, <3>1, <3>2 DEF GInv, NoneMissing, Coming
      <3>4. k % MaxIndex \in Index /\ k % MaxIndex \in Stocked
        BY <1>1, <2>2, <3>3, ModIndex, FrameAssumption DEF Stocked
      <3>5. InLoop(k, reader)
        BY <2>1, <3>3, <3>4 DEF GInv, JInv, StockInLoop
      <3>6. k % MaxIndex # index
        <4>1. SUFFICES ASSUME k % MaxIndex = n % MaxIndex PROVE FALSE
          BY <1>4
        <4> DEFINE d == Distance(reader % MaxIndex, n % MaxIndex)
        <4>2. k = reader + 1 + d
          BY <1>1, <2>2, <3>5, <4>1, LoopPosition
        <4>3. n = reader + 1 + d
          BY <1>1, <1>2, <2>1, <3>2, LoopPosition
        <4> QED  BY <2>7, <4>2, <4>3
      <3>7. stock'[k % MaxIndex] = stock[k % MaxIndex]
        BY <1>3, <1>4, <2>3, <3>4, <3>6 DEF Store, TypeOK
      <3> QED  BY <3>3, <3>7 DEF Coming
    <2> QED  BY <2>5, <2>6, <2>7
  <1>11. NoneMissing'
    BY <1>7, <1>10 DEF NoneMissing
  <1> QED  BY <1>9, <1>11

\* Reading takes nothing but the frame the reader moves to.
LEMMA ReadGap ==
    ASSUME GInv, NEW gap \in Index, Read(gap)
    PROVE  FlightBounded' /\ NoneMissing'
  <1>1. /\ sent \in Nat /\ reader \in Int
        /\ \A i \in Stocked : i \in Index /\ stock[i] \in Nat
        /\ \A k \in 0 .. sent - 1 : k \in Nat /\ k \in Frame
    BY Numbers DEF GInv
  <1>2. JInv /\ TypeOK /\ PopFrame(gap) /\ reader' = stock[Ahead(gap)]
    BY DEF GInv, JInv, JTypeOK, Read
  <1>3. /\ Ahead(gap) \in Stocked
        /\ Stocked' = Stocked \ {Ahead(gap)}
    BY <1>2, PopStocked
  <1>4. /\ sent' = sent /\ inflight' = inflight /\ stray' = stray /\ lost' = lost
        /\ lastIndexPop' = Ahead(gap)
        /\ stock' = [stock EXCEPT ![Ahead(gap)] = None]
    BY <1>2 DEF Read, netvars, PopFrame
  <1>5. \A i \in Index : i # Ahead(gap) => stock'[i] = stock[i]
    BY <1>2, <1>4 DEF TypeOK
  <1>6. FlightBounded'
    <2>1. reader' \in Nat /\ reader' >= -1
      BY <1>1, <1>2, <1>3
    <2>2. \A i \in Stocked' : stock'[i] < sent'
      BY <1>1, <1>3, <1>4, <1>5 DEF GInv, FlightBounded
    <2> QED  BY <1>4, <2>1, <2>2 DEF GInv, FlightBounded
  <1>7. ASSUME ~stray', ~lost', NEW k \in 0 .. sent' - 1, k > reader'
        PROVE  Coming(k)'
    <2>1. ~stray /\ ~lost /\ k \in 0 .. sent - 1 /\ k \in Nat
      BY <1>1, <1>4, <1>7
    <2>2. reader' > reader /\ reader' \in Int
      BY <1>2, <2>1, ReadOrder
    <2>3. k > reader
      BY <1>1, <1>7, <2>1, <2>2
    <2>4. lastIndexPop # -1
      BY <1>2, <1>3 DEF JInv, Safe, StockBounded
    <2>5. k \in inflight \/ stock[k % MaxIndex] = k
      BY <2>1, <2>3, <2>4 DEF GInv, NoneMissing, Coming
    <2>6. k % MaxIndex \in Index
      BY <2>1, ModIndex
    <2>7. stock[k % MaxIndex] = k => k % MaxIndex # Ahead(gap)
      BY <1>2, <1>7, <2>1, <2>2
    <2> QED  BY <1>4, <1>5, <2>5, <2>6, <2>7 DEF Coming
  <1>8. lastIndexPop' # -1
    BY <1>1, <1>3, <1>4, MaxIndexAssumption DEF Index
  <1> QED  BY <1>6, <1>7, <1>8 DEF NoneMissing

\* Every step keeps the invariant.
LEMMA GInvStep ==
    ASSUME GInv, [JNext]_jvars
    PROVE  GInv'
  <1> SUFFICES FlightBounded' /\ NoneMissing'
    BY JInvStep DEF GInv
  <1>2. CASE Send
    BY <1>2, SendGap
  <1>3. ASSUME NEW n \in inflight, Lose(n) PROVE FlightBounded' /\ NoneMissing'
    <2>1. lost' /\ NoneMissing'
      BY <1>3 DEF Lose, NoneMissing
    <2>2. /\ sent' = sent /\ inflight' \subseteq inflight /\ reader' = reader
          /\ stock' = stock /\ Stocked' = Stocked
      BY <1>3 DEF Lose, vars, Stocked
    <2> QED  BY <2>1, <2>2 DEF GInv, FlightBounded
  <1>4. ASSUME NEW n \in inflight, Deliver(n) PROVE FlightBounded' /\ NoneMissing'
    BY <1>4, DeliverGap
  <1>5. ASSUME NEW gap \in Index, Read(gap) PROVE FlightBounded' /\ NoneMissing'
    BY <1>5, ReadGap
  <1>6. CASE UNCHANGED jvars
    BY <1>6 DEF jvars, vars, netvars, history, GInv, FlightBounded, NoneMissing,
                Stocked, Coming
  <1> QED  BY <1>2, <1>3, <1>4, <1>5, <1>6 DEF JNext

\* pop() passes over a missing frame only when the stock is full; but then the
\* frame is still in the network, and the frames sent since, which are fewer
\* than Window, cannot fill the stock.
LEMMA NoGapRead ==
    ASSUME GInv, NEW gap \in Index, Read(gap), ~stray, ~lost, Window <= Capacity
    PROVE  reader' = reader + 1
  <1>1. /\ sent \in Nat /\ reader \in Int
        /\ \A i \in Stocked : i \in Index /\ stock[i] \in Nat
        /\ \A k \in 0 .. sent - 1 : k \in Nat /\ k \in Frame
        /\ IsFiniteSet(Stocked)
    BY Numbers DEF GInv
  <1>2. JInv /\ TypeOK /\ PopFrame(gap) /\ Found(gap) /\ reader' = stock[Ahead(gap)]
    BY DEF GInv, JInv, JTypeOK, Read, PopFrame
  <1>3. reader' = reader + 1 + gap /\ gap \in Nat
    BY <1>2, ReadOrder DEF Index
  <1>4. SUFFICES ASSUME gap > 0 PROVE FALSE
    BY <1>1, <1>3
  <1>5. Ahead(gap) \in Stocked
    BY <1>2, PopStocked
  <1>6. Full /\ stock[Ahead(0)] = None
    BY <1>2, <1>3, <1>4 DEF Found
  <1> DEFINE m == reader + 1
  <1>7. m \in Nat /\ m < reader' /\ reader' < sent
    <2>1. reader >= -1 /\ stock[Ahead(gap)] < sent
      BY <1>5 DEF GInv, FlightBounded
    <2> QED  BY <1>1, <1>2, <1>3, <1>4, <2>1
  <1>8. m \in 0 .. sent - 1 /\ m > reader /\ m \in Frame
    BY <1>1, <1>3, <1>7
  <1>9. lastIndexPop # -1 /\ lastIndexPop \in Index /\ reader % MaxIndex = lastIndexPop
    BY <1>2, <1>5 DEF JInv, Safe, StockBounded, StockInLoop, TypeOK
  <1>10. m % MaxIndex = Ahead(0)
    <2>1. ((reader % MaxIndex) + 1) % MaxIndex = (reader + 1) % MaxIndex
      BY <1>1, ModAdd
    <2>2. lastIndexPop + 1 + 0 = lastIndexPop + 1
      BY <1>9, MaxIndexAssumption DEF Index
    <2> QED  BY <1>9, <2>1, <2>2 DEF Ahead
  <1> HIDE DEF m
  <1>11. m \in inflight
    <2>1. Coming(m)
      BY <1>8, <1>9 DEF GInv, NoneMissing
    <2> QED  BY <1>6, <1>8, <1>10, <2>1, FrameAssumption DEF Coming
  <1>12. sent - m <= Capacity
    <2>1. sent - m <= Window \/ sent - m <= 1
      BY <1>11 DEF GInv, FlightBounded
    <2>2. reader' \in Nat
      BY <1>1, <1>2, <1>5
    <2> QED  BY <1>1, <1>7, <2>1, <2>2, WindowAssumption, CapacityAssumption
  <1> DEFINE Later == m + 1 .. sent - 1
             place == [i \in Stocked |-> stock[i]]
  <1>13. ASSUME NEW i \in Stocked PROVE stock[i] \in Later /\ stock[i] % MaxIndex = i
    <2>1. InLoop(stock[i], reader) /\ stock[i] % MaxIndex = i /\ stock[i] < sent
      BY DEF GInv, JInv, StockInLoop, FlightBounded
    <2>2. stock[i] # m
      BY <1>6, <1>8, <1>10, <2>1, FrameAssumption
    <2>3. stock[i] > reader /\ stock[i] \in Nat
      BY <1>1, <2>1 DEF InLoop
    <2> QED  BY <1>1, <1>7, <2>1, <2>2, <2>3 DEF m
  <1>14. IsFiniteSet(Later) /\ Cardinality(Later) < sent - m
    <2>1. m + 1 \in Int /\ sent - 1 \in Int /\ sent - m > 0
      BY <1>1, <1>7, <1>8
    <2>2. Cardinality(Later) = IF m + 1 > sent - 1 THEN 0 ELSE (sent - 1) - (m + 1) + 1
      BY <2>1, FS_Interval
    <2>3. Cardinality(Later) < sent - m
      <3> HIDE DEF Later
      <3> QED  BY <1>1, <1>7, <2>1, <2>2
    <2> QED  BY <2>1, <2>3, FS_Interval
  <1>15. Cardinality(Stocked) <= Cardinality(Later)
    <2> HIDE DEF Later
    <2>1. place \in Injection(Stocked, Later)
      BY <1>13 DEF Injection, IsInjective
    <2> QED  BY <1>14, <2>1, FS_Injection
  <1>16. Cardinality(Stocked) \in Nat /\ Cardinality(Later) \in Nat
    BY <1>1, <1>14, FS_CardinalityType
  <1>17. sent - m \in Int /\ Cardinality(Stocked) >= Capacity
    BY <1>1, <1>6, <1>7 DEF Full
  <1> HIDE DEF Later
  <1> QED  BY <1>12, <1>14, <1>15, <1>16, <1>17, CapacityAssumption

\* What the buffer is for: if the network delays no frame by Capacity frames or
\* more, then without a loss, an overrun and a frame behind the reader, pop()
\* leaves out no frame, for every index loop, capacity and window.
THEOREM LeavesOutNoFrame == JSpec => NoGapWithinWindow
  <1> DEFINE Step == ~stray /\ ~lost /\ Window <= Capacity /\ popped' # popped =>
                        reader' = reader + 1
  <1>1. ASSUME GInv, JNext
        PROVE  Step
    <2> SUFFICES ASSUME ~stray, ~lost, Window <= Capacity, popped' # popped
                 PROVE  reader' = reader + 1
      OBVIOUS
    <2>1. PICK gap \in Index : Read(gap)
      BY <1>1 DEF JNext, Send, Lose, Deliver, Push, vars
    <2> QED  BY <1>1, <2>1, NoGapRead
  <1>2. GInv /\ [JNext]_jvars => [Step]_jvars
    BY <1>1
  <1>3. GInv /\ [JNext]_jvars => GInv'
    BY GInvStep
  <1> QED  BY <1>2, <1>3, GInvInit, PTL DEF JSpec, NoGapWithinWindow
=============================================================================
