---------------------------- MODULE AVTInputProofs ----------------------------
(***************************************************************************)
(* Proofs about AVTInput, for every index loop, capacity, delay, number of  *)
(* frames, faults and PAD messages.                                         *)
(***************************************************************************)
EXTENDS AVTInput, OrderedQueueProofs, SequenceTheorems

\* Every frame is kept under the remainder of its number: in the stock, and in
\* the part that pop() has returned.
Placed ==
    /\ \A i \in Index : stock[i] # None => stock[i].n % MaxIndex = i
    /\ pc = "part" => part.frame.n % MaxIndex = part.index /\ nbFrames < 5

\* While the input is aligned, there is a frame it was aligned by.
HasOrigin == frameAligned => origin \in Frame

AInv ==
    /\ ATypeOK /\ Placed /\ HasOrigin
    /\ AssemblyAligned /\ SuperframesAligned
    /\ ContiguousUnlessWarned /\ TimestampTracks
-----------------------------------------------------------------------------
\* The phase of a frame is that of its index, as the loop holds whole superframes.
LEMMA PhaseOfIndex ==
    ASSUME NEW n \in Nat
    PROVE  (n % MaxIndex) % 5 = n % 5
  <1> DEFINE r == n % MaxIndex
             q == n \div MaxIndex
             m == MaxIndex \div 5
  <1>1. MaxIndex = 5 * m /\ m \in Int
    BY MaxIndexAssumption, SuperframeAssumption
  <1>2. n = MaxIndex * q + r /\ q \in Int /\ r \in Int
    BY MaxIndexAssumption
  <1> HIDE DEF r, q, m
  <1>3. n = 5 * (m * q) + r /\ m * q \in Int
    BY <1>1, <1>2
  <1> DEFINE t == m * q
  <1>4. n = 5 * t + r /\ t \in Int
    BY <1>3
  <1> HIDE DEF t
  <1>5. n % 5 = r % 5
    BY <1>2, <1>4
  <1> QED  BY <1>5 DEF r

\* The index of the next frame follows that of the frame.
LEMMA NextIndex ==
    ASSUME NEW n \in Int, NEW i \in Index, n % MaxIndex = i
    PROVE  (n + 1) % MaxIndex = (i + 1) % MaxIndex
  BY ModAdd

\* What main knows of the frames.
LEMMA FrameFields ==
    ASSUME NEW f \in Frame
    PROVE  f.n \in Nat /\ f.ts \in Nat /\ f # None
  BY FrameDef, FrameAssumption, NetAssumption

\* The members of AVTInput that the environment, the PAD frames and the reading of
\* the socket leave alone.
LEMMA UnchangedAssembly ==
    ASSUME Placed, HasOrigin, AssemblyAligned, SuperframesAligned,
           ContiguousUnlessWarned, TimestampTracks,
           UNCHANGED <<assembly, out>>
    PROVE  /\ HasOrigin' /\ AssemblyAligned' /\ SuperframesAligned'
           /\ ContiguousUnlessWarned' /\ TimestampTracks'
  BY DEF assembly, HasOrigin, AssemblyAligned, SuperframesAligned,
         ContiguousUnlessWarned, TimestampTracks
-----------------------------------------------------------------------------
\* The types of the queue and of the part, which the assembly does not disturb.
QueueType ==
    /\ TypeOK
    /\ pc \in {"fill", "drain", "assemble", "part", "timedout"}
    /\ pc = "part" => part \in Part
    /\ pc # "part" => part = None

\* The types of the assembly.
AssemblyType ==
    /\ frameAligned \in BOOLEAN
    /\ nbFrames \in 0 .. 5
    /\ currentFrame \in Seq(Nat)
    /\ expectedFrameIndex \in Index
    /\ frameZeroTimestamp \in Nat
    /\ out # None => out \in [parts : Seq(Nat), ts : Nat]
    /\ warned \in BOOLEAN
    /\ origin \in Frame \cup {None}

\* The types of the encoder and the network.
NetType ==
    /\ sent \in 0 .. MaxFrame
    /\ inflight \subseteq 0 .. MaxFrame - 1
    /\ faults \in Nat

\* The types of the PAD frames and messages.
PadType ==
    /\ padFrameQueue \in Seq(Nat)
    /\ padReplies \in Seq([id : Nat, kind : {"pad", "empty", "wrong"}])
    /\ padMade \in Nat
    /\ padMessages \in Seq({"request", "other"})
    /\ padAsked \in Nat
    /\ padSent \in Seq(Nat)

\* ATypeOK, taken apart.
LEMMA TypeParts == ATypeOK <=> QueueType /\ AssemblyType /\ NetType /\ PadType
  BY Zenon DEF ATypeOK, QueueType, AssemblyType, NetType, PadType

\* The steps that leave the queue, the part and the place in main alone.
LEMMA QueueTypeUnchanged ==
    ASSUME QueueType, UNCHANGED queueVars, UNCHANGED part, pc' = pc \/ (pc' # "part" /\ pc # "part"),
           pc' \in {"fill", "drain", "assemble", "part", "timedout"}
    PROVE  QueueType'
  <1>1. TypeOK'
    BY DEF QueueType, TypeOK, queueVars, Index
  <1>2. pc' = "part" <=> pc = "part"
    OBVIOUS
  <1> QED  BY <1>1, <1>2 DEF QueueType, Part, Index

\* Each of the environment's and main's steps keeps the types of the queue.
LEMMA QueueTypeStep ==
    ASSUME ATypeOK, [ANext]_avars
    PROVE  QueueType'
  <1>0. /\ QueueType /\ NetType
        /\ pc \in {"fill", "drain", "assemble", "part", "timedout"}
    BY TypeParts DEF QueueType
  <1>1. CASE Environment
    <2>1. UNCHANGED queueVars /\ UNCHANGED part /\ pc' = pc
      BY <1>1 DEF Environment, Send, Lose, SendMessage, PadEncReply
    <2> QED  BY <1>0, <2>1, QueueTypeUnchanged
  <1>2. CASE FillPAD \/ FillDone \/ DrainDone \/ CheckMessage
    <2>1. /\ UNCHANGED queueVars /\ UNCHANGED part
          /\ pc' = pc \/ (pc' \in {"drain", "assemble"} /\ pc \in {"fill", "drain"})
      <3>1. CASE FillPAD
        BY <3>1 DEF FillPAD
      <3>2. CASE FillDone \/ DrainDone
        BY <3>2 DEF FillDone, DrainDone
      <3>3. CASE CheckMessage
        BY <3>3 DEF CheckMessage
      <3> QED  BY <1>2, <3>1, <3>2, <3>3
    <2> QED  BY <1>0, <2>1, QueueTypeUnchanged
  <1>3. ASSUME NEW n \in inflight, ReadFrame(n)
        PROVE  QueueType'
    <2>1. n \in 0 .. MaxFrame - 1 /\ sent \in 0 .. MaxFrame
      BY <1>0 DEF NetType
    <2>2. [n |-> n, ts |-> sent] \in Frame
      BY <2>1, FrameDef
    <2>3. n % MaxIndex \in Int
      BY <2>1, ModIndex, NetAssumption DEF Index
    <2>4. TypeOK'
      BY <1>0, <1>3, <2>2, <2>3, PushType DEF ReadFrame, QueueType
    <2> QED  BY <1>0, <1>3, <2>4 DEF ReadFrame, QueueType
  <1>4. ASSUME NEW n \in inflight, ReadJunk(n)
        PROVE  QueueType'
    BY <1>0, <1>4, QueueTypeUnchanged DEF ReadJunk, QueueType
  <1>5. ASSUME NEW gap \in Index, PopPart(gap)
        PROVE  QueueType'
    <2>1. TypeOK'
      BY <1>0, <1>5, PopType DEF PopPart, QueueType
    <2>2. Ahead(gap) \in Index
      BY <1>0, AheadIndex DEF QueueType
    <2>3. stock[Ahead(gap)] \in Frame
      BY <1>0, <1>5, <2>2 DEF PopPart, PopFrame, Found, QueueType, TypeOK
    <2>4. part' \in Part /\ pc' = "part"
      BY <1>5, <2>2, <2>3 DEF PopPart, Part
    <2> QED  BY <2>1, <2>4 DEF QueueType, Part, Index
  <1>6. CASE TakePart
    <2>1. TypeOK'
      BY <1>0, <1>6 DEF TakePart, QueueType, TypeOK, queueVars, Index
    <2> QED  BY <1>6, <2>1 DEF TakePart, QueueType
  <1>7. CASE Return
    BY <1>0, <1>7, QueueTypeUnchanged DEF Return, AssembleDone
  <1>8. CASE ReturnNothing
    <2>1. /\ UNCHANGED queueVars /\ UNCHANGED part
          /\ pc' \in {"fill", "timedout"} /\ pc = "assemble"
      BY <1>8 DEF ReturnNothing, AssembleDone
    <2> QED  BY <1>0, <2>1, QueueTypeUnchanged
  <1>9. CASE UNCHANGED avars
    BY <1>0, <1>9, QueueTypeUnchanged DEF avars
  <1> QED  BY <1>1, <1>2, <1>3, <1>4, <1>5, <1>6, <1>7, <1>8, <1>9 DEF ANext, Main

\* Each step keeps the types of the encoder and the network.
LEMMA NetTypeStep ==
    ASSUME ATypeOK, [ANext]_avars
    PROVE  NetType'
  <1>0. NetType
    BY TypeParts
  <1> USE NetAssumption DEF NetType, netVars
  <1>1. CASE Send
    BY <1>0, <1>1 DEF Send
  <1>2. ASSUME NEW n \in inflight, Lose(n) \/ ReadJunk(n) \/ ReadFrame(n)
        PROVE  NetType'
    <2>1. /\ inflight' \in {inflight, inflight \ {n}} /\ faults' \in {faults, faults + 1}
          /\ sent' = sent
      BY <1>2 DEF Lose, ReadJunk, ReadFrame
    <2> QED  BY <1>0, <2>1
  <1>3. CASE (\E m \in {"request", "other"} : SendMessage(m))
                \/ \E kind \in {"pad", "empty", "wrong"} : PadEncReply(kind)
    BY <1>0, <1>3 DEF SendMessage, PadEncReply
  <1>4. CASE FillPAD \/ FillDone \/ CheckMessage \/ DrainDone
    BY <1>0, <1>4 DEF FillPAD, FillDone, CheckMessage, DrainDone
  <1>5. CASE (\E gap \in Index : PopPart(gap)) \/ TakePart
    BY <1>0, <1>5 DEF PopPart, TakePart
  <1>6. CASE Return \/ ReturnNothing
    BY <1>0, <1>6 DEF Return, ReturnNothing
  <1>7. CASE UNCHANGED avars
    BY <1>0, <1>7 DEF avars
  <1> QED  BY <1>1, <1>2, <1>3, <1>4, <1>5, <1>6, <1>7 DEF ANext, Environment, Main

\* Every step leaves the assembly alone, or takes a part, or returns a superframe.
LEMMA AssemblySteps ==
    ASSUME [ANext]_avars
    PROVE  TakePart \/ Return \/ UNCHANGED <<assembly, out>>
  <1>1. CASE Environment
    BY <1>1 DEF Environment, Send, Lose, SendMessage, PadEncReply
  <1>2. CASE FillPAD \/ FillDone \/ CheckMessage \/ DrainDone
    BY <1>2 DEF FillPAD, FillDone, CheckMessage, DrainDone
  <1>3. CASE \E n \in inflight : ReadFrame(n) \/ ReadJunk(n)
    BY <1>3 DEF ReadFrame, ReadJunk
  <1>4. CASE (\E gap \in Index : PopPart(gap)) \/ ReturnNothing
    BY <1>4 DEF PopPart, ReturnNothing
  <1>5. CASE UNCHANGED avars
    BY <1>5 DEF avars
  <1> QED  BY <1>1, <1>2, <1>3, <1>4, <1>5 DEF ANext, Main

\* Each step keeps the frames in their places.
LEMMA PlacedStep ==
    ASSUME ATypeOK, Placed, [ANext]_avars
    PROVE  Placed'
  <1>0. TypeOK /\ NetType
    BY TypeParts DEF QueueType
  <1>1. ASSUME UNCHANGED stock, \/ pc' # "part"
                                \/ UNCHANGED <<pc, part, nbFrames>>
        PROVE  Placed'
    BY <1>1 DEF Placed
  <1>2. CASE Environment
    BY <1>1, <1>2 DEF Environment, Send, Lose, SendMessage, PadEncReply, queueVars, assembly
  <1>3. CASE FillPAD \/ FillDone \/ CheckMessage \/ DrainDone
    <2>1. UNCHANGED stock /\ (pc' # "part" \/ UNCHANGED <<pc, part, nbFrames>>)
      BY <1>3 DEF FillPAD, FillDone, CheckMessage, DrainDone, queueVars, assembly
    <2> QED  BY <1>1, <2>1
  <1>4. ASSUME NEW n \in inflight, ReadFrame(n)
        PROVE  Placed'
    <2> DEFINE i == n % MaxIndex
               f == [n |-> n, ts |-> sent]
               index == (i + MaxIndex) % MaxIndex
    <2>1. n \in Int /\ i \in Index /\ i \in Int
      BY <1>0, ModIndex, NetAssumption DEF NetType, Index
    <2>2. index = i
      <3>1. (i + MaxIndex) % MaxIndex = i % MaxIndex
        BY <2>1, ModLoop
      <3>2. i % MaxIndex = i
        BY <2>1, MaxIndexAssumption DEF Index
      <3> QED  BY <3>1, <3>2
    <2>3. f.n % MaxIndex = i
      OBVIOUS
    <2>4. Store(index, f) \/ Overrun
      BY <1>4 DEF ReadFrame, Push
    <2>5. pc' = "drain"
      BY <1>4 DEF ReadFrame
    <2> HIDE DEF i, f, index
    <2>6. CASE Store(index, f)
      <3>1. stock' = [stock EXCEPT ![i] = f]
        BY <2>2, <2>6 DEF Store
      <3>2. ASSUME NEW j \in Index, stock'[j] # None
            PROVE  stock'[j].n % MaxIndex = j
        BY <1>0, <2>1, <2>3, <3>1, <3>2 DEF Placed, TypeOK
      <3> QED  BY <2>5, <3>2 DEF Placed
    <2>7. CASE Overrun
      BY <1>1, <2>5, <2>7 DEF Overrun
    <2> QED  BY <2>4, <2>6, <2>7
  <1>5. ASSUME NEW n \in inflight, ReadJunk(n)
        PROVE  Placed'
    BY <1>1, <1>5 DEF ReadJunk, queueVars
  <1>6. ASSUME NEW gap \in Index, PopPart(gap)
        PROVE  Placed'
    <2> DEFINE a == Ahead(gap)
    <2>1. a \in Index /\ stock[a] # None
      BY <1>0, <1>6, AheadIndex DEF PopPart, PopFrame, Found
    <2>2. part' = [index |-> a, frame |-> stock[a]] /\ nbFrames' = nbFrames /\ nbFrames < 5
      BY <1>6 DEF PopPart, assembly
    <2>3. stock' = [stock EXCEPT ![a] = None]
      BY <1>6 DEF PopPart, PopFrame
    <2> HIDE DEF a
    <2>4. stock[a].n % MaxIndex = a
      BY <2>1 DEF Placed
    <2>5. ASSUME NEW j \in Index, stock'[j] # None
          PROVE  stock'[j].n % MaxIndex = j
      <3>1. stock'[j] = stock[j]
        BY <1>0, <2>3, <2>5 DEF TypeOK
      <3> QED  BY <2>5, <3>1 DEF Placed
    <2>6. part'.frame.n % MaxIndex = part'.index /\ nbFrames' < 5
      BY <2>2, <2>4
    <2> QED  BY <2>5, <2>6 DEF Placed
  <1>7. CASE TakePart
    BY <1>1, <1>7 DEF TakePart, queueVars
  <1>8. CASE Return
    BY <1>1, <1>8 DEF Return, queueVars
  <1>9. CASE ReturnNothing
    <2>1. UNCHANGED stock /\ pc' # "part"
      BY <1>9 DEF ReturnNothing, queueVars
    <2> QED  BY <1>1, <2>1
  <1>10. CASE UNCHANGED avars
    BY <1>1, <1>10 DEF avars, queueVars, assembly
  <1> QED  BY <1>2, <1>3, <1>4, <1>5, <1>6, <1>7, <1>8, <1>9, <1>10 DEF ANext, Main
-----------------------------------------------------------------------------
(* The part that getNextFrame() has popped. *)

\* What is known of it.
LEMMA PartFacts ==
    ASSUME ATypeOK, Placed, pc = "part"
    PROVE  /\ part.index \in Index /\ part.index \in Nat
           /\ part.frame \in Frame
           /\ part.frame.n \in Nat /\ part.frame.ts \in Nat
           /\ part.frame.n % MaxIndex = part.index
           /\ part.frame.n % 5 = part.index % 5
           /\ nbFrames \in 0 .. 4
  <1>1. part \in Part /\ nbFrames \in 0 .. 4
    BY DEF ATypeOK, Placed
  <1>2. /\ part.index \in Index /\ part.index \in Nat
        /\ part.frame \in Frame
    BY <1>1 DEF Part, Index
  <1>3. part.frame.n \in Nat /\ part.frame.ts \in Nat
    BY <1>2, FrameFields
  <1>4. part.frame.n % MaxIndex = part.index
    BY DEF Placed
  <1> QED  BY <1>1, <1>2, <1>3, <1>4, PhaseOfIndex

\* A part that is accepted joins the others in the position of its phase.
LEMMA AcceptFacts ==
    ASSUME ATypeOK, Placed, AssemblyAligned, pc = "part", Accept,
           part.index % 5 = nbFrames
    PROVE  /\ currentFrame' \in Seq(Nat)
           /\ nbFrames' = nbFrames + 1 /\ nbFrames' \in 0 .. 5
           /\ Len(currentFrame') = nbFrames + 1
           /\ \A k \in 1 .. nbFrames : currentFrame'[k] = currentFrame[k]
           /\ currentFrame'[nbFrames + 1] = part.frame.n
           /\ \A k \in 1 .. nbFrames' : currentFrame'[k] % 5 = k - 1
           /\ expectedFrameIndex' \in Index
           /\ (part.frame.n + 1) % MaxIndex = expectedFrameIndex'
  <1>1. currentFrame \in Seq(Nat) /\ Len(currentFrame) = nbFrames /\ nbFrames \in 0 .. 4
    BY PartFacts DEF ATypeOK, AssemblyAligned
  <1>2. /\ currentFrame' = Append(currentFrame, part.frame.n)
        /\ nbFrames' = nbFrames + 1
        /\ expectedFrameIndex' = (part.index + 1) % MaxIndex
    BY DEF Accept
  <1>3. /\ currentFrame' \in Seq(Nat)
        /\ Len(currentFrame') = nbFrames + 1
        /\ \A k \in 1 .. nbFrames : currentFrame'[k] = currentFrame[k]
        /\ currentFrame'[nbFrames + 1] = part.frame.n
    BY <1>1, <1>2, AppendProperties, PartFacts
  <1>4. ASSUME NEW k \in 1 .. nbFrames'
        PROVE  currentFrame'[k] % 5 = k - 1
    <2>1. CASE k = nbFrames + 1
      BY <1>1, <1>3, <2>1, PartFacts
    <2>2. CASE k \in 1 .. nbFrames
      BY <1>3, <2>2 DEF AssemblyAligned
    <2> QED  BY <1>1, <1>2, <2>1, <2>2
  <1>5. expectedFrameIndex' \in Index
    BY <1>2, ModIndex, PartFacts
  <1>6. (part.frame.n + 1) % MaxIndex = expectedFrameIndex'
    BY <1>2, NextIndex, PartFacts
  <1> QED  BY <1>1, <1>2, <1>3, <1>4, <1>5, <1>6

\* The part that aligns the input starts a superframe, and its time.
LEMMA AlignStep ==
    ASSUME AInv, pc = "part", Align, out' = out
    PROVE  /\ AssemblyType' /\ HasOrigin' /\ AssemblyAligned' /\ SuperframesAligned'
           /\ ContiguousUnlessWarned' /\ TimestampTracks'
  <1>0. ATypeOK /\ Placed /\ AssemblyAligned
    BY DEF AInv
  <1>1. nbFrames = 0 /\ part.index % 5 = 0 /\ Accept
    BY <1>0 DEF Align, AssemblyAligned, ATypeOK
  <1>2. /\ frameAligned' = TRUE /\ frameZeroTimestamp' = part.frame.ts
        /\ warned' = FALSE /\ origin' = part.frame
    BY DEF Align
  <1>3. /\ currentFrame' \in Seq(Nat)
        /\ nbFrames' = 1 /\ nbFrames' \in 0 .. 5
        /\ Len(currentFrame') = 1
        /\ currentFrame'[1] = part.frame.n
        /\ \A k \in 1 .. nbFrames' : currentFrame'[k] % 5 = k - 1
        /\ expectedFrameIndex' \in Index
        /\ (part.frame.n + 1) % MaxIndex = expectedFrameIndex'
    BY <1>0, <1>1, AcceptFacts
  <1>4. part.frame \in Frame /\ part.frame.n \in Nat /\ part.frame.ts \in Nat
    BY <1>0, PartFacts
  <1>5. AssemblyType'
    BY <1>0, <1>2, <1>3, <1>4, TypeParts DEF AssemblyType
  <1>6. HasOrigin' /\ AssemblyAligned'
    BY <1>2, <1>3, <1>4 DEF HasOrigin, AssemblyAligned
  <1>7. SuperframesAligned'
    BY DEF AInv, SuperframesAligned
  <1>8. ContiguousUnlessWarned'
    <2>1. ASSUME NEW k \in 1 .. nbFrames'
          PROVE  (currentFrame'[k] + nbFrames' - k + 1) % MaxIndex = expectedFrameIndex'
      <3>1. k = 1 /\ part.frame.n + 1 - 1 + 1 = part.frame.n + 1
        BY <1>3, <1>4
      <3> QED  BY <1>3, <3>1
    <2> QED  BY <2>1 DEF ContiguousUnlessWarned
  <1>9. TimestampTracks'
    <2>1. part.frame.n + part.frame.ts - part.frame.ts + 1 = part.frame.n + 1
      BY <1>4
    <2> QED  BY <1>2, <1>3, <2>1 DEF TimestampTracks
  <1> QED  BY <1>5, <1>6, <1>7, <1>8, <1>9

\* A part of the right phase continues the superframe; if it is the expected one,
\* it follows the parts before it, and the time follows it.
LEMMA ContinueStep ==
    ASSUME AInv, pc = "part", Continue, out' = out
    PROVE  /\ AssemblyType' /\ HasOrigin' /\ AssemblyAligned' /\ SuperframesAligned'
           /\ ContiguousUnlessWarned' /\ TimestampTracks'
  <1>0. ATypeOK /\ Placed /\ AssemblyAligned /\ AssemblyType
    BY TypeParts DEF AInv
  <1>1. frameAligned /\ part.index % 5 = nbFrames /\ Accept
    BY DEF Continue
  <1>2. /\ frameZeroTimestamp' = frameZeroTimestamp + 1
        /\ warned' = (warned \/ expectedFrameIndex # part.index)
        /\ frameAligned' = frameAligned /\ origin' = origin
    BY DEF Continue
  <1>3. /\ currentFrame' \in Seq(Nat)
        /\ nbFrames' = nbFrames + 1 /\ nbFrames' \in 0 .. 5
        /\ Len(currentFrame') = nbFrames + 1
        /\ \A k \in 1 .. nbFrames : currentFrame'[k] = currentFrame[k]
        /\ currentFrame'[nbFrames + 1] = part.frame.n
        /\ \A k \in 1 .. nbFrames' : currentFrame'[k] % 5 = k - 1
        /\ expectedFrameIndex' \in Index
        /\ (part.frame.n + 1) % MaxIndex = expectedFrameIndex'
    BY <1>0, <1>1, AcceptFacts
  <1>4. /\ part.frame.n \in Nat /\ part.index \in Index
        /\ part.frame.n % MaxIndex = part.index
        /\ nbFrames \in 0 .. 4
    BY <1>0, PartFacts
  <1>5. AssemblyType'
    <2>1. frameZeroTimestamp' \in Nat /\ warned' \in BOOLEAN
      BY <1>0, <1>2 DEF AssemblyType
    <2> QED  BY <1>0, <1>2, <1>3, <2>1 DEF AssemblyType
  <1>6. HasOrigin' /\ AssemblyAligned'
    BY <1>1, <1>2, <1>3 DEF HasOrigin, AssemblyAligned, AInv
  <1>7. SuperframesAligned'
    BY DEF AInv, SuperframesAligned
  <1>8. ASSUME frameAligned', ~warned'
        PROVE  ~warned /\ expectedFrameIndex = part.index
    BY <1>2, <1>8
  <1>9. (part.index + 1) % MaxIndex = expectedFrameIndex'
    BY <1>3, <1>4, NextIndex
  <1>10. ContiguousUnlessWarned'
    <2> SUFFICES ASSUME frameAligned', ~warned', NEW k \in 1 .. nbFrames'
                 PROVE  (currentFrame'[k] + nbFrames' - k + 1) % MaxIndex = expectedFrameIndex'
      BY DEF ContiguousUnlessWarned
    <2>1. CASE k = nbFrames + 1
      <3>1. part.frame.n + (nbFrames + 1) - (nbFrames + 1) + 1 = part.frame.n + 1
        BY <1>4
      <3> QED  BY <1>3, <2>1, <3>1
    <2>2. CASE k \in 1 .. nbFrames
      <3> DEFINE m == currentFrame[k] + nbFrames - k + 1
      <3>1. currentFrame[k] \in Nat
        BY <1>0, <2>2, ElementOfSeq DEF AssemblyType, AssemblyAligned
      <3>2. m \in Int /\ currentFrame'[k] + nbFrames' - k + 1 = m + 1
        <4>1. currentFrame'[k] = currentFrame[k] /\ nbFrames' = nbFrames + 1
          BY <1>3, <2>2
        <4> QED  BY <1>4, <3>1, <4>1
      <3>3. m % MaxIndex = part.index
        BY <1>1, <1>8, <2>2 DEF AInv, ContiguousUnlessWarned
      <3> HIDE DEF m
      <3>4. (m + 1) % MaxIndex = (part.index + 1) % MaxIndex
        BY <1>4, <3>2, <3>3, NextIndex
      <3> QED  BY <1>9, <3>2, <3>4
    <2> QED  BY <1>3, <1>4, <2>1, <2>2
  <1>11. TimestampTracks'
    <2> SUFFICES ASSUME frameAligned', ~warned'
                 PROVE  (origin.n + frameZeroTimestamp' - origin.ts + 1) % MaxIndex
                            = expectedFrameIndex'
      BY <1>2 DEF TimestampTracks
    <2> DEFINE m == origin.n + frameZeroTimestamp - origin.ts + 1
    <2>1. origin.n \in Nat /\ origin.ts \in Nat /\ frameZeroTimestamp \in Nat
      BY <1>0, <1>1, FrameFields DEF AInv, HasOrigin, AssemblyType
    <2>2. m \in Int /\ origin.n + frameZeroTimestamp' - origin.ts + 1 = m + 1
      BY <1>2, <2>1
    <2>3. m % MaxIndex = part.index
      BY <1>1, <1>8 DEF AInv, TimestampTracks
    <2> HIDE DEF m
    <2>4. (m + 1) % MaxIndex = (part.index + 1) % MaxIndex
      BY <1>4, <2>2, <2>3, NextIndex
    <2> QED  BY <1>9, <2>2, <2>4
  <1> QED  BY <1>5, <1>6, <1>7, <1>10, <1>11

\* A part of the wrong phase empties the assembly.
LEMMA ResetStep ==
    ASSUME AInv, Reset, out' = out
    PROVE  /\ AssemblyType' /\ HasOrigin' /\ AssemblyAligned' /\ SuperframesAligned'
           /\ ContiguousUnlessWarned' /\ TimestampTracks'
  <1>1. /\ nbFrames' = 0 /\ currentFrame' = <<>> /\ frameAligned' = FALSE
        /\ expectedFrameIndex' = 0
        /\ UNCHANGED <<frameZeroTimestamp, warned, origin>>
    BY DEF Reset
  <1>2. currentFrame' \in Seq(Nat) /\ Len(currentFrame') = 0
    BY <1>1, EmptySeq
  <1>3. 0 \in Index
    BY MaxIndexAssumption DEF Index
  <1>4. AssemblyType'
    <2>1. AssemblyType
      BY TypeParts DEF AInv
    <2>2. nbFrames' \in 0 .. 5 /\ expectedFrameIndex' \in Index
      BY <1>1, <1>3
    <2>3. frameAligned' \in BOOLEAN
      BY <1>1
    <2> QED  BY <1>1, <1>2, <2>1, <2>2, <2>3 DEF AssemblyType
  <1>5. AssemblyAligned'
    BY <1>1, <1>2 DEF AssemblyAligned
  <1>6. SuperframesAligned'
    BY DEF AInv, SuperframesAligned
  <1> QED  BY <1>1, <1>4, <1>5, <1>6 DEF HasOrigin, ContiguousUnlessWarned, TimestampTracks

\* The superframe that is returned has five parts, and leaves the assembly empty.
LEMMA ReturnStep ==
    ASSUME AInv, Return
    PROVE  /\ AssemblyType' /\ HasOrigin' /\ AssemblyAligned' /\ SuperframesAligned'
           /\ ContiguousUnlessWarned' /\ TimestampTracks'
  <1>1. /\ nbFrames = 5 /\ nbFrames' = 0 /\ currentFrame' = <<>>
        /\ out' = [parts |-> currentFrame, ts |-> frameZeroTimestamp]
        /\ UNCHANGED <<frameAligned, expectedFrameIndex, frameZeroTimestamp, warned, origin>>
    BY DEF Return
  <1>2. currentFrame' \in Seq(Nat) /\ Len(currentFrame') = 0
    BY <1>1, EmptySeq
  <1>3. AssemblyType /\ AssemblyAligned
    BY TypeParts DEF AInv
  <1>4. out'.parts = currentFrame /\ out' \in [parts : Seq(Nat), ts : Nat]
    BY <1>1, <1>3 DEF AssemblyType
  <1>5. AssemblyType'
    BY <1>1, <1>2, <1>3, <1>4 DEF AssemblyType, Index
  <1>6. AssemblyAligned'
    BY <1>1, <1>2 DEF AssemblyAligned
  <1>7. SuperframesAligned'
    BY <1>1, <1>3, <1>4 DEF AssemblyAligned, SuperframesAligned
  <1>8. HasOrigin' /\ ContiguousUnlessWarned' /\ TimestampTracks'
    BY <1>1 DEF AInv, HasOrigin, ContiguousUnlessWarned, TimestampTracks
  <1> QED  BY <1>5, <1>6, <1>7, <1>8

\* Each step keeps what is known of the assembly.
LEMMA AssemblyStep ==
    ASSUME AInv, [ANext]_avars
    PROVE  /\ AssemblyType' /\ HasOrigin' /\ AssemblyAligned' /\ SuperframesAligned'
           /\ ContiguousUnlessWarned' /\ TimestampTracks'
  <1>1. CASE UNCHANGED <<assembly, out>>
    <2>1. AssemblyType
      BY TypeParts DEF AInv
    <2>2. AssemblyType'
      BY <1>1, <2>1 DEF assembly, AssemblyType, Index
    <2> QED  BY <1>1, <2>2, UnchangedAssembly DEF AInv
  <1>2. CASE TakePart
    <2>1. pc = "part" /\ out' = out
      BY <1>2 DEF TakePart
    <2>2. CASE Skip
      BY <1>1, <2>1, <2>2 DEF Skip
    <2>3. CASE Align \/ Continue \/ Reset
      BY <2>1, <2>3, AlignStep, ContinueStep, ResetStep
    <2> QED  BY <1>2, <2>2, <2>3 DEF TakePart
  <1> QED  BY <1>1, <1>2, ReturnStep, AssemblySteps
-----------------------------------------------------------------------------
(* The PAD frames, between ODR-PadEnc and the encoder. *)

\* s is increasing; all of s is below all of t.
Increasing(s) == \A i, j \in 1 .. Len(s) : i < j => s[i] < s[j]
Before(s, t) == \A i \in 1 .. Len(s), j \in 1 .. Len(t) : s[i] < t[j]

\* The numbers of the replies of ODR-PadEnc that PadInterface has not read.
Unread == [i \in DOMAIN padReplies |-> padReplies[i].id]

\* What was sent, what is queued and what is unread follow each other in the order
\* in which ODR-PadEnc made them.
PADOrder ==
    /\ Increasing(padSent) /\ Increasing(padFrameQueue) /\ Increasing(Unread)
    /\ Before(padSent, padFrameQueue) /\ Before(padSent, Unread)
    /\ Before(padFrameQueue, Unread)
    /\ Before(padSent, <<padMade + 1>>) /\ Before(padFrameQueue, <<padMade + 1>>)
    /\ Before(Unread, <<padMade + 1>>)

PInv == PadType /\ PADOrder /\ Len(padSent) <= padAsked /\ PADQueueBounded

\* The members of a sequence of numbers are numbers, and so is its length.
LEMMA NatSeq ==
    ASSUME NEW s \in Seq(Nat)
    PROVE  Len(s) \in Nat /\ DOMAIN s = 1 .. Len(s) /\ \A i \in 1 .. Len(s) : s[i] \in Nat
  BY LenProperties, ElementOfSeq

\* Appending a larger number keeps a sequence increasing, and below others.
LEMMA AppendIncreasing ==
    ASSUME NEW s \in Seq(Nat), NEW e \in Nat, Before(s, <<e>>)
    PROVE  /\ Increasing(s) => Increasing(Append(s, e))
           /\ \A t \in Seq(Nat) : Before(s, t) /\ Before(<<e>>, t) => Before(Append(s, e), t)
           /\ \A t \in Seq(Nat) : Before(t, s) /\ Before(t, <<e>>) => Before(t, Append(s, e))
  <1> DEFINE a == Append(s, e)
  <1>1. /\ a \in Seq(Nat) /\ Len(a) = Len(s) + 1
        /\ \A i \in 1 .. Len(s) : a[i] = s[i]
        /\ a[Len(s) + 1] = e
    BY AppendProperties
  <1>2. Len(<<e>>) = 1 /\ <<e>>[1] = e /\ 1 \in 1 .. 1
    OBVIOUS
  <1>3. \A i \in 1 .. Len(s) : s[i] < e
    BY <1>2 DEF Before
  <1> HIDE DEF a
  <1>4. ASSUME NEW i \in 1 .. Len(a)
        PROVE  \/ i \in 1 .. Len(s) /\ a[i] = s[i]
               \/ i = Len(s) + 1 /\ a[i] = e
    BY <1>1, NatSeq
  <1>5. ASSUME Increasing(s), NEW i \in 1 .. Len(a), NEW j \in 1 .. Len(a), i < j
        PROVE  a[i] < a[j]
    <2>1. i \in 1 .. Len(s) /\ a[i] = s[i]
      BY <1>1, <1>4, <1>5, NatSeq
    <2> QED  BY <1>3, <1>4, <1>5, <2>1 DEF Increasing
  <1>6. ASSUME NEW t \in Seq(Nat), Before(s, t), Before(<<e>>, t)
        PROVE  Before(a, t)
    <2>1. \A j \in 1 .. Len(t) : e < t[j]
      BY <1>2, <1>6 DEF Before
    <2> QED  BY <1>4, <1>6, <2>1 DEF Before
  <1>7. ASSUME NEW t \in Seq(Nat), Before(t, s), Before(t, <<e>>)
        PROVE  Before(t, a)
    <2>1. \A j \in 1 .. Len(t) : t[j] < e
      BY <1>2, <1>7 DEF Before
    <2> QED  BY <1>4, <1>7, <2>1 DEF Before
  <1>8. Increasing(s) => Increasing(a)
    BY <1>5 DEF Increasing
  <1> QED  BY <1>6, <1>7, <1>8 DEF a

\* What an increasing sequence loses at its front is below the rest.
LEMMA TailIncreasing ==
    ASSUME NEW s \in Seq(Nat), s # <<>>
    PROVE  /\ Head(s) \in Nat /\ Tail(s) \in Seq(Nat)
           /\ Increasing(s) => Increasing(Tail(s)) /\ Before(<<Head(s)>>, Tail(s))
           /\ \A t \in Seq(Nat) : Before(s, t) => Before(Tail(s), t) /\ Before(<<Head(s)>>, t)
           /\ \A t \in Seq(Nat) : Before(t, s) => Before(t, Tail(s)) /\ Before(t, <<Head(s)>>)
  <1> DEFINE h == Head(s)
             r == Tail(s)
  <1>1. /\ h = s[1] /\ h \in Nat /\ r \in Seq(Nat)
        /\ Len(s) \in Nat \ {0}
        /\ Len(r) = Len(s) - 1 /\ \A i \in 1 .. Len(r) : r[i] = s[i + 1]
    BY HeadTailProperties, EmptySeq
  <1> HIDE DEF h, r
  <1>2. Len(<<h>>) = 1 /\ <<h>>[1] = h /\ \A i \in 1 .. 1 : i = 1
    OBVIOUS
  <1>3. ASSUME NEW i \in 1 .. Len(r)
        PROVE  i + 1 \in 1 .. Len(s) /\ 1 < i + 1 /\ r[i] = s[i + 1] /\ 1 \in 1 .. Len(s)
    BY <1>1
  <1>4. ASSUME Increasing(s)
        PROVE  Increasing(r) /\ Before(<<h>>, r)
    <2>1. ASSUME NEW i \in 1 .. Len(r), NEW j \in 1 .. Len(r), i < j
          PROVE  r[i] < r[j]
      <3>1. i + 1 < j + 1
        BY <1>1, <2>1
      <3> QED  BY <1>3, <1>4, <3>1 DEF Increasing
    <2>2. ASSUME NEW j \in 1 .. Len(r)
          PROVE  h < r[j]
      BY <1>1, <1>3, <1>4 DEF Increasing
    <2> QED  BY <1>2, <2>1, <2>2 DEF Increasing, Before
  <1>5. ASSUME NEW t \in Seq(Nat), Before(s, t)
        PROVE  Before(r, t) /\ Before(<<h>>, t)
    <2>1. 1 \in 1 .. Len(s)
      BY <1>1
    <2>2. \A j \in 1 .. Len(t) : h < t[j]
      BY <1>1, <1>5, <2>1 DEF Before
    <2> QED  BY <1>2, <1>3, <1>5, <2>2 DEF Before
  <1>6. ASSUME NEW t \in Seq(Nat), Before(t, s)
        PROVE  Before(t, r) /\ Before(t, <<h>>)
    <2>1. 1 \in 1 .. Len(s)
      BY <1>1
    <2>2. \A j \in 1 .. Len(t) : t[j] < h
      BY <1>1, <1>6, <2>1 DEF Before
    <2> QED  BY <1>2, <1>3, <1>6, <2>2 DEF Before
  <1> QED  BY <1>1, <1>4, <1>5, <1>6 DEF h, r

\* The numbers of the unread replies are kept as the replies are.
LEMMA UnreadFacts ==
    ASSUME PadType
    PROVE  Unread \in Seq(Nat) /\ Len(Unread) = Len(padReplies)
  <1> DEFINE R == [id : Nat, kind : {"pad", "empty", "wrong"}]
  <1>1. /\ padReplies \in Seq(R) /\ Len(padReplies) \in Nat
        /\ DOMAIN padReplies = 1 .. Len(padReplies)
    BY LenProperties DEF PadType
  <1>2. \A i \in 1 .. Len(padReplies) : padReplies[i].id \in Nat
    <2> SUFFICES ASSUME NEW i \in 1 .. Len(padReplies)
                 PROVE  padReplies[i].id \in Nat
      OBVIOUS
    <2>1. padReplies[i] \in R
      BY <1>1, ElementOfSeq
    <2> QED  BY <2>1
  <1> QED  BY <1>1, <1>2 DEF Unread

\* A reply of ODR-PadEnc is the last of the unread ones.
LEMMA UnreadAppend ==
    ASSUME PadType, NEW kind \in {"pad", "empty", "wrong"},
           padReplies' = Append(padReplies, [id |-> padMade + 1, kind |-> kind])
    PROVE  /\ Unread' = Append(Unread, padMade + 1)
           /\ padReplies' \in Seq([id : Nat, kind : {"pad", "empty", "wrong"}])
  <1> DEFINE R == [id : Nat, kind : {"pad", "empty", "wrong"}]
             r == [id |-> padMade + 1, kind |-> kind]
             n == Len(padReplies)
             a == Append(Unread, padMade + 1)
  <1>1. padReplies \in Seq(R) /\ padMade + 1 \in Nat /\ n \in Nat
    BY LenProperties DEF PadType
  <1>2. r \in R /\ r.id = padMade + 1
    BY <1>1
  <1> HIDE DEF r, R
  <1>3. /\ padReplies' \in Seq(R) /\ Len(padReplies') = n + 1
        /\ \A i \in 1 .. n : padReplies'[i] = padReplies[i]
        /\ padReplies'[n + 1] = r
    BY <1>1, <1>2, AppendProperties DEF r
  <1>4. DOMAIN padReplies' = 1 .. n + 1 /\ DOMAIN padReplies = 1 .. n
    BY <1>1, <1>3, LenProperties
  <1>5. Unread \in Seq(Nat) /\ Len(Unread) = n /\ \A i \in 1 .. n : Unread[i] = padReplies[i].id
    BY <1>4, UnreadFacts DEF Unread
  <1>6. /\ a \in Seq(Nat) /\ Len(a) = n + 1
        /\ \A i \in 1 .. n : a[i] = Unread[i]
        /\ a[n + 1] = padMade + 1
    BY <1>1, <1>5, AppendProperties
  <1> HIDE DEF a, n
  <1>7. ASSUME NEW i \in 1 .. n + 1
        PROVE  padReplies'[i].id = a[i]
    <2>1. CASE i = n + 1
      BY <1>2, <1>3, <1>6, <2>1
    <2>2. CASE i \in 1 .. n
      BY <1>3, <1>5, <1>6, <2>2
    <2>3. i = n + 1 \/ i \in 1 .. n
      BY <1>1
    <2> QED  BY <2>1, <2>2, <2>3
  <1>8. Unread' = [i \in 1 .. n + 1 |-> a[i]]
    BY <1>4, <1>7 DEF Unread
  <1>9. a = [i \in 1 .. n + 1 |-> a[i]]
    BY <1>6, LenProperties
  <1>10. Unread' = a
    BY <1>8, <1>9
  <1> QED  BY <1>3, <1>10 DEF a, R

\* A reply that is read is the first of the unread ones.
LEMMA UnreadTail ==
    ASSUME PadType, padReplies # <<>>, padReplies' = Tail(padReplies)
    PROVE  /\ Unread # <<>> /\ Unread' = Tail(Unread)
           /\ Head(padReplies).id = Head(Unread)
           /\ padReplies' \in Seq([id : Nat, kind : {"pad", "empty", "wrong"}])
  <1> DEFINE R == [id : Nat, kind : {"pad", "empty", "wrong"}]
             n == Len(padReplies)
             a == Tail(Unread)
  <1>1. padReplies \in Seq(R)
    BY DEF PadType
  <1> HIDE DEF R
  <1>2. n \in Nat \ {0} /\ Head(padReplies) = padReplies[1]
    BY <1>1, EmptySeq
  <1>3. /\ padReplies' \in Seq(R) /\ Len(padReplies') = n - 1
        /\ \A i \in 1 .. n - 1 : padReplies'[i] = padReplies[i + 1]
    BY <1>1, HeadTailProperties
  <1>4. DOMAIN padReplies' = 1 .. n - 1 /\ DOMAIN padReplies = 1 .. n
    BY <1>1, <1>3, LenProperties
  <1>5. Unread \in Seq(Nat) /\ Len(Unread) = n /\ \A i \in 1 .. n : Unread[i] = padReplies[i].id
    BY <1>4, UnreadFacts DEF Unread
  <1>6. Unread # <<>> /\ Head(Unread) = Unread[1]
    BY <1>2, <1>5, EmptySeq
  <1>7. /\ a \in Seq(Nat) /\ Len(a) = n - 1
        /\ \A i \in 1 .. n - 1 : a[i] = Unread[i + 1]
    BY <1>5, <1>6, HeadTailProperties
  <1> HIDE DEF a, n
  <1>8. ASSUME NEW i \in 1 .. n - 1
        PROVE  padReplies'[i].id = a[i]
    <2>1. i + 1 \in 1 .. n
      BY <1>2
    <2> QED  BY <1>3, <1>5, <1>7, <2>1
  <1>9. Unread' = [i \in 1 .. n - 1 |-> a[i]]
    BY <1>4, <1>8 DEF Unread
  <1>10. a = [i \in 1 .. n - 1 |-> a[i]]
    BY <1>7, LenProperties
  <1>11. Head(padReplies).id = Head(Unread)
    <2>1. 1 \in 1 .. n
      BY <1>2
    <2> QED  BY <1>2, <1>5, <1>6, <2>1
  <1> QED  BY <1>3, <1>6, <1>9, <1>10, <1>11 DEF a, R

\* ODR-PadEnc numbers its replies in their order.
LEMMA ReplyStep ==
    ASSUME PInv, NEW kind \in {"pad", "empty", "wrong"}, PadEncReply(kind)
    PROVE  PInv'
  <1>1. /\ padMade' = padMade + 1
        /\ padReplies' = Append(padReplies, [id |-> padMade + 1, kind |-> kind])
        /\ UNCHANGED <<padFrameQueue, padMessages, padAsked, padSent>>
    BY DEF PadEncReply, padVars
  <1>2. /\ padMade \in Nat /\ padMade + 1 \in Nat /\ padSent \in Seq(Nat)
        /\ padFrameQueue \in Seq(Nat) /\ Unread \in Seq(Nat)
    BY UnreadFacts DEF PInv, PadType
  <1>3. /\ Unread' = Append(Unread, padMade + 1)
        /\ padReplies' \in Seq([id : Nat, kind : {"pad", "empty", "wrong"}])
    BY <1>1, UnreadAppend DEF PInv
  <1>4. PadType'
    BY <1>1, <1>2, <1>3 DEF PInv, PadType
  <1>5. /\ Increasing(Unread') /\ Before(padSent, Unread') /\ Before(padFrameQueue, Unread')
    BY <1>2, <1>3, AppendIncreasing DEF PInv, PADOrder
  <1>6. ASSUME NEW s \in Seq(Nat), Before(s, <<padMade + 1>>)
        PROVE  Before(s, <<padMade' + 1>>)
    <2>1. \A i \in 1 .. Len(s) : s[i] < padMade + 1 /\ s[i] \in Nat
      BY <1>6, NatSeq DEF Before
    <2>2. \A i \in 1 .. Len(s) : s[i] < padMade' + 1
      BY <1>1, <1>2, <2>1
    <2> QED  BY <2>2 DEF Before
  <1>7. Before(Unread', <<padMade' + 1>>)
    <2>1. Before(Unread, <<padMade' + 1>>)
      BY <1>2, <1>6 DEF PInv, PADOrder
    <2>2. Before(<<padMade + 1>>, <<padMade' + 1>>)
      BY <1>1, <1>2 DEF Before
    <2>3. <<padMade' + 1>> \in Seq(Nat)
      BY <1>1, <1>2
    <2> QED  BY <1>2, <1>3, <2>1, <2>2, <2>3, AppendIncreasing DEF PInv, PADOrder
  <1>8. Before(padSent, <<padMade' + 1>>) /\ Before(padFrameQueue, <<padMade' + 1>>)
    BY <1>2, <1>6 DEF PInv, PADOrder
  <1>9. PADOrder'
    BY <1>1, <1>5, <1>7, <1>8 DEF PInv, PADOrder
  <1> QED  BY <1>1, <1>4, <1>9 DEF PInv, PADQueueBounded

\* A reply that main reads joins the queue, or is dropped.
LEMMA FillStep ==
    ASSUME PInv, FillPAD
    PROVE  PInv'
  <1> DEFINE h == Head(Unread)
             t == Tail(Unread)
  <1>1. /\ padReplies # <<>> /\ padReplies' = Tail(padReplies)
        /\ UNCHANGED <<padMade, padMessages, padAsked, padSent>>
        /\ ~padQueueFull
        /\ padFrameQueue' \in {padFrameQueue, Append(padFrameQueue, Head(padReplies).id)}
    BY DEF FillPAD, pushPADFrame
  <1>2. /\ padMade \in Nat /\ padMade + 1 \in Nat /\ padSent \in Seq(Nat)
        /\ padFrameQueue \in Seq(Nat) /\ Unread \in Seq(Nat)
        /\ <<padMade + 1>> \in Seq(Nat)
        /\ Len(padFrameQueue) \in Nat /\ Len(padFrameQueue) < MaxPadQueue
    BY <1>1, UnreadFacts, NatSeq, PadAssumption DEF PInv, PadType, padQueueFull
  <1>3. /\ Unread # <<>> /\ Unread' = t /\ Head(padReplies).id = h
        /\ padReplies' \in Seq([id : Nat, kind : {"pad", "empty", "wrong"}])
    BY <1>1, UnreadTail DEF PInv
  <1>4. /\ h \in Nat /\ t \in Seq(Nat)
        /\ Increasing(t) /\ Before(<<h>>, t)
        /\ Before(padSent, t) /\ Before(padSent, <<h>>)
        /\ Before(padFrameQueue, t) /\ Before(padFrameQueue, <<h>>)
        /\ Before(t, <<padMade + 1>>) /\ Before(<<h>>, <<padMade + 1>>)
    BY <1>2, <1>3, TailIncreasing DEF PInv, PADOrder
  <1> HIDE DEF h, t
  <1>5. CASE padFrameQueue' = padFrameQueue
    <2>1. PadType'
      BY <1>1, <1>3, <1>5 DEF PInv, PadType
    <2>2. PADOrder'
      BY <1>1, <1>3, <1>4, <1>5 DEF PInv, PADOrder
    <2> QED  BY <1>1, <1>5, <2>1, <2>2 DEF PInv, PADQueueBounded
  <1>6. CASE padFrameQueue' = Append(padFrameQueue, h)
    <2>1. padFrameQueue' \in Seq(Nat) /\ Len(padFrameQueue') = Len(padFrameQueue) + 1
      BY <1>2, <1>4, <1>6, AppendProperties
    <2>2. PadType'
      BY <1>1, <1>3, <2>1 DEF PInv, PadType
    <2>3. /\ Increasing(padFrameQueue') /\ Before(padSent, padFrameQueue')
          /\ Before(padFrameQueue', t) /\ Before(padFrameQueue', <<padMade + 1>>)
      BY <1>2, <1>4, <1>6, AppendIncreasing DEF PInv, PADOrder
    <2>4. PADOrder'
      BY <1>1, <1>3, <1>4, <2>3 DEF PInv, PADOrder
    <2>5. PADQueueBounded'
      BY <1>2, <2>1, PadAssumption DEF PADQueueBounded
    <2> QED  BY <1>1, <2>2, <2>4, <2>5 DEF PInv
  <1> QED  BY <1>1, <1>3, <1>5, <1>6

\* A request sends the front of the queue; any other message only counts.
LEMMA MessageStep ==
    ASSUME PInv, CheckMessage
    PROVE  PInv'
  <1>1. /\ padMessages # <<>> /\ padMessages' = Tail(padMessages)
        /\ padAsked' = padAsked + 1
        /\ UNCHANGED <<padReplies, padMade>>
    BY DEF CheckMessage, padenc
  <1>2. /\ padSent \in Seq(Nat) /\ padFrameQueue \in Seq(Nat) /\ Unread \in Seq(Nat)
        /\ Len(padSent) \in Nat /\ Len(padFrameQueue) \in Nat /\ padMade + 1 \in Nat
        /\ padAsked \in Nat /\ padAsked' \in Nat /\ <<padMade + 1>> \in Seq(Nat)
    BY <1>1, UnreadFacts, NatSeq DEF PInv, PadType
  <1>3. padMessages' \in Seq({"request", "other"})
    BY <1>1, HeadTailProperties DEF PInv, PadType
  <1>4. Unread' = Unread
    BY <1>1 DEF Unread
  <1>5. CASE UNCHANGED <<padFrameQueue, padSent>>
    <2>1. PadType'
      BY <1>1, <1>2, <1>3, <1>5 DEF PInv, PadType
    <2>2. PADOrder'
      BY <1>1, <1>4, <1>5 DEF PInv, PADOrder
    <2>3. Len(padSent') <= padAsked'
      BY <1>1, <1>2, <1>5 DEF PInv
    <2> QED  BY <1>5, <2>1, <2>2, <2>3 DEF PInv, PADQueueBounded
  <1>6. CASE /\ padFrameQueue # <<>>
             /\ padSent' = Append(padSent, Head(padFrameQueue))
             /\ padFrameQueue' = Tail(padFrameQueue)
    <2> DEFINE h == Head(padFrameQueue)
               t == Tail(padFrameQueue)
    <2>1. /\ h \in Nat /\ t \in Seq(Nat)
          /\ Increasing(t) /\ Before(<<h>>, t)
          /\ Before(padSent, t) /\ Before(padSent, <<h>>)
          /\ Before(t, Unread) /\ Before(<<h>>, Unread)
          /\ Before(t, <<padMade + 1>>) /\ Before(<<h>>, <<padMade + 1>>)
      BY <1>2, <1>6, TailIncreasing DEF PInv, PADOrder
    <2>2. Len(t) = Len(padFrameQueue) - 1
      BY <1>2, <1>6, HeadTailProperties
    <2> HIDE DEF h, t
    <2>3. padSent' = Append(padSent, h) /\ padFrameQueue' = t
      BY <1>6 DEF h, t
    <2>4. padSent' \in Seq(Nat) /\ Len(padSent') = Len(padSent) + 1
      BY <1>2, <2>1, <2>3, AppendProperties
    <2>5. /\ Increasing(padSent') /\ Before(padSent', t)
          /\ Before(padSent', Unread) /\ Before(padSent', <<padMade + 1>>)
      BY <1>2, <2>1, <2>3, AppendIncreasing DEF PInv, PADOrder
    <2>6. PadType'
      BY <1>1, <1>2, <1>3, <2>1, <2>3, <2>4 DEF PInv, PadType
    <2>7. PADOrder'
      BY <1>1, <1>4, <2>1, <2>3, <2>5 DEF PInv, PADOrder
    <2>8. Len(padSent') <= padAsked'
      BY <1>1, <1>2, <2>4 DEF PInv
    <2>9. PADQueueBounded'
      BY <1>2, <2>2, <2>3, PadAssumption DEF PInv, PADQueueBounded
    <2> QED  BY <2>6, <2>7, <2>8, <2>9 DEF PInv
  <1>7. \/ UNCHANGED <<padFrameQueue, padSent>>
        \/ /\ padFrameQueue # <<>>
           /\ padSent' = Append(padSent, Head(padFrameQueue))
           /\ padFrameQueue' = Tail(padFrameQueue)
    BY DEF CheckMessage, sendPADFrame
  <1> QED  BY <1>5, <1>6, <1>7

\* Each step keeps the order of the PAD frames.
LEMMA PADStep ==
    ASSUME PInv, [ANext]_avars
    PROVE  PInv'
  <1>1. ASSUME UNCHANGED <<padFrameQueue, padReplies, padMade, padAsked, padSent>>,
               padMessages' \in Seq({"request", "other"})
        PROVE  PInv'
    BY <1>1 DEF PInv, PadType, PADOrder, Unread, PADQueueBounded
  <1>2. padMessages \in Seq({"request", "other"})
    BY DEF PInv, PadType
  <1>3. ASSUME NEW m \in {"request", "other"}, SendMessage(m)
        PROVE  PInv'
    <2>1. Append(padMessages, m) \in Seq({"request", "other"})
      BY <1>2, AppendProperties
    <2> QED  BY <1>1, <1>3, <2>1 DEF SendMessage, padenc
  <1>4. ASSUME UNCHANGED <<padenc, padVars>>
        PROVE  PInv'
    BY <1>1, <1>2, <1>4 DEF padenc, padVars
  <1>5. CASE Send \/ \E n \in inflight : Lose(n)
    BY <1>4, <1>5 DEF Send, Lose
  <1>6. CASE FillDone \/ DrainDone
    BY <1>4, <1>6 DEF FillDone, DrainDone
  <1>7. CASE \E n \in inflight : ReadFrame(n) \/ ReadJunk(n)
    BY <1>4, <1>7 DEF ReadFrame, ReadJunk
  <1>8. CASE (\E gap \in Index : PopPart(gap)) \/ TakePart
    BY <1>4, <1>8 DEF PopPart, TakePart
  <1>9. CASE Return \/ ReturnNothing
    BY <1>4, <1>9 DEF Return, ReturnNothing
  <1>10. CASE UNCHANGED avars
    BY <1>4, <1>10 DEF avars
  <1> QED  BY <1>3, <1>5, <1>6, <1>7, <1>8, <1>9, <1>10, ReplyStep, FillStep, MessageStep
           DEF ANext, Environment, Main
-----------------------------------------------------------------------------
\* Everything starts empty.
LEMMA AInvInit == AInit => AInv /\ PInv
  <1> SUFFICES ASSUME AInit PROVE AInv /\ PInv
    OBVIOUS
  <1>0. /\ <<>> \in Seq(Nat) /\ Len(<<>>) = 0 /\ <<>> \in Seq({"request", "other"})
        /\ <<>> \in Seq([id : Nat, kind : {"pad", "empty", "wrong"}])
    BY EmptySeq
  <1>1. QueueType
    BY DEF AInit, Init, QueueType, TypeOK
  <1>2. AssemblyType
    <2>1. 0 \in 0 .. 5 /\ 0 \in Index /\ 0 \in Nat
      BY MaxIndexAssumption DEF Index
    <2> QED  BY <1>0, <2>1 DEF AInit, AssemblyType
  <1>3. NetType
    BY NetAssumption DEF AInit, NetType
  <1>4. PadType
    BY <1>0 DEF AInit, PadType
  <1>5. Placed /\ HasOrigin
    BY DEF AInit, Init, Placed, HasOrigin
  <1>6. AssemblyAligned /\ SuperframesAligned /\ ContiguousUnlessWarned /\ TimestampTracks
    BY <1>0 DEF AInit, AssemblyAligned, SuperframesAligned, ContiguousUnlessWarned,
                TimestampTracks
  <1>7. PADOrder
    <2>1. Len(Unread) = 0
      BY <1>0, <1>4, UnreadFacts DEF AInit
    <2> QED  BY <1>0, <2>1 DEF AInit, PADOrder, Increasing, Before
  <1>8. Len(padSent) <= padAsked /\ PADQueueBounded
    BY <1>0, PadAssumption DEF AInit, PADQueueBounded
  <1> QED  BY <1>1, <1>2, <1>3, <1>4, <1>5, <1>6, <1>7, <1>8, TypeParts DEF AInv, PInv

\* The inductive invariant holds in every state of AVTInput.
LEMMA AInvHolds == ASpec => [](AInv /\ PInv)
  <1>1. AInv /\ PInv /\ [ANext]_avars => AInv' /\ PInv'
    <2> SUFFICES ASSUME AInv, PInv, [ANext]_avars PROVE AInv' /\ PInv'
      OBVIOUS
    <2>1. ATypeOK /\ Placed
      BY DEF AInv
    <2>2. PInv' /\ PadType'
      BY PADStep DEF PInv
    <2>3. QueueType' /\ NetType' /\ AssemblyType'
      BY <2>1, QueueTypeStep, NetTypeStep, AssemblyStep
    <2>4. ATypeOK'
      BY <2>2, <2>3 DEF ATypeOK, QueueType, AssemblyType, NetType, PadType
    <2> QED  BY <2>1, <2>2, <2>4, PlacedStep, AssemblyStep DEF AInv
  <1> QED  BY <1>1, AInvInit, PTL DEF ASpec

\* Between any two steps of getNextFrame() the frame under assembly holds nbFrames
\* parts, each in the position of its phase, wherever frames are lost, repeated
\* or late.
THEOREM AssemblyCorrect == ASpec => []AssemblyInv
  <1>1. AInv => AssemblyInv
    BY DEF AInv, AssemblyInv
  <1> QED  BY <1>1, AInvHolds, PTL

\* Every superframe that getNextFrame() returns has five parts, in the positions of
\* their phases.
THEOREM SuperframesCorrect == ASpec => []SuperframesAligned
  <1>1. AInv => SuperframesAligned
    BY DEF AInv
  <1> QED  BY <1>1, AInvHolds, PTL

\* Unless a sequence error was logged since the last alignment, the parts under
\* assembly are contiguous, across the wrap-around of the index too.
THEOREM PartsContiguous == ASpec => []ContiguousUnlessWarned
  <1>1. AInv => ContiguousUnlessWarned
    BY DEF AInv
  <1> QED  BY <1>1, AInvHolds, PTL

\* Unless a sequence error was logged, the timestamp is the capture time of the
\* frame of the last alignment plus 24 ms for each index since.
THEOREM TimestampCorrect == ASpec => []TimestampTracks
  <1>1. AInv => TimestampTracks
    BY DEF AInv
  <1> QED  BY <1>1, AInvHolds, PTL

\* PAD frames reach the encoder in the order in which ODR-PadEnc made them, none
\* twice and at most one per message, through a queue of bounded length.
THEOREM PADCorrect == ASpec => []PADInv
  <1>1. PInv => PADInv
    <2> SUFFICES ASSUME PInv PROVE PADInOrder
      BY DEF PInv, PADInv
    <2> DEFINE s == padSent
               q == padFrameQueue
               pads == s \o q
    <2>1. s \in Seq(Nat) /\ q \in Seq(Nat) /\ Len(s) \in Nat /\ Len(q) \in Nat
      BY NatSeq DEF PInv, PadType
    <2>2. /\ pads \in Seq(Nat) /\ Len(pads) = Len(s) + Len(q)
          /\ \A i \in 1 .. Len(s) + Len(q) : pads[i] = IF i <= Len(s) THEN s[i]
                                                       ELSE q[i - Len(s)]
      BY <2>1, ConcatProperties
    <2>3. DOMAIN pads = 1 .. Len(s) + Len(q)
      BY <2>2, LenProperties
    <2>4. Increasing(s) /\ Increasing(q) /\ Before(s, q)
      BY DEF PInv, PADOrder
    <2> HIDE DEF pads, s, q
    <2>5. ASSUME NEW i \in 1 .. Len(s) + Len(q)
          PROVE  \/ i \in 1 .. Len(s) /\ pads[i] = s[i]
                 \/ /\ i > Len(s) /\ i - Len(s) \in 1 .. Len(q)
                    /\ pads[i] = q[i - Len(s)]
      BY <2>1, <2>2
    <2>6. ASSUME NEW i \in DOMAIN pads, NEW j \in DOMAIN pads, i < j
          PROVE  pads[i] < pads[j]
      <3>1. i \in Int /\ j \in Int
        BY <2>1, <2>3
      <3>2. CASE j \in 1 .. Len(s) /\ pads[j] = s[j]
        <4>1. i <= Len(s)
          BY <2>1, <2>6, <3>1, <3>2
        <4>2. i \in 1 .. Len(s) /\ pads[i] = s[i]
          BY <2>1, <2>3, <2>5, <3>1, <4>1
        <4> QED  BY <2>4, <2>6, <3>2, <4>2 DEF Increasing
      <3>3. CASE /\ j - Len(s) \in 1 .. Len(q) /\ pads[j] = q[j - Len(s)]
                 /\ i \in 1 .. Len(s) /\ pads[i] = s[i]
        BY <2>4, <3>3 DEF Before
      <3>4. CASE /\ j - Len(s) \in 1 .. Len(q) /\ pads[j] = q[j - Len(s)]
                 /\ i - Len(s) \in 1 .. Len(q) /\ pads[i] = q[i - Len(s)]
        <4>1. i - Len(s) < j - Len(s)
          BY <2>1, <2>6, <3>1
        <4> QED  BY <2>4, <3>4, <4>1 DEF Increasing
      <3> QED  BY <2>3, <2>5, <3>2, <3>3, <3>4
    <2>7. Len(padSent) <= padAsked
      BY DEF PInv
    <2> QED  BY <2>6, <2>7 DEF PADInOrder, pads, s, q
  <1> QED  BY <1>1, AInvHolds, PTL
=============================================================================
