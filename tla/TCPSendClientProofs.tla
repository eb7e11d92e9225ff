------------------------- MODULE TCPSendClientProofs --------------------------
(***************************************************************************)
(* Proofs about TCPSendClient, for every queue size, number of buffers and  *)
(* number of broken connections.                                            *)
(***************************************************************************)
EXTENDS TCPSendClient, SequenceTheorems, FiniteSetTheorems, TLAPS

\* The socket, m_is_connected and the connection agree until the destructor
\* closes the socket, and each step of process() is taken in the state it expects.
SocketInv ==
    /\ m_is_connected <=> link # "none"
    /\ opc # "destroyed" => (connected <=> m_is_connected)
    /\ opc = "destroyed" => spc = "done"
    /\ spc \in {"pop", "send"} => m_is_connected
    /\ spc = "connect" => ~m_is_connected
    /\ incoming # 0 <=> spc = "send"
    /\ connected => fds >= 1

\* Only sendall() itself sees the queue above its limit.
LengthInv ==
    /\ Len(the_queue) <= sends
    /\ Len(the_queue) <= MAX_QUEUE_SIZE + 1
    /\ opc \notin {"pushed", "notified", "discard"} => Len(the_queue) <= MAX_QUEUE_SIZE

\* The discards so far, and the one the running sendall() may still do, are paid
\* for by the calls of sendall() beyond the first MAX_QUEUE_SIZE.
DiscardInv ==
    breaks = 0 =>
        /\ link # "broken"
        /\ \/ dropped = {} /\ opc # "discard"
           \/ Cardinality(dropped) <= sends - MAX_QUEUE_SIZE
                  - (IF opc \in {"pushed", "notified", "discard"} THEN 1 ELSE 0)

CInv == CTypeOK /\ SocketInv /\ LengthInv /\ DiscardInv
-----------------------------------------------------------------------------
\* The buffers that were dropped can be counted.
LEMMA DroppedFinite ==
    ASSUME CTypeOK
    PROVE  IsFiniteSet(dropped) /\ Cardinality(dropped) \in Nat
  <1>1. IsFiniteSet(1 .. MaxSend)
    BY SendBoundAssumption, FS_Interval
  <1>2. IsFiniteSet(dropped)
    BY <1>1, FS_Subset DEF CTypeOK
  <1> QED  BY <1>2, FS_CardinalityType

\* What the steps need to know of the queue.
LEMMA QueueFacts ==
    ASSUME CTypeOK
    PROVE  /\ Len(the_queue) \in Nat
           /\ the_queue = <<>> => Len(the_queue) = 0
           /\ the_queue # <<>> =>
                /\ Head(the_queue) \in 1 .. MaxSend
                /\ Tail(the_queue) \in Seq(1 .. MaxSend)
                /\ Len(Tail(the_queue)) = Len(the_queue) - 1
  BY LenProperties, EmptySeq, HeadTailProperties DEF CTypeOK

\* Each step keeps the types.
LEMMA ClientTypeStep ==
    ASSUME CTypeOK, SocketInv, [Next]_cvars
    PROVE  CTypeOK'
  <1> USE DEF owner, sender, peer, queueVars
  <1>1. CASE SendallPush
    <2>1. sends + 1 \in 1 .. MaxSend
      BY <1>1, SendBoundAssumption DEF SendallPush, CTypeOK
    <2>2. Append(the_queue, sends + 1) \in Seq(1 .. MaxSend)
      BY <2>1, AppendProperties DEF CTypeOK
    <2> QED  BY <1>1, <2>1, <2>2 DEF SendallPush, push, CTypeOK
  <1>2. CASE SendallNotify
    BY <1>2 DEF SendallNotify, notify_one, CTypeOK
  <1>3. CASE SendallSize
    BY <1>3 DEF SendallSize, CTypeOK
  <1>4. CASE SendallDiscard
    <2>1. the_queue' \in Seq(1 .. MaxSend)
      BY <1>4, QueueFacts, EmptySeq DEF SendallDiscard, try_pop
    <2>2. dropped' \subseteq 1 .. MaxSend
      BY <1>4, QueueFacts DEF SendallDiscard, CTypeOK
    <2> QED  BY <1>4, <2>1, <2>2 DEF SendallDiscard, try_pop, CTypeOK
  <1>5. CASE DestructorStop
    BY <1>5 DEF DestructorStop, CTypeOK
  <1>6. CASE DestructorWakeup
    BY <1>6 DEF DestructorWakeup, trigger_wakeup, CTypeOK
  <1>7. CASE DestructorNotify
    BY <1>7 DEF DestructorNotify, notify_one, CTypeOK
  <1>8. CASE DestructorJoin
    <2>1. fds' \in Nat
      BY <1>8 DEF DestructorJoin, CTypeOK, SocketInv
    <2> QED  BY <1>8, <2>1 DEF DestructorJoin, CTypeOK
  <1>9. CASE SenderLoop
    BY <1>9 DEF SenderLoop, CTypeOK
  <1>10. CASE SenderSleep
    BY <1>10 DEF SenderSleep, wait_sleep, wait_spurious, CTypeOK
  <1>11. CASE SenderPop
    BY <1>11, QueueFacts DEF SenderPop, wait_pop, CTypeOK
  <1>12. CASE SenderWakeup
    BY <1>12 DEF SenderWakeup, wait_wakeup, CTypeOK
  <1>13. CASE SenderSend
    <2>1. incoming \in 1 .. MaxSend
      BY <1>13 DEF SenderSend, CTypeOK, SocketInv
    <2>2. received' \in Seq(1 .. MaxSend) /\ dropped' \subseteq 1 .. MaxSend
      <3>1. CASE received' = Append(received, incoming) /\ UNCHANGED dropped
        BY <2>1, <3>1, AppendProperties DEF CTypeOK
      <3>2. CASE dropped' = dropped \cup {incoming} /\ UNCHANGED received
        BY <2>1, <3>2 DEF CTypeOK
      <3> QED  BY <1>13, <3>1, <3>2 DEF SenderSend
    <2> QED  BY <1>13, <2>2, SendBoundAssumption DEF SenderSend, CTypeOK
  <1>14. CASE SenderFail
    <2>1. incoming \in 1 .. MaxSend
      BY <1>14 DEF SenderFail, CTypeOK, SocketInv
    <2>2. dropped' \subseteq 1 .. MaxSend /\ incoming' \in 0 .. MaxSend
      BY <1>14, <2>1, SendBoundAssumption DEF SenderFail, CTypeOK
    <2> QED  BY <1>14, <2>2 DEF SenderFail, CTypeOK
  <1>15. CASE SenderConnect
    <2>1. /\ m_is_connected' \in BOOLEAN /\ connected' \in BOOLEAN
          /\ link' \in {"none", "up", "broken"}
      BY <1>15 DEF SenderConnect, CTypeOK
    <2>2. fds' \in Nat
      BY <1>15 DEF SenderConnect, CTypeOK
    <2>3. /\ UNCHANGED <<the_queue, wakeup_requested, waiting, opc, sends, incoming>>
          /\ UNCHANGED <<peerUp, breaks, m_running, received, dropped>>
          /\ spc' = "loop"
      BY <1>15 DEF SenderConnect
    <2> QED  BY <2>1, <2>2, <2>3 DEF CTypeOK
  <1>16. CASE PeerToggle
    <2>1. peerUp' \in BOOLEAN
      BY <1>16 DEF PeerToggle
    <2> QED  BY <1>16, <2>1 DEF PeerToggle, CTypeOK
  <1>17. CASE LinkBreaks
    BY <1>17, SendBoundAssumption DEF LinkBreaks, CTypeOK
  <1>18. CASE UNCHANGED cvars
    BY <1>18 DEF cvars, CTypeOK
  <1> QED  BY <1>1, <1>2, <1>3, <1>4, <1>5, <1>6, <1>7, <1>8, <1>9, <1>10, <1>11,
              <1>12, <1>13, <1>14, <1>15, <1>16, <1>17, <1>18
              DEF Next, OwnerFinishes, Sender

\* Each step keeps the socket and the flags in agreement.
LEMMA SocketStep ==
    ASSUME CTypeOK, SocketInv, [Next]_cvars
    PROVE  SocketInv'
  <1> USE DEF owner, sender, peer, queueVars, SocketInv
  <1>1. CASE \/ SendallPush \/ SendallNotify \/ SendallSize \/ SendallDiscard
    BY <1>1 DEF SendallPush, SendallNotify, SendallSize, SendallDiscard
  <1>2. CASE DestructorStop \/ DestructorWakeup \/ DestructorNotify
    BY <1>2 DEF DestructorStop, DestructorWakeup, DestructorNotify
  <1>3. CASE DestructorJoin
    BY <1>3 DEF DestructorJoin
  <1>4. CASE SenderLoop
    BY <1>4 DEF SenderLoop
  <1>5. CASE SenderSleep
    BY <1>5 DEF SenderSleep
  <1>6. CASE SenderPop
    <2>1. incoming' # 0
      BY <1>6, QueueFacts DEF SenderPop, wait_pop
    <2> QED  BY <1>6, <2>1 DEF SenderPop
  <1>7. CASE SenderWakeup
    BY <1>7 DEF SenderWakeup
  <1>8. CASE SenderSend
    BY <1>8 DEF SenderSend
  <1>9. CASE SenderFail
    BY <1>9 DEF SenderFail
  <1>10. CASE SenderConnect
    BY <1>10 DEF SenderConnect, CTypeOK
  <1>11. CASE PeerToggle \/ LinkBreaks
    BY <1>11 DEF PeerToggle, LinkBreaks
  <1>12. CASE UNCHANGED cvars
    BY <1>12 DEF cvars
  <1> QED  BY <1>1, <1>2, <1>3, <1>4, <1>5, <1>6, <1>7, <1>8, <1>9, <1>10, <1>11,
              <1>12 DEF Next, OwnerFinishes, Sender

\* Each step keeps the length of the queue within what sendall() allows.
LEMMA LengthStep ==
    ASSUME CTypeOK, LengthInv, [Next]_cvars
    PROVE  LengthInv'
  <1> USE QueueSizeAssumption DEF owner, sender, peer, queueVars, LengthInv
  <1>0. /\ Len(the_queue) \in Nat /\ sends \in Nat
        /\ Len(<<>>) = 0
    BY QueueFacts, EmptySeq DEF CTypeOK
  <1>1. CASE SendallPush
    <2>1. sends + 1 \in 1 .. MaxSend
      BY <1>1, SendBoundAssumption DEF SendallPush, CTypeOK
    <2>2. Len(the_queue') = Len(the_queue) + 1
      BY <1>1, <2>1, AppendProperties DEF SendallPush, push, CTypeOK
    <2> QED  BY <1>0, <1>1, <2>2 DEF SendallPush
  <1>2. CASE SendallNotify
    BY <1>0, <1>2 DEF SendallNotify, notify_one
  <1>3. CASE SendallSize
    BY <1>0, <1>3 DEF SendallSize
  <1>4. CASE SendallDiscard
    <2>1. Len(the_queue') = IF the_queue = <<>> THEN 0 ELSE Len(the_queue) - 1
      BY <1>0, <1>4, QueueFacts DEF SendallDiscard, try_pop
    <2> QED  BY <1>0, <1>4, <2>1, QueueFacts DEF SendallDiscard
  <1>5. CASE DestructorStop
    BY <1>0, <1>5 DEF DestructorStop
  <1>6. CASE DestructorWakeup
    BY <1>0, <1>6 DEF DestructorWakeup, trigger_wakeup
  <1>7. CASE DestructorNotify
    BY <1>0, <1>7 DEF DestructorNotify, notify_one
  <1>8. CASE DestructorJoin
    BY <1>0, <1>8 DEF DestructorJoin
  <1>9. CASE SenderPop
    <2>1. Len(the_queue') = Len(the_queue) - 1
      BY <1>9, QueueFacts DEF SenderPop, wait_pop
    <2> QED  BY <1>0, <1>9, <2>1 DEF SenderPop
  <1>10. CASE SenderSleep \/ SenderWakeup
    BY <1>0, <1>10 DEF SenderSleep, wait_sleep, wait_spurious, SenderWakeup, wait_wakeup
  <1>11. CASE SenderLoop \/ SenderSend \/ SenderFail \/ SenderConnect
    BY <1>0, <1>11 DEF SenderLoop, SenderSend, SenderFail, SenderConnect
  <1>12. CASE PeerToggle \/ LinkBreaks
    BY <1>0, <1>12 DEF PeerToggle, LinkBreaks
  <1>13. CASE UNCHANGED cvars
    BY <1>0, <1>13 DEF cvars
  <1> QED  BY <1>1, <1>2, <1>3, <1>4, <1>5, <1>6, <1>7, <1>8, <1>9, <1>10, <1>11,
              <1>12, <1>13 DEF Next, OwnerFinishes, Sender

\* Each step keeps the account of the discards.
LEMMA DiscardStep ==
    ASSUME CTypeOK, LengthInv, DiscardInv, [Next]_cvars
    PROVE  DiscardInv'
  <1> USE QueueSizeAssumption DEF owner, sender, peer, queueVars
  <1>0. /\ sends \in Nat /\ breaks \in Nat
        /\ Cardinality(dropped) \in Nat /\ Cardinality({}) = 0
    BY DroppedFinite, FS_EmptySet DEF CTypeOK
  <1>1. CASE SendallPush
    BY <1>0, <1>1 DEF SendallPush, DiscardInv
  <1>2. CASE SendallNotify
    BY <1>0, <1>2 DEF SendallNotify, DiscardInv
  <1>3. CASE SendallSize
    <2>1. CASE Len(the_queue) > MAX_QUEUE_SIZE
      <3>1. sends - MAX_QUEUE_SIZE - 1 >= 0
        BY <1>0, <2>1, QueueFacts DEF LengthInv
      <3> QED  BY <1>0, <1>3, <2>1, <3>1 DEF SendallSize, DiscardInv
    <2>2. CASE ~(Len(the_queue) > MAX_QUEUE_SIZE)
      BY <1>0, <1>3, <2>2 DEF SendallSize, DiscardInv
    <2> QED  BY <2>1, <2>2
  <1>4. CASE SendallDiscard
    <2>1. Cardinality(dropped') <= Cardinality(dropped) + 1 /\ Cardinality(dropped') \in Nat
      <3>1. CASE the_queue = <<>>
        BY <1>0, <1>4, <3>1 DEF SendallDiscard
      <3>2. CASE the_queue # <<>>
        <4>1. dropped' = dropped \cup {Head(the_queue)}
          BY <1>4, <3>2 DEF SendallDiscard
        <4>2. Cardinality(dropped') = IF Head(the_queue) \in dropped
                                      THEN Cardinality(dropped)
                                      ELSE Cardinality(dropped) + 1
          BY <4>1, DroppedFinite, FS_AddElement
        <4> QED  BY <1>0, <4>2
      <3> QED  BY <3>1, <3>2
    <2> QED  BY <1>0, <1>4, <2>1 DEF SendallDiscard, DiscardInv
  <1>5. CASE DestructorStop \/ DestructorWakeup \/ DestructorNotify \/ DestructorJoin
    BY <1>0, <1>5 DEF DestructorStop, DestructorWakeup, DestructorNotify,
                      DestructorJoin, DiscardInv
  <1>6. CASE SenderLoop \/ SenderSleep \/ SenderPop \/ SenderWakeup
    BY <1>0, <1>6 DEF SenderLoop, SenderSleep, SenderPop, SenderWakeup, DiscardInv
  <1>7. CASE SenderSend
    BY <1>0, <1>7 DEF SenderSend, DiscardInv
  <1>8. CASE SenderFail
    BY <1>0, <1>8 DEF SenderFail, DiscardInv
  <1>9. CASE SenderConnect
    BY <1>0, <1>9 DEF SenderConnect, DiscardInv
  <1>10. CASE PeerToggle \/ LinkBreaks
    BY <1>0, <1>10 DEF PeerToggle, LinkBreaks, DiscardInv
  <1>11. CASE UNCHANGED cvars
    BY <1>0, <1>11 DEF cvars, DiscardInv
  <1> QED  BY <1>1, <1>2, <1>3, <1>4, <1>5, <1>6, <1>7, <1>8, <1>9, <1>10, <1>11
              DEF Next, OwnerFinishes, Sender

\* The inductive invariant holds at the start.
LEMMA CInvInit == Init => CInv
  <1> SUFFICES ASSUME Init PROVE CInv
    OBVIOUS
  <1>1. CTypeOK
    <2>1. <<>> \in Seq(1 .. MaxSend)
      BY EmptySeq
    <2>2. 0 \in 0 .. MaxSend /\ 0 \in 0 .. MaxBreak /\ 0 \in Nat
      BY SendBoundAssumption
    <2> QED  BY <2>1, <2>2 DEF Init, QueueInit, CTypeOK
  <1>2. SocketInv
    BY DEF Init, SocketInv
  <1>3. LengthInv
    BY EmptySeq, QueueSizeAssumption DEF Init, QueueInit, LengthInv
  <1>4. DiscardInv
    BY DEF Init, DiscardInv
  <1> QED  BY <1>1, <1>2, <1>3, <1>4 DEF CInv

\* The inductive invariant holds in every state of TCPSendClient.
LEMMA CInvHolds == Spec => []CInv
  <1>1. CInv /\ [Next]_cvars => CInv'
    BY ClientTypeStep, SocketStep, LengthStep, DiscardStep DEF CInv
  <1> QED  BY <1>1, CInvInit, PTL DEF Spec

\* What the two threads of TCPSendClient keep between them: a queue that is
\* bounded, discards only beyond its bound, and no connect() on a socket in use.
THEOREM ClientCorrect == Spec => []ClientInv
  <1>1. CInv => ClientInv
    <2> SUFFICES ASSUME CInv PROVE ClientInv
      OBVIOUS
    <2>1. QueueBounded
      BY DEF CInv, LengthInv, QueueBounded
    <2>2. ConnectsInvalidSocket
      BY DEF CInv, SocketInv, ConnectsInvalidSocket
    <2>3. DiscardsBounded
      BY DroppedFinite, QueueSizeAssumption
         DEF CInv, CTypeOK, DiscardInv, DiscardsBounded
    <2> QED  BY <2>1, <2>2, <2>3 DEF CInv, ClientInv
  <1> QED  BY <1>1, CInvHolds, PTL
-----------------------------------------------------------------------------
\* A buffer in front of the queue is its head, and the queue its tail.
LEMMA ConsFacts ==
    ASSUME NEW S, NEW x \in S, NEW q \in Seq(S)
    PROVE  /\ <<x>> \o q \in Seq(S)
           /\ <<x>> \o q # <<>>
           /\ Len(<<x>> \o q) = Len(q) + 1
           /\ Head(<<x>> \o q) = x
           /\ Tail(<<x>> \o q) = q
  <1> DEFINE s == <<x>> \o q
  <1>1. <<x>> \in Seq(S) /\ Len(<<x>>) = 1 /\ <<x>>[1] = x
    OBVIOUS
  <1>2. Len(q) \in Nat
    BY LenProperties
  <1>3. /\ s \in Seq(S)
        /\ Len(s) = 1 + Len(q)
        /\ \A i \in 1 .. 1 + Len(q) : s[i] = IF i <= 1 THEN <<x>>[i] ELSE q[i - 1]
    BY <1>1, ConcatProperties
  <1> HIDE DEF s
  <1>4. s # <<>>
    BY <1>2, <1>3, EmptySeq
  <1>5. Head(s) = x
    BY <1>1, <1>2, <1>3, <1>4
  <1>6. /\ Tail(s) \in Seq(S)
        /\ Len(Tail(s)) = Len(q)
        /\ \A i \in 1 .. Len(q) : Tail(s)[i] = s[i + 1]
    BY <1>2, <1>3, <1>4, HeadTailProperties
  <1>7. \A i \in 1 .. Len(q) : Tail(s)[i] = q[i]
    BY <1>2, <1>3, <1>6
  <1>8. Tail(s) = q
    BY <1>6, <1>7, SeqEqual
  <1> QED  BY <1>2, <1>3, <1>4, <1>5, <1>8 DEF s

\* Losing the first buffer leaves the others.
LEMMA LoseFirst ==
    ASSUME NEW S, NEW s \in Seq(S), s # <<>>
    PROVE  1 \in DOMAIN s /\ Fifo!RemoveAt(s, 1) = Tail(s)
  <1>1. Len(s) \in Nat \ {0} /\ DOMAIN s = 1 .. Len(s)
    BY EmptySeq, LenProperties
  <1>2. SubSeq(s, 1, 0) = <<>>
    BY SubSeqEmpty
  <1>3. Tail(s) = SubSeq(s, 2, Len(s)) /\ Tail(s) \in Seq(S)
    BY TailIsSubSeq, HeadTailProperties
  <1>4. Fifo!RemoveAt(s, 1) = <<>> \o Tail(s)
    BY <1>2, <1>3 DEF Fifo!RemoveAt
  <1> QED  BY <1>1, <1>3, <1>4, ConcatEmptySeq

\* Losing the buffer behind the one that is being sent leaves that one.
LEMMA LoseSecond ==
    ASSUME NEW S, NEW x \in S, NEW q \in Seq(S), q # <<>>
    PROVE  LET s == <<x>> \o q
           IN  2 \in DOMAIN s /\ Fifo!RemoveAt(s, 2) = <<x>> \o Tail(q)
  <1> DEFINE s == <<x>> \o q
  <1>1. s \in Seq(S) /\ s # <<>> /\ Len(s) = Len(q) + 1 /\ Head(s) = x /\ Tail(s) = q
    BY ConsFacts
  <1>2. Len(q) \in Nat \ {0} /\ DOMAIN s = 1 .. Len(s)
    BY <1>1, EmptySeq, LenProperties
  <1> HIDE DEF s
  <1>3. SubSeq(s, 1, 1) = <<x>>
    <2>1. SubSeq(s, 1, 1) = <<s[1]>> \o SubSeq(s, 2, 1)
      BY <1>1, <1>2, SubSeqRecursiveFirst
    <2>2. SubSeq(s, 2, 1) = <<>>
      BY SubSeqEmpty
    <2>3. s[1] = x
      BY <1>1
    <2>4. <<x>> \in Seq(S) /\ <<x>> \o <<>> = <<x>>
      BY ConcatEmptySeq
    <2> QED  BY <2>1, <2>2, <2>3, <2>4
  <1>4. SubSeq(s, 3, Len(s)) = Tail(q)
    <2>1. q = SubSeq(s, 2, Len(s))
      BY <1>1, TailIsSubSeq
    <2>2. Tail(SubSeq(s, 2, Len(s))) = SubSeq(s, 3, Len(s))
      BY <1>1, <1>2, HeadTailOfSubSeq
    <2> QED  BY <2>1, <2>2
  <1>5. Fifo!RemoveAt(s, 2) = SubSeq(s, 1, 1) \o SubSeq(s, 3, Len(s))
    BY DEF Fifo!RemoveAt
  <1>6. 2 \in DOMAIN s
    BY <1>1, <1>2
  <1> QED  BY <1>3, <1>4, <1>5, <1>6 DEF s

\* The buffer that is being sent, and the queue behind it.
LEMMA PendingFacts ==
    ASSUME CTypeOK
    PROVE  /\ incoming = 0 => Pending = the_queue
           /\ incoming # 0 => Pending = <<incoming>> \o the_queue /\ incoming \in 1 .. MaxSend
           /\ Pending \in Seq(1 .. MaxSend)
  <1>1. <<>> \o the_queue = the_queue
    BY ConcatEmptySeq DEF CTypeOK
  <1>2. CASE incoming = 0
    BY <1>1, <1>2 DEF Pending, CTypeOK
  <1>3. CASE incoming # 0
    <2>1. incoming \in 1 .. MaxSend
      BY <1>3 DEF CTypeOK
    <2> QED  BY <1>3, <2>1, ConsFacts DEF Pending, CTypeOK
  <1> QED  BY <1>2, <1>3

\* sendall() accepts the buffer it queues.
LEMMA PushAccepts ==
    ASSUME CTypeOK, SendallPush
    PROVE  Fifo!Accept
  <1> DEFINE S == 1 .. MaxSend
  <1>1. sends' = sends + 1 /\ sends' \in S
    BY SendBoundAssumption DEF SendallPush, CTypeOK
  <1>2. /\ the_queue' = Append(the_queue, sends') /\ incoming' = incoming
        /\ received' = received
    BY DEF SendallPush, push, sender
  <1>3. Pending' = Append(Pending, sends')
    <2>1. CASE incoming = 0
      <3>1. Append(the_queue, sends') \in Seq(S)
        BY <1>1, AppendProperties DEF CTypeOK
      <3>2. Pending' = <<>> \o the_queue'
        BY <1>2, <2>1 DEF Pending
      <3>3. Pending' = the_queue'
        BY <1>2, <3>1, <3>2, ConcatEmptySeq
      <3> QED  BY <1>2, <2>1, <3>3, PendingFacts
    <2>2. CASE incoming # 0
      <3>1. <<incoming>> \in Seq(S) /\ <<sends'>> \in Seq(S) /\ the_queue \in Seq(S)
        BY <1>1, <2>2, PendingFacts DEF CTypeOK
      <3>2. Pending' = <<incoming>> \o Append(the_queue, sends')
        BY <1>2, <2>2 DEF Pending
      <3>3. Append(the_queue, sends') = the_queue \o <<sends'>>
        BY <1>1, AppendIsConcat DEF CTypeOK
      <3>4. Append(Pending, sends') = Pending \o <<sends'>>
        BY <1>1, PendingFacts, AppendIsConcat
      <3>5. (<<incoming>> \o the_queue) \o <<sends'>> = <<incoming>> \o (the_queue \o <<sends'>>)
        BY <3>1, ConcatAssociative
      <3> QED  BY <2>2, <3>2, <3>3, <3>4, <3>5, PendingFacts
    <2> QED  BY <2>1, <2>2
  <1> QED  BY <1>1, <1>2, <1>3 DEF Fifo!Accept

\* Taking a buffer from the queue changes nothing for the owner.
LEMMA PopStutters ==
    ASSUME CTypeOK, SocketInv, SenderPop
    PROVE  UNCHANGED Fifo!fvars
  <1>1. the_queue # <<>> /\ the_queue' = Tail(the_queue) /\ incoming' = Head(the_queue)
    BY DEF SenderPop, wait_pop
  <1>2. Pending = the_queue
    BY PendingFacts DEF SenderPop, SocketInv
  <1>3. Pending' = <<Head(the_queue)>> \o Tail(the_queue)
    BY <1>1, QueueFacts DEF Pending
  <1>4. the_queue \in Seq(1 .. MaxSend)
    BY DEF CTypeOK
  <1>5. the_queue = <<Head(the_queue)>> \o Tail(the_queue)
    <2> DEFINE q == the_queue
    <2>1. Len(q) \in Nat \ {0}
      BY <1>1, <1>4, EmptySeq
    <2>2. q = SubSeq(q, 1, Len(q))
      BY <1>4, SubSeqFull
    <2>3. SubSeq(q, 1, Len(q)) = <<q[1]>> \o SubSeq(q, 2, Len(q))
      BY <1>4, <2>1, SubSeqRecursiveFirst
    <2>4. Tail(q) = SubSeq(q, 2, Len(q)) /\ Head(q) = q[1]
      BY <1>1, <1>4, TailIsSubSeq
    <2> QED  BY <2>2, <2>3, <2>4
  <1> QED  BY <1>2, <1>3, <1>5 DEF SenderPop, owner, Fifo!fvars

\* A buffer that is sent is the first of the pending ones: it arrives or is lost.
LEMMA SendDelivers ==
    ASSUME CTypeOK, SocketInv, SenderSend \/ SenderFail
    PROVE  Fifo!Deliver \/ (Fifo!Lose(1) /\ 1 \in DOMAIN Pending)
  <1>1. incoming # 0 /\ incoming' = 0 /\ the_queue' = the_queue /\ sends' = sends
    BY DEF SenderSend, SenderFail, SocketInv, owner, queueVars
  <1>2. /\ Pending # <<>> /\ Head(Pending) = incoming /\ Tail(Pending) = the_queue
        /\ Pending \in Seq(1 .. MaxSend)
    BY <1>1, PendingFacts, ConsFacts DEF CTypeOK
  <1>3. Pending' = the_queue
    BY <1>1, ConcatEmptySeq DEF Pending, CTypeOK
  <1>4. CASE received' = Append(received, incoming)
    BY <1>1, <1>2, <1>3, <1>4 DEF Fifo!Deliver
  <1>5. CASE received' = received
    <2>1. 1 \in DOMAIN Pending /\ Fifo!RemoveAt(Pending, 1) = Tail(Pending)
      BY <1>2, LoseFirst
    <2> QED  BY <1>1, <1>2, <1>3, <1>5, <2>1 DEF Fifo!Lose
  <1> QED  BY <1>4, <1>5 DEF SenderSend, SenderFail

\* What sendall() discards is lost from the front of the queue, which is the
\* second of the pending buffers while the sender thread holds one.
LEMMA DiscardLoses ==
    ASSUME CTypeOK, SendallDiscard
    PROVE  (\E i \in DOMAIN Pending : Fifo!Lose(i)) \/ UNCHANGED Fifo!fvars
  <1>1. /\ incoming' = incoming /\ sends' = sends /\ received' = received
        /\ the_queue' = IF the_queue = <<>> THEN <<>> ELSE Tail(the_queue)
    BY DEF SendallDiscard, try_pop, sender
  <1>2. CASE the_queue = <<>>
    BY <1>1, <1>2 DEF Fifo!fvars, Pending
  <1>3. CASE the_queue # <<>> /\ incoming = 0
    <2>1. Pending' = Tail(Pending)
      <3>1. Pending' = <<>> \o Tail(the_queue)
        BY <1>1, <1>3 DEF Pending
      <3> QED  BY <1>3, <3>1, ConcatEmptySeq, QueueFacts, PendingFacts
    <2>2. 1 \in DOMAIN Pending /\ Fifo!RemoveAt(Pending, 1) = Tail(Pending)
      BY <1>3, LoseFirst, PendingFacts
    <2> QED  BY <1>1, <2>1, <2>2 DEF Fifo!Lose
  <1>4. CASE the_queue # <<>> /\ incoming # 0
    <2>1. Pending' = <<incoming>> \o Tail(the_queue)
      BY <1>1, <1>4 DEF Pending
    <2>2. Pending = <<incoming>> \o the_queue /\ incoming \in 1 .. MaxSend
      BY <1>4, PendingFacts
    <2>3. 2 \in DOMAIN Pending /\ Fifo!RemoveAt(Pending, 2) = Pending'
      BY <1>4, <2>1, <2>2, LoseSecond DEF CTypeOK
    <2> QED  BY <1>1, <2>3 DEF Fifo!Lose
  <1> QED  BY <1>2, <1>3, <1>4

\* Every step of TCPSendClient is a step of LossyFifo, or leaves it alone.
LEMMA StepImplements ==
    ASSUME CTypeOK, SocketInv, [Next]_cvars
    PROVE  [Fifo!Next]_Fifo!fvars
  <1>1. CASE SendallPush
    BY <1>1, PushAccepts DEF Fifo!Next
  <1>2. CASE SendallDiscard
    BY <1>2, DiscardLoses DEF Fifo!Next
  <1>3. CASE SenderPop
    BY <1>3, PopStutters
  <1>4. CASE SenderSend \/ SenderFail
    BY <1>4, SendDelivers DEF Fifo!Next
  <1>5. ASSUME UNCHANGED <<the_queue, incoming, sends, received>>
        PROVE  UNCHANGED Fifo!fvars
    BY <1>5 DEF Fifo!fvars, Pending
  <1>6. CASE SendallNotify \/ SendallSize
    BY <1>5, <1>6 DEF SendallNotify, notify_one, SendallSize, sender, queueVars
  <1>7. CASE DestructorStop \/ DestructorWakeup \/ DestructorNotify \/ DestructorJoin
    BY <1>5, <1>7 DEF DestructorStop, DestructorWakeup, trigger_wakeup, DestructorNotify,
                      notify_one, DestructorJoin, sender, queueVars
  <1>8. CASE SenderLoop \/ SenderConnect
    BY <1>5, <1>8 DEF SenderLoop, SenderConnect, owner, queueVars
  <1>9. CASE SenderSleep \/ SenderWakeup
    BY <1>5, <1>9 DEF SenderSleep, wait_sleep, wait_spurious, SenderWakeup, wait_wakeup,
                      owner, sender
  <1>10. CASE PeerToggle \/ LinkBreaks
    BY <1>5, <1>10 DEF PeerToggle, LinkBreaks, owner, sender, queueVars
  <1>11. CASE UNCHANGED cvars
    BY <1>5, <1>11 DEF cvars, owner, sender, queueVars
  <1> QED  BY <1>1, <1>2, <1>3, <1>4, <1>6, <1>7, <1>8, <1>9, <1>10, <1>11
              DEF Next, OwnerFinishes, Sender

\* TCPSendClient delivers the buffers of sendall() in their order, none twice, and
\* loses only such as are pending, through every reconnect and discard.
THEOREM ClientImplementsFifo == Spec => ImplementsLossyFifo
  <1>1. Init => Fifo!Init
    BY ConcatEmptySeq, EmptySeq DEF Init, QueueInit, Fifo!Init, Pending
  <1>2. CInv /\ [Next]_cvars => [Fifo!Next]_Fifo!fvars
    BY StepImplements DEF CInv
  <1> QED  BY <1>1, <1>2, CInvHolds, PTL DEF Spec, ImplementsLossyFifo, Fifo!Spec
-----------------------------------------------------------------------------
\* What the promise of LossyFifo comes to: the peer receives the buffers in the
\* order in which sendall() was called with them, and none of them twice.
ReceivedInOrder ==
    \A i, j \in 1 .. Len(received) : i < j => received[i] < received[j]

\* Of n buffers accepted, those delivered (d) and then those pending (p) are in
\* order.
Ordered(n, p, d) ==
    /\ n \in Nat /\ p \in Seq(Nat) /\ d \in Seq(Nat)
    /\ \A i, j \in 1 .. Len(d) : i < j => d[i] < d[j]
    /\ \A i, j \in 1 .. Len(p) : i < j => p[i] < p[j]
    /\ \A i \in 1 .. Len(d), j \in 1 .. Len(p) : d[i] < p[j]
    /\ \A i \in 1 .. Len(p) : p[i] <= n
    /\ \A i \in 1 .. Len(d) : d[i] <= n

\* The buffers that are left when one is lost, and where they were before.
LEMMA RemoveAtFacts ==
    ASSUME NEW S, NEW s \in Seq(S), NEW k \in 1 .. Len(s)
    PROVE  LET r == Fifo!RemoveAt(s, k)
           IN  /\ r \in Seq(S)
               /\ Len(r) = Len(s) - 1
               /\ \A i \in 1 .. Len(s) - 1 : r[i] = IF i < k THEN s[i] ELSE s[i + 1]
  <1> DEFINE a == SubSeq(s, 1, k - 1)
             b == SubSeq(s, k + 1, Len(s))
  <1>1. Len(s) \in Nat /\ \A i \in 1 .. Len(s) : s[i] \in S
    BY LenProperties, ElementOfSeq
  <1>2. \A i \in 1 .. k - 1 : s[i] \in S
    BY <1>1
  <1>3. /\ a \in Seq(S) /\ Len(a) = k - 1
        /\ \A i \in 1 .. k - 1 : a[i] = s[i]
    <2>1. /\ a \in Seq(S)
          /\ Len(a) = IF 1 <= k - 1 THEN (k - 1) - 1 + 1 ELSE 0
          /\ \A i \in 1 .. (k - 1) - 1 + 1 : a[i] = s[1 + i - 1]
      BY <1>1, <1>2, SubSeqProperties
    <2> QED  BY <1>1, <2>1
  <1>4. \A i \in k + 1 .. Len(s) : s[i] \in S
    BY <1>1
  <1>5. /\ b \in Seq(S) /\ Len(b) = Len(s) - k
        /\ \A i \in 1 .. Len(s) - k : b[i] = s[k + i]
    <2>1. /\ b \in Seq(S)
          /\ Len(b) = IF k + 1 <= Len(s) THEN Len(s) - (k + 1) + 1 ELSE 0
          /\ \A i \in 1 .. Len(s) - (k + 1) + 1 : b[i] = s[(k + 1) + i - 1]
      BY <1>1, <1>4, SubSeqProperties
    <2> QED  BY <1>1, <2>1
  <1>6. Fifo!RemoveAt(s, k) = a \o b
    BY DEF Fifo!RemoveAt
  <1> HIDE DEF a, b
  <1>7. /\ a \o b \in Seq(S)
        /\ Len(a \o b) = Len(a) + Len(b)
        /\ \A i \in 1 .. Len(a) + Len(b) : (a \o b)[i] = IF i <= Len(a) THEN a[i]
                                                        ELSE b[i - Len(a)]
    BY <1>3, <1>5, ConcatProperties
  <1>8. ASSUME NEW i \in 1 .. Len(s) - 1
        PROVE  (a \o b)[i] = IF i < k THEN s[i] ELSE s[i + 1]
    <2>1. CASE i < k
      <3>1. i \in 1 .. k - 1 /\ i \in 1 .. Len(a) + Len(b) /\ i <= Len(a)
        BY <1>1, <1>3, <1>5, <2>1
      <3>2. (a \o b)[i] = a[i] /\ a[i] = s[i]
        BY <1>3, <1>7, <3>1
      <3> QED  BY <2>1, <3>2
    <2>2. CASE ~(i < k)
      <3>1. /\ i - Len(a) \in 1 .. Len(s) - k /\ i \in 1 .. Len(a) + Len(b)
            /\ ~(i <= Len(a)) /\ k + (i - Len(a)) = i + 1
        BY <1>1, <1>3, <1>5, <2>2
      <3>2. (a \o b)[i] = b[i - Len(a)] /\ b[i - Len(a)] = s[k + (i - Len(a))]
        BY <1>5, <1>7, <3>1
      <3> QED  BY <2>2, <3>1, <3>2
    <2> QED  BY <2>1, <2>2
  <1> QED  BY <1>1, <1>3, <1>5, <1>6, <1>7, <1>8

\* The lengths and members of sequences that are in order are numbers.
LEMMA OrderedTypes ==
    ASSUME NEW n, NEW p, NEW d, Ordered(n, p, d)
    PROVE  /\ Len(p) \in Nat /\ Len(d) \in Nat
           /\ \A i \in 1 .. Len(p) : p[i] \in Nat
           /\ \A i \in 1 .. Len(d) : d[i] \in Nat
  BY LenProperties, ElementOfSeq DEF Ordered

\* A buffer that is accepted comes last.
LEMMA AcceptOrdered ==
    ASSUME NEW n, NEW p, NEW d, Ordered(n, p, d)
    PROVE  Ordered(n + 1, Append(p, n + 1), d)
  <1> DEFINE q == Append(p, n + 1)
  <1>1. n \in Nat /\ n + 1 \in Nat
    BY DEF Ordered
  <1>2. /\ q \in Seq(Nat)
        /\ Len(q) = Len(p) + 1
        /\ \A i \in 1 .. Len(p) : q[i] = p[i]
        /\ q[Len(p) + 1] = n + 1
    BY <1>1, AppendProperties DEF Ordered
  <1> HIDE DEF q
  <1>3. \A i \in 1 .. Len(q) : q[i] \in Nat /\ q[i] <= n + 1
    <2> SUFFICES ASSUME NEW i \in 1 .. Len(q)
                 PROVE  q[i] \in Nat /\ q[i] <= n + 1
      OBVIOUS
    <2>1. CASE i \in 1 .. Len(p)
      <3>1. q[i] = p[i] /\ p[i] \in Nat /\ p[i] <= n
        BY <1>2, <2>1, OrderedTypes DEF Ordered
      <3> QED  BY <1>1, <3>1
    <2>2. CASE i = Len(p) + 1
      BY <1>1, <1>2, <2>2
    <2> QED  BY <1>2, <2>1, <2>2, OrderedTypes
  <1>4. ASSUME NEW i \in 1 .. Len(q), NEW j \in 1 .. Len(q), i < j
        PROVE  q[i] < q[j]
    <2>1. i \in 1 .. Len(p) /\ q[i] = p[i] /\ p[i] \in Nat /\ p[i] <= n
      BY <1>2, <1>4, OrderedTypes DEF Ordered
    <2>2. CASE j \in 1 .. Len(p)
      BY <1>2, <1>4, <2>1, <2>2 DEF Ordered
    <2>3. CASE j = Len(p) + 1
      BY <1>1, <1>2, <2>1, <2>3
    <2> QED  BY <1>2, <2>2, <2>3, OrderedTypes
  <1>5. ASSUME NEW i \in 1 .. Len(d), NEW j \in 1 .. Len(q)
        PROVE  d[i] < q[j]
    <2>1. CASE j \in 1 .. Len(p)
      BY <1>2, <2>1 DEF Ordered
    <2>2. CASE j = Len(p) + 1
      BY <1>1, <1>2, <2>2, OrderedTypes DEF Ordered
    <2> QED  BY <1>2, <2>1, <2>2, OrderedTypes
  <1>6. \A i \in 1 .. Len(d) : d[i] <= n + 1
    BY <1>1, OrderedTypes DEF Ordered
  <1>7. d \in Seq(Nat) /\ \A i, j \in 1 .. Len(d) : i < j => d[i] < d[j]
    BY DEF Ordered
  <1>8. Ordered(n + 1, q, d)
    BY <1>1, <1>2, <1>3, <1>4, <1>5, <1>6, <1>7 DEF Ordered
  <1> QED  BY <1>8 DEF q

\* The first pending buffer follows those delivered.
LEMMA DeliverOrdered ==
    ASSUME NEW n, NEW p, NEW d, Ordered(n, p, d), p # <<>>
    PROVE  Ordered(n, Tail(p), Append(d, Head(p)))
  <1> DEFINE q == Tail(p)
             e == Append(d, Head(p))
  <1>1. n \in Nat /\ p \in Seq(Nat) /\ d \in Seq(Nat)
    BY DEF Ordered
  <1>2. Len(p) \in Nat \ {0} /\ Head(p) = p[1] /\ p[1] \in Nat /\ p[1] <= n
    BY <1>1, EmptySeq, OrderedTypes DEF Ordered
  <1>3. /\ q \in Seq(Nat)
        /\ Len(q) = Len(p) - 1
        /\ \A i \in 1 .. Len(q) : q[i] = p[i + 1]
    BY <1>1, HeadTailProperties
  <1>4. /\ e \in Seq(Nat)
        /\ Len(e) = Len(d) + 1
        /\ \A i \in 1 .. Len(d) : e[i] = d[i]
        /\ e[Len(d) + 1] = p[1]
    BY <1>1, <1>2, AppendProperties
  <1> HIDE DEF q, e
  <1>5. \A i \in 1 .. Len(q) : i + 1 \in 1 .. Len(p) /\ q[i] = p[i + 1]
    BY <1>2, <1>3
  <1>6. ASSUME NEW i \in 1 .. Len(e)
        PROVE  \/ i \in 1 .. Len(d) /\ e[i] = d[i]
               \/ i = Len(d) + 1 /\ e[i] = p[1]
    BY <1>4, OrderedTypes
  <1>7. ASSUME NEW i \in 1 .. Len(q), NEW j \in 1 .. Len(q), i < j
        PROVE  q[i] < q[j]
    <2>1. i + 1 < j + 1
      BY <1>3, <1>7
    <2> QED  BY <1>5, <2>1 DEF Ordered
  <1>8. ASSUME NEW i \in 1 .. Len(q)
        PROVE  q[i] <= n /\ p[1] < q[i]
    <2>1. 1 < i + 1 /\ 1 \in 1 .. Len(p)
      BY <1>2, <1>3
    <2> QED  BY <1>5, <2>1 DEF Ordered
  <1>9. ASSUME NEW i \in 1 .. Len(e), NEW j \in 1 .. Len(e), i < j
        PROVE  e[i] < e[j]
    <2>1. i \in 1 .. Len(d) /\ e[i] = d[i] /\ 1 \in 1 .. Len(p)
      BY <1>2, <1>4, <1>6, <1>9, OrderedTypes
    <2> QED  BY <1>6, <1>9, <2>1 DEF Ordered
  <1>10. ASSUME NEW i \in 1 .. Len(e), NEW j \in 1 .. Len(q)
         PROVE  e[i] < q[j]
    BY <1>5, <1>6, <1>8 DEF Ordered
  <1>11. \A i \in 1 .. Len(e) : e[i] <= n
    BY <1>2, <1>6 DEF Ordered
  <1>12. Ordered(n, q, e)
    BY <1>1, <1>3, <1>4, <1>7, <1>8, <1>9, <1>10, <1>11 DEF Ordered
  <1> QED  BY <1>12 DEF q, e

\* The buffers that are left when one is lost are in order.
LEMMA LoseOrdered ==
    ASSUME NEW n, NEW p, NEW d, Ordered(n, p, d), NEW k \in 1 .. Len(p)
    PROVE  Ordered(n, Fifo!RemoveAt(p, k), d)
  <1> DEFINE q == Fifo!RemoveAt(p, k)
             at(i) == IF i < k THEN i ELSE i + 1
  <1>1. Len(p) \in Nat /\ p \in Seq(Nat)
    BY OrderedTypes DEF Ordered
  <1>2. /\ q \in Seq(Nat)
        /\ Len(q) = Len(p) - 1
        /\ \A i \in 1 .. Len(p) - 1 : q[i] = IF i < k THEN p[i] ELSE p[i + 1]
    BY <1>1, RemoveAtFacts
  <1> HIDE DEF q
  <1>9. Len(q) = Len(p) - 1 /\ Len(p) \in Nat
    BY <1>1, <1>2
  <1>3. ASSUME NEW i \in 1 .. Len(q)
        PROVE  at(i) \in 1 .. Len(p) /\ q[i] = p[at(i)]
    <2>3. i \in 1 .. Len(p) - 1
      BY <1>9
    <2>4. i \in 1 .. Len(p) /\ i + 1 \in 1 .. Len(p)
      BY <1>9, <2>3
    <2>1. at(i) \in 1 .. Len(p) /\ i \in 1 .. Len(p) - 1
      BY ONLY <2>3, <2>4
    <2>2. q[i] = IF i < k THEN p[i] ELSE p[i + 1]
      BY <1>2, <2>1
    <2> QED  BY <2>1, <2>2
  <1>4. ASSUME NEW i \in 1 .. Len(q), NEW j \in 1 .. Len(q), i < j
        PROVE  at(i) < at(j)
    BY <1>9, <1>4
  <1> HIDE DEF at
  <1>5. \A i, j \in 1 .. Len(q) : i < j => q[i] < q[j]
    BY <1>3, <1>4 DEF Ordered
  <1>6. \A i \in 1 .. Len(d), j \in 1 .. Len(q) : d[i] < q[j]
    BY <1>3 DEF Ordered
  <1>7. \A i \in 1 .. Len(q) : q[i] <= n
    BY <1>3 DEF Ordered
  <1>8. Ordered(n, q, d)
    BY <1>2, <1>5, <1>6, <1>7 DEF Ordered
  <1> QED  BY <1>8 DEF q

\* The buffers of the client: those of sendall(), pending and received, in order.
OrderInv == Ordered(sends, Pending, received)

\* Each step of LossyFifo keeps the buffers in order.
LEMMA OrderStep ==
    ASSUME OrderInv, [Fifo!Next]_Fifo!fvars
    PROVE  OrderInv'
  <1>1. CASE Fifo!Accept
    BY <1>1, AcceptOrdered DEF Fifo!Accept, OrderInv
  <1>2. CASE Fifo!Deliver
    BY <1>2, DeliverOrdered DEF Fifo!Deliver, OrderInv
  <1>3. ASSUME NEW k \in DOMAIN Pending, Fifo!Lose(k)
        PROVE  OrderInv'
    <2>1. k \in 1 .. Len(Pending)
      BY LenProperties DEF OrderInv, Ordered
    <2> QED  BY <1>3, <2>1, LoseOrdered DEF Fifo!Lose, OrderInv
  <1>4. CASE UNCHANGED Fifo!fvars
    BY <1>4 DEF Fifo!fvars, OrderInv
  <1> QED  BY <1>1, <1>2, <1>3, <1>4 DEF Fifo!Next

\* The peer receives the buffers in the order of the calls of sendall(), and none
\* of them twice, however often the connection breaks and is opened again.
THEOREM PeerReceivesInOrder == Spec => []ReceivedInOrder
  <1>1. Fifo!Init => OrderInv
    BY EmptySeq DEF Fifo!Init, OrderInv, Ordered
  <1>2. OrderInv /\ [Fifo!Next]_Fifo!fvars => OrderInv'
    BY OrderStep
  <1>3. OrderInv => ReceivedInOrder
    BY DEF OrderInv, Ordered, ReceivedInOrder
  <1> QED  BY <1>1, <1>2, <1>3, ClientImplementsFifo, PTL
           DEF ImplementsLossyFifo, Fifo!Spec
=============================================================================
