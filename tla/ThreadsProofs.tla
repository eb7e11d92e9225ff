----------------------------- MODULE ThreadsProofs -----------------------------
(***************************************************************************)
(* Proofs about the classes that own a thread and a queue, besides          *)
(* TCPSendClient: the streams that TCPDataDispatcher sends to its clients,  *)
(* the messages that TCPReceiveServer gives its owner and what the Logger   *)
(* writes, for every number of clients, buffers, blocks, messages and       *)
(* backends.                                                                *)
(***************************************************************************)
EXTENDS TCPDataDispatcher, TCPReceiveServer, Logger, Integers, SequenceTheorems, TLAPS

-----------------------------------------------------------------------------
(* TCPDataDispatcher *)

OwnerType ==
    /\ joining \in {0} \cup Client
    /\ writes \in Nat
    /\ preroll \in Seq(Nat)

ListenerType ==
    /\ clients \in 0 .. MaxClient
    /\ connections \subseteq Client

ConnType ==
    /\ queue \in [Client -> Seq(Nat)]
    /\ data \in [Client -> Nat]
    /\ got \in [Client -> Seq(Nat)]
    /\ first \in [Client -> Nat]
    /\ cpc \in [Client -> {"none", "loop", "pop", "send", "blocked", "done"}]

RunType == running \in [Client -> BOOLEAN]

\* The number of the last buffer that is in the queues of the clients.
Pushed == IF dpc = "locked" THEN writes - 1 ELSE writes

\* A sequence of consecutive numbers that ends with last.
EndsWith(s, last) == \A k \in 1 .. Len(s) : s[k] = (last - Len(s)) + k

\* The preroll is the end of what has been written.
PrerollInv ==
    /\ Len(preroll) <= Preroll
    /\ Len(preroll) <= writes
    /\ EndsWith(preroll, writes)
    /\ dpc = "locked" => writes > 0

\* The clients that have no thread yet; the thread has a buffer only to send it;
\* what runs is in the list and is not being destroyed.
LifeInv ==
    /\ lpc = "emplace" => clients \in Client
    /\ joining # 0 => joining \in connections
    /\ \A c \in Client :
        /\ c > clients \/ (c = clients /\ lpc = "emplace") => cpc[c] = "none"
        /\ cpc[c] = "none" => c \notin connections /\ got[c] = <<>> /\ ~running[c]
        /\ cpc[c] \notin {"send", "blocked"} => data[c] = End
        /\ cpc[c] \in {"send", "blocked"} => data[c] # End
        /\ running[c] => c \in connections /\ c # joining

InFlight(c) == IF data[c] = End THEN 0 ELSE 1

\* What a running connection has received, is being sent and has in its queue
\* are consecutive numbers, from first to Pushed.  A ::send() that blocks may end
\* when the connection does not run any more.
StreamOf(c) ==
    /\ data[c] # End => data[c] = first[c] + Len(got[c])
    /\ EndsWith(queue[c], Pushed)
    /\ first[c] + Len(got[c]) + InFlight(c) + Len(queue[c]) = Pushed + 1

StreamInv ==
    \A c \in Client : cpc[c] # "none" =>
        /\ first[c] > 0
        /\ \A k \in 1 .. Len(got[c]) : got[c][k] = first[c] + k - 1
        /\ cpc[c] = "blocked" => data[c] = first[c] + Len(got[c])
        /\ running[c] => StreamOf(c)

\* When m_running is false before the destructor begins, the message is there.
ThrowInv ==
    /\ dpc \in {"idle", "locked", "remove", "threw"} /\ ~dRunning => exceptionData
    /\ dpc = "threw" => exceptionData
    /\ lpc = "caught" => exceptionData

\* The inductive invariant.
DInv ==
    /\ OwnerType /\ ListenerType /\ ConnType /\ RunType
    /\ PrerollInv /\ LifeInv /\ StreamInv /\ QueuesBounded /\ ThrowInv

\* Steps that change neither a connection nor what has been written; what the
\* listener does in them.
Quiet ==
    /\ UNCHANGED <<joining, writes, preroll, connections, queue, running, cpc, data, first, got>>
    /\ dpc' = dpc \/ (dpc # "locked" /\ dpc' # "locked")

ListenerMoves ==
    \/ UNCHANGED <<lpc, clients>>
    \/ lpc = "accept" /\ clients < MaxClient /\ clients' = clients + 1 /\ lpc' = "emplace"
    \/ lpc # "emplace" /\ lpc' # "emplace" /\ UNCHANGED clients

\* The owner begins to destroy the connection c.
Stop(c) ==
    /\ dpc \in {"remove", "clear", "members"} /\ UNCHANGED dpc
    /\ joining = 0 /\ c \in connections
    /\ StopConnection(c)
    /\ UNCHANGED <<writes, preroll, connections, cpc, data, first, got, lpc, clients>>

\* The steps, by what they do to the connections.
LEMMA DispatcherSteps ==
    ASSUME [DNext]_dvars
    PROVE  \/ Quiet /\ ListenerMoves
           \/ WriteLock \/ WritePush \/ JoinConnection \/ Emplace
           \/ \E c \in Client : Stop(c)
           \/ \E c \in Client : Connection(c)
<1> USE DEF dOwner, listener, conns, net
<1>1. CASE WriteThrows
  BY <1>1 DEF WriteThrows, Quiet, ListenerMoves
<1>2. CASE DestructorBegin
  BY <1>2 DEF DestructorBegin, Quiet, ListenerMoves
<1>3. CASE WriteDone
  BY <1>3 DEF WriteDone, Quiet, ListenerMoves
<1>4. CASE \E c \in Client : WriteRemove(c) \/ ClearConnection(c)
  BY <1>4 DEF WriteRemove, ClearConnection, Overflowed, Stop
<1>5. CASE ClearDone
  BY <1>5 DEF ClearDone, Quiet, ListenerMoves
<1>6. CASE DestructorListener
  BY <1>6 DEF DestructorListener, Quiet, ListenerMoves
<1>7. CASE Accept
  BY <1>7 DEF Accept, Quiet, ListenerMoves
<1>8. CASE AcceptFails
  BY <1>8 DEF AcceptFails, Quiet, ListenerMoves
<1>9. CASE AcceptStops
  BY <1>9 DEF AcceptStops, Quiet, ListenerMoves
<1>10. CASE EmplaceInClear
  BY <1>10 DEF EmplaceInClear, Quiet, ListenerMoves
<1>11. CASE Catch
  BY <1>11 DEF Catch, Quiet, ListenerMoves
<1>12. CASE Caught
  BY <1>12 DEF Caught, Quiet, ListenerMoves
<1>13. CASE \E c \in Client : ClientChanges(c)
  BY <1>13 DEF ClientChanges, Quiet, ListenerMoves
<1>14. CASE UNCHANGED dvars
  BY <1>14 DEF dvars, Quiet, ListenerMoves
<1> QED
  BY <1>1, <1>2, <1>3, <1>4, <1>5, <1>6, <1>7, <1>8, <1>9, <1>10, <1>11, <1>12, <1>13, <1>14
  DEF DNext, DOwner, Listener

\* Consecutive numbers stay so when the next one is appended.
LEMMA EndsWithAppend ==
    ASSUME NEW s \in Seq(Nat), NEW last \in Int, EndsWith(s, last)
    PROVE  EndsWith(Append(s, last + 1), last + 1)
<1> DEFINE t == Append(s, last + 1)
<1>1. Len(t) = Len(s) + 1 /\ Len(s) \in Nat /\ t[Len(s) + 1] = last + 1
      /\ \A k \in 1 .. Len(s) : t[k] = s[k]
  BY AppendProperties, LenProperties
<1> HIDE DEF t
<1>2. ASSUME NEW k \in 1 .. Len(t) PROVE t[k] = ((last + 1) - Len(t)) + k
  <2>1. CASE k = Len(s) + 1
    BY <1>1, <2>1
  <2>2. CASE k # Len(s) + 1
    BY <1>1, <2>2 DEF EndsWith
  <2> QED
    BY <2>1, <2>2
<1> QED
  BY <1>2 DEF EndsWith, t

\* Consecutive numbers stay so when the first one is taken.
LEMMA EndsWithTail ==
    ASSUME NEW s \in Seq(Nat), s # <<>>, NEW last \in Int, EndsWith(s, last)
    PROVE  EndsWith(Tail(s), last)
<1> DEFINE t == Tail(s)
<1>1. Len(t) = Len(s) - 1 /\ Len(s) \in Nat \ {0} /\ \A k \in 1 .. Len(t) : t[k] = s[k + 1]
  BY HeadTailProperties, EmptySeq, LenProperties
<1> HIDE DEF t
<1>2. ASSUME NEW k \in 1 .. Len(t) PROVE t[k] = (last - Len(t)) + k
  BY <1>1 DEF EndsWith
<1> QED
  BY <1>2 DEF EndsWith, t

\* start() gives the first state.
LEMMA DispatcherInit == DInit => DInv
<1> SUFFICES ASSUME DInit PROVE DInv
  OBVIOUS
<1> USE DispatcherAssumption DEF DInit, End
<1>1. OwnerType /\ ListenerType
  BY EmptySeq DEF OwnerType, ListenerType
<1>2. ConnType /\ RunType
  BY EmptySeq DEF ConnType, RunType
<1>3. PrerollInv /\ ThrowInv /\ QueuesBounded
  BY DEF PrerollInv, EndsWith, ThrowInv, QueuesBounded
<1>4. LifeInv
  BY DEF LifeInv
<1>5. StreamInv
  BY DEF StreamInv
<1> QED
  BY <1>1, <1>2, <1>3, <1>4, <1>5 DEF DInv

\* The variables keep their types.
LEMMA DispatcherTypes ==
    ASSUME DInv, [DNext]_dvars
    PROVE  OwnerType' /\ ListenerType' /\ ConnType' /\ RunType'
<1>0. OwnerType /\ ListenerType /\ ConnType /\ RunType /\ LifeInv /\ PrerollInv
  BY DEF DInv
<1> USE DispatcherAssumption DEF OwnerType, ListenerType
<1>1. CASE Quiet /\ ListenerMoves
  BY <1>0, <1>1 DEF Quiet, ListenerMoves, ConnType, RunType
<1>2. CASE WriteLock
  <2>1. preroll' \in Seq(Nat)
    <3>1. writes' \in Nat
      BY <1>0, <1>2 DEF WriteLock
    <3> DEFINE p == Append(preroll, writes')
    <3>2. p \in Seq(Nat) /\ p # <<>>
      BY <1>0, <3>1, AppendProperties
    <3>3. Tail(p) \in Seq(Nat)
      BY <3>2, HeadTailProperties
    <3>4. preroll' \in {preroll, p, Tail(p)}
      BY <1>2 DEF WriteLock
    <3> QED
      BY <1>0, <3>2, <3>3, <3>4
  <2>2. UNCHANGED <<joining, clients, connections, queue, running, cpc, data, first, got>> /\ writes' = writes + 1
    BY <1>2 DEF WriteLock, listener, conns, net
  <2>3. ConnType' /\ RunType'
    BY <1>0, <2>2 DEF ConnType, RunType
  <2> QED
    BY <1>0, <2>1, <2>2, <2>3
<1>3. CASE WritePush
  <2>1. queue' \in [Client -> Seq(Nat)]
    <3>1. \A c \in Client : Append(queue[c], writes) \in Seq(Nat) /\ queue[c] \in Seq(Nat)
      BY <1>0, AppendProperties DEF ConnType
    <3> QED
      BY <1>3, <3>1 DEF WritePush
  <2> QED
    BY <1>0, <1>3, <2>1 DEF WritePush, ConnType, RunType, listener, net
<1>4. CASE JoinConnection
  BY <1>0, <1>4 DEF JoinConnection, ConnType, RunType, listener, net
<1>5. ASSUME NEW c \in Client, Stop(c)
      PROVE  OwnerType' /\ ListenerType' /\ ConnType' /\ RunType'
  <2>1. Append(queue[c], End) \in Seq(Nat)
    BY <1>0, AppendProperties DEF ConnType, End
  <2>2. queue' \in [Client -> Seq(Nat)] /\ joining' \in {0} \cup Client
    BY <1>0, <1>5, <2>1 DEF Stop, StopConnection, ConnType
  <2>3. running' \in [Client -> BOOLEAN]
    BY <1>0, <1>5 DEF Stop, StopConnection, RunType
  <2> QED
    BY <1>0, <1>5, <2>2, <2>3 DEF Stop, ConnType, RunType
<1>6. CASE Emplace
  <2>1. clients \in Client /\ AddConnection(clients)
    BY <1>0, <1>6 DEF Emplace, LifeInv
  <2>2. queue' \in [Client -> Seq(Nat)]
    BY <1>0, <2>1 DEF AddConnection, ConnType
  <2>3. (writes + 1) - Len(preroll) \in Nat
    BY <1>0, LenProperties DEF PrerollInv
  <2>4. first' \in [Client -> Nat]
    BY <1>0, <2>1, <2>3 DEF AddConnection, ConnType
  <2>5. cpc' \in [Client -> {"none", "loop", "pop", "send", "blocked", "done"}]
    BY <1>0, <2>1 DEF AddConnection, ConnType
  <2>6. running' \in [Client -> BOOLEAN]
    BY <1>0, <2>1 DEF AddConnection, RunType
  <2> QED
    BY <1>0, <2>1, <2>2, <2>4, <2>5, <2>6 DEF AddConnection, ConnType, RunType, dOwner, net
<1>7. ASSUME NEW c \in Client, Connection(c)
      PROVE  OwnerType' /\ ListenerType' /\ ConnType' /\ RunType'
  <2>0. UNCHANGED <<joining, writes, preroll, clients, connections, first>>
    BY <1>7 DEF Connection, ConnectionLoop, ConnectionPop, ConnectionSend, ConnectionBlocks, ConnectionResumes,
                ConnectionAbandons,
                ConnectionFails, dOwner, listener
  <2>1. cpc' \in [Client -> {"none", "loop", "pop", "send", "blocked", "done"}]
    BY <1>0, <1>7 DEF Connection, ConnectionLoop, ConnectionPop, ConnectionSend, ConnectionBlocks, ConnectionResumes,
                ConnectionAbandons,
                      ConnectionFails, Become, ConnType
  <2>2. running' \in [Client -> BOOLEAN]
    BY <1>0, <1>7 DEF Connection, ConnectionLoop, ConnectionPop, ConnectionSend, ConnectionBlocks, ConnectionResumes,
                ConnectionAbandons,
                      ConnectionFails, RunType
  <2>3. queue' \in [Client -> Seq(Nat)] /\ data' \in [Client -> Nat] /\ got' \in [Client -> Seq(Nat)]
    <3> USE DEF ConnType, net, End
    <3>1. CASE ConnectionPop(c)
      <4>1. Head(queue[c]) \in Nat /\ Tail(queue[c]) \in Seq(Nat)
        BY <1>0, <3>1, HeadTailProperties DEF ConnectionPop
      <4> QED
        BY <1>0, <3>1, <4>1 DEF ConnectionPop
    <3>2. CASE ConnectionSend(c) \/ ConnectionResumes(c)
      <4>1. Append(got[c], data[c]) \in Seq(Nat)
        BY <1>0, AppendProperties
      <4>2. /\ UNCHANGED queue
            /\ got' = [got EXCEPT ![c] = Append(got[c], data[c])]
            /\ data' = [data EXCEPT ![c] = End]
        BY <3>2 DEF ConnectionSend, ConnectionResumes
      <4> QED
        BY <1>0, <4>1, <4>2
    <3>6. CASE ConnectionBlocks(c)
      BY <1>0, <3>6 DEF ConnectionBlocks
    <3>3. CASE ConnectionLoop(c)
      BY <1>0, <3>3 DEF ConnectionLoop
    <3>4. CASE ConnectionAbandons(c)
      BY <1>0, <3>4 DEF ConnectionAbandons
    <3>5. CASE ConnectionFails(c)
      BY <1>0, <3>5 DEF ConnectionFails
    <3> QED
      BY <1>7, <3>1, <3>2, <3>3, <3>4, <3>5, <3>6 DEF Connection
  <2> QED
    BY <1>0, <2>0, <2>1, <2>2, <2>3 DEF ConnType, RunType
<1> QED
  BY <1>1, <1>2, <1>3, <1>4, <1>5, <1>6, <1>7, DispatcherSteps

\* write() keeps the preroll; nothing else changes it.
LEMMA PrerollStep ==
    ASSUME DInv, [DNext]_dvars
    PROVE  PrerollInv'
<1>0. PrerollInv /\ writes \in Nat /\ preroll \in Seq(Nat) /\ Len(preroll) \in Nat /\ Preroll \in Nat
  BY DispatcherAssumption, LenProperties DEF DInv, OwnerType
<1>1. CASE WriteLock
  <2>1. writes' = writes + 1 /\ EndsWith(preroll, writes)
    BY <1>0, <1>1 DEF WriteLock, PrerollInv
  <2>2. CASE Preroll = 0
    <3>1. preroll' = preroll /\ Len(preroll) = 0
      BY <1>0, <1>1, <2>2 DEF WriteLock, PrerollInv
    <3> QED
      BY <1>0, <2>1, <3>1 DEF PrerollInv, EndsWith
  <2>3. CASE Preroll # 0
    <3> DEFINE p == Append(preroll, writes + 1)
    <3>1. p \in Seq(Nat) /\ p # <<>> /\ Len(p) = Len(preroll) + 1
      BY <1>0, AppendProperties
    <3>2. EndsWith(p, writes + 1)
      BY <1>0, <2>1, EndsWithAppend
    <3>3. preroll' = IF Len(p) > Preroll THEN Tail(p) ELSE p
      BY <1>1, <2>1, <2>3 DEF WriteLock
    <3> HIDE DEF p
    <3>7. Len(Tail(p)) = Len(p) - 1
      BY <3>1, HeadTailProperties
    <3>8. writes + 1 \in Int
      BY <1>0
    <3>9. EndsWith(Tail(p), writes + 1)
      BY ONLY <3>1, <3>2, <3>8, EndsWithTail
    <3>4. EndsWith(Tail(p), writes + 1) /\ Len(Tail(p)) = Len(p) - 1
      BY <3>7, <3>9
    <3>5. CASE Len(p) > Preroll
      BY <1>0, <2>1, <3>1, <3>3, <3>4, <3>5 DEF PrerollInv
    <3>6. CASE ~(Len(p) > Preroll)
      BY <1>0, <2>1, <3>1, <3>2, <3>3, <3>6 DEF PrerollInv
    <3> QED
      BY <3>5, <3>6
  <2> QED
    BY <2>2, <2>3
<1>2. CASE UNCHANGED <<writes, preroll>> /\ (dpc' = "locked" => dpc = "locked")
  BY <1>0, <1>2 DEF PrerollInv
<1>3. ASSUME NEW c \in Client, Connection(c)
      PROVE  UNCHANGED <<writes, preroll, dpc>>
  BY <1>3 DEF Connection, ConnectionLoop, ConnectionPop, ConnectionSend, ConnectionBlocks, ConnectionResumes,
                ConnectionAbandons,
              ConnectionFails, dOwner
<1>4. Quiet \/ WritePush \/ JoinConnection \/ Emplace \/ (\E c \in Client : Stop(c))
        => UNCHANGED <<writes, preroll>> /\ (dpc' = "locked" => dpc = "locked")
  BY DEF Quiet, WritePush, JoinConnection, Emplace, AddConnection, Stop, dOwner
<1> QED
  BY <1>1, <1>2, <1>3, <1>4, DispatcherSteps

\* What LifeInv says of the client c.
LifeOf(c) ==
    /\ c > clients \/ (c = clients /\ lpc = "emplace") => cpc[c] = "none"
    /\ cpc[c] = "none" => c \notin connections /\ got[c] = <<>> /\ ~running[c]
    /\ cpc[c] \notin {"send", "blocked"} => data[c] = End
    /\ cpc[c] \in {"send", "blocked"} => data[c] # End
    /\ running[c] => c \in connections /\ c # joining

\* Threads and connections begin and end together.
LEMMA LifeStep ==
    ASSUME DInv, [DNext]_dvars
    PROVE  LifeInv'
<1>0. OwnerType /\ ListenerType /\ ConnType /\ RunType /\ LifeInv /\ StreamInv
  BY DEF DInv
<1>a. MaxClient \in Nat /\ Client = 1 .. MaxClient
  BY DispatcherAssumption DEF Client
<1>b. \A c \in Client : LifeOf(c)
  BY <1>0 DEF LifeInv, LifeOf
<1>c. (lpc = "emplace" => clients \in Client) /\ (joining # 0 => joining \in connections)
  BY <1>0 DEF LifeInv
<1> SUFFICES /\ lpc' = "emplace" => clients' \in Client
             /\ joining' # 0 => joining' \in connections'
             /\ \A c \in Client : LifeOf(c)'
  BY DEF LifeInv, LifeOf
<1>1. CASE Quiet /\ ListenerMoves
  <2>1. UNCHANGED <<joining, connections, running, cpc, data, got>>
    BY <1>1 DEF Quiet
  <2>2. lpc' = "emplace" => clients' \in Client
    BY <1>0, <1>1, <1>a, <1>c DEF ListenerMoves, ListenerType
  <2>3. ASSUME NEW c \in Client, (c > clients \/ (c = clients /\ lpc = "emplace"))'
        PROVE  c > clients \/ (c = clients /\ lpc = "emplace")
    BY <1>0, <1>1, <1>a, <2>3 DEF ListenerMoves, ListenerType
  <2> QED
    BY <1>b, <1>c, <2>1, <2>2, <2>3 DEF LifeOf
<1>2. CASE UNCHANGED <<lpc, clients, joining, connections, running, cpc, data, got>>
  BY <1>b, <1>c, <1>2 DEF LifeOf
<1>3. WriteLock \/ WritePush => UNCHANGED <<lpc, clients, joining, connections, running, cpc, data, got>>
  BY DEF WriteLock, WritePush, listener, conns, net
<1>4. CASE JoinConnection
  <2>1. UNCHANGED <<lpc, clients, running, cpc, data, got>> /\ joining' = 0
        /\ connections' = connections \ {joining}
    BY <1>4 DEF JoinConnection, listener, net
  <2>2. 0 \notin Client
    BY <1>a
  <2> QED
    BY <1>b, <1>c, <2>1, <2>2 DEF LifeOf
<1>5. ASSUME NEW d \in Client, Stop(d)
      PROVE  /\ lpc' = "emplace" => clients' \in Client
             /\ joining' # 0 => joining' \in connections'
             /\ \A c \in Client : LifeOf(c)'
  <2>1. UNCHANGED <<lpc, clients, connections, cpc, data, got>> /\ joining' = d /\ d \in connections
    BY <1>5 DEF Stop, StopConnection
  <2>2. \A c \in Client : running'[c] = (IF c = d THEN FALSE ELSE running[c])
    BY <1>0, <1>5 DEF Stop, StopConnection, RunType
  <2> QED
    BY <1>b, <1>c, <2>1, <2>2 DEF LifeOf
<1>6. CASE Emplace
  <2>1. lpc = "emplace" /\ clients \in Client /\ AddConnection(clients)
    BY <1>6, <1>c DEF Emplace
  <2>2. lpc' = "accept" /\ connections' = connections \cup {clients}
        /\ UNCHANGED <<clients, joining, data, got>>
    BY <2>1 DEF AddConnection, dOwner, net
  <2>3. \A c \in Client : running'[c] = (IF c = clients THEN TRUE ELSE running[c])
    BY <1>0, <2>1 DEF AddConnection, RunType
  <2>4. \A c \in Client : cpc'[c] = (IF c = clients THEN "loop" ELSE cpc[c])
    BY <1>0, <2>1 DEF AddConnection, ConnType
  <2>5. cpc[clients] = "none" /\ clients \notin connections /\ data[clients] = End
    BY <1>b, <2>1 DEF LifeOf
  <2>6. clients # 0 /\ joining # clients
    BY <1>a, <1>c, <2>1, <2>5
  <2>7. ASSUME NEW c \in Client PROVE LifeOf(c)'
    <3>1. CASE c = clients
      <4>1. ~(c > clients')
        BY <1>a, <2>2, <3>1
      <4> QED
        BY <2>1, <2>2, <2>3, <2>4, <2>5, <2>6, <3>1, <4>1 DEF LifeOf
    <3>2. CASE c # clients
      BY <1>b, <2>2, <2>3, <2>4, <3>2 DEF LifeOf
    <3> QED
      BY <3>1, <3>2
  <2> QED
    BY <1>c, <2>2, <2>7
<1>7. ASSUME NEW d \in Client, Connection(d)
      PROVE  /\ lpc' = "emplace" => clients' \in Client
             /\ joining' # 0 => joining' \in connections'
             /\ \A c \in Client : LifeOf(c)'
  <2>0. UNCHANGED <<joining, lpc, clients, connections>>
    BY <1>7 DEF Connection, ConnectionLoop, ConnectionPop, ConnectionSend, ConnectionBlocks, ConnectionResumes,
                ConnectionAbandons,
                ConnectionFails, dOwner, listener
  <2>1. cpc[d] # "none"
    BY <1>7 DEF Connection, ConnectionLoop, ConnectionPop, ConnectionSend, ConnectionBlocks, ConnectionResumes,
                ConnectionAbandons,
                ConnectionFails
  <2>2. ASSUME NEW c \in Client, c # d
        PROVE  cpc'[c] = cpc[c] /\ data'[c] = data[c] /\ got'[c] = got[c] /\ running'[c] = running[c]
    BY <1>0, <1>7, <2>2 DEF Connection, ConnectionLoop, ConnectionPop, ConnectionSend, ConnectionBlocks, ConnectionResumes,
                ConnectionAbandons,
                ConnectionFails, Become, net, ConnType, RunType
  <2>3. running'[d] => running[d]
    BY <1>0, <1>7 DEF Connection, ConnectionLoop, ConnectionPop, ConnectionSend, ConnectionBlocks, ConnectionResumes,
                ConnectionAbandons,
                ConnectionFails, RunType
  <2>4. /\ cpc'[d] # "none"
        /\ cpc'[d] \notin {"send", "blocked"} => data'[d] = End
        /\ cpc'[d] \in {"send", "blocked"} => data'[d] # End
    <3>0. /\ cpc[d] \notin {"send", "blocked"} => data[d] = End
          /\ cpc[d] \in {"send", "blocked"} => data[d] # End
      BY <1>b DEF LifeOf
    <3>1. CASE ConnectionLoop(d)
      BY <1>0, <3>0, <3>1 DEF ConnectionLoop, Become, ConnType
    <3>2. CASE ConnectionPop(d)
      BY <1>0, <3>0, <3>2 DEF ConnectionPop, Become, ConnType
    <3>3. CASE ConnectionSend(d) \/ ConnectionResumes(d)
      BY <1>0, <3>3 DEF ConnectionSend, ConnectionResumes, Become, ConnType
    <3>6. CASE ConnectionBlocks(d)
      BY <1>0, <3>0, <3>6 DEF ConnectionBlocks, Become, ConnType
    <3>4. CASE ConnectionAbandons(d)
      BY <1>0, <3>4 DEF ConnectionAbandons, Become, ConnType
    <3>5. CASE ConnectionFails(d)
      BY <1>0, <3>5 DEF ConnectionFails, Become, ConnType
    <3> QED
      BY <1>7, <3>1, <3>2, <3>3, <3>4, <3>5, <3>6 DEF Connection
  <2>5. ASSUME NEW c \in Client PROVE LifeOf(c)'
    <3>1. CASE c = d
      BY <1>b, <2>0, <2>1, <2>3, <2>4, <3>1 DEF LifeOf
    <3>2. CASE c # d
      BY <1>b, <2>0, <2>2, <3>2 DEF LifeOf
    <3> QED
      BY <3>1, <3>2
  <2> QED
    BY <1>c, <2>0, <2>5
<1> QED
  BY <1>1, <1>2, <1>3, <1>4, <1>5, <1>6, <1>7, DispatcherSteps

\* write() that throws has a message: the listener sets it before m_running.
LEMMA ThrowStep ==
    ASSUME DInv, [DNext]_dvars
    PROVE  ThrowInv'
<1>0. ThrowInv
  BY DEF DInv
<1> USE DEF ThrowInv, dOwner, listener
<1>1. CASE WriteThrows \/ WriteLock \/ DestructorBegin
  BY <1>0, <1>1 DEF WriteThrows, WriteLock, DestructorBegin
<1>2. CASE WritePush \/ WriteDone \/ JoinConnection \/ ClearDone \/ DestructorListener
  BY <1>0, <1>2 DEF WritePush, WriteDone, JoinConnection, ClearDone, DestructorListener
<1>3. CASE \E c \in Client : WriteRemove(c) \/ ClearConnection(c)
  BY <1>0, <1>3 DEF WriteRemove, ClearConnection
<1>4. CASE Accept \/ AcceptFails \/ AcceptStops \/ Emplace \/ EmplaceInClear
  BY <1>0, <1>4 DEF Accept, AcceptFails, AcceptStops, Emplace, AddConnection, EmplaceInClear
<1>5. CASE Catch \/ Caught
  BY <1>0, <1>5 DEF Catch, Caught
<1>6. CASE \E c \in Client : Connection(c) \/ ClientChanges(c)
  BY <1>0, <1>6 DEF Connection, ConnectionLoop, ConnectionPop, ConnectionSend, ConnectionBlocks, ConnectionResumes,
                ConnectionAbandons,
                    ConnectionFails, ClientChanges
<1>7. CASE UNCHANGED dvars
  BY <1>0, <1>7 DEF dvars
<1> QED
  BY <1>1, <1>2, <1>3, <1>4, <1>5, <1>6, <1>7 DEF DNext, DOwner, Listener

\* When write() returns, the queues that are too long are gone.
LEMMA BoundStep ==
    ASSUME DInv, [DNext]_dvars
    PROVE  QueuesBounded'
<1> DEFINE Bound == IF MaxQueue > Preroll THEN MaxQueue ELSE Preroll
<1>0. /\ ConnType /\ connections \subseteq Client /\ LifeInv
      /\ dpc = "idle" => \A c \in connections : Len(queue[c]) <= Bound
      /\ Bound \in Nat /\ MaxQueue <= Bound /\ Preroll <= Bound /\ MaxQueue \in Nat
  BY DispatcherAssumption DEF DInv, ListenerType, QueuesBounded
<1> SUFFICES dpc' = "idle" => \A c \in connections' : Len(queue'[c]) <= Bound
  BY DEF QueuesBounded
<1>a. \A c \in Client : queue[c] \in Seq(Nat) /\ Len(queue[c]) \in Nat
  BY <1>0, LenProperties DEF ConnType
<1> HIDE DEF Bound
<1>1. CASE WriteDone
  <2>1. \A c \in connections : ~(Len(queue[c]) > MaxQueue)
    BY <1>0, <1>1 DEF WriteDone, Overflowed
  <2>2. UNCHANGED <<connections, queue>>
    BY <1>1 DEF WriteDone, conns
  <2> QED
    BY <1>0, <1>a, <2>1, <2>2
<1>2. CASE Emplace
  <2>1. clients \in Client /\ AddConnection(clients)
    BY <1>0, <1>2 DEF Emplace, LifeInv
  <2>2. \A c \in Client : queue'[c] = (IF c = clients THEN preroll ELSE queue[c])
    BY <1>0, <2>1 DEF AddConnection, ConnType
  <2>3. Len(preroll) <= Bound
    BY <1>0, DispatcherAssumption, LenProperties DEF DInv, PrerollInv, OwnerType
  <2>4. connections' = connections \cup {clients} /\ dpc' = dpc
    BY <2>1 DEF AddConnection, dOwner
  <2> QED
    BY <1>0, <2>1, <2>2, <2>3, <2>4
<1>3. ASSUME NEW d \in Client, Connection(d)
      PROVE  dpc' = "idle" => \A c \in connections' : Len(queue'[c]) <= Bound
  <2>1. UNCHANGED <<dpc, connections>>
    BY <1>3 DEF Connection, ConnectionLoop, ConnectionPop, ConnectionSend, ConnectionBlocks, ConnectionResumes,
                ConnectionAbandons,
                ConnectionFails, dOwner
  <2>2. UNCHANGED queue \/ (queue[d] # <<>> /\ queue' = [queue EXCEPT ![d] = Tail(@)])
    BY <1>3 DEF Connection, ConnectionLoop, ConnectionPop, ConnectionSend, ConnectionBlocks, ConnectionResumes,
                ConnectionAbandons,
                ConnectionFails
  <2>3. ASSUME NEW c \in connections PROVE Len(queue'[c]) <= Len(queue[c])
    <3>1. CASE UNCHANGED queue
      BY <1>0, <1>a, <3>1
    <3>2. CASE queue[d] # <<>> /\ queue' = [queue EXCEPT ![d] = Tail(@)]
      <4>1. Len(Tail(queue[d])) = Len(queue[d]) - 1
        BY <1>a, <3>2, HeadTailProperties
      <4>2. queue'[c] = IF c = d THEN Tail(queue[d]) ELSE queue[c]
        BY <1>0, <3>2 DEF ConnType
      <4> QED
        BY <1>0, <1>a, <4>1, <4>2
    <3> QED
      BY <2>2, <3>1, <3>2
  <2>4. \A c \in Client : queue'[c] \in Seq(Nat) /\ Len(queue'[c]) \in Nat
    BY DispatcherTypes, LenProperties DEF ConnType
  <2> QED
    BY <1>0, <1>a, <2>1, <2>3, <2>4
<1>4. CASE UNCHANGED queue /\ connections' \subseteq connections /\ (dpc' = "idle" => dpc = "idle")
  BY <1>0, <1>4
<1>5. CASE dpc' # "idle"
  BY <1>5
<1>6. WriteThrows \/ WriteLock \/ DestructorBegin \/ WritePush \/ ClearDone \/ DestructorListener
        \/ EmplaceInClear => dpc' # "idle"
  BY DEF WriteThrows, WriteLock, DestructorBegin, WritePush, ClearDone, DestructorListener, EmplaceInClear
<1>7. (\E c \in Client : WriteRemove(c) \/ ClearConnection(c)) => dpc' # "idle"
  BY DEF WriteRemove, ClearConnection
<1>8. JoinConnection \/ Accept \/ AcceptFails \/ AcceptStops \/ Catch \/ Caught \/ UNCHANGED dvars
        => UNCHANGED queue /\ connections' \subseteq connections /\ (dpc' = "idle" => dpc = "idle")
  BY DEF JoinConnection, Accept, AcceptFails, AcceptStops, Catch, Caught, dvars, dOwner, conns
<1>9. (\E c \in Client : ClientChanges(c))
        => UNCHANGED queue /\ connections' \subseteq connections /\ (dpc' = "idle" => dpc = "idle")
  BY DEF ClientChanges, dOwner, conns
<1> QED
  BY <1>1, <1>2, <1>3, <1>4, <1>5, <1>6, <1>7, <1>8, <1>9 DEF DNext, DOwner, Listener

\* What StreamInv says of the client c.
StreamsOf(c) ==
    cpc[c] # "none" =>
        /\ first[c] > 0
        /\ \A k \in 1 .. Len(got[c]) : got[c][k] = first[c] + k - 1
        /\ cpc[c] = "blocked" => data[c] = first[c] + Len(got[c])
        /\ running[c] => StreamOf(c)

\* The stream of the client c is whole after a step that leaves it alone.
LEMMA StreamKept ==
    ASSUME NEW c \in Client, StreamsOf(c), running'[c] => running[c], Pushed' = Pushed,
           cpc[c] # "none", queue'[c] = queue[c] \/ ~running'[c],
           data'[c] = data[c] \/ ~running'[c], got'[c] = got[c], first'[c] = first[c],
           cpc'[c] = "blocked" => cpc[c] = "blocked" /\ data'[c] = data[c]
    PROVE  StreamsOf(c)'
<1>1. CASE ~running'[c]
  BY <1>1 DEF StreamsOf
<1>2. CASE running'[c]
  <2>1. queue'[c] = queue[c] /\ data'[c] = data[c] /\ running[c]
    BY <1>2
  <2>2. StreamOf(c)
    BY <2>1 DEF StreamsOf
  <2>3. StreamOf(c)'
    BY <2>1, <2>2 DEF StreamOf, InFlight
  <2> QED
    BY <2>3 DEF StreamsOf
<1> QED
  BY <1>1, <1>2

\* No step breaks the stream of a client that runs.
LEMMA StreamStep ==
    ASSUME DInv, [DNext]_dvars
    PROVE  StreamInv'
<1>0. OwnerType /\ ListenerType /\ ConnType /\ RunType /\ LifeInv /\ StreamInv /\ PrerollInv
  BY DEF DInv
<1>a. \A c \in Client : LifeOf(c) /\ StreamsOf(c)
  BY <1>0 DEF LifeInv, LifeOf, StreamInv, StreamsOf
<1>b. Pushed \in Int /\ writes \in Nat
  BY <1>0 DEF Pushed, OwnerType
<1>c. \A c \in Client : queue[c] \in Seq(Nat) /\ Len(queue[c]) \in Nat /\ got[c] \in Seq(Nat)
                        /\ Len(got[c]) \in Nat /\ first[c] \in Nat /\ data[c] \in Nat
  BY <1>0, LenProperties DEF ConnType
<1> SUFFICES \A c \in Client : StreamsOf(c)'
  BY DEF StreamInv, StreamsOf
<1>1. CASE Quiet \/ JoinConnection \/ WriteLock
  <2>1. Pushed' = Pushed
    <3>1. CASE WriteLock
      <4>1. writes' = writes + 1 /\ dpc = "idle" /\ dpc' = "locked"
        BY <3>1 DEF WriteLock
      <4> QED
        BY <1>b, <4>1 DEF Pushed
    <3>2. CASE Quiet \/ JoinConnection
      <4>1. UNCHANGED writes /\ (dpc' = "locked" <=> dpc = "locked")
        BY <3>2 DEF Quiet, JoinConnection
      <4> QED
        BY <4>1 DEF Pushed
    <3> QED
      BY <1>1, <3>1, <3>2
  <2>2. UNCHANGED <<queue, running, cpc, data, first, got>>
    BY <1>1 DEF Quiet, JoinConnection, WriteLock, conns, net
  <2>3. ASSUME NEW c \in Client PROVE StreamsOf(c)'
    <3>1. CASE cpc[c] = "none"
      BY <2>2, <3>1 DEF StreamsOf
    <3>2. CASE cpc[c] # "none"
      BY <1>a, <2>1, <2>2, <3>2, StreamKept
    <3> QED
      BY <3>1, <3>2
  <2> QED
    BY <2>3
<1>2. CASE WritePush
  <2>1. dpc = "locked" /\ dpc' = "remove" /\ UNCHANGED <<writes, connections, running, cpc, data, first, got>>
    BY <1>2 DEF WritePush, net
  <2>2. Pushed' = Pushed + 1 /\ Pushed + 1 = writes
    BY <1>b, <2>1 DEF Pushed
  <2>3. ASSUME NEW c \in Client PROVE StreamsOf(c)'
    <3>1. CASE ~running[c]
      BY <1>a, <2>1, <3>1 DEF StreamsOf
    <3>2. CASE running[c]
      <4>1. c \in connections /\ cpc[c] # "none"
        BY <1>a, <3>2 DEF LifeOf
      <4>2. queue'[c] = Append(queue[c], Pushed + 1)
        BY <1>2, <2>2, <4>1 DEF WritePush
      <4>3. StreamOf(c)
        BY <1>a, <3>2, <4>1 DEF StreamsOf
      <4>4. EndsWith(queue'[c], Pushed + 1)
        <5>1. EndsWith(queue[c], Pushed) /\ queue[c] \in Seq(Nat)
          BY <1>c, <4>3 DEF StreamOf
        <5> QED
          BY ONLY <1>b, <4>2, <5>1, EndsWithAppend
      <4>5. Len(queue'[c]) = Len(queue[c]) + 1
        BY <1>c, <2>2, <4>2, <1>b, AppendProperties
      <4>6. InFlight(c)' = InFlight(c) /\ InFlight(c) \in Nat
        BY <2>1 DEF InFlight
      <4>7. first[c] + Len(got[c]) + InFlight(c) + (Len(queue[c]) + 1) = (Pushed + 1) + 1
        <5>1. first[c] + Len(got[c]) + InFlight(c) + Len(queue[c]) = Pushed + 1
          BY <4>3 DEF StreamOf
        <5> DEFINE g == Len(got[c])
                   q == Len(queue[c])
        <5>2. first[c] \in Int /\ g \in Int /\ q \in Int /\ InFlight(c) \in Int /\ Pushed \in Int
          BY <1>b, <1>c, <4>6
        <5>3. first[c] + g + InFlight(c) + q = Pushed + 1
          BY <5>1
        <5> HIDE DEF g, q
        <5>4. first[c] + g + InFlight(c) + (q + 1) = (Pushed + 1) + 1
          BY ONLY <5>2, <5>3
        <5> QED
          BY <5>4 DEF g, q
      <4>8. StreamOf(c)'
        BY <2>1, <2>2, <4>3, <4>4, <4>5, <4>6, <4>7 DEF StreamOf
      <4> QED
        BY <1>a, <2>1, <4>1, <4>8 DEF StreamsOf
    <3> QED
      BY <3>1, <3>2
  <2> QED
    BY <2>3
<1>3. ASSUME NEW d \in Client, Stop(d) PROVE \A c \in Client : StreamsOf(c)'
  <2>1. UNCHANGED <<dpc, writes, cpc, data, first, got>>
    BY <1>3 DEF Stop
  <2>2. \A c \in Client : (c = d => ~running'[c]) /\ (c # d => running'[c] = running[c] /\ queue'[c] = queue[c])
    BY <1>0, <1>3 DEF Stop, StopConnection, ConnType, RunType
  <2>3. Pushed' = Pushed
    BY <2>1 DEF Pushed
  <2>4. ASSUME NEW c \in Client PROVE StreamsOf(c)'
    <3>1. CASE cpc[c] = "none"
      BY <2>1, <3>1 DEF StreamsOf
    <3>2. CASE cpc[c] # "none"
      BY <1>a, <2>1, <2>2, <2>3, <3>2, StreamKept
    <3> QED
      BY <3>1, <3>2
  <2> QED
    BY <2>4
<1>4. CASE Emplace
  <2>1. clients \in Client /\ AddConnection(clients) /\ ~MutexHeld /\ cpc[clients] = "none"
    BY <1>0, <1>4 DEF Emplace, LifeInv
  <2>2. UNCHANGED <<dpc, writes, data, got>> /\ dpc # "locked"
    BY <2>1 DEF AddConnection, dOwner, net, MutexHeld
  <2>3. Pushed' = Pushed /\ Pushed = writes
    BY <2>2 DEF Pushed
  <2>4. ASSUME NEW c \in Client, c # clients
        PROVE  queue'[c] = queue[c] /\ running'[c] = running[c] /\ cpc'[c] = cpc[c] /\ first'[c] = first[c]
    BY <1>0, <2>1, <2>4 DEF AddConnection, ConnType, RunType
  <2>5. ASSUME NEW c \in Client PROVE StreamsOf(c)'
    <3>1. CASE c = clients
      <4>1. queue'[c] = preroll /\ first'[c] = (writes + 1) - Len(preroll)
        BY <1>0, <2>1, <3>1 DEF AddConnection, ConnType
      <4>2. got[c] = <<>> /\ data[c] = End /\ Len(got'[c]) = 0
        BY <1>a, <2>1, <2>2, <3>1 DEF LifeOf
      <4>3. EndsWith(preroll, writes) /\ Len(preroll) <= writes /\ Len(preroll) \in Nat
        BY <1>0, LenProperties DEF PrerollInv, OwnerType
      <4>4. InFlight(c)' = 0
        BY <2>2, <4>2 DEF InFlight
      <4>5. first'[c] > 0 /\ first'[c] + 0 + 0 + Len(queue'[c]) = writes + 1
        BY <1>b, <4>1, <4>3
      <4>6. StreamOf(c)'
        BY <2>2, <2>3, <4>1, <4>2, <4>3, <4>4, <4>5 DEF StreamOf
      <4>7. cpc'[c] # "blocked"
        BY <1>0, <2>1, <3>1 DEF AddConnection, ConnType
      <4> QED
        BY <4>2, <4>5, <4>6, <4>7 DEF StreamsOf
    <3>2. CASE c # clients
      <4>1. CASE cpc[c] = "none"
        BY <2>4, <3>2, <4>1 DEF StreamsOf
      <4>2. CASE cpc[c] # "none"
        BY <1>a, <2>2, <2>3, <2>4, <3>2, <4>2, StreamKept
      <4> QED
        BY <4>1, <4>2
    <3> QED
      BY <3>1, <3>2
  <2> QED
    BY <2>5
<1>5. ASSUME NEW d \in Client, Connection(d) PROVE \A c \in Client : StreamsOf(c)'
  <2> USE DEF Connection
  <2>0. UNCHANGED <<dpc, writes, first>> /\ cpc[d] # "none"
    BY <1>5 DEF ConnectionLoop, ConnectionPop, ConnectionSend, ConnectionBlocks, ConnectionResumes,
                ConnectionAbandons, ConnectionFails, dOwner
  <2>1. Pushed' = Pushed
    BY <2>0 DEF Pushed
  <2>2. ASSUME NEW c \in Client, c # d PROVE StreamsOf(c)'
    <3>1. cpc'[c] = cpc[c] /\ data'[c] = data[c] /\ got'[c] = got[c] /\ running'[c] = running[c]
          /\ queue'[c] = queue[c]
      BY <1>0, <1>5, <2>2 DEF ConnectionLoop, ConnectionPop, ConnectionSend, ConnectionBlocks, ConnectionResumes,
                ConnectionAbandons,
                  ConnectionFails, Become, net, ConnType, RunType
    <3>2. CASE cpc[c] = "none"
      BY <3>1, <3>2 DEF StreamsOf
    <3>3. CASE cpc[c] # "none"
      BY <1>a, <2>0, <2>1, <3>1, <3>3, StreamKept
    <3> QED
      BY <3>2, <3>3
  <2>3. CASE ConnectionLoop(d)
    <3>1. UNCHANGED <<queue, running, data, got>> /\ cpc'[d] # "blocked"
      BY <1>0, <2>3 DEF ConnectionLoop, Become, net, ConnType
    <3>2. StreamsOf(d)'
      BY <1>a, <2>0, <2>1, <3>1, StreamKept
    <3> QED
      BY <2>2, <3>2
  <2>4. CASE ConnectionAbandons(d)
    <3>1. UNCHANGED <<queue, running, got>> /\ ~running'[d] /\ cpc'[d] # "blocked"
      BY <1>0, <2>4 DEF ConnectionAbandons, Become, net, ConnType
    <3>2. StreamsOf(d)'
      BY <1>a, <2>0, <2>1, <3>1, StreamKept
    <3> QED
      BY <2>2, <3>2
  <2>5. CASE ConnectionFails(d)
    <3>1. UNCHANGED <<queue, got>> /\ ~running'[d] /\ cpc'[d] # "blocked"
      BY <1>0, <2>5 DEF ConnectionFails, Become, net, RunType, ConnType
    <3>2. StreamsOf(d)'
      BY <1>a, <2>0, <2>1, <3>1, StreamKept
    <3> QED
      BY <2>2, <3>2
  <2>6. CASE ConnectionPop(d)
    <3>1. cpc[d] = "pop" /\ queue[d] # <<>> /\ UNCHANGED got /\ queue'[d] = Tail(queue[d])
          /\ cpc'[d] # "blocked"
      BY <1>0, <2>6 DEF ConnectionPop, Become, net, ConnType
    <3>2. CASE ~running'[d]
      <4>1. running'[d] => running[d]
        BY <3>2
      <4> QED
        BY <1>a, <2>0, <2>1, <2>2, <3>1, <3>2, <4>1, StreamKept
    <3>3. CASE running'[d]
      <4>1. Head(queue[d]) # End /\ data'[d] = Head(queue[d]) /\ running[d]
        BY <1>0, <2>6, <3>3 DEF ConnectionPop, ConnType, RunType
      <4>2. StreamOf(d) /\ data[d] = End
        BY <1>a, <2>0, <3>1, <4>1 DEF StreamsOf, LifeOf
      <4>3. InFlight(d) = 0 /\ InFlight(d)' = 1
        BY <4>1, <4>2 DEF InFlight
      <4>4. Len(queue'[d]) = Len(queue[d]) - 1 /\ Len(queue[d]) > 0
        BY <1>c, <3>1, HeadTailProperties, EmptySeq
      <4>5. first[d] + Len(got[d]) + Len(queue[d]) = Pushed + 1 /\ EndsWith(queue[d], Pushed)
        BY <1>c, <4>2, <4>3 DEF StreamOf
      <4>6. Head(queue[d]) = queue[d][1]
        BY <1>c, <3>1, HeadTailProperties
      <4>7. queue[d][1] = (Pushed - Len(queue[d])) + 1
        BY <1>c, <4>4, <4>5 DEF EndsWith
      <4>8. data'[d] = first[d] + Len(got[d])
        <5>2. (Pushed - Len(queue[d])) + 1 = first[d] + Len(got[d])
          <6>1. first[d] \in Int /\ Len(got[d]) \in Int /\ Len(queue[d]) \in Int /\ Pushed \in Int
            BY <1>b, <1>c
          <6>2. PICK f \in Int, g \in Int, q \in Int, p \in Int :
                        f = first[d] /\ g = Len(got[d]) /\ q = Len(queue[d]) /\ p = Pushed
            BY <6>1, Zenon
          <6>3. f + g + q = p + 1
            BY ONLY <4>5, <6>2, Zenon
          <6>4. (p - q) + 1 = f + g
            BY ONLY <6>3, f \in Int, g \in Int, q \in Int, p \in Int
          <6> QED
            BY ONLY <6>2, <6>4, Zenon
        <5> QED
          BY ONLY <4>1, <4>6, <4>7, <5>2
      <4>9. EndsWith(queue'[d], Pushed)
        <5>1. queue[d] \in Seq(Nat)
          BY <1>c
        <5> QED
          BY ONLY <1>b, <3>1, <4>5, <5>1, EndsWithTail
      <4>10. first[d] + Len(got[d]) + 1 + Len(queue'[d]) = Pushed + 1
        <5>1. first[d] \in Int /\ Len(got[d]) \in Int /\ Len(queue[d]) \in Int /\ Pushed \in Int
          BY <1>b, <1>c
        <5>2. PICK f \in Int, g \in Int, q \in Int, p \in Int :
                      f = first[d] /\ g = Len(got[d]) /\ q = Len(queue[d]) /\ p = Pushed
          BY <5>1, Zenon
        <5>3. f + g + q = p + 1 /\ Len(queue'[d]) = q - 1
          BY ONLY <4>4, <4>5, <5>2, Zenon
        <5>4. f + g + 1 + (q - 1) = p + 1
          BY ONLY <5>3, f \in Int, g \in Int, q \in Int, p \in Int
        <5> QED
          BY ONLY <5>2, <5>3, <5>4, Zenon
      <4>11. StreamOf(d)'
        BY <2>0, <2>1, <3>1, <4>3, <4>8, <4>9, <4>10 DEF StreamOf
      <4>12. StreamsOf(d)'
        BY <1>a, <2>0, <3>1, <4>11 DEF StreamsOf
      <4> QED
        BY <2>2, <4>12
    <3> QED
      BY <3>2, <3>3
  <2>8. CASE ConnectionBlocks(d)
    <3>1. cpc[d] = "send" /\ running[d] /\ UNCHANGED <<queue, running, data, got>>
      BY <2>8 DEF ConnectionBlocks
    <3>2. StreamOf(d) /\ data[d] # End /\ first[d] > 0
          /\ \A k \in 1 .. Len(got[d]) : got[d][k] = first[d] + k - 1
      BY <1>a, <2>0, <3>1 DEF StreamsOf, LifeOf
    <3>3. data[d] = first[d] + Len(got[d])
      BY <3>2 DEF StreamOf
    <3>4. StreamOf(d)'
      BY <2>0, <2>1, <3>1, <3>2 DEF StreamOf, InFlight
    <3>5. StreamsOf(d)'
      BY <2>0, <3>1, <3>2, <3>3, <3>4 DEF StreamsOf
    <3> QED
      BY <2>2, <3>5
  <2>7. CASE ConnectionSend(d) \/ ConnectionResumes(d)
    <3>1. cpc[d] \in {"send", "blocked"} /\ UNCHANGED <<queue, running>> /\ cpc'[d] # "blocked"
          /\ got'[d] = Append(got[d], data[d]) /\ data'[d] = End
          /\ (cpc[d] = "send" => running[d])
      BY <1>0, <2>7 DEF ConnectionSend, ConnectionResumes, Become, ConnType
    <3>2. /\ running[d] => StreamOf(d)
          /\ cpc[d] = "blocked" => data[d] = first[d] + Len(got[d])
          /\ data[d] # End /\ first[d] > 0
          /\ \A k \in 1 .. Len(got[d]) : got[d][k] = first[d] + k - 1
      BY <1>a, <2>0, <3>1 DEF StreamsOf, LifeOf
    <3>3. data[d] = first[d] + Len(got[d]) /\ InFlight(d) = 1 /\ InFlight(d)' = 0
      BY <3>1, <3>2 DEF StreamOf, InFlight
    <3>4. Len(got'[d]) = Len(got[d]) + 1 /\ got'[d][Len(got[d]) + 1] = data[d]
          /\ \A k \in 1 .. Len(got[d]) : got'[d][k] = got[d][k]
      BY <1>c, <3>1, AppendProperties
    <3>5. ASSUME NEW k \in 1 .. Len(got'[d]) PROVE got'[d][k] = first[d] + k - 1
      <4>1. CASE k = Len(got[d]) + 1
        BY <1>c, <3>3, <3>4, <4>1
      <4>2. CASE k # Len(got[d]) + 1
        <5>1. k \in 1 .. Len(got[d])
          <6>1. Len(got[d]) \in Nat
            BY <1>c
          <6> QED
            BY ONLY <3>4, <4>2, <6>1, k \in 1 .. Len(got'[d])
        <5> QED
          BY ONLY <3>2, <3>4, <5>1
      <4> QED
        BY <4>1, <4>2
    <3>6. ASSUME running[d]
          PROVE  first[d] + Len(got'[d]) + 0 + Len(queue[d]) = Pushed + 1
      <4>1. first[d] + Len(got[d]) + InFlight(d) + Len(queue[d]) = Pushed + 1
        BY <3>2, <3>6 DEF StreamOf
      <4>2. first[d] \in Nat /\ Len(got[d]) \in Nat /\ Len(queue[d]) \in Nat
        BY <1>c
      <4> QED
        BY ONLY <1>b, <3>3, <3>4, <4>1, <4>2
    <3>7. running'[d] => StreamOf(d)'
      BY <2>0, <2>1, <3>1, <3>2, <3>3, <3>6 DEF StreamOf
    <3>8. StreamsOf(d)'
      BY <2>0, <3>1, <3>2, <3>5, <3>7 DEF StreamsOf
    <3> QED
      BY <2>2, <3>8
  <2> QED
    BY <1>5, <2>3, <2>4, <2>5, <2>6, <2>7, <2>8
<1> QED
  BY <1>1, <1>2, <1>3, <1>4, <1>5, DispatcherSteps

\* The inductive invariant holds in every state.
LEMMA DispatcherInvariance == DSpec => []DInv
<1>1. DInit => DInv
  BY DispatcherInit
<1>2. DInv /\ [DNext]_dvars => DInv'
  <2> SUFFICES ASSUME DInv, [DNext]_dvars PROVE DInv'
    OBVIOUS
  <2>1. OwnerType' /\ ListenerType' /\ ConnType' /\ RunType' /\ PrerollInv'
    BY DispatcherTypes, PrerollStep
  <2>2. LifeInv' /\ StreamInv' /\ QueuesBounded' /\ ThrowInv'
    BY LifeStep, StreamStep, BoundStep, ThrowStep
  <2> QED
    BY <2>1, <2>2 DEF DInv
<1> QED
  BY <1>1, <1>2, PTL DEF DSpec

\* Consecutive numbers that begin with f.
BeginsWith(s, f) == s \in Seq(Nat) /\ \A k \in 1 .. Len(s) : s[k] = f + k - 1

\* Two runs of consecutive numbers, the second from where the first ends.
LEMMA ConcatRuns ==
    ASSUME NEW s, NEW t, NEW f \in Nat, BeginsWith(s, f), BeginsWith(t, f + Len(s))
    PROVE  BeginsWith(s \o t, f) /\ Len(s \o t) = Len(s) + Len(t)
<1>1. s \in Seq(Nat) /\ t \in Seq(Nat) /\ Len(s) \in Nat /\ Len(t) \in Nat
  BY LenProperties DEF BeginsWith
<1> DEFINE u == s \o t
<1>2. u \in Seq(Nat) /\ Len(u) = Len(s) + Len(t)
      /\ \A k \in 1 .. Len(s) + Len(t) : u[k] = IF k <= Len(s) THEN s[k] ELSE t[k - Len(s)]
  BY <1>1, ConcatProperties
<1> HIDE DEF u
<1>3. ASSUME NEW k \in 1 .. Len(u) PROVE u[k] = f + k - 1
  <2>1. CASE k <= Len(s)
    <3>1. u[k] = s[k] /\ k \in 1 .. Len(s)
      BY <1>1, <1>2, <2>1
    <3> QED
      BY <3>1 DEF BeginsWith
  <2>2. CASE ~(k <= Len(s))
    <3>1. u[k] = t[k - Len(s)] /\ k - Len(s) \in 1 .. Len(t)
      BY <1>1, <1>2, <2>2
    <3>2. t[k - Len(s)] = (f + Len(s)) + (k - Len(s)) - 1
      BY <3>1 DEF BeginsWith
    <3> QED
      BY <1>1, <1>2, <3>1, <3>2
  <2> QED
    BY <2>1, <2>2
<1> QED
  BY <1>2, <1>3 DEF BeginsWith, u

\* A run of consecutive numbers is Contiguous.
LEMMA RunContiguous ==
    ASSUME NEW c, NEW s, BeginsWith(s, first[c])
    PROVE  Contiguous(c, s)
<1>1. s \in Seq(Nat) /\ DOMAIN s = 1 .. Len(s)
  BY LenProperties DEF BeginsWith
<1>2. s = [k \in 1 .. Len(s) |-> s[k]]
  BY <1>1
<1>3. \A k \in 1 .. Len(s) : s[k] = first[c] + k - 1
  BY DEF BeginsWith
<1> QED
  BY <1>2, <1>3, Zenon DEF Contiguous

\* Owner, listener and sender threads of TCPDataDispatcher keep between them: every
\* client gets the preroll and then all that is written, without a gap, as long as
\* its connection runs; no queue is too long when write() returns; and a write()
\* that throws has the listener's message.
THEOREM DispatcherCorrect == DSpec => []DispatcherInv
<1>1. DInv => DispatcherInv
  <2> SUFFICES ASSUME DInv PROVE DispatcherInv
    OBVIOUS
  <2>1. ASSUME NEW c \in Client, cpc[c] # "none"
        PROVE  /\ Contiguous(c, got[c])
               /\ running[c] =>
                    /\ Contiguous(c, Stream(c))
                    /\ dpc # "locked" => Len(Stream(c)) = (writes + 1) - first[c]
    <3>1. got[c] \in Seq(Nat) /\ queue[c] \in Seq(Nat) /\ first[c] \in Nat /\ data[c] \in Nat
          /\ Len(got[c]) \in Nat /\ Len(queue[c]) \in Nat
      BY LenProperties DEF DInv, ConnType
    <3>2. BeginsWith(got[c], first[c])
      BY <2>1, <3>1 DEF DInv, StreamInv, BeginsWith
    <3>3. ASSUME running[c]
          PROVE  /\ Contiguous(c, Stream(c))
                 /\ dpc # "locked" => Len(Stream(c)) = (writes + 1) - first[c]
      <4>1. StreamOf(c)
        BY <2>1, <3>3 DEF DInv, StreamInv
      <4> DEFINE mid == IF data[c] = End THEN <<>> ELSE <<data[c]>>
                 front == got[c] \o mid
                 f == first[c]
                 g == Len(got[c])
                 q == Len(queue[c])
      <4>2. BeginsWith(mid, f + g) /\ Len(mid) = InFlight(c) /\ InFlight(c) \in Nat
        <5>1. CASE data[c] = End
          BY <5>1, EmptySeq DEF BeginsWith, InFlight
        <5>2. CASE data[c] # End
          <6>1. data[c] = f + g /\ mid = <<data[c]>> /\ InFlight(c) = 1
            BY <4>1, <5>2 DEF StreamOf, InFlight
          <6>2. mid \in Seq(Nat) /\ Len(mid) = 1 /\ mid[1] = f + g
            BY <3>1, <6>1
          <6> HIDE DEF mid
          <6> QED
            BY <3>1, <6>1, <6>2 DEF BeginsWith
        <5> QED
          BY <5>1, <5>2
      <4> HIDE DEF mid
      <4>3. BeginsWith(front, f) /\ Len(front) = g + InFlight(c)
        BY <3>1, <3>2, <4>2, ConcatRuns
      <4>4. BeginsWith(queue[c], f + Len(front))
        <5>1. \A k \in 1 .. q : queue[c][k] = (Pushed - q) + k
          BY <4>1 DEF StreamOf, EndsWith
        <5>2. f \in Int /\ g \in Int /\ q \in Int /\ Pushed \in Int /\ InFlight(c) \in Int
          BY <3>1, <4>2 DEF Pushed, DInv, OwnerType
        <5>3. f + g + InFlight(c) + q = Pushed + 1
          BY <4>1 DEF StreamOf
        <5>4. PICK ff \in Int, gg \in Int, qq \in Int, pp \in Int, ii \in Int :
                ff = f /\ gg = g /\ qq = q /\ pp = Pushed /\ ii = InFlight(c)
          BY <5>2, Zenon
        <5>5. ff + gg + ii + qq = pp + 1
          BY ONLY <5>3, <5>4, Zenon
        <5>6. \A k \in 1 .. qq : (pp - qq) + k = (ff + (gg + ii)) + k - 1
          BY ONLY <5>5, ff \in Int, gg \in Int, qq \in Int, pp \in Int, ii \in Int
        <5>7. \A k \in 1 .. q : queue[c][k] = (f + Len(front)) + k - 1
          BY ONLY <4>3, <5>1, <5>4, <5>6, Zenon
        <5> QED
          BY <3>1, <5>7 DEF BeginsWith
      <4>5. Stream(c) = front \o queue[c]
        BY DEF Stream, mid
      <4>6. BeginsWith(Stream(c), f) /\ Len(Stream(c)) = g + InFlight(c) + q
        BY <3>1, <4>3, <4>4, <4>5, ConcatRuns
      <4>7. Contiguous(c, Stream(c))
        BY <4>6, RunContiguous
      <4>8. ASSUME dpc # "locked" PROVE g + InFlight(c) + q = (writes + 1) - f
        <5>1. f + g + InFlight(c) + q = writes + 1 /\ writes \in Int
          BY <4>1, <4>8 DEF StreamOf, Pushed, DInv, OwnerType
        <5>2. f \in Int /\ g \in Int /\ q \in Int /\ InFlight(c) \in Int
          BY <3>1, <4>2
        <5>3. PICK ff \in Int, gg \in Int, qq \in Int, ii \in Int :
                ff = f /\ gg = g /\ qq = q /\ ii = InFlight(c)
          BY <5>2, Zenon
        <5>4. ff + gg + ii + qq = writes + 1
          BY ONLY <5>1, <5>3, Zenon
        <5>5. gg + ii + qq = (writes + 1) - ff
          BY ONLY <5>1, <5>4, ff \in Int, gg \in Int, qq \in Int, ii \in Int
        <5> QED
          BY ONLY <5>3, <5>5, Zenon
      <4>9. dpc # "locked" => Len(Stream(c)) = (writes + 1) - first[c]
        BY ONLY <4>6, <4>8, Zenon DEF f
      <4> QED
        BY <4>7, <4>9
    <3> QED
      BY <3>2, <3>3, RunContiguous
  <2>2. ContiguousStream
    BY <2>1 DEF ContiguousStream
  <2> QED
    BY <2>2 DEF DispatcherInv, DInv, ThrowInv, ThrowsWithMessage
<1> QED
  BY <1>1, DispatcherInvariance, PTL
-----------------------------------------------------------------------------
(* TCPReceiveServer *)

ReceiverMessage == [kind : {"data", "disconnected"}, client : Nat, number : Nat]

RType ==
    /\ served \in Nat /\ blocks \in Nat
    /\ messages \in Seq(ReceiverMessage)
    /\ taken \in Seq(ReceiverMessage)

\* What DisconnectsMarked says of two messages a, b that follow each other; e is
\* the set of the clients that a signal has cut off.
Follows(a, b, e) ==
    \/ a.kind = "data" /\ b.client = a.client /\ b.number = a.number + 1 /\ b.kind = "data"
    \/ a.kind = "data" /\ b.client = a.client /\ b.number = a.number /\ b.kind = "disconnected"
    \/ /\ b.client > a.client /\ (b.kind = "data" => b.number = 1)
       /\ a.kind = "data" => a.client \in e

Final == All[Len(All)]

\* Another client may follow the last message: its own client has been marked as
\* gone, or a signal has cut it off.
Closed == Final.kind = "data" => Final.client \in interrupted

\* The last message, by the place of the thread: a client without blocks so far
\* follows one that is closed, and the message of a client's last block is the
\* last one.
LastInv ==
    /\ rpc \in {"check", "recv"} /\ valid /\ blocks > 0 => All # <<>>
    /\ All # <<>> =>
        /\ Final.client <= served
        /\ rpc = "accept" \/ (rpc = "loop" /\ rRunning) => Closed
        /\ rpc = "check" /\ ~valid => Closed
        /\ rpc \in {"check", "recv"} /\ valid /\ blocks = 0 => Final.client < served /\ Closed
        /\ rpc \in {"check", "recv"} /\ valid /\ blocks > 0 =>
                Final.kind = "data" /\ Final.client = served /\ Final.number = blocks

\* The inductive invariant.
RInv ==
    /\ RType
    /\ rpc = "recv" => valid
    /\ LastInv
    /\ DisconnectsMarked

\* receive() moves a message from one sequence to the other.
LEMMA MoveHead ==
    ASSUME NEW S, NEW s \in Seq(S), NEW t \in Seq(S), t # <<>>
    PROVE  /\ Append(s, Head(t)) \o Tail(t) = s \o t
           /\ Append(s, Head(t)) \in Seq(S) /\ Tail(t) \in Seq(S)
<1>1. Head(t) \in S /\ Tail(t) \in Seq(S) /\ Len(Tail(t)) = Len(t) - 1 /\ Head(t) = t[1]
      /\ \A i \in 1 .. Len(Tail(t)) : Tail(t)[i] = t[i + 1]
  BY HeadTailProperties
<1> DEFINE a == Append(s, Head(t))
           b == Tail(t)
<1>2. a \in Seq(S) /\ Len(a) = Len(s) + 1 /\ a[Len(s) + 1] = t[1] /\ \A i \in 1 .. Len(s) : a[i] = s[i]
  BY <1>1, AppendProperties
<1>3. b \in Seq(S) /\ Len(b) = Len(t) - 1 /\ \A i \in 1 .. Len(t) - 1 : b[i] = t[i + 1]
  BY <1>1
<1>4. Len(s) \in Nat /\ Len(t) \in Nat /\ Len(t) > 0
  BY LenProperties, EmptySeq
<1> HIDE DEF a, b
<1>5. a \o b \in Seq(S) /\ Len(a \o b) = Len(a) + Len(b)
      /\ \A i \in 1 .. Len(a) + Len(b) : (a \o b)[i] = IF i <= Len(a) THEN a[i] ELSE b[i - Len(a)]
  BY <1>2, <1>3, ConcatProperties
<1>6. s \o t \in Seq(S) /\ Len(s \o t) = Len(s) + Len(t)
      /\ \A i \in 1 .. Len(s) + Len(t) : (s \o t)[i] = IF i <= Len(s) THEN s[i] ELSE t[i - Len(s)]
  BY ConcatProperties
<1>7. Len(a \o b) = Len(s \o t)
  BY <1>2, <1>3, <1>4, <1>5, <1>6
<1>8. ASSUME NEW i \in 1 .. Len(a \o b) PROVE (a \o b)[i] = (s \o t)[i]
  <2>0. i \in 1 .. Len(s) + Len(t)
    BY <1>6, <1>7
  <2>1. CASE i <= Len(s)
    BY <1>2, <1>3, <1>4, <1>5, <1>6, <2>0, <2>1
  <2>2. CASE i = Len(s) + 1
    <3>1. (a \o b)[i] = a[i] /\ a[i] = t[1]
      BY <1>2, <1>3, <1>4, <1>5, <2>0, <2>2
    <3>2. (s \o t)[i] = t[i - Len(s)] /\ i - Len(s) = 1
      BY <1>4, <1>6, <2>0, <2>2
    <3> QED
      BY <3>1, <3>2
  <2>3. CASE i > Len(s) + 1
    <3>1. (a \o b)[i] = b[i - (Len(s) + 1)]
      BY <1>2, <1>3, <1>4, <1>5, <2>0, <2>3
    <3>2. i - (Len(s) + 1) \in 1 .. Len(t) - 1
      BY <1>4, <2>0, <2>3
    <3>3. b[i - (Len(s) + 1)] = t[(i - (Len(s) + 1)) + 1]
      BY <1>3, <3>2
    <3>4. (i - (Len(s) + 1)) + 1 = i - Len(s)
      BY <1>4, <2>0
    <3>5. (s \o t)[i] = t[i - Len(s)]
      BY <1>4, <1>6, <2>0, <2>3
    <3> QED
      BY <3>1, <3>3, <3>4, <3>5
  <2> QED
    BY <1>4, <2>0, <2>1, <2>2, <2>3
<1>9. a \o b = s \o t
  BY <1>5, <1>6, <1>7, <1>8, SeqEqual
<1> QED
  BY <1>2, <1>3, <1>9 DEF a, b

\* A message that is queued is the last of all.
LEMMA AppendRight ==
    ASSUME NEW S, NEW s \in Seq(S), NEW t \in Seq(S), NEW e \in S
    PROVE  /\ s \o Append(t, e) = Append(s \o t, e)
           /\ Append(t, e) \in Seq(S) /\ s \o t \in Seq(S)
<1>1. <<e>> \in Seq(S) /\ Append(t, e) = t \o <<e>> /\ s \o t \in Seq(S) /\ Append(t, e) \in Seq(S)
  BY AppendIsConcat, AppendProperties, ConcatProperties
<1>2. (s \o t) \o <<e>> = s \o (t \o <<e>>)
  BY <1>1, ConcatAssociative
<1>3. Append(s \o t, e) = (s \o t) \o <<e>>
  BY <1>1, AppendIsConcat
<1> QED
  BY <1>1, <1>2, <1>3

\* The first state.
LEMMA ReceiverInit == RInit => RInv
<1> SUFFICES ASSUME RInit PROVE RInv
  OBVIOUS
<1>1. All = <<>> /\ Len(All) = 0
  BY ConcatEmptySeq, EmptySeq DEF RInit, All
<1>2. RType
  BY EmptySeq DEF RInit, RType
<1>3. LastInv
  BY <1>1 DEF RInit, LastInv
<1>4. DisconnectsMarked
  BY <1>1 DEF DisconnectsMarked
<1> QED
  BY <1>2, <1>3, <1>4 DEF RInv, RInit

\* DisconnectsMarked, with Follows.
LEMMA MarkedFollows ==
    DisconnectsMarked <=> \A k \in 1 .. Len(All) - 1 : Follows(All[k], All[k + 1], interrupted)
BY DEF DisconnectsMarked, Follows

\* A message b that is queued after Final.
LEMMA MessageQueued ==
    ASSUME RInv, NEW b \in ReceiverMessage, messages' = Append(messages, b),
           UNCHANGED <<taken, interrupted>>,
           All # <<>> => Follows(Final, b, interrupted)
    PROVE  DisconnectsMarked' /\ messages' \in Seq(ReceiverMessage) /\ All' # <<>> /\ Final' = b
<1>1. messages \in Seq(ReceiverMessage) /\ taken \in Seq(ReceiverMessage)
  BY DEF RInv, RType
<1>2. All' = Append(All, b) /\ All \in Seq(ReceiverMessage) /\ messages' \in Seq(ReceiverMessage)
  BY <1>1, AppendRight DEF All
<1> DEFINE s == All
           t == All'
<1>3. t # <<>> /\ Len(t) = Len(s) + 1 /\ t[Len(s) + 1] = b /\ \A k \in 1 .. Len(s) : t[k] = s[k]
  BY <1>2, AppendProperties
<1>4. Len(s) \in Nat /\ (Len(s) > 0 => s # <<>>)
  BY <1>2, LenProperties, EmptySeq
<1>5. Final' = b
  BY <1>3 DEF Final
<1>6. \A k \in 1 .. Len(s) - 1 : Follows(s[k], s[k + 1], interrupted)
  BY MarkedFollows DEF RInv
<1>7. Len(s) > 0 => Follows(s[Len(s)], b, interrupted)
  BY <1>4 DEF Final
<1> HIDE DEF s, t
<1>8. ASSUME NEW k \in 1 .. Len(t) - 1 PROVE Follows(t[k], t[k + 1], interrupted)
  <2>1. k \in 1 .. Len(s)
    BY <1>3, <1>4
  <2>2. CASE k = Len(s)
    <3>1. t[k] = s[Len(s)] /\ t[k + 1] = b /\ Len(s) > 0
      BY <1>3, <2>1, <2>2
    <3> QED
      BY <1>7, <3>1
  <2>3. CASE k # Len(s)
    <3>1. k \in 1 .. Len(s) - 1 /\ t[k] = s[k] /\ t[k + 1] = s[k + 1]
      BY <1>3, <1>4, <2>1, <2>3
    <3> QED
      BY <1>6, <3>1
  <2> QED
    BY <2>2, <2>3
<1>9. DisconnectsMarked'
  BY <1>8 DEF DisconnectsMarked, Follows, t
<1> QED
  BY <1>2, <1>3, <1>5, <1>9 DEF t

\* Steps that queue no message and cut no client off.
LEMMA AllKept ==
    ASSUME RInv, All' = All, interrupted \subseteq interrupted'
    PROVE  DisconnectsMarked' /\ Final' = Final /\ (Closed => Closed')
<1>1. \A k \in 1 .. Len(All) - 1 : Follows(All[k], All[k + 1], interrupted)
  BY MarkedFollows DEF RInv
<1>2. \A k \in 1 .. Len(All') - 1 : Follows(All'[k], All'[k + 1], interrupted')
  <2> SUFFICES ASSUME NEW k \in 1 .. Len(All) - 1 PROVE Follows(All[k], All[k + 1], interrupted')
    OBVIOUS
  <2>1. Follows(All[k], All[k + 1], interrupted)
    BY <1>1
  <2> QED
    BY <2>1 DEF Follows
<1>3. DisconnectsMarked'
  BY <1>2 DEF DisconnectsMarked, Follows
<1>4. Final' = Final
  BY DEF Final
<1> QED
  BY <1>3, <1>4 DEF Closed

\* No step of the owner or of the thread breaks the invariant.
LEMMA ReceiverStep ==
    ASSUME RInv, [RNext]_rvars
    PROVE  RInv'
<1>0. RType /\ (rpc = "recv" => valid) /\ LastInv /\ DisconnectsMarked
  BY DEF RInv
<1>a. ASSUME UNCHANGED <<messages, taken>> PROVE All' = All
  BY <1>a DEF All
<1>b. All # <<>> => Final.client \in Nat
  <2>1. All \in Seq(ReceiverMessage)
    BY <1>0, ConcatProperties DEF RType, All
  <2>2. All # <<>> => Final \in ReceiverMessage
    BY <2>1, LenProperties, EmptySeq, ElementOfSeq DEF Final
  <2> QED
    BY <2>2 DEF ReceiverMessage
<1>1. CASE Receive
  <2>1. UNCHANGED <<rpc, rRunning, valid, served, blocks, interrupted>>
    BY <1>1 DEF Receive
  <2>2. messages # <<>> /\ taken' = Append(taken, Head(messages)) /\ messages' = Tail(messages)
    BY <1>1 DEF Receive
  <2>3. All' = All /\ messages' \in Seq(ReceiverMessage) /\ taken' \in Seq(ReceiverMessage)
    BY <1>0, <2>2, MoveHead DEF RType, All
  <2>4. DisconnectsMarked' /\ Final' = Final /\ (Closed => Closed')
    BY <2>1, <2>3, AllKept
  <2> QED
    BY <1>0, <2>1, <2>3, <2>4 DEF RInv, RType, LastInv
<1>2. CASE ReceiverStop \/ ReceiverJoin \/ UNCHANGED rvars
  <2>1. UNCHANGED <<rpc, valid, served, blocks, messages, taken, interrupted>> /\ (rRunning' => rRunning)
    BY <1>2 DEF ReceiverStop, ReceiverJoin, rvars
  <2>2. All' = All /\ DisconnectsMarked' /\ Final' = Final /\ (Closed => Closed')
    BY <1>a, <2>1, AllKept
  <2> QED
    BY <1>0, <2>1, <2>2 DEF RInv, RType, LastInv
<1>3. CASE ReceiverLoop \/ AcceptTimeout \/ AcceptThrows
  <2>1. UNCHANGED <<rRunning, valid, served, blocks, messages, taken, interrupted>>
        /\ rpc \in {"loop", "accept"} /\ rpc' \in {"loop", "accept", "done"}
        /\ (rpc = "loop" /\ rpc' # "done" => rRunning)
    BY <1>3 DEF ReceiverLoop, AcceptTimeout, AcceptThrows
  <2>2. All' = All /\ DisconnectsMarked' /\ Final' = Final /\ (Closed => Closed')
    BY <1>a, <2>1, AllKept
  <2> QED
    BY <1>0, <2>1, <2>2 DEF RInv, RType, LastInv
<1>4. CASE AcceptClient
  <2>1. rpc = "accept" /\ rpc' = "check" /\ served' = served + 1 /\ valid' = TRUE /\ blocks' = 0
        /\ UNCHANGED <<rRunning, messages, taken, interrupted>>
    BY <1>4 DEF AcceptClient
  <2>2. All' = All /\ DisconnectsMarked' /\ Final' = Final /\ (Closed => Closed')
    BY <1>a, <2>1, AllKept
  <2>3. All # <<>> => Final.client < served' /\ Final.client <= served' /\ Closed
    BY <1>0, <1>b, <2>1 DEF LastInv, RType
  <2>4. LastInv'
    BY <2>1, <2>2, <2>3 DEF LastInv
  <2>5. RType'
    BY <1>0, <2>1 DEF RType
  <2> QED
    BY <2>1, <2>2, <2>4, <2>5 DEF RInv
<1>5. CASE LoopCheck
  <2>1. rpc = "check" /\ UNCHANGED <<rRunning, served, blocks, messages, taken, interrupted>>
        /\ (rRunning /\ valid => rpc' = "recv" /\ valid')
        /\ (~(rRunning /\ valid) => rpc' = "loop" /\ ~valid')
    BY <1>5 DEF LoopCheck
  <2>2. All' = All /\ DisconnectsMarked' /\ Final' = Final /\ (Closed => Closed')
    BY <1>a, <2>1, AllKept
  <2>3. CASE rRunning /\ valid
    BY <1>0, <2>1, <2>2, <2>3 DEF RInv, RType, LastInv
  <2>4. CASE ~(rRunning /\ valid)
    BY <1>0, <2>1, <2>2, <2>4 DEF RInv, RType, LastInv
  <2> QED
    BY <2>3, <2>4
<1>6. CASE RecvData
  <2> DEFINE b == Message("data", blocks + 1)
  <2>1. rpc = "recv" /\ rpc' = "check" /\ blocks' = blocks + 1 /\ messages' = Append(messages, b)
        /\ UNCHANGED <<rRunning, valid, served, taken, interrupted>> /\ valid
    BY <1>0, <1>6 DEF RecvData, Received
  <2>2. b \in ReceiverMessage /\ b.kind = "data" /\ b.client = served /\ b.number = blocks + 1
    BY <1>0 DEF Message, ReceiverMessage, RType
  <2> HIDE DEF b
  <2>3. All # <<>> => Follows(Final, b, interrupted)
    <3>1. CASE blocks = 0
      BY <1>0, <1>b, <2>1, <2>2, <3>1 DEF LastInv, Closed, Follows, RType
    <3>2. CASE blocks > 0
      BY <1>0, <2>1, <2>2, <3>2 DEF LastInv, Follows
    <3> QED
      BY <1>0, <3>1, <3>2 DEF RType
  <2>4. DisconnectsMarked' /\ messages' \in Seq(ReceiverMessage) /\ All' # <<>> /\ Final' = b
    BY <2>1, <2>2, <2>3, MessageQueued
  <2>5. blocks' \in Nat /\ blocks' > 0 /\ blocks' # 0 /\ served' \in Nat /\ served <= served
    BY <1>0, <2>1 DEF RType
  <2>6. RType'
    BY <1>0, <2>1, <2>4, <2>5 DEF RType
  <2>7. LastInv'
    BY <2>1, <2>2, <2>4, <2>5 DEF LastInv
  <2> QED
    BY <2>1, <2>4, <2>6, <2>7 DEF RInv
<1>7. ASSUME Received, Disconnects, UNCHANGED <<rRunning, served, blocks, taken, interrupted>>
      PROVE  RInv'
  <2> DEFINE b == Message("disconnected", blocks)
  <2>1. rpc = "recv" /\ rpc' = "check" /\ messages' = Append(messages, b) /\ ~valid' /\ valid
    BY <1>0, <1>7 DEF Received, Disconnects
  <2>2. b \in ReceiverMessage /\ b.kind = "disconnected" /\ b.client = served /\ b.number = blocks
    BY <1>0 DEF Message, ReceiverMessage, RType
  <2> HIDE DEF b
  <2>3. All # <<>> => Follows(Final, b, interrupted)
    <3>1. CASE blocks = 0
      BY <1>0, <1>b, <2>1, <2>2, <3>1 DEF LastInv, Closed, Follows, RType
    <3>2. CASE blocks > 0
      BY <1>0, <2>1, <2>2, <3>2 DEF LastInv, Follows
    <3> QED
      BY <1>0, <3>1, <3>2 DEF RType
  <2>4. DisconnectsMarked' /\ messages' \in Seq(ReceiverMessage) /\ All' # <<>> /\ Final' = b
    BY <1>7, <2>1, <2>2, <2>3, MessageQueued
  <2>5. served' \in Nat /\ served <= served
    BY <1>0, <1>7 DEF RType
  <2>6. RType'
    BY <1>0, <1>7, <2>4, <2>5 DEF RType
  <2>7. Closed' /\ Final'.client <= served'
    BY <1>7, <2>2, <2>4, <2>5 DEF Closed
  <2>8. LastInv'
    BY <2>1, <2>7 DEF LastInv
  <2> QED
    BY <2>1, <2>4, <2>6, <2>8 DEF RInv
<1>8. CASE RecvEnds
  BY <1>7, <1>8 DEF RecvEnds
<1>9. CASE RecvInterrupted
  <2>1. rpc = "recv" /\ rpc' = "loop" /\ interrupted' = interrupted \cup {served}
        /\ UNCHANGED <<rRunning, served, blocks, messages, taken>> /\ valid
    BY <1>0, <1>9 DEF RecvInterrupted
  <2>2. All' = All /\ DisconnectsMarked' /\ Final' = Final /\ (Closed => Closed')
    BY <1>a, <2>1, AllKept
  <2>3. All # <<>> => Closed'
    <3>1. CASE blocks = 0
      BY <1>0, <2>1, <2>2, <3>1 DEF LastInv
    <3>2. CASE blocks > 0
      BY <1>0, <2>1, <2>2, <3>2 DEF LastInv, Closed
    <3> QED
      BY <1>0, <3>1, <3>2 DEF RType
  <2>4. LastInv'
    BY <1>0, <2>1, <2>2, <2>3 DEF LastInv
  <2>5. RType'
    BY <1>0, <2>1 DEF RType
  <2> QED
    BY <2>1, <2>2, <2>4, <2>5 DEF RInv
<1>10. CASE RecvTimeout
  <2>1. CASE num_timeouts' > MaxTimeouts
    BY <1>7, <1>10, <2>1 DEF RecvTimeout
  <2>2. CASE ~(num_timeouts' > MaxTimeouts)
    <3>1. rpc = "recv" /\ rpc' = "check" /\ valid
          /\ UNCHANGED <<rRunning, valid, served, blocks, messages, taken, interrupted>>
      BY <1>0, <1>10, <2>2 DEF RecvTimeout, Received
    <3>2. All' = All /\ DisconnectsMarked' /\ Final' = Final /\ (Closed => Closed')
      BY <1>a, <3>1, AllKept
    <3> QED
      BY <1>0, <3>1, <3>2 DEF RInv, RType, LastInv
  <2> QED
    BY <2>1, <2>2
<1> QED
  BY <1>1, <1>2, <1>3, <1>4, <1>5, <1>6, <1>8, <1>9, <1>10 DEF RNext, ReceiverThread

\* The owner of a TCPReceiveServer sees the blocks of each client in order, and its
\* end marked exactly once before the next client's, unless a signal cut it off.
THEOREM DisconnectsCorrect == RSpec => []DisconnectsMarked
<1>1. RInit => RInv
  BY ReceiverInit
<1>2. RInv /\ [RNext]_rvars => RInv'
  BY ReceiverStep
<1>3. RInv => DisconnectsMarked
  BY DEF RInv
<1> QED
  BY <1>1, <1>2, <1>3, PTL DEF RSpec
-----------------------------------------------------------------------------
(* Logger *)

LType ==
    /\ logged \in Nat /\ m \in Nat
    /\ m_message_queue \in Seq(Nat)
    /\ printed \in Seq(Nat)
    /\ registered \subseteq Backends
    /\ written \in [Backends -> Seq(Nat)]
    /\ since \in [Backends -> Nat]

\* The number of the last message that is written.
Done == logged - Len(m_message_queue) - (IF m = 0 THEN 0 ELSE 1)

Printable(n) == {i \in 1 .. n : i \notin TraceMessages}

Taken(b, k, n) == {i \in k + 1 .. n : i \in TraceMessages <=> b \in Tracers}

\* The messages that are left in the queue end with the last one logged, and the
\* one being written comes before them.
QueuedInv ==
    /\ EndsWith(m_message_queue, logged)
    /\ Done \in Nat
    /\ iopc = "write" => m = Done + 1
    /\ iopc # "write" => m = 0

\* What is written; a backend that is not registered yet has nothing.
WrittenInv ==
    /\ Lists(printed, Printable(Done))
    /\ \A b \in registered : since[b] <= Done /\ Lists(written[b], Taken(b, since[b], Done))
    /\ logpc # "destroyed" => \A b \in Backends \ registered : written[b] = <<>>

\* The inductive invariant.
LInv == LType /\ QueuedInv /\ WrittenInv

\* A message after all those written is added.
LEMMA ListsAppend ==
    ASSUME NEW s \in Seq(Nat), NEW S, Lists(s, S), NEW e \in Nat, \A i \in S : i < e
    PROVE  Append(s, e) \in Seq(Nat) /\ Lists(Append(s, e), S \cup {e})
<1> DEFINE t == Append(s, e)
<1>1. t \in Seq(Nat) /\ Len(t) = Len(s) + 1 /\ t[Len(s) + 1] = e /\ \A i \in 1 .. Len(s) : t[i] = s[i]
  BY AppendProperties
<1>2. Len(s) \in Nat /\ DOMAIN s = 1 .. Len(s) /\ DOMAIN t = 1 .. Len(s) + 1
  BY <1>1, LenProperties
<1> HIDE DEF t
<1>3. {s[k] : k \in DOMAIN s} = S /\ \A j, k \in DOMAIN s : j < k => s[j] < s[k]
  BY DEF Lists
<1>4. \A k \in DOMAIN s : s[k] \in S
  BY <1>3
<1>5. {t[k] : k \in DOMAIN t} = S \cup {e}
  <2>1. ASSUME NEW k \in DOMAIN t PROVE t[k] \in S \cup {e}
    <3>1. CASE k = Len(s) + 1
      BY <1>1, <3>1
    <3>2. CASE k # Len(s) + 1
      <4>1. k \in DOMAIN s /\ t[k] = s[k]
        BY <1>1, <1>2, <3>2
      <4> QED
        BY <1>4, <4>1
    <3> QED
      BY <3>1, <3>2
  <2>2. ASSUME NEW x \in S PROVE \E k \in DOMAIN t : t[k] = x
    <3>1. PICK k \in DOMAIN s : s[k] = x
      BY <1>3
    <3>2. k \in DOMAIN t /\ t[k] = x
      BY <1>1, <1>2, <3>1
    <3> QED
      BY <3>2
  <2>3. Len(s) + 1 \in DOMAIN t /\ t[Len(s) + 1] = e
    BY <1>1, <1>2
  <2> QED
    BY <2>1, <2>2, <2>3
<1>6. ASSUME NEW j \in DOMAIN t, NEW k \in DOMAIN t, j < k PROVE t[j] < t[k]
  <2>1. j \in DOMAIN s /\ t[j] = s[j]
    BY <1>1, <1>2, <1>6
  <2>2. CASE k = Len(s) + 1
    BY <1>1, <1>4, <2>1, <2>2
  <2>3. CASE k # Len(s) + 1
    <3>1. k \in DOMAIN s /\ t[k] = s[k]
      BY <1>1, <1>2, <2>3
    <3> QED
      BY <1>3, <1>6, <2>1, <3>1
  <2> QED
    BY <2>2, <2>3
<1> QED
  BY <1>1, <1>5, <1>6 DEF Lists, t

\* The first state.
LEMMA LoggerInit == LInit => LInv
<1> SUFFICES ASSUME LInit PROVE LInv
  OBVIOUS
<1>1. m_message_queue = <<>> /\ Len(m_message_queue) = 0 /\ logged = 0 /\ m = 0 /\ iopc = "pop"
      /\ registered = {} /\ printed = <<>> /\ written = [b \in Backends |-> <<>>]
  BY EmptySeq DEF LInit, Q!QueueInit
<1>2. LType
  BY <1>1, EmptySeq DEF LInit, LType
<1>3. Done = 0
  <2>1. (0 - 0) - 0 = 0
    OBVIOUS
  <2> QED
    BY ONLY <1>1, <2>1, Zenon DEF Done
<1>4. QueuedInv
  BY <1>1, <1>3 DEF QueuedInv, EndsWith
<1>5. Lists(printed, Printable(Done))
  BY <1>1, <1>3 DEF Lists, Printable
<1>6. WrittenInv
  BY <1>1, <1>5 DEF WrittenInv
<1> QED
  BY <1>2, <1>4, <1>6 DEF LInv

\* A step that writes nothing keeps what is written.
LEMMA WrittenKept ==
    ASSUME LInv, UNCHANGED <<registered, printed, written, since>>, Done' = Done,
           logpc = "destroyed" => logpc' = "destroyed"
    PROVE  WrittenInv'
<1>1. WrittenInv
  BY DEF LInv
<1> QED
  BY <1>1 DEF WrittenInv

\* No step of the callers or of the thread breaks the invariant.
LEMMA LoggerStep ==
    ASSUME LInv, [LNext]_lvars
    PROVE  LInv'
<1>0. LType /\ QueuedInv /\ WrittenInv
  BY DEF LInv
<1>a. m_message_queue \in Seq(Nat) /\ Len(m_message_queue) \in Nat /\ logged \in Nat /\ Done \in Nat
  BY <1>0, LenProperties DEF LType, QueuedInv
<1> DEFINE n == Len(m_message_queue)
<1>1. CASE logstr
  <2>1. logged' = logged + 1 /\ m_message_queue' = Append(m_message_queue, logged + 1)
        /\ UNCHANGED <<iopc, m, registered, printed, written, since>> /\ logpc = "idle"
    BY <1>1 DEF logstr, Q!push
  <2>2. m_message_queue' \in Seq(Nat) /\ Len(m_message_queue') = n + 1
    BY <1>a, <2>1, AppendProperties
  <2>3. EndsWith(m_message_queue', logged')
    <3>1. EndsWith(m_message_queue, logged) /\ logged \in Int
      BY <1>0, <1>a DEF QueuedInv
    <3> QED
      BY ONLY <1>a, <2>1, <3>1, EndsWithAppend
  <2>4. Done' = Done
    BY <1>a, <2>1, <2>2 DEF Done
  <2>5. LType'
    BY <1>0, <2>1, <2>2 DEF LType
  <2>6. QueuedInv'
    BY <1>0, <2>1, <2>3, <2>4 DEF QueuedInv
  <2>7. WrittenInv'
    BY <2>1, <2>4, WrittenKept
  <2> QED
    BY <2>5, <2>6, <2>7 DEF LInv
<1>2. ASSUME UNCHANGED <<m_message_queue, iopc, m, registered, logged, printed, written, since>>,
             logpc = "destroyed" => logpc' = "destroyed"
      PROVE  LInv'
  <2>1. Done' = Done
    BY <1>2 DEF Done
  <2>2. LType' /\ QueuedInv'
    BY <1>0, <1>2, <2>1 DEF LType, QueuedInv
  <2>3. WrittenInv'
    BY <1>2, <2>1, WrittenKept
  <2> QED
    BY <2>2, <2>3 DEF LInv
<1>3. CASE LogNotify \/ LoggerWakeup \/ LoggerNotify
  BY <1>2, <1>3 DEF LogNotify, LoggerWakeup, LoggerNotify, Q!notify_one, Q!trigger_wakeup
<1>4. CASE IoSleep
  <2>1. UNCHANGED <<logpc, iopc, m, registered, logged, printed, written, since>>
    BY <1>4 DEF IoSleep
  <2>2. UNCHANGED m_message_queue
    BY <1>4 DEF IoSleep, Q!wait_sleep, Q!wait_spurious
  <2> QED
    BY <1>2, <2>1, <2>2
<1>5. CASE UNCHANGED lvars
  BY <1>2, <1>5 DEF lvars, logQueue
<1>6. CASE IoWakeup
  <2>1. iopc = "pop" /\ iopc' = "done"
        /\ UNCHANGED <<m_message_queue, logpc, m, registered, logged, printed, written, since>>
    BY <1>6 DEF IoWakeup, Q!wait_wakeup
  <2>2. Done' = Done
    BY <2>1 DEF Done
  <2>3. LType' /\ QueuedInv'
    BY <1>0, <2>1, <2>2 DEF LType, QueuedInv
  <2>4. WrittenInv'
    BY <2>1, <2>2, WrittenKept
  <2> QED
    BY <2>3, <2>4 DEF LInv
<1>7. CASE LoggerJoin
  <2>1. registered' = {} /\ logpc' = "destroyed"
        /\ UNCHANGED <<m_message_queue, iopc, m, logged, printed, written, since>>
    BY <1>7 DEF LoggerJoin, logQueue
  <2>2. Done' = Done
    BY <2>1 DEF Done
  <2>3. LType' /\ QueuedInv'
    BY <1>0, <2>1, <2>2 DEF LType, QueuedInv
  <2>4. WrittenInv'
    BY <1>0, <2>1, <2>2 DEF WrittenInv
  <2> QED
    BY <2>3, <2>4 DEF LInv
<1>8. ASSUME NEW b \in Backends, register_backend(b) PROVE LInv'
  <2>1. logpc = "idle" /\ b \notin registered /\ registered' = registered \cup {b}
        /\ since' = [since EXCEPT ![b] = Done]
        /\ UNCHANGED <<m_message_queue, logpc, iopc, m, logged, printed, written>>
    BY <1>8 DEF register_backend, logQueue, Done
  <2>2. Done' = Done
    BY <2>1 DEF Done
  <2>3. \A c \in Backends : since'[c] = IF c = b THEN Done ELSE since[c]
    BY <1>0, <2>1 DEF LType
  <2>4. since' \in [Backends -> Nat]
    BY <1>0, <1>a, <2>1 DEF LType
  <2>5. LType' /\ QueuedInv'
    BY <1>0, <2>1, <2>2, <2>4 DEF LType, QueuedInv
  <2>6. ASSUME NEW c \in registered' PROVE since'[c] <= Done /\ Lists(written[c], Taken(c, since'[c], Done))
    <3>1. CASE c = b
      <4>1. written[c] = <<>> /\ since'[c] = Done
        BY <1>0, <2>1, <2>3, <3>1 DEF WrittenInv
      <4>2. Taken(c, Done, Done) = {}
        BY <1>a DEF Taken
      <4>3. Lists(<<>>, {})
        BY DEF Lists
      <4> QED
        BY <1>a, <4>1, <4>2, <4>3
    <3>2. CASE c # b
      <4>1. c \in registered /\ c \in Backends /\ since'[c] = since[c]
        BY <1>0, <2>1, <2>3, <3>2 DEF LType
      <4> QED
        BY <1>0, <4>1 DEF WrittenInv
    <3> QED
      BY <3>1, <3>2
  <2>7. WrittenInv'
    BY <1>0, <2>1, <2>2, <2>6 DEF WrittenInv
  <2> QED
    BY <2>5, <2>7 DEF LInv
<1>9. CASE IoPop
  <2>1. iopc = "pop" /\ iopc' = "write" /\ m_message_queue # <<>>
        /\ m_message_queue' = Tail(m_message_queue) /\ m' = Head(m_message_queue)
        /\ UNCHANGED <<logpc, registered, logged, printed, written, since>>
    BY <1>9 DEF IoPop, Q!wait_pop
  <2>2. m = 0 /\ EndsWith(m_message_queue, logged)
    BY <1>0, <2>1 DEF QueuedInv
  <2>3. n > 0 /\ Head(m_message_queue) = m_message_queue[1]
        /\ m_message_queue' \in Seq(Nat) /\ Len(m_message_queue') = n - 1
    BY <1>a, <2>1, HeadTailProperties, EmptySeq
  <2>4. m_message_queue[1] = (logged - n) + 1
    BY <1>a, <2>2, <2>3 DEF EndsWith
  <2>5. Done = logged - n
    BY <1>a, <2>2 DEF Done
  <2>6. m' = Done + 1 /\ m' # 0 /\ m' \in Nat
    BY <1>a, <2>1, <2>3, <2>4, <2>5
  <2>7. Done' = Done
    BY <1>a, <2>1, <2>3, <2>5, <2>6 DEF Done
  <2>8. EndsWith(m_message_queue', logged')
    <3>1. logged \in Int
      BY <1>a
    <3> QED
      BY ONLY <1>a, <2>1, <2>2, <3>1, EndsWithTail
  <2>9. LType'
    BY <1>0, <2>1, <2>3, <2>6 DEF LType
  <2>10. QueuedInv'
    BY <1>a, <2>1, <2>6, <2>7, <2>8 DEF QueuedInv
  <2>11. WrittenInv'
    BY <2>1, <2>7, WrittenKept
  <2> QED
    BY <2>9, <2>10, <2>11 DEF LInv
<1>10. CASE IoWrite
  <2>1. iopc = "write" /\ iopc' = "pop" /\ m' = 0
        /\ printed' = (IF m \in TraceMessages THEN printed ELSE Append(printed, m))
        /\ UNCHANGED <<m_message_queue, logpc, registered, logged, since>>
    BY <1>10 DEF IoWrite, logQueue
  <2>2. \A b \in Backends : written'[b] = IF b \in registered /\ takes(b, m)
                                          THEN Append(written[b], m) ELSE written[b]
    BY <1>10 DEF IoWrite
  <2>3. m = Done + 1 /\ m # 0 /\ m \in Nat
    BY <1>0, <1>a, <2>1 DEF QueuedInv
  <2>4. Done' = m
    BY <1>a, <2>1, <2>3 DEF Done
  <2>5. printed' \in Seq(Nat) /\ Lists(printed', Printable(m))
    <3>0. Lists(printed, Printable(Done)) /\ printed \in Seq(Nat)
      BY <1>0 DEF WrittenInv, LType
    <3>1. CASE m \in TraceMessages
      <4>1. Printable(m) = Printable(Done)
        BY <1>a, <2>3, <3>1 DEF Printable
      <4> QED
        BY <2>1, <3>0, <3>1, <4>1
    <3>2. CASE m \notin TraceMessages
      <4>1. Printable(m) = Printable(Done) \cup {m}
        BY <1>a, <2>3, <3>2 DEF Printable
      <4>2. \A i \in Printable(Done) : i < m
        BY <1>a, <2>3 DEF Printable
      <4>3. printed' = Append(printed, m)
        BY <2>1, <3>2
      <4>4. Append(printed, m) \in Seq(Nat) /\ Lists(Append(printed, m), Printable(Done) \cup {m})
        BY <2>3, <3>0, <4>2, ListsAppend
      <4> QED
        BY ONLY <4>1, <4>3, <4>4
    <3> QED
      BY <3>1, <3>2
  <2>6. ASSUME NEW b \in registered PROVE since[b] <= m /\ Lists(written'[b], Taken(b, since[b], m))
    <3>0. b \in Backends /\ since[b] \in Nat /\ written[b] \in Seq(Nat) /\ since[b] <= Done
          /\ Lists(written[b], Taken(b, since[b], Done))
      BY <1>0 DEF WrittenInv, LType
    <3>1. CASE takes(b, m)
      <4>1. Taken(b, since[b], m) = Taken(b, since[b], Done) \cup {m}
        BY <1>a, <2>3, <3>0, <3>1 DEF Taken, takes
      <4>2. \A i \in Taken(b, since[b], Done) : i < m
        BY <1>a, <2>3, <3>0 DEF Taken
      <4>3. written'[b] = Append(written[b], m)
        BY <2>2, <3>0, <3>1
      <4>4. Lists(Append(written[b], m), Taken(b, since[b], Done) \cup {m})
        BY <2>3, <3>0, <4>2, ListsAppend
      <4>5. since[b] <= m
        BY <1>a, <2>3, <3>0
      <4> QED
        BY ONLY <4>1, <4>3, <4>4, <4>5
    <3>2. CASE ~takes(b, m)
      <4>1. Taken(b, since[b], m) = Taken(b, since[b], Done)
        BY <1>a, <2>3, <3>0, <3>2 DEF Taken, takes
      <4>2. written'[b] = written[b]
        BY <2>2, <3>0, <3>2
      <4>3. since[b] <= m
        BY <1>a, <2>3, <3>0
      <4> QED
        BY ONLY <3>0, <4>1, <4>2, <4>3
    <3> QED
      BY <3>1, <3>2
  <2>7. written' \in [Backends -> Seq(Nat)]
    <3>1. \A b \in Backends : Append(written[b], m) \in Seq(Nat) /\ written[b] \in Seq(Nat)
      BY <1>0, <2>3, AppendProperties DEF LType
    <3> QED
      BY <1>10, <3>1 DEF IoWrite
  <2>8. LType'
    BY <1>0, <2>1, <2>5, <2>7 DEF LType
  <2>9. QueuedInv'
    BY <1>0, <2>1, <2>3, <2>4 DEF QueuedInv
  <2>10. \A b \in Backends \ registered : written'[b] = written[b]
    BY <2>2
  <2>11. WrittenInv'
    BY <1>0, <2>1, <2>4, <2>5, <2>6, <2>10 DEF WrittenInv
  <2> QED
    BY <2>8, <2>9, <2>11 DEF LInv
<1> QED
  BY <1>1, <1>3, <1>4, <1>5, <1>6, <1>7, <1>8, <1>9, <1>10 DEF LNext, LogCallers, IoThread

\* Everything taken from the logger's queue is printed and written by the backends
\* registered, once, in order and by its level: only what the destructor leaves in
\* the queue is lost.
THEOREM LogCorrect == LSpec => []LogComplete
<1>1. LInit => LInv
  BY LoggerInit
<1>2. LInv /\ [LNext]_lvars => LInv'
  BY LoggerStep
<1>3. LInv => LogComplete
  <2> SUFFICES ASSUME LInv PROVE LogComplete
    OBVIOUS
  <2>1. m_message_queue \in Seq(Nat) /\ EndsWith(m_message_queue, logged)
    BY DEF LInv, LType, QueuedInv
  <2>2. DOMAIN m_message_queue = 1 .. Len(m_message_queue)
    BY <2>1, LenProperties
  <2>3. m_message_queue = [k \in 1 .. Len(m_message_queue) |-> m_message_queue[k]]
    BY <2>1, <2>2
  <2>4. m_message_queue = [k \in 1 .. Len(m_message_queue) |-> (logged - Len(m_message_queue)) + k]
    BY <2>1, <2>3, Zenon DEF EndsWith
  <2>5. Lists(printed, Printable(Done))
        /\ \A b \in registered : Lists(written[b], Taken(b, since[b], Done))
    BY DEF LInv, WrittenInv
  <2> QED
    BY ONLY <2>4, <2>5, Zenon DEF LogComplete, Done, Printable, Taken
<1> QED
  BY <1>1, <1>2, <1>3, PTL DEF LSpec
=============================================================================
