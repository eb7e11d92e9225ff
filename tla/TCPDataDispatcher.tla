--------------------------- MODULE TCPDataDispatcher ---------------------------
(***************************************************************************)
(* TCPDataDispatcher and TCPConnection of lib/Socket.cpp: a TCP server that *)
(* sends each buffer to all its clients, and to a new client first the last *)
(* buffers that were written (the preroll).  The owner calls write() and at *)
(* last the destructor; a listener thread accepts the clients; each of them *)
(* has a queue and a sender thread.                                         *)
(*                                                                         *)
(* Buffers are numbered 1, 2, ... in the order of write(), clients in the   *)
(* order in which they connect.  The clients are external.  The condition   *)
(* variable of the queues is checked with TCPSendClient; here wait_and_pop  *)
(* simply waits until the queue has an item.                                *)
(***************************************************************************)
EXTENDS Naturals, Sequences, FiniteSets

CONSTANTS
    MaxQueue,       \* m_max_queue_size
    Preroll,        \* m_buffers_to_preroll
    MaxWrite,       \* bound: calls of write()
    MaxClient       \* bound: clients that connect

ASSUME DispatcherAssumption == {MaxQueue, Preroll, MaxWrite, MaxClient} \subseteq Nat

Client == 1 .. MaxClient
End == 0            \* the empty vector, the termination marker

VARIABLES
    dpc,            \* owner: "idle", "locked", "remove", "clear", "join",
                    \*   "members", "destroyed", "threw", "undefined"
    joining,        \* the connection whose destructor the owner runs, 0 for none
    lpc,            \* listener: "accept", "emplace", "catch", "caught", "done"
    dRunning,       \* m_running
    exceptionData,  \* m_exception_data is set
    writes,         \* calls of write() so far
    preroll,        \* m_preroll_queue
    connections,    \* m_connections: the clients of the list
    clients,        \* clients accepted so far
    queue,          \* of each connection
    running,        \* m_running of each connection
    cpc,            \* sender threads: "none", "loop", "pop", "send" (the loop over
                    \*   m_sock.send()), "blocked" (in ::send), "done"
    data,           \* the buffer a sender thread sends, End for none
    sock,           \* "up", "full" (no room to send), "broken"
    got,            \* history: what each client has received
    first           \* history: the first buffer each client is to get

dOwner == <<dpc, joining, writes, preroll>>
listener == <<lpc, exceptionData, clients>>
conns == <<connections, queue, running, cpc, data, first>>
net == <<sock, got>>
dvars == <<dOwner, listener, dRunning, conns, net>>

\* start() has been called.
DInit ==
    /\ dpc = "idle" /\ joining = 0 /\ lpc = "accept"
    /\ dRunning = TRUE /\ exceptionData = FALSE
    /\ writes = 0 /\ preroll = <<>>
    /\ connections = {} /\ clients = 0
    /\ queue = [c \in Client |-> <<>>]
    /\ running = [c \in Client |-> FALSE]
    /\ cpc = [c \in Client |-> "none"]
    /\ data = [c \in Client |-> End]
    /\ sock = [c \in Client |-> "up"]
    /\ got = [c \in Client |-> <<>>]
    /\ first = [c \in Client |-> 0]
-----------------------------------------------------------------------------
(* write(), with m_mutex held from "locked" on. *)

MutexHeld == dpc \in {"locked", "remove"}

WriteThrows ==
    /\ dpc = "idle" /\ ~dRunning
    /\ dpc' = "threw"
    /\ UNCHANGED <<joining, writes, preroll, listener, dRunning, conns, net>>

\* The lock is taken and the preroll kept up.
WriteLock ==
    /\ dpc = "idle" /\ dRunning /\ writes < MaxWrite
    /\ writes' = writes + 1
    /\ preroll' = IF Preroll = 0 THEN preroll
                  ELSE LET p == Append(preroll, writes')
                       IN  IF Len(p) > Preroll THEN Tail(p) ELSE p
    /\ dpc' = "locked"
    /\ UNCHANGED <<joining, listener, dRunning, conns, net>>

WritePush ==
    /\ dpc = "locked"
    /\ queue' = [c \in Client |-> IF c \in connections THEN Append(queue[c], writes) ELSE queue[c]]
    /\ dpc' = "remove"
    /\ UNCHANGED <<joining, writes, preroll, listener, dRunning,
                   connections, running, cpc, data, first, net>>

Overflowed(c) == c \in connections /\ Len(queue[c]) > MaxQueue

\* Mutant: only the termination marker is to end the sender thread.
StopConnectionMarkerOnly(c) ==
    /\ joining' = c
    /\ queue' = [queue EXCEPT ![c] = Append(@, End)]
    /\ UNCHANGED running

\* ~TCPConnection(): up to the join().
StopConnection(c) ==
    /\ joining' = c
    /\ running' = [running EXCEPT ![c] = FALSE]
    /\ queue' = [queue EXCEPT ![c] = Append(@, End)]

\* The connection is gone, its socket closed, when its thread has ended.
JoinConnection ==
    /\ joining # 0 /\ cpc[joining] = "done"
    /\ connections' = connections \ {joining}
    /\ joining' = 0
    /\ UNCHANGED <<dpc, writes, preroll, listener, dRunning,
                   queue, running, cpc, data, first, net>>

WriteRemove(c) ==
    /\ dpc = "remove" /\ joining = 0
    /\ Overflowed(c)
    /\ StopConnection(c)
    /\ UNCHANGED <<dpc, writes, preroll, listener, dRunning,
                   connections, cpc, data, first, net>>

WriteDone ==
    /\ dpc = "remove" /\ joining = 0
    /\ ~\E c \in Client : Overflowed(c)
    /\ dpc' = "idle"
    /\ UNCHANGED <<joining, writes, preroll, listener, dRunning, conns, net>>
-----------------------------------------------------------------------------
(* The destructor: the connections go without the mutex, then the listener,   *)
(* then the connections that the listener has added in the meantime.          *)

DestructorBegin ==
    /\ dpc \in {"idle", "threw"}
    /\ dRunning' = FALSE
    /\ dpc' = "clear"
    /\ UNCHANGED <<joining, writes, preroll, listener, conns, net>>

ClearConnection(c) ==
    /\ dpc \in {"clear", "members"} /\ joining = 0
    /\ c \in connections
    /\ StopConnection(c)
    /\ UNCHANGED <<dpc, writes, preroll, listener, dRunning,
                   connections, cpc, data, first, net>>

ClearDone ==
    /\ dpc \in {"clear", "members"} /\ joining = 0 /\ connections = {}
    /\ dpc' = IF dpc = "clear" THEN "join" ELSE "destroyed"
    /\ UNCHANGED <<joining, writes, preroll, listener, dRunning, conns, net>>

\* join() of the listener thread; m_connections is destroyed.
DestructorListener ==
    /\ dpc = "join" /\ lpc = "done"
    /\ dpc' = "members"
    /\ UNCHANGED <<joining, writes, preroll, listener, dRunning, conns, net>>
-----------------------------------------------------------------------------
(* process() of the listener *)

\* accept() returns a client; a socket that the destructor has closed has none.
Accept ==
    /\ lpc = "accept" /\ dRunning /\ clients < MaxClient
    /\ clients' = clients + 1
    /\ lpc' = "emplace"
    /\ UNCHANGED <<dOwner, exceptionData, dRunning, conns, net>>

AcceptStops ==
    /\ lpc = "accept" /\ ~dRunning
    /\ lpc' = "done"
    /\ UNCHANGED <<dOwner, exceptionData, clients, dRunning, conns, net>>

AcceptFails ==
    /\ lpc = "accept"
    /\ lpc' = "catch"
    /\ UNCHANGED <<dOwner, exceptionData, clients, dRunning, conns, net>>

\* A new connection, with its thread and the preroll in its queue.
AddConnection(c) ==
    /\ connections' = connections \cup {c}
    /\ queue' = [queue EXCEPT ![c] = preroll]
    /\ running' = [running EXCEPT ![c] = TRUE]
    /\ cpc' = [cpc EXCEPT ![c] = "loop"]
    /\ first' = [first EXCEPT ![c] = (writes + 1) - Len(preroll)]
    /\ lpc' = "accept"
    /\ UNCHANGED <<data, dOwner, exceptionData, clients, dRunning, net>>

\* Mutant: the mutex is not taken.
EmplaceUnlocked ==
    /\ lpc = "emplace" /\ dpc # "clear"
    /\ AddConnection(clients)

Emplace ==
    /\ lpc = "emplace" /\ ~MutexHeld /\ dpc # "clear"
    /\ AddConnection(clients)

\* The list changes under the clear() of the destructor, which does not take the
\* mutex: a data race, after which anything may happen.
EmplaceInClear ==
    /\ lpc = "emplace" /\ dpc = "clear"
    /\ dpc' = "undefined"
    /\ UNCHANGED <<joining, writes, preroll, listener, dRunning, conns, net>>

\* The exception is caught: what it says is kept first.
Catch ==
    /\ lpc = "catch"
    /\ exceptionData' = TRUE
    /\ lpc' = "caught"
    /\ UNCHANGED <<dOwner, clients, dRunning, conns, net>>

Caught ==
    /\ lpc = "caught"
    /\ dRunning' = FALSE
    /\ lpc' = "done"
    /\ UNCHANGED <<dOwner, exceptionData, clients, conns, net>>
-----------------------------------------------------------------------------
(* process() of the connection c *)

Become(c, state) == cpc' = [cpc EXCEPT ![c] = state]

ConnectionLoop(c) ==
    /\ cpc[c] = "loop"
    /\ Become(c, IF running[c] THEN "pop" ELSE "done")
    /\ UNCHANGED <<dOwner, listener, dRunning, connections, queue, running, data, first, net>>

ConnectionPop(c) ==
    /\ cpc[c] = "pop" /\ queue[c] # <<>>
    /\ queue' = [queue EXCEPT ![c] = Tail(@)]
    /\ IF Head(queue[c]) = End
       THEN /\ running' = [running EXCEPT ![c] = FALSE]
            /\ Become(c, "done")
            /\ UNCHANGED data
       ELSE /\ data' = [data EXCEPT ![c] = Head(queue[c])]
            /\ Become(c, "send")
            /\ UNCHANGED running
    /\ UNCHANGED <<dOwner, listener, dRunning, connections, first, net>>

\* send() succeeds; what the connection breaks on later is lost.
ConnectionSend(c) ==
    /\ cpc[c] = "send" /\ running[c] /\ sock[c] = "up"
    /\ got' = [got EXCEPT ![c] = Append(@, data[c])]
    /\ data' = [data EXCEPT ![c] = End]
    /\ Become(c, "loop")
    /\ UNCHANGED <<dOwner, listener, dRunning, connections, queue, running, first, sock>>

\* poll() finds room, but less than the buffer takes: the socket is a blocking one,
\* and ::send() fills the room and waits.  It has no timeout.
ConnectionBlocks(c) ==
    /\ cpc[c] = "send" /\ running[c] /\ sock[c] = "up"
    /\ sock' = [sock EXCEPT ![c] = "full"]
    /\ Become(c, "blocked")
    /\ UNCHANGED <<dOwner, listener, dRunning, connections, queue, running, data, first, got>>

\* The client reads on: ::send() returns, whether the connection is to stop or not.
ConnectionResumes(c) ==
    /\ cpc[c] = "blocked" /\ sock[c] = "up"
    /\ got' = [got EXCEPT ![c] = Append(@, data[c])]
    /\ data' = [data EXCEPT ![c] = End]
    /\ Become(c, "loop")
    /\ UNCHANGED <<dOwner, listener, dRunning, connections, queue, running, first, sock>>

\* The loop over send() ends because the connection is to stop: between two
\* timeouts of 10 ms it looks at m_running.
ConnectionAbandons(c) ==
    /\ cpc[c] = "send" /\ ~running[c]
    /\ data' = [data EXCEPT ![c] = End]
    /\ Become(c, "loop")
    /\ UNCHANGED <<dOwner, listener, dRunning, connections, queue, running, first, net>>

ConnectionFails(c) ==
    /\ cpc[c] \in {"send", "blocked"} /\ sock[c] = "broken"
    /\ running' = [running EXCEPT ![c] = FALSE]
    /\ data' = [data EXCEPT ![c] = End]
    /\ Become(c, "loop")
    /\ UNCHANGED <<dOwner, listener, dRunning, connections, queue, first, net>>

(* The client c (external) stops reading, goes on, or goes away. *)
ClientChanges(c) ==
    /\ c \in connections
    /\ \/ sock[c] = "up" /\ sock' = [sock EXCEPT ![c] = "full"]
       \/ sock[c] = "full" /\ sock' = [sock EXCEPT ![c] = "up"]
       \/ sock[c] # "broken" /\ sock' = [sock EXCEPT ![c] = "broken"]
    /\ UNCHANGED <<dOwner, listener, dRunning, conns, got>>

DOwner ==
    \/ WritePush \/ WriteDone \/ JoinConnection
    \/ \E c \in Client : WriteRemove(c) \/ ClearConnection(c)
    \/ ClearDone \/ DestructorListener

Listener == AcceptStops \/ Emplace \/ EmplaceInClear \/ Catch \/ Caught

Connection(c) ==
    \/ ConnectionLoop(c) \/ ConnectionPop(c)
    \/ ConnectionSend(c) \/ ConnectionBlocks(c) \/ ConnectionResumes(c)
    \/ ConnectionAbandons(c) \/ ConnectionFails(c)

\* Nothing is said of what happens after the data race.
DNext ==
    /\ dpc # "undefined"
    /\ \/ WriteThrows \/ WriteLock \/ DestructorBegin \/ DOwner
       \/ Accept \/ AcceptFails \/ Listener
       \/ \E c \in Client : Connection(c) \/ ClientChanges(c)

DSpec == DInit /\ [][DNext]_dvars
-----------------------------------------------------------------------------
\* What the client c has received, is being sent and has in its queue.
Stream(c) == got[c] \o (IF data[c] = End THEN <<>> ELSE <<data[c]>>) \o queue[c]

Contiguous(c, s) == s = [k \in 1 .. Len(s) |-> first[c] + k - 1]

\* Every client gets the preroll and then what is written, without a gap, a
\* repetition or a change of order; as long as its connection runs, everything
\* written is on its way to it.
ContiguousStream ==
    dpc # "undefined" =>
        \A c \in Client : cpc[c] # "none" =>
            /\ Contiguous(c, got[c])
            /\ running[c] =>
                /\ Contiguous(c, Stream(c))
                /\ dpc # "locked" => Len(Stream(c)) = (writes + 1) - first[c]

\* When write() has returned, no client has more than MaxQueue buffers in its
\* queue, or the preroll that it began with.
QueuesBounded ==
    dpc = "idle" => \A c \in connections :
        Len(queue[c]) <= IF MaxQueue > Preroll THEN MaxQueue ELSE Preroll

\* A write() that throws because the listener has failed has its message to throw.
ThrowsWithMessage == dpc = "threw" => exceptionData

\* What owner, listener and sender threads keep between them: whole streams for
\* the clients that stay, an end for those that are slow, and a reason for the
\* owner if the listener is gone.
DispatcherInv == ContiguousStream /\ QueuesBounded /\ ThrowsWithMessage

\* The destructor of a connection waits in join(), for good, for a thread that is in
\* ::send() to a client that does not read.
JoinBlocked == joining # 0 /\ cpc[joining] = "blocked"

\* write() returns, although it waits with the mutex held for the threads of the
\* clients it drops, and those may have stopped reading for good: unless such a
\* thread had got into ::send() before.  That is the only thing write() may
\* wait for without end.
WriteReturns == dpc \in {"locked", "remove"} ~> (dpc \in {"idle", "undefined"} \/ []JoinBlocked)

\* The destructor returns, or has met the data race, or waits for such a thread.
DispatcherDestroyed == dpc = "clear" ~> (dpc \in {"destroyed", "undefined"} \/ []JoinBlocked)
=============================================================================
