---------------------------- MODULE TCPSendClient -----------------------------
(***************************************************************************)
(* TCPSendClient of lib/Socket.cpp, which carries EDI over TCP: the owner   *)
(* calls sendall() and at last the destructor; the sender thread runs       *)
(* process(), which connects, sends what is queued, and reconnects.  The    *)
(* peer and the TCP connection are external.                                *)
(*                                                                         *)
(* Buffers are numbered 1, 2, ... in the order of sendall().                *)
(***************************************************************************)
EXTENDS ThreadsafeQueue, FiniteSets

CONSTANTS
    MAX_QUEUE_SIZE, \* of m_queue
    MaxSend,        \* bound: calls of sendall()
    MaxBreak        \* bound: connections that break

ASSUME QueueSizeAssumption == MAX_QUEUE_SIZE \in Nat
ASSUME SendBoundAssumption == MaxSend \in Nat /\ MaxBreak \in Nat

VARIABLES
    opc,            \* owner: "idle", "pushed", "notified", "discard",
                    \*   "stopping", "waking", "joining", "destroyed"
    spc,            \* sender: "loop", "pop", "send", "connect", "done"
    m_running,
    m_is_connected,
    connected,      \* m_sock != -1
    link,           \* the connection of m_sock: "none", "up", "broken"
    fds,            \* descriptors the client opened and did not close
    incoming,       \* the buffer taken from the queue, 0 for none
    peerUp,         \* a server listens and reads
    sends, breaks,  \* calls of sendall(), connections broken so far
    received,       \* history: buffers the peer has received
    dropped         \* history: buffers discarded or lost

owner == <<opc, sends>>
sender == <<spc, m_is_connected, connected, incoming, fds>>
peer == <<link, peerUp, breaks>>
cvars == <<queueVars, owner, sender, peer, m_running, received, dropped>>

Init ==
    /\ QueueInit
    /\ opc = "idle" /\ spc = "loop"
    /\ m_running = TRUE
    /\ m_is_connected = FALSE
    /\ connected = FALSE
    /\ link = "none"
    /\ fds = 0
    /\ incoming = 0
    /\ peerUp \in BOOLEAN
    /\ sends = 0 /\ breaks = 0
    /\ received = <<>>
    /\ dropped = {}
-----------------------------------------------------------------------------
(* sendall(): push, look at the size and discard, each under the mutex. *)

SendallPush ==
    /\ opc = "idle" /\ sends < MaxSend
    /\ m_running
    /\ sends' = sends + 1
    /\ push(sends')
    /\ opc' = "pushed"
    /\ UNCHANGED <<sender, peer, m_running, received, dropped>>

\* Mutant: push() does not notify.
SendallNoNotify ==
    /\ opc = "pushed"
    /\ opc' = "notified"
    /\ UNCHANGED <<queueVars, sends, sender, peer, m_running, received, dropped>>

SendallNotify ==
    /\ opc = "pushed"
    /\ notify_one
    /\ opc' = "notified"
    /\ UNCHANGED <<sends, sender, peer, m_running, received, dropped>>

SendallSize ==
    /\ opc = "notified"
    /\ opc' = IF Len(the_queue) > MAX_QUEUE_SIZE THEN "discard" ELSE "idle"
    /\ UNCHANGED <<queueVars, sends, sender, peer, m_running, received, dropped>>

SendallDiscard ==
    /\ opc = "discard"
    /\ try_pop
    /\ dropped' = IF the_queue = <<>> THEN dropped ELSE dropped \cup {Head(the_queue)}
    /\ opc' = "idle"
    /\ UNCHANGED <<sends, sender, peer, m_running, received>>

(* The destructor. *)

DestructorStop ==
    /\ opc = "idle"
    /\ m_running' = FALSE
    /\ opc' = "stopping"
    /\ UNCHANGED <<queueVars, sends, sender, peer, received, dropped>>

\* Mutant: the destructor does not request a wakeup.
DestructorNoWakeup ==
    /\ opc = "stopping"
    /\ opc' = "waking"
    /\ UNCHANGED <<queueVars, sends, sender, peer, m_running, received, dropped>>

DestructorWakeup ==
    /\ opc = "stopping"
    /\ trigger_wakeup
    /\ opc' = "waking"
    /\ UNCHANGED <<sends, sender, peer, m_running, received, dropped>>

DestructorNotify ==
    /\ opc = "waking"
    /\ notify_one
    /\ opc' = "joining"
    /\ UNCHANGED <<sends, sender, peer, m_running, received, dropped>>

\* join() returns, and the members are destroyed: m_sock closes its descriptor.
DestructorJoin ==
    /\ opc = "joining" /\ spc = "done"
    /\ opc' = "destroyed"
    /\ connected' = FALSE
    /\ fds' = IF connected THEN fds - 1 ELSE fds
    /\ UNCHANGED <<queueVars, sends, spc, m_is_connected, incoming, peer,
                   m_running, received, dropped>>
-----------------------------------------------------------------------------
(* process(): the sender thread. *)

SenderLoop ==
    /\ spc = "loop"
    /\ spc' = IF ~m_running THEN "done" ELSE IF m_is_connected THEN "pop" ELSE "connect"
    /\ UNCHANGED <<queueVars, owner, m_is_connected, connected, incoming, fds,
                   peer, m_running, received, dropped>>

SenderSleep ==
    /\ spc = "pop"
    /\ wait_sleep \/ wait_spurious
    /\ UNCHANGED <<owner, sender, peer, m_running, received, dropped>>

SenderPop ==
    /\ spc = "pop"
    /\ wait_pop
    /\ incoming' = Head(the_queue)
    /\ spc' = "send"
    /\ UNCHANGED <<owner, m_is_connected, connected, fds, peer, m_running,
                   received, dropped>>

SenderWakeup ==
    /\ spc = "pop"
    /\ wait_wakeup
    /\ spc' = "done"
    /\ UNCHANGED <<owner, m_is_connected, connected, incoming, fds, peer,
                   m_running, received, dropped>>

\* The peer reads the buffer; it blocks sendall() while it does not.  A buffer
\* sent over a connection that is broken already gets lost unnoticed.
SenderSend ==
    /\ spc = "send"
    /\ \/ link = "up" /\ peerUp
          /\ received' = Append(received, incoming) /\ UNCHANGED dropped
       \/ link = "broken"
          /\ dropped' = dropped \cup {incoming} /\ UNCHANGED received
    /\ incoming' = 0
    /\ spc' = "loop"
    /\ UNCHANGED <<queueVars, owner, m_is_connected, connected, fds, peer, m_running>>

\* Mutants: the buffer goes back to the queue; the socket is kept.
SenderRetry ==
    /\ spc = "send" /\ link = "broken"
    /\ push(incoming)
    /\ incoming' = 0
    /\ m_is_connected' = FALSE /\ connected' = FALSE /\ link' = "none"
    /\ spc' = "loop"
    /\ UNCHANGED <<owner, fds, peerUp, breaks, m_running, received, dropped>>

SenderKeepsSocket ==
    /\ spc = "send" /\ link = "broken"
    /\ dropped' = dropped \cup {incoming}
    /\ incoming' = 0
    /\ m_is_connected' = FALSE
    /\ spc' = "loop"
    /\ UNCHANGED <<queueVars, owner, connected, fds, peer, m_running, received>>

\* sendall() returns -1: the buffer is lost.  The move assignment of an invalid
\* TCPSocket overwrites the descriptor of m_sock, which is not closed.
SenderFail ==
    /\ spc = "send" /\ link = "broken"
    /\ dropped' = dropped \cup {incoming}
    /\ incoming' = 0
    /\ m_is_connected' = FALSE
    /\ connected' = FALSE
    /\ link' = "none"
    /\ spc' = "loop"
    /\ UNCHANGED <<queueVars, owner, fds, peerUp, breaks, m_running, received>>

\* connect() succeeds, or fails and is tried again after a second.
SenderConnect ==
    /\ spc = "connect" /\ ~connected
    /\ IF peerUp
       THEN /\ m_is_connected' = TRUE
            /\ connected' = TRUE
            /\ fds' = fds + 1
            /\ link' = "up"
       ELSE UNCHANGED <<m_is_connected, connected, fds, link>>
    /\ spc' = "loop"
    /\ UNCHANGED <<queueVars, owner, incoming, peerUp, breaks, m_running,
                   received, dropped>>
-----------------------------------------------------------------------------
(* The peer. *)

PeerToggle ==
    /\ peerUp' = ~peerUp
    /\ UNCHANGED <<queueVars, owner, sender, link, breaks, m_running, received, dropped>>

LinkBreaks ==
    /\ link = "up" /\ breaks < MaxBreak
    /\ link' = "broken"
    /\ breaks' = breaks + 1
    /\ UNCHANGED <<queueVars, owner, sender, peerUp, m_running, received, dropped>>

OwnerFinishes ==
    \/ SendallNotify \/ SendallSize \/ SendallDiscard
    \/ DestructorWakeup \/ DestructorNotify \/ DestructorJoin

Sender ==
    \/ SenderLoop \/ SenderSleep \/ SenderPop \/ SenderWakeup
    \/ SenderSend \/ SenderFail \/ SenderConnect

\* The sender thread does not wake up spuriously, nor is it sent on by the peer.
SenderRuns ==
    \/ SenderLoop \/ SenderPop \/ SenderWakeup \/ SenderFail \/ SenderConnect
    \/ (wait_sleep /\ SenderSleep)

Next ==
    \/ SendallPush \/ DestructorStop \/ OwnerFinishes
    \/ Sender
    \/ PeerToggle \/ LinkBreaks

Spec == Init /\ [][Next]_cvars
-----------------------------------------------------------------------------
\* Type correctness; no descriptor is closed that is not open.
CTypeOK ==
    /\ the_queue \in Seq(1 .. MaxSend)
    /\ wakeup_requested \in BOOLEAN
    /\ waiting \in BOOLEAN
    /\ opc \in {"idle", "pushed", "notified", "discard", "stopping", "waking",
                "joining", "destroyed"}
    /\ spc \in {"loop", "pop", "send", "connect", "done"}
    /\ m_running \in BOOLEAN
    /\ m_is_connected \in BOOLEAN
    /\ connected \in BOOLEAN
    /\ link \in {"none", "up", "broken"}
    /\ fds \in Nat
    /\ incoming \in 0 .. MaxSend
    /\ peerUp \in BOOLEAN
    /\ sends \in 0 .. MaxSend
    /\ breaks \in 0 .. MaxBreak
    /\ received \in Seq(1 .. MaxSend)
    /\ dropped \subseteq 1 .. MaxSend

\* The queue never holds more than MAX_QUEUE_SIZE buffers once sendall() has
\* returned, and one more while it runs.
QueueBounded ==
    /\ Len(the_queue) <= MAX_QUEUE_SIZE + 1
    /\ opc = "idle" => Len(the_queue) <= MAX_QUEUE_SIZE

\* connect() is only called with an invalid socket: it would throw a
\* logic_error, which process() does not catch.
ConnectsInvalidSocket == spc = "connect" => ~connected /\ link = "none"

\* Over a connection that never breaks, sendall() discards at most one buffer
\* per call, and none before MAX_QUEUE_SIZE buffers have been queued.
DiscardsBounded ==
    breaks = 0 => \/ dropped = {}
                  \/ Cardinality(dropped) <= sends - MAX_QUEUE_SIZE

\* What the two threads keep between them, whatever the peer does: a bounded
\* queue, no needless discards, and no connect() on a socket that is in use.
ClientInv == CTypeOK /\ QueueBounded /\ ConnectsInvalidSocket /\ DiscardsBounded

\* The owner's destructor returns, whatever the peer does, unless the sender thread
\* is in sendall() to a peer that neither reads nor breaks the connection: that
\* has no timeout, and is the only thing the destructor may wait for without end.
DestructorReturns == opc = "stopping" ~> (opc = "destroyed" \/ [](spc = "send"))

\* Once the peer stays, every buffer leaves the queue: the sender thread
\* reconnects, and misses no notification.
QueueDrains ==
    <>[]peerUp => [](the_queue # <<>> => <>(the_queue = <<>> \/ ~m_running))

Pending == (IF incoming = 0 THEN <<>> ELSE <<incoming>>) \o the_queue

Fifo == INSTANCE LossyFifo WITH
            accepted <- sends, pending <- Pending, delivered <- received

\* TCPSendClient delivers in order, never twice, and loses only what is pending.
ImplementsLossyFifo == Fifo!Spec

\* "A TCP client that abstracts the handling of connects and disconnects"
\* (Socket.h): after a disconnect it holds no descriptor of the old connection.
NoDescriptorLeak == fds <= 1
=============================================================================
