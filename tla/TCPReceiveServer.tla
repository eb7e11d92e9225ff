--------------------------- MODULE TCPReceiveServer ----------------------------
(***************************************************************************)
(* TCPReceiveServer of lib/Socket.cpp: a thread serves one client at a time *)
(* and queues what it sends; the owner takes it with receive(), and is told *)
(* when a client has gone by a message of its own.                          *)
(*                                                                         *)
(* The messages are records [kind, client, number]; clients are numbered in *)
(* the order in which they connect, and external.                           *)
(***************************************************************************)
EXTENDS Naturals, Sequences

CONSTANTS
    MaxTimeouts,    \* max_num_timeouts: disconnect_timeout_ms / timeout_ms
    MaxServed,      \* bound: clients that connect
    MaxBlock        \* bound: blocks a client sends

ASSUME ReceiverAssumption == {MaxTimeouts, MaxServed, MaxBlock} \subseteq Nat

VARIABLES
    rpc,            \* thread: "loop", "accept", "check", "recv", "done"
    roc,            \* owner: "idle", "joining", "destroyed", "terminated"
    rRunning,       \* m_running
    valid,          \* the socket of the client is valid
    num_timeouts,
    served,         \* clients accepted so far
    blocks,         \* blocks received from this client
    messages,       \* m_queue
    taken,          \* history: what receive() has returned
    interrupted     \* history: clients dropped because a signal came

rvars == <<rpc, roc, rRunning, valid, num_timeouts, served, blocks, messages,
           taken, interrupted>>

RInit ==
    /\ rpc = "loop" /\ roc = "idle"
    /\ rRunning = TRUE
    /\ valid = FALSE
    /\ num_timeouts = 0 /\ served = 0 /\ blocks = 0
    /\ messages = <<>> /\ taken = <<>>
    /\ interrupted = {}

Message(kind, n) == [kind |-> kind, client |-> served, number |-> n]
-----------------------------------------------------------------------------
(* The owner. *)

\* receive(): TCPReceiveMessageEmpty, which changes nothing, if there is none.
Receive ==
    /\ roc = "idle" /\ messages # <<>>
    /\ taken' = Append(taken, Head(messages))
    /\ messages' = Tail(messages)
    /\ UNCHANGED <<rpc, roc, rRunning, valid, num_timeouts, served, blocks, interrupted>>

ReceiverStop ==
    /\ roc = "idle"
    /\ rRunning' = FALSE
    /\ roc' = "joining"
    /\ UNCHANGED <<rpc, valid, num_timeouts, served, blocks, messages, taken, interrupted>>

ReceiverJoin ==
    /\ roc = "joining" /\ rpc = "done"
    /\ roc' = "destroyed"
    /\ UNCHANGED <<rpc, rRunning, valid, num_timeouts, served, blocks, messages, taken,
                   interrupted>>
-----------------------------------------------------------------------------
(* process() *)

\* m_running is read before the thread waits for up to a second, in accept() as
\* in recv(): what the wait brings is still handled after the destructor began.
ReceiverLoop ==
    /\ rpc = "loop"
    /\ rpc' = IF rRunning THEN "accept" ELSE "done"
    /\ UNCHANGED <<roc, rRunning, valid, num_timeouts, served, blocks, messages, taken,
                   interrupted>>

AcceptClient ==
    /\ rpc = "accept" /\ served < MaxServed
    /\ served' = served + 1
    /\ valid' = TRUE
    /\ num_timeouts' = 0 /\ blocks' = 0
    /\ rpc' = "check"
    /\ UNCHANGED <<roc, rRunning, messages, taken, interrupted>>

\* The socket accept() returns is not valid: nobody connected in time.
AcceptTimeout ==
    /\ rpc = "accept"
    /\ rpc' = "loop"
    /\ UNCHANGED <<roc, rRunning, valid, num_timeouts, served, blocks, messages, taken,
                   interrupted>>

\* accept() is called outside the try block: when poll() fails, its exception
\* leaves the thread and ends the program.
AcceptThrows ==
    /\ rpc = "accept"
    /\ rpc' = "done" /\ roc' = "terminated"
    /\ UNCHANGED <<rRunning, valid, num_timeouts, served, blocks, messages, taken,
                   interrupted>>

\* The loop over recv() goes on while the socket is valid.
LoopCheck ==
    /\ rpc = "check"
    /\ rpc' = IF rRunning /\ valid THEN "recv" ELSE "loop"
    /\ valid' = (rRunning /\ valid)
    /\ UNCHANGED <<roc, rRunning, num_timeouts, served, blocks, messages, taken, interrupted>>

Received == rpc = "recv" /\ rpc' = "check"

RecvData ==
    /\ Received /\ blocks < MaxBlock
    /\ blocks' = blocks + 1
    /\ messages' = Append(messages, Message("data", blocks'))
    /\ UNCHANGED <<roc, rRunning, valid, num_timeouts, served, taken, interrupted>>

\* Mutant: the socket stays open after an error.
DisconnectsKeepsSocket ==
    /\ messages' = Append(messages, Message("disconnected", blocks))
    /\ UNCHANGED valid

Disconnects ==
    /\ messages' = Append(messages, Message("disconnected", blocks))
    /\ valid' = FALSE

\* recv() returns 0, or throws a runtime_error.
RecvEnds ==
    /\ Received
    /\ Disconnects
    /\ UNCHANGED <<roc, rRunning, num_timeouts, served, blocks, taken, interrupted>>

\* A signal: the loop is left, and the socket is closed without a message.
RecvInterrupted ==
    /\ rpc = "recv"
    /\ rpc' = "loop"
    /\ valid' = FALSE
    /\ interrupted' = interrupted \cup {served}
    /\ UNCHANGED <<roc, rRunning, num_timeouts, served, blocks, messages, taken>>

\* The timeouts of a client are counted together, whatever it sends between them.
RecvTimeout ==
    /\ Received
    /\ num_timeouts' = num_timeouts + 1
    /\ IF num_timeouts' > MaxTimeouts THEN Disconnects ELSE UNCHANGED <<messages, valid>>
    /\ UNCHANGED <<roc, rRunning, served, blocks, taken, interrupted>>

ReceiverThread ==
    \/ ReceiverLoop \/ AcceptClient \/ AcceptTimeout \/ AcceptThrows \/ LoopCheck
    \/ RecvData \/ RecvEnds \/ RecvInterrupted \/ RecvTimeout

RNext == Receive \/ ReceiverStop \/ ReceiverJoin \/ ReceiverThread

RSpec == RInit /\ [][RNext]_rvars
-----------------------------------------------------------------------------
All == taken \o messages

\* "abstracts the handling of connects and disconnects" (Socket.h): the owner
\* sees the blocks of each client in order; the end of a client is marked
\* exactly once, after its blocks and before the next client's, except for
\* clients that a signal has cut off.
DisconnectsMarked ==
    \A k \in 1 .. Len(All) - 1 :
        LET a == All[k]
            b == All[k + 1]
        IN \/ a.kind = "data" /\ b.client = a.client /\ b.number = a.number + 1 /\ b.kind = "data"
           \/ a.kind = "data" /\ b.client = a.client /\ b.number = a.number /\ b.kind = "disconnected"
           \/ /\ b.client > a.client /\ (b.kind = "data" => b.number = 1)
              /\ a.kind = "data" => a.client \in interrupted

\* The destructor returns, unless accept() fails while it waits: the thread waits
\* for clients and data for a second at a time.
ReceiverDestroyed == roc = "joining" ~> roc \in {"destroyed", "terminated"}
=============================================================================
