-------------------------------- MODULE Logger ---------------------------------
(***************************************************************************)
(* lib/Log.cpp: any thread logs by pushing a message on a ThreadsafeQueue;  *)
(* the logger's thread hands each one to all backends and prints it.  The   *)
(* destructor wakes the thread up and joins it.                             *)
(*                                                                         *)
(* A message is its number, 1, 2, ... in the order of logstr(); the ones of *)
(* the set TraceMessages are of the level trace, which is not printed.      *)
(***************************************************************************)
EXTENDS Naturals, Sequences

CONSTANTS
    Backends,       \* backends that may be registered
    Tracers,        \* those of them that take only the level trace (LogTracer)
    TraceMessages,  \* the messages of the level trace
    MaxLog          \* bound: messages logged

ASSUME LoggerAssumption == Tracers \subseteq Backends /\ MaxLog \in Nat

VARIABLES
    m_message_queue, logWakeup, logWaiting, \* the queue
    logpc,          \* callers: "idle", "pushed"; destructor: "waking", "joining",
                    \*   "destroyed"
    iopc,           \* thread: "pop", "write", "done"
    m,              \* the message popped
    registered,     \* backends
    logged,         \* messages so far
    printed,        \* history: messages written to cerr
    written,        \* history: what each backend has written
    since           \* history: messages logged or popped before a backend came

Q == INSTANCE ThreadsafeQueue WITH
        the_queue <- m_message_queue, wakeup_requested <- logWakeup, waiting <- logWaiting

logQueue == <<m_message_queue, logWakeup, logWaiting>>
lvars == <<logQueue, logpc, iopc, m, registered, logged, printed, written, since>>

LInit ==
    /\ Q!QueueInit
    /\ logpc = "idle" /\ iopc = "pop"
    /\ m = 0
    /\ registered = {}
    /\ logged = 0
    /\ printed = <<>>
    /\ written = [b \in Backends |-> <<>>]
    /\ since = [b \in Backends |-> 0]
-----------------------------------------------------------------------------
\* logstr(): push() and then its notification.
logstr ==
    /\ logpc = "idle" /\ logged < MaxLog
    /\ logged' = logged + 1
    /\ Q!push(logged')
    /\ logpc' = "pushed"
    /\ UNCHANGED <<iopc, m, registered, printed, written, since>>

LogNotify ==
    /\ logpc = "pushed"
    /\ Q!notify_one
    /\ logpc' = "idle"
    /\ UNCHANGED <<iopc, m, registered, logged, printed, written, since>>

\* register_backend(), under m_backend_mutex: not while a message is written.
register_backend(b) ==
    /\ logpc = "idle" /\ b \notin registered
    /\ registered' = registered \cup {b}
    /\ since' = [since EXCEPT ![b] = logged - Len(m_message_queue) - (IF m = 0 THEN 0 ELSE 1)]
    /\ UNCHANGED <<logQueue, logpc, iopc, m, logged, printed, written>>

\* ~Logger()
LoggerWakeup ==
    /\ logpc = "idle"
    /\ Q!trigger_wakeup
    /\ logpc' = "waking"
    /\ UNCHANGED <<iopc, m, registered, logged, printed, written, since>>

LoggerNotify ==
    /\ logpc = "waking"
    /\ Q!notify_one
    /\ logpc' = "joining"
    /\ UNCHANGED <<iopc, m, registered, logged, printed, written, since>>

LoggerJoin ==
    /\ logpc = "joining" /\ iopc = "done"
    /\ registered' = {}
    /\ logpc' = "destroyed"
    /\ UNCHANGED <<logQueue, iopc, m, logged, printed, written, since>>
-----------------------------------------------------------------------------
(* io_process() *)

IoSleep ==
    /\ iopc = "pop"
    /\ Q!wait_sleep \/ Q!wait_spurious
    /\ UNCHANGED <<logpc, iopc, m, registered, logged, printed, written, since>>

IoPop ==
    /\ iopc = "pop"
    /\ Q!wait_pop
    /\ m' = Head(m_message_queue)
    /\ iopc' = "write"
    /\ UNCHANGED <<logpc, registered, logged, printed, written, since>>

\* The wakeup comes before the messages that are still queued: they are lost.
IoWakeup ==
    /\ iopc = "pop"
    /\ Q!wait_wakeup
    /\ iopc' = "done"
    /\ UNCHANGED <<logpc, m, registered, logged, printed, written, since>>

\* Mutant: the files and syslog take every level.
takesAll(b, msg) == b \in Tracers => msg \in TraceMessages

\* log() of the backends: LogToFile and LogToSyslog leave the level trace out.
takes(b, msg) == (msg \in TraceMessages) <=> (b \in Tracers)

IoWrite ==
    /\ iopc = "write"
    /\ written' = [b \in Backends |-> IF b \in registered /\ takes(b, m)
                                      THEN Append(written[b], m) ELSE written[b]]
    /\ printed' = IF m \in TraceMessages THEN printed ELSE Append(printed, m)
    /\ m' = 0
    /\ iopc' = "pop"
    /\ UNCHANGED <<logQueue, logpc, registered, logged, since>>

LogCallers == LogNotify \/ LoggerNotify \/ LoggerJoin
IoThread == IoSleep \/ IoPop \/ IoWakeup \/ IoWrite

\* What the thread does by itself: it does not wake up spuriously.
IoRuns == IoPop \/ IoWakeup \/ IoWrite \/ (Q!wait_sleep /\ IoSleep)

LNext ==
    \/ logstr \/ (\E b \in Backends : register_backend(b)) \/ LoggerWakeup
    \/ LogCallers \/ IoThread

LSpec == LInit /\ [][LNext]_lvars
-----------------------------------------------------------------------------
\* The sequence s has the messages of the set S, each one once and in order.
Lists(s, S) ==
    /\ {s[k] : k \in DOMAIN s} = S
    /\ \A j, k \in DOMAIN s : j < k => s[j] < s[k]

\* Everything that has been taken from the queue is printed, and written by each
\* backend that was registered, once and in order, by its level: what is lost is
\* what the destructor leaves in the queue, and nothing else.
LogComplete ==
    LET done == logged - Len(m_message_queue) - (IF m = 0 THEN 0 ELSE 1)
    IN /\ m_message_queue = [k \in 1 .. Len(m_message_queue) |-> logged - Len(m_message_queue) + k]
       /\ Lists(printed, {i \in 1 .. done : i \notin TraceMessages})
       /\ \A b \in registered :
            Lists(written[b], {i \in since[b] + 1 .. done : i \in TraceMessages <=> b \in Tracers})

\* As long as the logger is not destroyed, what is logged is written in the end.
LogDrains == [](m_message_queue # <<>> => <>(m_message_queue = <<>> \/ logpc \in {"joining", "destroyed"}))

\* The destructor, which runs when the program exits, returns.
LoggerDestroyed == logpc = "waking" ~> logpc = "destroyed"
=============================================================================
