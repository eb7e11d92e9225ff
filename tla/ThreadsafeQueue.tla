--------------------------- MODULE ThreadsafeQueue ----------------------------
(***************************************************************************)
(* lib/ThreadsafeQueue.h: a queue between threads, with a mutex and a       *)
(* condition variable.  A section of code that holds the_mutex is one       *)
(* action.  notify_one() comes after the unlock and is an action of its     *)
(* own: a consumer that has found the queue empty sleeps (waiting) until it *)
(* is notified, or wakes up spuriously, and then looks again.  Each queue   *)
(* of the program has one consumer thread.                                  *)
(***************************************************************************)
EXTENDS Naturals, Sequences

VARIABLES
    the_queue,
    wakeup_requested,
    waiting             \* the consumer sleeps on the_rx_notification

queueVars == <<the_queue, wakeup_requested, waiting>>

QueueInit ==
    /\ the_queue = <<>>
    /\ wakeup_requested = FALSE
    /\ waiting = FALSE

\* push(): the section that holds the mutex.
push(val) ==
    /\ the_queue' = Append(the_queue, val)
    /\ UNCHANGED <<wakeup_requested, waiting>>

notify_one ==
    /\ waiting' = FALSE
    /\ UNCHANGED <<the_queue, wakeup_requested>>

\* try_pop(): discards the front of the queue, if there is one.
try_pop ==
    /\ the_queue' = IF the_queue = <<>> THEN <<>> ELSE Tail(the_queue)
    /\ UNCHANGED <<wakeup_requested, waiting>>

\* trigger_wakeup(): the section that holds the mutex.
trigger_wakeup ==
    /\ wakeup_requested' = TRUE
    /\ UNCHANGED <<the_queue, waiting>>

\* wait_and_pop(): nothing is there, and no wakeup is requested.
wait_sleep ==
    /\ ~waiting /\ the_queue = <<>> /\ ~wakeup_requested
    /\ waiting' = TRUE
    /\ UNCHANGED <<the_queue, wakeup_requested>>

wait_spurious ==
    /\ waiting
    /\ waiting' = FALSE
    /\ UNCHANGED <<the_queue, wakeup_requested>>

\* wait_and_pop() throws ThreadsafeQueueWakeup, even if items are queued.
wait_wakeup ==
    /\ ~waiting /\ wakeup_requested
    /\ wakeup_requested' = FALSE
    /\ UNCHANGED <<the_queue, waiting>>

\* wait_and_pop() returns the front of the queue.
wait_pop ==
    /\ ~waiting /\ ~wakeup_requested /\ the_queue # <<>>
    /\ the_queue' = Tail(the_queue)
    /\ UNCHANGED <<wakeup_requested, waiting>>
=============================================================================
