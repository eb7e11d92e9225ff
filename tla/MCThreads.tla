------------------------------- MODULE MCThreads ------------------------------
(***************************************************************************)
(* The classes that own a thread and a queue to it, for TLC.  A behaviour   *)
(* is about one of them.                                                    *)
(***************************************************************************)
EXTENDS TCPSendClient, TCPDataDispatcher, TCPReceiveServer, Logger

VARIABLE role

threads == <<cvars, dvars, rvars, lvars, role>>

MCInit ==
    /\ role \in {"client", "dispatcher", "receiver", "logger"}
    /\ Init /\ DInit /\ RInit /\ LInit
    /\ role # "client" => peerUp

MCNext ==
    /\ \/ role = "client" /\ Next /\ UNCHANGED <<dvars, rvars, lvars>>
       \/ role = "dispatcher" /\ DNext /\ UNCHANGED <<cvars, rvars, lvars>>
       \/ role = "receiver" /\ RNext /\ UNCHANGED <<cvars, dvars, lvars>>
       \/ role = "logger" /\ LNext /\ UNCHANGED <<cvars, dvars, rvars>>
    /\ UNCHANGED role

\* The fairness of each class, for the behaviours that are about it: its threads
\* run, and no owner need call anything.  Nothing is asked of the peer of the client
\* or of the clients of the dispatcher: they may stay away, or stop reading for good.
MCFairSpec ==
    /\ MCInit /\ [][MCNext]_threads
    /\ WF_cvars(role = "client" /\ OwnerFinishes)
    /\ WF_cvars(role = "client" /\ SenderRuns)
    /\ WF_cvars(role = "client" /\ SenderSend)
    /\ WF_dvars(role = "dispatcher" /\ dpc # "undefined" /\ DOwner)
    /\ WF_dvars(role = "dispatcher" /\ dpc # "undefined" /\ Listener)
    /\ \A c \in Client : WF_dvars(role = "dispatcher" /\ dpc # "undefined" /\ Connection(c))
    /\ WF_rvars(role = "receiver" /\ (ReceiverJoin \/ ReceiverThread))
    /\ WF_lvars(role = "logger" /\ LogCallers)
    /\ WF_lvars(role = "logger" /\ IoRuns)
-----------------------------------------------------------------------------
\* Every destructor that is called returns: each of them joins a thread that may
\* sleep, send, wait for a connection or have ended already.  The two that join a
\* sender thread may wait for a ::send() that blocks for good, and for nothing else.
DestructorsReturn ==
    DestructorReturns /\ DispatcherDestroyed /\ ReceiverDestroyed /\ LoggerDestroyed

\* What is queued for a thread is worked off, as long as its owner is not being
\* destroyed: no notification is missed.
QueuesDrain == QueueDrains /\ LogDrains
=============================================================================
