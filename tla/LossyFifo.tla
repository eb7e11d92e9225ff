------------------------------ MODULE LossyFifo -------------------------------
(***************************************************************************)
(* What TCPSendClient promises its owner: the buffers are delivered in the  *)
(* order in which they were accepted, none twice; any of them may be lost   *)
(* on the way, but only while it is pending, and the owner is never made to *)
(* wait.  Buffers are numbered in the order of acceptance.                  *)
(***************************************************************************)
EXTENDS Naturals, Sequences, SequencesExt

VARIABLES
    accepted,   \* the number of buffers accepted
    pending,    \* accepted, and neither delivered nor lost
    delivered

fvars == <<accepted, pending, delivered>>

Init == accepted = 0 /\ pending = <<>> /\ delivered = <<>>

Accept ==
    /\ accepted' = accepted + 1
    /\ pending' = Append(pending, accepted')
    /\ UNCHANGED delivered

Deliver ==
    /\ pending # <<>>
    /\ delivered' = Append(delivered, Head(pending))
    /\ pending' = Tail(pending)
    /\ UNCHANGED accepted

Lose(i) ==
    /\ pending' = RemoveAt(pending, i)
    /\ UNCHANGED <<accepted, delivered>>

Next == Accept \/ Deliver \/ \E i \in DOMAIN pending : Lose(i)

Spec == Init /\ [][Next]_fvars
=============================================================================
