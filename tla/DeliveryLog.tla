---------------------------- MODULE DeliveryLog ----------------------------
(***************************************************************************)
(* What victoriapush promises about its input, without the channel, the    *)
(* batches and the ticker: records are numbered as they are accepted, they *)
(* are delivered in that order, and the log is only closed once every      *)
(* record it accepted has been delivered.                                  *)
(***************************************************************************)
EXTENDS Integers

VARIABLES accepted,   \* how many records were accepted
          delivered,  \* how many of them, from the first on, were delivered
          closed

vars == <<accepted, delivered, closed>>

Init ==
    /\ accepted = 0
    /\ delivered = 0
    /\ closed = FALSE

Accept ==
    /\ ~closed
    /\ accepted' = accepted + 1
    /\ UNCHANGED <<delivered, closed>>

\* Any number of the records that wait, the oldest first.
Deliver ==
    /\ ~closed
    /\ \E n \in delivered + 1 .. accepted : delivered' = n
    /\ UNCHANGED <<accepted, closed>>

Close ==
    /\ ~closed
    /\ delivered = accepted
    /\ closed' = TRUE
    /\ UNCHANGED <<accepted, delivered>>

Next == Accept \/ Deliver \/ Close

Spec == Init /\ [][Next]_vars
=============================================================================
