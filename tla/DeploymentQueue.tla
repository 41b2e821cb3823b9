--------------------------- MODULE DeploymentQueue ---------------------------
(***************************************************************************)
(* The durable queue campaign.deploy as the publisher and the consumers    *)
(* use it: persistent messages, manual acknowledgement, prefetch 1.  The   *)
(* order of delivery is left open: a requeued message may come back before *)
(* or after any other.                                                     *)
(***************************************************************************)
EXTENDS Pawfund

VARIABLES
    ready,   \* messages waiting for a consumer
    unacked  \* unacked[w]: the delivery the broker waits for w to settle

queueVars == <<ready, unacked>>

QueueTypeOK ==
    /\ ready \subseteq Message
    /\ unacked \in [Workers -> Message \cup {None}]

QueueInit ==
    /\ ready = Strays
    /\ unacked = [w \in Workers |-> None]

(* Publish: the broker has stored the message. *)
Enqueue(m) ==
    /\ ready' = ready \cup {m}
    /\ UNCHANGED unacked

(* basic.deliver to the consumer of w, which has no other delivery. *)
Deliver(w, m) ==
    /\ m \in ready
    /\ unacked[w] = None
    /\ ready' = ready \ {m}
    /\ unacked' = [unacked EXCEPT ![w] = m]

(* d.Ack; on a channel that is gone it fails and is only logged. *)
AckDelivery(w) ==
    /\ unacked' = [unacked EXCEPT ![w] = None]
    /\ UNCHANGED ready

(* Variant: a delivery already taken back is requeued again. *)
Requeue_unchecked(w) ==
    /\ ready' = ready \cup {unacked[w]}
    /\ unacked' = [unacked EXCEPT ![w] = None]

(* d.Nack with requeue, or the broker taking back the delivery of a        *)
(* consumer whose channel is gone.                                         *)
Requeue(w) ==
    /\ ready' = IF unacked[w] = None THEN ready ELSE ready \cup {unacked[w]}
    /\ unacked' = [unacked EXCEPT ![w] = None]
=============================================================================
