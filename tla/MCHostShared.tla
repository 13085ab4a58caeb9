---------------------------- MODULE MCHostShared ----------------------------
(* State the host's hooks share without a lock, on small instances: one    *)
(* slot of the record table (SlotClaim.tla) and the exact queue counts of  *)
(* one queue (HostQueues.tla). Requests differ only in their addresses:    *)
(* exchanging them changes nothing the invariants speak of.                *)
EXTENDS SlotClaim, TLC

CONSTANTS QueueRqs, NoRq, CountedMax, MaxDispatches, MaxTimeouts   \* HostQueues'

VARIABLES
  part,                                         \* which of the two is looked at
  qs, counted, stage, sending, completing, depth, others, failed, dispatches, timeouts

queueVars == <<qs, counted, stage, sending, completing, depth, others, failed, dispatches,
               timeouts>>

Queues == INSTANCE HostQueues WITH Rqs <- QueueRqs

MCInit == Init /\ Queues!Init /\ part \in {"slot", "queue"}

MCNext ==
  \/ part = "slot" /\ Next /\ UNCHANGED <<part, queueVars>>
  \/ part = "queue" /\ Queues!Next /\ UNCHANGED <<part, vars>>

MCSpec == MCInit /\ [][MCNext]_<<part, vars, queueVars>>

Exchanges == Permutations(Rqs) \cup Permutations(QueueRqs)

\* As in HostQueues: the number of commands not yet completed is never too
\* small, whatever the two uncount()s read and write in between; and what a
\* record takes from the counters fits in 16 bits.
InflightCovers == Queues!TypeOK /\ Queues!InflightCovers
=============================================================================
