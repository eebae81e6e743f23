----------------------------- MODULE EventQueue -----------------------------
(***************************************************************************)
(* What the collector and its spool promise of the events that are         *)
(* persisted: they are collected in the order in which they were emitted,  *)
(* go on in whole batches, in order too, and none of them is left behind   *)
(* or goes on twice.                                                       *)
(***************************************************************************)
EXTENDS Naturals, Sequences

CONSTANT Event

VARIABLES
    collected, \* events of the batch that is being filled
    ready,     \* batches that wait for the sync, oldest first
    taken      \* events the sync took over

QueueInit == collected = {} /\ ready = <<>> /\ taken = {}

\* Everything that was ever collected.
Seen == collected \cup taken \cup UNION {ready[i] : i \in DOMAIN ready}

\* The next event: what was emitted before it is dropped if it was not collected.
CollectEvent(e) ==
    /\ \A earlier \in Seen : earlier < e
    /\ collected' = collected \cup {e}
    /\ UNCHANGED <<ready, taken>>

\* All that was collected becomes a batch.
SealBatch ==
    /\ collected # {}
    /\ ready' = Append(ready, collected) /\ collected' = {}
    /\ UNCHANGED taken

\* The sync takes the oldest batch.
HandOver ==
    /\ ready # <<>>
    /\ taken' = taken \cup Head(ready) /\ ready' = Tail(ready)
    /\ UNCHANGED collected

QueueNext == (\E e \in Event : CollectEvent(e)) \/ SealBatch \/ HandOver

QueueSpec == QueueInit /\ [][QueueNext]_<<collected, ready, taken>>
=============================================================================
