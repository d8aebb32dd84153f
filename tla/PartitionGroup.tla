--------------------------- MODULE PartitionGroup ---------------------------
(***************************************************************************)
(* One partition of a Kafka topic and the consumer group that reads it, as *)
(* the kafkajs consumers of the services see them.  Kafka and kafkajs are  *)
(* not part of the repository; this is what the services rely on:          *)
(*                                                                         *)
(*   - the partition is assigned to one worker at a time, which starts at  *)
(*     the committed offset;                                               *)
(*   - only the worker it is assigned to can commit an offset;             *)
(*   - a worker that has lost the partition finishes the handler it is in, *)
(*     it cannot be interrupted, and takes no further message.             *)
(*                                                                         *)
(* Offsets run from 1; committed and position name the next one to read.   *)
(***************************************************************************)
EXTENDS Naturals

CONSTANTS Workers,          \* members of the consumer group
          NoWorker,         \* the partition is assigned to nobody
          MaxDisturbances   \* bound of the model: crashes and rebalances

ASSUME GroupAssumption == NoWorker \notin Workers /\ MaxDisturbances \in Nat

VARIABLES owner,            \* the worker the partition is assigned to
          committed,        \* the group's committed offset
          position,         \* position[w]: the offset worker w reads next
          disturbances      \* crashes and rebalances so far

groupVars == <<owner, committed, position, disturbances>>

GroupTypeOK(last) ==
  /\ owner \in Workers \cup {NoWorker}
  /\ committed \in 1..last + 1
  /\ position \in [Workers -> 1..last + 1]
  /\ disturbances \in 0..MaxDisturbances

GroupInit ==
  /\ owner = NoWorker
  /\ committed = 1
  /\ position = [w \in Workers |-> 1]
  /\ disturbances = 0

\* The coordinator gives the unassigned partition to w, which must be between
\* two handlers to join the group.
Assign(w) ==
  /\ owner = NoWorker
  /\ owner' = w
  /\ position' = [position EXCEPT ![w] = committed]
  /\ UNCHANGED <<committed, disturbances>>

\* The session of the owner times out: the partition is taken from it while its
\* handler runs on.
Revoke ==
  /\ owner # NoWorker /\ disturbances < MaxDisturbances
  /\ owner' = NoWorker
  /\ disturbances' = disturbances + 1
  /\ UNCHANGED <<committed, position>>

\* The process of w dies and restarts as a new member.
Leave(w) ==
  /\ disturbances < MaxDisturbances
  /\ disturbances' = disturbances + 1
  /\ owner' = IF owner = w THEN NoWorker ELSE owner
  /\ UNCHANGED <<committed, position>>

Advance(w, offset) == position' = [position EXCEPT ![w] = offset]

\* The coordinator refuses the commit of a worker that is not the owner.
MayCommit(w) == owner = w

CommitOffset(w, offset) == MayCommit(w) /\ committed' = offset
=============================================================================
