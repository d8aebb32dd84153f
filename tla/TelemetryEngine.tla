-------------------------- MODULE TelemetryEngine --------------------------
(***************************************************************************)
(* services/engine: consumers of raw.telemetry that validate a message,    *)
(* split it into readings, store them in one transaction and publish the   *)
(* readings that were new to normalized.telemetry.  Every error ends in a  *)
(* row of processing_errors and the message counts as consumed.            *)
(***************************************************************************)
EXTENDS PartitionGroup, Sequences

CONSTANTS Devices,
          NoMessageId, \* the message has no message_id or correlation_id
          NoReadingId, \* the message gives no id to this reading
          Log          \* the messages of one partition of raw.telemetry

\* A message: does it parse and validate, whose is it and is it a simulated
\* device with a household profile, its correlation_id or message_id, its time,
\* and its readings in order, each with the id the sender gave it.  Nothing
\* keeps a sender from giving one id to several readings, or one message_id to
\* several messages.
Messages ==
  [valid : BOOLEAN, device : Devices, simulated : BOOLEAN, time : Nat,
   message : {NoMessageId} \cup STRING,
   readings : Seq([name : STRING, value : Nat, id : {NoReadingId} \cup STRING])]

ASSUME LogAssumption == Log \in Seq(Messages)

VARIABLES
  \* TimescaleDB
  normalized,   \* normalized_telemetry: stored readings
  registry,     \* simulated_device_registry: offset last applied, 0 if none
  errors,       \* processing_errors: offsets
  \* Kafka
  published,    \* published[e]: times reading e was sent to normalized.telemetry
  \* the consumers, one message at a time
  pc,           \* the awaited call the worker is at
  fresh,        \* insertedNormalizedRows of its message
  \* observation only
  unlogged      \* offsets whose error row the database refused

storeVars  == <<normalized, registry, errors>>
workerVars == <<pc, fresh>>
vars       == <<groupVars, storeVars, published, workerVars, unlogged>>

-----------------------------------------------------------------------------
(* Readings and their identity                                             *)

Offsets == DOMAIN Log
Last    == Len(Log)

\* buildCorrelationId
Correlation(o) ==
  IF Log[o].message # NoMessageId THEN <<"message", Log[o].message>> ELSE <<"offset", o>>

\* Mutant: the hash leaves out which reading of the message it is.
ReadingIdOfMessage(o, i) ==
  LET m == Log[o] IN
  IF m.readings[i].id # NoReadingId THEN <<"given", m.readings[i].id>>
  ELSE <<"hash", Correlation(o), m.time, m.device>>

\* The id given by the sender, or a hash of what identifies the reading.
ReadingId(o, i) ==
  LET m == Log[o] IN
  IF m.readings[i].id # NoReadingId THEN <<"given", m.readings[i].id>>
  ELSE <<"hash", Correlation(o), m.time, m.device, m.readings[i].name>>

Rows(o) == DOMAIN Log[o].readings

\* The unique index of normalized_telemetry.
KeyOf == [o \in Offsets |-> [i \in Rows(o) |-> <<Log[o].time, ReadingId(o, i)>>]]

Key(o, i) == KeyOf[o][i]

\* The row of a reading, and its event: two messages that repeat a reading have
\* the same one, two readings under one key do not.
EventOf ==
  [o \in Offsets |-> [i \in Rows(o) |->
     [key |-> Key(o, i), device |-> Log[o].device, name |-> Log[o].readings[i].name,
      value |-> Log[o].readings[i].value]]]

Event(o, i) == EventOf[o][i]

Events == UNION {{Event(o, i) : i \in Rows(o)} : o \in Offsets}

StoredKeys == {e.key : e \in normalized}

\* INSERT ... ON CONFLICT DO NOTHING, row by row: the first of the rows that
\* share a new key is stored.
StoredOf(o) ==
  {i \in Rows(o) : /\ Key(o, i) \notin StoredKeys
                   /\ \A j \in Rows(o) : j < i => Key(o, j) # Key(o, i)}

\* The rows returned are those whose reading_id was inserted: with the row that
\* is stored also the later ones of the message under its id, which are not.
InsertedRows(o) == {i \in Rows(o) : Key(o, i) \notin StoredKeys}

-----------------------------------------------------------------------------
Init ==
  /\ GroupInit
  /\ normalized = {}
  /\ registry = [d \in Devices |-> 0]
  /\ errors = {}
  /\ published = [e \in Events |-> 0]
  /\ pc = [w \in Workers |-> "idle"]
  /\ fresh = [w \in Workers |-> {}]
  /\ unlogged = {}

GoTo(w, step) == pc' = [pc EXCEPT ![w] = step]

\* Mutant: the next message is skipped.
FinishSkipping(w) ==
  /\ GoTo(w, "idle")
  /\ fresh' = [fresh EXCEPT ![w] = {}]
  /\ Advance(w, position[w] + 2)
  /\ UNCHANGED <<owner, committed, disturbances>>

\* eachMessage has returned: kafkajs resolves the offset.
Finish(w) ==
  /\ GoTo(w, "idle")
  /\ fresh' = [fresh EXCEPT ![w] = {}]
  /\ Advance(w, position[w] + 1)
  /\ UNCHANGED <<owner, committed, disturbances>>

\* A message is taken, parsed and validated.
TakeMessage(w) ==
  /\ pc[w] = "idle" /\ owner = w /\ position[w] <= Last
  /\ GoTo(w, IF Log[position[w]].valid THEN "insert" ELSE "error")
  /\ UNCHANGED <<groupVars, storeVars, published, fresh, unlogged>>

\* upsertSimulatedDevice: the message is the device's state, unless it is not
\* a simulated one.
UpsertDevice(o) ==
  registry' = IF Log[o].simulated THEN [registry EXCEPT ![Log[o].device] = o] ELSE registry

\* The transaction of insertTelemetryBatch.
Commit(o) ==
  /\ normalized' = normalized \cup {Event(o, i) : i \in StoredOf(o)}
  /\ UpsertDevice(o)

\* Mutant: the registry is updated outside of the transaction.
RollbackKeepsRegistry(o) == UpsertDevice(o) /\ UNCHANGED normalized

Rollback(o) == UNCHANGED <<normalized, registry>>

\* Mutant: every row is published, not only the inserted ones.
InsertBatchReturningAll(w) ==
  LET o == position[w] IN
  /\ pc[w] = "insert"
  /\ Commit(o)
  /\ fresh' = [fresh EXCEPT ![w] = Rows(o)]
  /\ GoTo(w, "publish")
  /\ UNCHANGED <<groupVars, errors, published, unlogged>>

\* insertTelemetryBatch; with nothing new there is nothing to publish.
InsertBatch(w) ==
  LET o == position[w] IN
  /\ pc[w] = "insert"
  /\ \/ /\ Commit(o)
        /\ InsertedRows(o) # {}
        /\ fresh' = [fresh EXCEPT ![w] = InsertedRows(o)]
        /\ GoTo(w, "publish")
        /\ UNCHANGED groupVars
     \/ Commit(o) /\ InsertedRows(o) = {} /\ Finish(w)
     \/ (Commit(o) \/ Rollback(o)) /\ GoTo(w, "error") /\ UNCHANGED <<fresh, groupVars>>
  /\ UNCHANGED <<errors, published, unlogged>>

\* One producer.send is counted once, although kafkajs may repeat its request to
\* the broker.
Send(w) ==
  LET sent == {Event(position[w], i) : i \in fresh[w]} IN
  published' = [e \in Events |-> IF e \in sent THEN published[e] + 1 ELSE published[e]]

\* publishNormalizedTelemetry: one producer.send of all new readings.
PublishNew(w) ==
  /\ pc[w] = "publish"
  /\ \/ Send(w) /\ Finish(w)
     \/ /\ Send(w) \/ UNCHANGED published
        /\ GoTo(w, "error") /\ UNCHANGED <<fresh, groupVars>>
  /\ UNCHANGED <<storeVars, unlogged>>

\* Mutant: an error that cannot be logged is thrown, so the message is retried.
LogErrorOrThrow(w) ==
  LET o == position[w] IN
  /\ pc[w] = "error"
  /\ \/ errors' = errors \cup {o} /\ Finish(w)
     \/ UNCHANGED errors /\ GoTo(w, "idle") /\ UNCHANGED <<fresh, groupVars>>
  /\ UNCHANGED <<normalized, registry, published, unlogged>>

\* logProcessingError: a failure of the error log itself is swallowed.
LogError(w) ==
  LET o == position[w] IN
  /\ pc[w] = "error"
  /\ \/ errors' = errors \cup {o} /\ UNCHANGED unlogged
     \/ UNCHANGED errors /\ unlogged' = unlogged \cup {o}
  /\ Finish(w)
  /\ UNCHANGED <<normalized, registry, published>>

\* Mutant: the offset of the message in hand is committed as well.
CommitResolvedEarly(w) ==
  /\ pc[w] # "idle"
  /\ CommitOffset(w, position[w] + 1)
  /\ UNCHANGED <<owner, position, disturbances, storeVars, published, workerVars, unlogged>>

\* kafkajs commits resolved offsets on its own schedule.
CommitResolved(w) ==
  /\ committed < position[w]
  /\ CommitOffset(w, position[w])
  /\ UNCHANGED <<owner, position, disturbances, storeVars, published, workerVars, unlogged>>

Join(w) ==
  /\ pc[w] = "idle"
  /\ Assign(w)
  /\ UNCHANGED <<storeVars, published, workerVars, unlogged>>

LosePartition ==
  /\ Revoke
  /\ UNCHANGED <<storeVars, published, workerVars, unlogged>>

\* The process dies: the rest of its message is not done.
Crash(w) ==
  /\ pc[w] # "idle"
  /\ Leave(w)
  /\ GoTo(w, "idle")
  /\ fresh' = [fresh EXCEPT ![w] = {}]
  /\ UNCHANGED <<storeVars, published, unlogged>>

\* What the event loop of a worker does, and what the coordinator does for it.
Work(w) ==
  \/ TakeMessage(w)
  \/ InsertBatch(w)
  \/ PublishNew(w)
  \/ LogError(w)

Next ==
  \/ \E w \in Workers : Work(w) \/ CommitResolved(w) \/ Join(w) \/ Crash(w)
  \/ LosePartition

Spec == Init /\ [][Next]_vars

\* A worker's event loop runs, kafkajs keeps committing, and the coordinator
\* keeps the partition assigned.  Database and broker may fail forever.
FairSpec ==
  /\ Spec
  /\ \A w \in Workers : WF_vars(Work(w)) /\ WF_vars(CommitResolved(w))
  /\ WF_vars(\E w \in Workers : Join(w))

-----------------------------------------------------------------------------
(* Properties                                                              *)

TypeOK ==
  /\ GroupTypeOK(Last)
  /\ normalized \subseteq Events
  /\ registry \in [Devices -> 0..Last]
  /\ errors \subseteq Offsets /\ unlogged \subseteq Offsets
  /\ published \in [Events -> Nat]
  /\ pc \in [Workers -> {"idle", "insert", "publish", "error"}]
  /\ fresh \in [Workers -> SUBSET Nat]
  /\ \A w \in Workers : fresh[w] # {} =>
       position[w] \in Offsets /\ fresh[w] \subseteq Rows(position[w])

\* The reading was dropped for another one that is stored under its key.  The
\* sender gave both the same id, or sent the same reading of a device under the
\* same message id with another value: hashed ids never meet otherwise.
Displaced(o, i) ==
  \E e \in normalized :
    /\ e.key = Key(o, i) /\ e # Event(o, i)
    /\ \/ Log[o].readings[i].id # NoReadingId
       \/ e.device = Log[o].device /\ e.name = Log[o].readings[i].name

\* The very reading is stored, or it was displaced.
StoredOrDisplaced(o, i) == Event(o, i) \in normalized \/ Displaced(o, i)

\* No two readings are stored under one key.
OneRowPerKey == \A e, f \in normalized : e.key = f.key => e = f

\* No consumed message has vanished, except for readings displaced by a reading
\* under the same id: below the committed offset a message has an error row, or
\* was refused one (processRawTelemetryMessage swallows every error, and the
\* offset advances regardless), or each of its readings is stored itself, or
\* dropped without an error row for the one reading that has its id
\* (ON CONFLICT DO NOTHING).  A reading without an id of the sender's is never
\* dropped for another device's, or for another reading of its message.
ConsumedIsAccounted ==
  /\ OneRowPerKey
  /\ \A o \in 1..committed - 1 :
       \/ o \in errors \cup unlogged
       \/ Log[o].valid /\ \A i \in Rows(o) : StoredOrDisplaced(o, i)

\* The registry never shows a message whose readings are neither stored nor
\* displaced: the upsert and the inserts are one transaction.
RegistryIsBacked ==
  \A d \in Devices : registry[d] # 0 =>
    \A i \in Rows(registry[d]) : StoredOrDisplaced(registry[d], i)

\* The readings whose key no other reading of the log has.
Unshared == {e \in Events : \A f \in Events : f.key = e.key => f = e}

\* Redelivery, retries of the sender under the same ids, and two workers on one
\* partition never publish a reading under a key of its own twice, nor before
\* that very reading is stored.
Relay == INSTANCE StoreThenPublish WITH
  Items <- Unshared,
  stored <- normalized \cap Unshared,
  sent <- [e \in Unshared |-> published[e]]

\* The reading is stored, or another one of the same message under its id.
StoredInMessage(e) ==
  \E o \in Offsets : \E i, j \in Rows(o) :
    Event(o, i) = e /\ Key(o, j) = e.key /\ Event(o, j) \in normalized

\* Nor does a send publish a reading under a shared key twice.  It may be published
\* without ever being stored (the rows returned are filtered by reading_id), but
\* only for another reading of its message, under the same id, that is stored.
SharedIsPublishedOnce ==
  \A e \in Events : published[e] > 0 => published[e] = 1 /\ StoredInMessage(e)

PublishesStoredOnce ==
  Relay!RelaySpec /\ [][SharedIsPublishedOnce']_published

\* A message the engine cannot handle never blocks its partition, even if
\* database and broker keep failing.
PartitionIsConsumed == <>[](committed = Last + 1)

\* docs/slm-scalability-architecture.md: "Every normalized reading enters a
\* provider request", hence it is published to normalized.telemetry first.
NormalizedIsPublished ==
  \A e \in Events : e \in normalized ~> published[e] > 0
=============================================================================
