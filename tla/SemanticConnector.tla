------------------------- MODULE SemanticConnector -------------------------
(***************************************************************************)
(* services/semantic-connector: consumers of normalized.telemetry that put *)
(* readings through the SLM in batches, store one outcome per reading (a   *)
(* semantic event and an audit row, or an audit row "safely_unmapped"),    *)
(* publish it, and commit the Kafka offsets by hand afterwards.  Any error *)
(* leaves the handler, and kafkajs delivers the batch again.               *)
(*                                                                         *)
(* What the SLM and its validation decide is a free choice here; how they  *)
(* decide it is SlmBatchMapper.                                            *)
(***************************************************************************)
EXTENDS PartitionGroup, Sequences, FiniteSets

CONSTANTS Readings,      \* (event_time, reading_id) of the readings
          Invalid,       \* a message that does not parse or validate
          Log,           \* the messages of one partition of normalized.telemetry
          MaxReadings    \* SLM_BATCH_MAX_READINGS

ASSUME LogAssumption ==
  Log \in Seq(Readings \cup {Invalid}) /\ Invalid \notin Readings

ASSUME MaxReadingsAssumption == MaxReadings \in Nat \ {0}

VARIABLES
  \* TimescaleDB
  audit,          \* semantic_slm_audit.final_status of a reading, or "none"
  semantic,       \* semantic_events: readings that have a row
  \* Kafka
  enriched,       \* enriched[r]: times r was sent to semantic.enriched
  letters,        \* letters[r]: times r was sent to the dead-letter topic
  invalidLetters, \* offsets reported to the dead-letter topic as invalid
  \* the consumers, one Kafka batch at a time
  pc,             \* the awaited call the worker is at
  upto,           \* last offset of its Kafka batch
  left,           \* offsets of the batch that are not in an SLM batch yet
  outcomes        \* outcomes of the SLM batch that are not persisted yet

storeVars  == <<audit, semantic>>
topicVars  == <<enriched, letters, invalidLetters>>
workerVars == <<pc, upto, left, outcomes>>
vars       == <<groupVars, storeVars, topicVars, workerVars>>

-----------------------------------------------------------------------------
Last     == Len(Log)
Verdicts == {"mapped", "safely_unmapped"}

First(S) == CHOOSE o \in S : \A p \in S : o <= p

Init ==
  /\ GroupInit
  /\ audit = [r \in Readings |-> "none"]
  /\ semantic = {}
  /\ enriched = [r \in Readings |-> 0]
  /\ letters = [r \in Readings |-> 0]
  /\ invalidLetters = {}
  /\ pc = [w \in Workers |-> "idle"]
  /\ upto = [w \in Workers |-> 0]
  /\ left = [w \in Workers |-> {}]
  /\ outcomes = [w \in Workers |-> <<>>]

GoTo(w, step) == pc' = [pc EXCEPT ![w] = step]

\* Invalid messages are reported first, then the others are mapped.
StepFor(offsets) ==
  IF \E o \in offsets : Log[o] = Invalid THEN "invalid"
  ELSE IF offsets # {} THEN "map" ELSE "commit"

\* The handler is left, by return or by an exception.
Leaves(w) ==
  /\ GoTo(w, "idle")
  /\ upto' = [upto EXCEPT ![w] = 0]
  /\ left' = [left EXCEPT ![w] = {}]
  /\ outcomes' = [outcomes EXCEPT ![w] = <<>>]

\* A call fails and its exception leaves the handler.
Fails(w) ==
  /\ disturbances < MaxDisturbances
  /\ disturbances' = disturbances + 1
  /\ Leaves(w)

\* Mutant: the offsets are resolved in a finally block.
ThrowResolved(w) ==
  /\ Fails(w)
  /\ Advance(w, upto[w] + 1)
  /\ UNCHANGED <<owner, committed>>

\* An exception: nothing is resolved, so kafkajs delivers the batch again.
Throw(w) ==
  /\ Fails(w)
  /\ UNCHANGED <<owner, committed, position>>

\* eachBatch is called with a batch, unless the partition is already lost.
FetchBatch(w) ==
  /\ pc[w] = "idle" /\ owner = w
  /\ \E last \in position[w]..Last :
       /\ upto' = [upto EXCEPT ![w] = last]
       /\ left' = [left EXCEPT ![w] = position[w]..last]
       /\ GoTo(w, StepFor(position[w]..last))
  /\ UNCHANGED <<groupVars, storeVars, topicVars, outcomes>>

\* Mutant: the report of an invalid message is not awaited.
SendInvalidUnawaited(w) ==
  LET o == First({p \in left[w] : Log[p] = Invalid}) IN
  /\ pc[w] = "invalid"
  /\ invalidLetters' \in {invalidLetters, invalidLetters \cup {o}}
  /\ left' = [left EXCEPT ![w] = @ \ {o}]
  /\ GoTo(w, StepFor(left[w] \ {o}))
  /\ UNCHANGED <<groupVars, storeVars, enriched, letters, upto, outcomes>>

\* processNormalizedTelemetryMessages: one dead letter per invalid message.
SendInvalid(w) ==
  LET o == First({p \in left[w] : Log[p] = Invalid}) IN
  /\ pc[w] = "invalid"
  /\ \/ /\ invalidLetters' = invalidLetters \cup {o}
        /\ left' = [left EXCEPT ![w] = @ \ {o}]
        /\ GoTo(w, StepFor(left[w] \ {o}))
        /\ UNCHANGED <<groupVars, upto, outcomes>>
     \/ invalidLetters' \in {invalidLetters, invalidLetters \cup {o}} /\ Throw(w)
  /\ UNCHANGED <<storeVars, enriched, letters>>

\* splitReadingBatches takes the next readings, up to MaxReadings or fewer if
\* the prompt would be too long; mapReadingBatch gives each one verdict, the
\* same for a reading that is in the batch twice, or throws when a retry could
\* not be published.
MapBatch(w) ==
  /\ pc[w] = "map"
  /\ \/ \E last \in left[w] :
          LET batch == {o \in left[w] : o <= last} IN
          /\ Cardinality(batch) <= MaxReadings
          /\ \E verdict \in [{Log[o] : o \in batch} -> Verdicts] :
               outcomes' = [outcomes EXCEPT ![w] = [o \in batch |-> verdict[Log[o]]]]
          /\ left' = [left EXCEPT ![w] = @ \ batch]
          /\ GoTo(w, "persist")
          /\ UNCHANGED <<groupVars, upto>>
     \/ Throw(w)
  /\ UNCHANGED <<storeVars, topicVars>>

\* The outcome that is being persisted, and its reading.
Current(w) == First(DOMAIN outcomes[w])
Verdict(w) == outcomes[w][Current(w)]
Reading(w) == Log[Current(w)]

\* Both inserts of the transaction are ON CONFLICT DO NOTHING.
NewSemantic(w) == Verdict(w) = "mapped" /\ Reading(w) \notin semantic
NewAudit(w)    == audit[Reading(w)] = "none"

\* Mutant: the semantic event is inserted outside of the transaction.
RollbackKeepsSemantic(w) ==
  /\ semantic' = IF NewSemantic(w) THEN semantic \cup {Reading(w)} ELSE semantic
  /\ UNCHANGED audit

Rollback(w) == UNCHANGED <<audit, semantic>>

CommitOutcome(w) ==
  /\ semantic' = IF NewSemantic(w) THEN semantic \cup {Reading(w)} ELSE semantic
  /\ audit' = IF NewAudit(w) THEN [audit EXCEPT ![Reading(w)] = Verdict(w)] ELSE audit

\* Mutant: a mapped outcome is published even if its row was there already.
MustEnrichAlways(w) == Verdict(w) = "mapped"

MustEnrich(w) == NewSemantic(w)

\* Mutant: an unmapped outcome is reported even if it was audited before.
MustReportAlways(w) == Verdict(w) = "safely_unmapped"

MustReport(w) == Verdict(w) = "safely_unmapped" /\ NewAudit(w)

\* The outcome is done; after the last one of the SLM batch come its metrics.
NextOutcome(w) ==
  LET rest == DOMAIN outcomes[w] \ {Current(w)} IN
  /\ outcomes' = [outcomes EXCEPT ![w] = [o \in rest |-> outcomes[w][o]]]
  /\ GoTo(w, IF rest = {} THEN "metrics" ELSE "persist")

\* insertSemanticOutcome, and what its result asks for.
PersistOutcome(w) ==
  /\ pc[w] = "persist"
  /\ \/ /\ CommitOutcome(w)
        /\ \/ MustEnrich(w) /\ GoTo(w, "enrich") /\ UNCHANGED outcomes
           \/ MustReport(w) /\ GoTo(w, "report") /\ UNCHANGED outcomes
           \/ ~MustEnrich(w) /\ ~MustReport(w) /\ NextOutcome(w)
        /\ UNCHANGED <<groupVars, upto, left>>
     \/ (CommitOutcome(w) \/ Rollback(w)) /\ Throw(w)
  /\ UNCHANGED topicVars

Send(topic, r) == [topic EXCEPT ![r] = @ + 1]

\* publishSemanticEvent to semantic.enriched.
PublishEnriched(w) ==
  /\ pc[w] = "enrich"
  /\ \/ /\ enriched' = Send(enriched, Reading(w))
        /\ NextOutcome(w) /\ UNCHANGED <<groupVars, upto, left>>
     \/ enriched' \in {enriched, Send(enriched, Reading(w))} /\ Throw(w)
  /\ UNCHANGED <<storeVars, letters, invalidLetters>>

\* The dead letter of a safely unmapped reading.
PublishLetter(w) ==
  /\ pc[w] = "report"
  /\ \/ /\ letters' = Send(letters, Reading(w))
        /\ NextOutcome(w) /\ UNCHANGED <<groupVars, upto, left>>
     \/ letters' \in {letters, Send(letters, Reading(w))} /\ Throw(w)
  /\ UNCHANGED <<storeVars, enriched, invalidLetters>>

\* insertBatchMetrics; nothing else depends on the row it writes.
RecordMetrics(w) ==
  /\ pc[w] = "metrics"
  /\ \/ GoTo(w, StepFor(left[w])) /\ UNCHANGED <<groupVars, upto, left, outcomes>>
     \/ Throw(w)
  /\ UNCHANGED <<storeVars, topicVars>>

\* Mutant: one is added to what is the next offset already.
NextOffsetSkipping(last) == last + 2

\* resolveDurableOffsets: the offset after the last one of the batch.
NextOffset(last) == last + 1

\* The offsets are resolved, then committed; the commit of a worker that lost
\* the partition is refused, any other may fail with or without its effect, and
\* kafkajs may deliver the batch again or go on after it.
CommitBatch(w) ==
  LET next == NextOffset(upto[w]) IN
  /\ pc[w] = "commit"
  /\ \/ Leaves(w) /\ Advance(w, next) /\ CommitOffset(w, next) /\ UNCHANGED disturbances
     \/ /\ Leaves(w) /\ Advance(w, next)
        /\ ~MayCommit(w) /\ UNCHANGED <<committed, disturbances>>
     \/ /\ Fails(w)
        /\ Advance(w, next) \/ UNCHANGED position
        /\ CommitOffset(w, next) \/ UNCHANGED committed
  /\ UNCHANGED <<owner, storeVars, topicVars>>

Join(w) ==
  /\ pc[w] = "idle"
  /\ Assign(w)
  /\ UNCHANGED <<storeVars, topicVars, workerVars>>

LosePartition ==
  /\ Revoke
  /\ UNCHANGED <<storeVars, topicVars, workerVars>>

\* The process dies in the middle of a batch.
Crash(w) ==
  /\ pc[w] # "idle"
  /\ Leave(w)
  /\ Leaves(w)
  /\ UNCHANGED <<storeVars, topicVars>>

Work(w) ==
  \/ FetchBatch(w)
  \/ SendInvalid(w)
  \/ MapBatch(w)
  \/ PersistOutcome(w)
  \/ PublishEnriched(w)
  \/ PublishLetter(w)
  \/ RecordMetrics(w)
  \/ CommitBatch(w)

Next ==
  \/ \E w \in Workers : Work(w) \/ Join(w) \/ Crash(w)
  \/ LosePartition

Spec == Init /\ [][Next]_vars

\* Event loops run and the coordinator keeps the partition assigned; failures
\* are bounded by MaxDisturbances, as no batch can pass a lasting one.
FairSpec ==
  /\ Spec
  /\ \A w \in Workers : WF_vars(Work(w))
  /\ WF_vars(\E w \in Workers : Join(w))

-----------------------------------------------------------------------------
(* Properties                                                              *)

TypeOK ==
  /\ GroupTypeOK(Last)
  /\ audit \in [Readings -> Verdicts \cup {"none"}]
  /\ semantic \subseteq Readings
  /\ enriched \in [Readings -> Nat] /\ letters \in [Readings -> Nat]
  /\ invalidLetters \subseteq 1..Last
  /\ pc \in [Workers -> {"idle", "invalid", "map", "persist", "enrich", "report",
                         "metrics", "commit"}]
  /\ upto \in [Workers -> 0..Last]
  /\ left \in [Workers -> SUBSET (1..Last)]
  /\ outcomes \in [Workers -> UNION {[S -> Verdicts] : S \in SUBSET (1..Last)}]

\* The message at offset o has its durable terminal outcome.
IsSettled(o) ==
  \/ Log[o] = Invalid /\ o \in invalidLetters
  \/ Log[o] \in Readings /\ audit[Log[o]] # "none"

\* docs/slm-scalability-architecture.md: offsets are committed only after every
\* reading of the Kafka batch has a durable terminal outcome, whatever crashes,
\* lost partitions, failed calls and overlapping workers come in between.
OffsetsAreDurable == \A o \in 1..committed - 1 : IsSettled(o)

\* The reading is in the log more than once.
Repeated(r) == \E o, p \in 1..Last : o # p /\ Log[o] = r /\ Log[p] = r

\* docs/10000-device-validation-plan.md: each reading has "either a validated SLM
\* mapping or an explicit safely-unmapped state".  An audit that says "mapped" has
\* its mapping.  A mapping has an audit that says so, unless the audit says
\* "safely_unmapped" from an earlier delivery: then the row of the call that
\* mapped the reading was dropped (ON CONFLICT DO NOTHING) while its mapping was
\* not.  That takes a call that failed, a crash or a rebalance, or a reading that
\* is in the log twice; without them the two tables always agree.
MappingsAreAudited ==
  \A r \in Readings :
    /\ audit[r] = "mapped" => r \in semantic
    /\ r \in semantic =>
         \/ audit[r] = "mapped"
         \/ audit[r] = "safely_unmapped" /\ (disturbances > 0 \/ Repeated(r))

\* A reading is sent to semantic.enriched at most once, and only when stored,
\* although it may be mapped any number of times by several workers.  One
\* producer.send counts once, although kafkajs may repeat its request.
EnrichedRelay == INSTANCE StoreThenPublish WITH
  Items <- Readings, stored <- semantic, sent <- enriched

EnrichesStoredOnce == EnrichedRelay!RelaySpec

\* A reading is reported to the dead-letter topic at most once, and only if the
\* audit says it was safely unmapped: no reading audited as mapped ever is.
LetterRelay == INSTANCE StoreThenPublish WITH
  Items <- Readings,
  stored <- {r \in Readings : audit[r] = "safely_unmapped"},
  sent <- letters

ReportsUnmappedOnce == LetterRelay!RelaySpec

\* Every message gets its outcome once the failures stop, even if the offset of
\* the last batch is never committed (a failed commit is not tried again).
EverythingIsSettled == <>(\A o \in 1..Last : IsSettled(o))

\* docs/1000-assets-validation-report.md: "semantic offsets advance only after
\* database and output-topic completion".
OffsetsAfterOutput ==
  \A o \in 1..committed - 1 : Log[o] \in Readings =>
    enriched[Log[o]] > 0 \/ letters[Log[o]] > 0
=============================================================================
