--------------------------- MODULE DispatchChain ---------------------------
(***************************************************************************)
(* From a DSO's grid signal to the simulated devices, over four services   *)
(* and the reviewers between them:                                         *)
(*                                                                         *)
(*   ieee20305-translator  POST /dso/grid-signal: row, then grid.signals;  *)
(*                         semantic.enriched: row, then                    *)
(*                         ieee20305.translated                            *)
(*   aggregator            grid.signals -> a row of dispatch_commands, an  *)
(*                         event on dispatch.command.proposed, an audit    *)
(*   approval-workflow     ApprovalLifecycle, which ApprovalWorkflow       *)
(*                         implements: reviewed, approved, announced       *)
(*   mock-dispatch-adapter       dispatch.command.ready -> mock events     *)
(*   device-command-translator   dispatch.command.ready -> HTTP commands   *)
(*                         to the simulators, one after another            *)
(*                                                                         *)
(* The consumers are alike: one process, one message at a time, the        *)
(* errors of the handler are swallowed and kafkajs commits offsets on its  *)
(* own schedule, so a restart repeats what was not committed.  Any awaited *)
(* call may fail, with its effect or without.                              *)
(***************************************************************************)
EXTENDS SemanticTranslation, DeviceCommands, MockDispatch, FiniteSetsExt

CONSTANTS Bodies,        \* bodies a DSO posts, by signal id
          GridBacklog,   \* messages on grid.signals before, e.g. not JSON
          ReadyBacklog,  \* messages on dispatch.command.ready before
          Enriched,      \* messages on semantic.enriched
          MaxDisturbances  \* bound of the model: failed calls and restarts

\* Row 0 stands for a ready event of no row.
NoRow == 0

\* The time of processing: later than any reading, and another one each time.
ProcessedAt(take) == 1000 + take

ASSUME ChainAssumption ==
  /\ IsFiniteSet(DOMAIN Bodies)
  /\ \A s \in DOMAIN Bodies : /\ Bodies[s].signal_id = s
                             /\ RequiredStrings \subseteq DOMAIN Bodies[s]
  /\ MaxDisturbances \in Nat
  /\ GridBacklog \in Seq(Range(GridBacklog))
  /\ \A m \in Range(GridBacklog) : ~validateGridSignalEvent(m)
  /\ ReadyBacklog \in Seq(Range(ReadyBacklog))
  /\ \A b \in Range(ReadyBacklog) : b.id = NoRow /\ ~validateReadyCommand(b)

\* semantic-connector publishes a reading once, so an id and a time name one event.
ASSUME EnrichedAssumption ==
  /\ Enriched \in Seq(Range(Enriched))
  /\ \A e \in Range(Enriched) : e.event_time \in 0..ProcessedAt(0)
  /\ \A e, f \in Range(Enriched) :
       /\ e.reading_id # Missing /\ e.reading_id = f.reading_id
       /\ e.event_time # NoTime /\ e.event_time = f.event_time
       => e = f

VARIABLES
  \* ieee20305-translator
  post,            \* post[s]: where the request with the signal s is
  ieeeEvents,      \* ieee20305_events: rows of each signal
  gridSignals,     \* grid.signals
  enriched,        \* semantic.enriched
  takes,           \* messages of it taken so far, the clock of their processing
  translation,     \* the translated event in hand, if there is one
  ieeeReadings,    \* ieee20305_events: rows of semantic events
  translated,      \* ieee20305.translated
  \* aggregator
  rows,            \* dispatch_commands: the message and the proposal of each row
  draft,           \* row of the proposal in hand, 0 if it is not stored
  proposed,        \* rows published to dispatch.command.proposed
  proposedAudits,  \* rows with a "proposed" event on dispatch.command.audit
  failedAudits,    \* messages with a "failed" event there
  \* approval-workflow
  status, announced,
  readyTopic,      \* dispatch.command.ready
  \* mock-dispatch-adapter: how often, for each row
  mockRows, mockSent, mockResults, mockAudits,
  \* device-command-translator: how often, for each row and device
  attempts,        \* commands sent, or tried to
  accepted,        \* commands the simulator accepted
  deviceRows,      \* rows of device_command_audit
  results,         \* events on device.command.result
  deviceAudits,    \* events on device.command.audit
  commands,        \* translated.commands of the event in hand
  cursor,          \* the command in hand
  answer,          \* simulatedResponse.accepted
  deviceState,     \* the simulators
  \* the consumers
  pc, position, committed,
  \* bounds
  failures, restarts

readingVars  == <<enriched, takes, translation, ieeeReadings, translated>>
postVars     == <<post, ieeeEvents, gridSignals, readingVars>>
proposalVars == <<rows, draft, proposed, proposedAudits, failedAudits>>
reviewVars   == <<status, announced, readyTopic>>
mockVars     == <<mockRows, mockSent, mockResults, mockAudits>>
deviceVars   == <<attempts, accepted, deviceRows, results, deviceAudits, commands, cursor,
                  answer, deviceState>>
offsetVars   == <<position, committed>>
vars == <<postVars, proposalVars, reviewVars, mockVars, deviceVars, pc, offsetVars,
          failures, restarts>>

-----------------------------------------------------------------------------
Consumers == {"semantic", "aggregator", "adapter", "translator"}

Topic(c) ==
  CASE c = "semantic" -> enriched [] c = "aggregator" -> gridSignals [] OTHER -> readyTopic

Message(c) == Topic(c)[position[c]]

MaxRows == Cardinality({s \in DOMAIN Bodies : validateGridSignal(Bodies[s])})
             * 2 ^ MaxDisturbances

\* A bound of the model, which AmplificationIsBounded shows is never reached.
RowIds == 1..MaxRows

Lifecycle == INSTANCE ApprovalLifecycle WITH Commands <- RowIds, Requests <- {"reviewer"}

\* buildReadyEvent of the approval workflow.
ReadyEventOf(r, proposal) ==
  [id |-> r, status |-> "ready_to_dispatch", no_execution |-> TRUE, execution_blocked |-> TRUE,
   signal_id |-> proposal.signal_id, community_id |-> proposal.community_id,
   requested_action |-> proposal.requested_action, proposed_action |-> proposal.proposed_action,
   target_kw |-> proposal.target_kw, start_time |-> proposal.start_time,
   end_time |-> proposal.end_time, correlation_id |-> proposal.correlation_id]

ReadyEvent(r) == ReadyEventOf(r, rows[r].proposal)

\* A bound of the model: a behaviour has either semantic events or what follows from a
\* grid signal.  The translator handles the two apart; both have rows in ieee20305_events,
\* but that of a signal has no reading_id and conflicts with none.
Init ==
  /\ enriched \in {<<>>, Enriched}
  /\ takes = 0 /\ translation = {} /\ ieeeReadings = {} /\ translated = {}
  /\ post = [s \in DOMAIN Bodies |-> IF enriched = <<>> THEN "new" ELSE "unsent"]
  /\ ieeeEvents = [s \in DOMAIN Bodies |-> 0]
  /\ gridSignals = IF enriched = <<>> THEN GridBacklog ELSE <<>>
  /\ rows = <<>> /\ draft = NoRow
  /\ proposed = {} /\ proposedAudits = {} /\ failedAudits = {}
  /\ Lifecycle!LifecycleInit
  /\ readyTopic = IF enriched = <<>> THEN ReadyBacklog ELSE <<>>
  /\ mockRows    = [r \in RowIds \cup {NoRow} |-> 0]
  /\ mockSent    = mockRows /\ mockResults = mockRows /\ mockAudits = mockRows
  /\ attempts    = [r \in RowIds |-> [d \in DeviceIds |-> 0]]
  /\ accepted    = attempts /\ results = attempts
  /\ deviceRows   = [r \in RowIds \cup {NoRow} |-> [d \in DeviceIds \cup {NoAction} |-> 0]]
  /\ deviceAudits = deviceRows
  /\ commands = NoCommands /\ cursor = 1 /\ answer = FALSE
  /\ deviceState = InitialState
  /\ pc = [c \in Consumers |-> "idle"]
  /\ position = [c \in Consumers |-> 1]
  /\ committed = [c \in Consumers |-> 1]
  /\ failures = 0 /\ restarts = 0

Fail == failures + restarts < MaxDisturbances /\ failures' = failures + 1

\* An awaited call: it succeeds, or it fails with or without its effect.
Await(effect, without, ok, ko) ==
  \/ effect /\ ok /\ UNCHANGED failures
  \/ (effect \/ without) /\ ko /\ Fail

-----------------------------------------------------------------------------
(* ieee20305-translator: POST /dso/grid-signal                             *)

PostGoesTo(s, step) == post' = [post EXCEPT ![s] = step]

\* The request arrives, or is sent again after a 503.
PostSignal(s) ==
  /\ post[s] \in {"new", "failed"}
  /\ PostGoesTo(s, IF validateGridSignal(Bodies[s]) THEN "store" ELSE "refused")
  /\ UNCHANGED <<ieeeEvents, gridSignals, readingVars, proposalVars, reviewVars, mockVars, deviceVars>>
  /\ UNCHANGED <<pc, offsetVars, failures, restarts>>

\* insertIeee20305Event; a grid signal has no reading_id, so no row conflicts.
StoreSignal(s) ==
  /\ post[s] = "store"
  /\ Await(ieeeEvents' = [ieeeEvents EXCEPT ![s] = @ + 1], UNCHANGED ieeeEvents,
           PostGoesTo(s, "publish"), PostGoesTo(s, "failed"))
  /\ UNCHANGED <<gridSignals, readingVars, proposalVars, reviewVars, mockVars, deviceVars>>
  /\ UNCHANGED <<pc, offsetVars, restarts>>

\* publishGridSignal, and the answer: 202, or 503.
PublishSignal(s) ==
  /\ post[s] = "publish"
  /\ Await(gridSignals' = Append(gridSignals, translateGridSignal(Bodies[s])),
           UNCHANGED gridSignals,
           PostGoesTo(s, "accepted"), PostGoesTo(s, "failed"))
  /\ UNCHANGED <<ieeeEvents, readingVars, proposalVars, reviewVars, mockVars, deviceVars>>
  /\ UNCHANGED <<pc, offsetVars, restarts>>

-----------------------------------------------------------------------------
(* The consumers                                                           *)

GoTo(c, step) == pc' = [pc EXCEPT ![c] = step] /\ UNCHANGED offsetVars

\* Mutant: the next message is skipped.
FinishSkipping(c) ==
  /\ pc' = [pc EXCEPT ![c] = "idle"]
  /\ position' = [position EXCEPT ![c] = @ + 2]
  /\ UNCHANGED committed

\* eachMessage has returned, or its error was swallowed: the next message.
Finish(c) ==
  /\ pc' = [pc EXCEPT ![c] = "idle"]
  /\ position' = [position EXCEPT ![c] = @ + 1]
  /\ UNCHANGED committed

\* Mutant: the offset is committed as soon as the message is taken.
CommitTaken(c) ==
  /\ committed[c] <= position[c] /\ pc[c] # "idle"
  /\ committed' = [committed EXCEPT ![c] = position[c] + 1]
  /\ UNCHANGED <<postVars, proposalVars, reviewVars, mockVars, deviceVars>>
  /\ UNCHANGED <<pc, position, failures, restarts>>

\* kafkajs commits the resolved offsets between two messages, when it likes.
CommitResolved(c) ==
  /\ pc[c] = "idle" /\ committed[c] < position[c]
  /\ committed' = [committed EXCEPT ![c] = position[c]]
  /\ UNCHANGED <<postVars, proposalVars, reviewVars, mockVars, deviceVars>>
  /\ UNCHANGED <<pc, position, failures, restarts>>

DropCommands == commands' = NoCommands /\ cursor' = 1 /\ answer' = FALSE

\* The process dies and comes back: what was in hand is gone and everything
\* behind the committed offset is read again.
Restart(c) ==
  /\ failures + restarts < MaxDisturbances /\ restarts' = restarts + 1
  /\ pc[c] # "idle" \/ committed[c] # position[c]
  /\ pc' = [pc EXCEPT ![c] = "idle"]
  /\ position' = [position EXCEPT ![c] = committed[c]]
  /\ draft' = IF c = "aggregator" THEN NoRow ELSE draft
  /\ translation' = IF c = "semantic" THEN {} ELSE translation
  /\ IF c = "translator" THEN DropCommands ELSE UNCHANGED <<commands, cursor, answer>>
  /\ UNCHANGED <<post, ieeeEvents, gridSignals, enriched, takes, ieeeReadings, translated>>
  /\ UNCHANGED <<rows, proposed, proposedAudits, failedAudits, reviewVars, mockVars>>
  /\ UNCHANGED <<attempts, accepted, deviceRows, results, deviceAudits, deviceState>>
  /\ UNCHANGED <<committed, failures>>

-----------------------------------------------------------------------------
(* ieee20305-translator: processSemanticKafkaMessage                       *)

TakeReading ==
  /\ pc["semantic"] = "idle" /\ position["semantic"] <= Len(enriched)
  /\ takes' = takes + 1
  /\ translation' = {translateSemanticEvent(Message("semantic"), ProcessedAt(takes'))}
  /\ GoTo("semantic", "store")
  /\ UNCHANGED <<post, ieeeEvents, gridSignals, enriched, ieeeReadings, translated>>
  /\ UNCHANGED <<proposalVars, reviewVars, mockVars, deviceVars, failures, restarts>>

FinishReading == Finish("semantic") /\ translation' = {}

\* safeInsertIeee20305Event: what cannot be stored is not published.
StoreReading ==
  /\ pc["semantic"] = "store"
  /\ \E event \in translation :
       Await(ieeeReadings' = WithTranslation(ieeeReadings, event), UNCHANGED ieeeReadings,
             GoTo("semantic", "publish") /\ UNCHANGED translation, FinishReading)
  /\ UNCHANGED <<post, ieeeEvents, gridSignals, enriched, takes, translated>>
  /\ UNCHANGED <<proposalVars, reviewVars, mockVars, deviceVars, restarts>>

\* publishTranslatedEvent: a row that was there already does not stop it.
PublishReading ==
  /\ pc["semantic"] = "publish"
  /\ Await(translated' = translated \cup translation, UNCHANGED translated, TRUE, TRUE)
  /\ FinishReading
  /\ UNCHANGED <<post, ieeeEvents, gridSignals, enriched, takes, ieeeReadings>>
  /\ UNCHANGED <<proposalVars, reviewVars, mockVars, deviceVars, restarts>>

TranslateReadings == TakeReading \/ StoreReading \/ PublishReading

-----------------------------------------------------------------------------
(* aggregator: processGridSignalMessage                                    *)

TakeSignal ==
  /\ pc["aggregator"] = "idle" /\ position["aggregator"] <= Len(gridSignals)
  /\ GoTo("aggregator",
          IF validateGridSignalEvent(Message("aggregator")) THEN "insert" ELSE "reject")
  /\ UNCHANGED <<postVars, proposalVars, reviewVars, mockVars, deviceVars>>
  /\ UNCHANGED <<failures, restarts>>

StoreProposal ==
  LET proposal == createDispatchProposal(extractGridSignal(Message("aggregator"))) IN
  /\ Len(rows) + 1 \in RowIds
  /\ rows' = Append(rows, [message |-> position["aggregator"], proposal |-> proposal])
  /\ Lifecycle!Propose(Len(rows) + 1)

\* Mutant: the result of the insert is not looked at.
InsertProposalUnchecked ==
  /\ pc["aggregator"] = "insert"
  /\ Await(StoreProposal, UNCHANGED <<rows, status, announced>>, TRUE, TRUE)
  /\ draft' = Len(rows) + 1
  /\ GoTo("aggregator", "publish")
  /\ UNCHANGED <<postVars, proposed, proposedAudits, failedAudits, readyTopic, mockVars>>
  /\ UNCHANGED <<deviceVars, restarts>>

\* safeInsertDispatchCommandProposal: there is no key on the signal, so a
\* redelivered one is a new row.
InsertProposal ==
  /\ pc["aggregator"] = "insert"
  /\ Await(StoreProposal, UNCHANGED <<rows, status, announced>>,
           draft' = Len(rows) + 1 /\ GoTo("aggregator", "publish"),
           UNCHANGED draft /\ GoTo("aggregator", "reject"))
  /\ UNCHANGED <<postVars, proposed, proposedAudits, failedAudits, readyTopic, mockVars>>
  /\ UNCHANGED <<deviceVars, restarts>>

\* publishAuditRecord of a signal that is invalid or could not be stored.
AuditFailure ==
  /\ pc["aggregator"] = "reject"
  /\ Await(failedAudits' = failedAudits \cup {position["aggregator"]},
           UNCHANGED failedAudits, TRUE, TRUE)
  /\ Finish("aggregator")
  /\ UNCHANGED <<postVars, rows, draft, proposed, proposedAudits, reviewVars, mockVars>>
  /\ UNCHANGED <<deviceVars, restarts>>

\* publishDispatchProposal
PublishProposal ==
  /\ pc["aggregator"] = "publish"
  /\ Await(proposed' = proposed \cup {draft}, UNCHANGED proposed,
           GoTo("aggregator", "audit") /\ UNCHANGED draft,
           Finish("aggregator") /\ draft' = NoRow)
  /\ UNCHANGED <<postVars, rows, proposedAudits, failedAudits, reviewVars, mockVars>>
  /\ UNCHANGED <<deviceVars, restarts>>

\* publishAuditRecord of the proposal
AuditProposal ==
  /\ pc["aggregator"] = "audit"
  /\ Await(proposedAudits' = proposedAudits \cup {draft}, UNCHANGED proposedAudits, TRUE, TRUE)
  /\ Finish("aggregator") /\ draft' = NoRow
  /\ UNCHANGED <<postVars, rows, proposed, failedAudits, reviewVars, mockVars>>
  /\ UNCHANGED <<deviceVars, restarts>>

Aggregate == TakeSignal \/ InsertProposal \/ AuditFailure \/ PublishProposal \/ AuditProposal

-----------------------------------------------------------------------------
(* approval-workflow, as ApprovalLifecycle promises it                     *)

Review(r) ==
  /\ Lifecycle!Decide(r)
  /\ UNCHANGED <<readyTopic, postVars, proposalVars, mockVars, deviceVars>>
  /\ UNCHANGED <<pc, offsetVars, failures, restarts>>

\* Mutant: the producer sends the ready event a second time.
AnnounceTwice(r) ==
  /\ Lifecycle!Announce(r, "reviewer")
  /\ readyTopic' = readyTopic \o <<ReadyEvent(r), ReadyEvent(r)>>
  /\ UNCHANGED <<postVars, proposalVars, mockVars, deviceVars>>
  /\ UNCHANGED <<pc, offsetVars, failures, restarts>>

Announce(r) ==
  /\ Lifecycle!Announce(r, "reviewer")
  /\ readyTopic' = Append(readyTopic, ReadyEvent(r))
  /\ UNCHANGED <<postVars, proposalVars, mockVars, deviceVars>>
  /\ UNCHANGED <<pc, offsetVars, failures, restarts>>

-----------------------------------------------------------------------------
(* mock-dispatch-adapter: processReadyMessage                              *)

OneMore(counts, r) == [counts EXCEPT ![r] = @ + 1]

\* Validation is synchronous; the first await is the insert of the row.
TakeMockEvent ==
  /\ pc["adapter"] = "idle" /\ position["adapter"] <= Len(readyTopic)
  /\ GoTo("adapter", IF validateReadyEvent(Message("adapter")) THEN "insert" ELSE "insert_rejected")
  /\ UNCHANGED <<postVars, proposalVars, reviewVars, mockVars, deviceVars>>
  /\ UNCHANGED <<failures, restarts>>

\* safeInsertDispatchExecutionAudit: without a row nothing is published, unless
\* the event was rejected.
InsertMockRow ==
  LET r == Message("adapter").id IN
  /\ pc["adapter"] \in {"insert", "insert_rejected"}
  /\ Await(mockRows' = OneMore(mockRows, r), UNCHANGED mockRows,
           GoTo("adapter", IF pc["adapter"] = "insert" THEN "sent" ELSE "audit"),
           IF pc["adapter"] = "insert" THEN Finish("adapter") ELSE GoTo("adapter", "audit"))
  /\ UNCHANGED <<mockSent, mockResults, mockAudits, postVars, proposalVars, reviewVars>>
  /\ UNCHANGED <<deviceVars, restarts>>

PublishMockSent ==
  /\ pc["adapter"] = "sent"
  /\ Await(mockSent' = OneMore(mockSent, Message("adapter").id), UNCHANGED mockSent,
           GoTo("adapter", "result"), Finish("adapter"))
  /\ UNCHANGED <<mockRows, mockResults, mockAudits, postVars, proposalVars, reviewVars>>
  /\ UNCHANGED <<deviceVars, restarts>>

PublishMockResult ==
  /\ pc["adapter"] = "result"
  /\ Await(mockResults' = OneMore(mockResults, Message("adapter").id), UNCHANGED mockResults,
           GoTo("adapter", "audit"), Finish("adapter"))
  /\ UNCHANGED <<mockRows, mockSent, mockAudits, postVars, proposalVars, reviewVars>>
  /\ UNCHANGED <<deviceVars, restarts>>

PublishMockAudit ==
  /\ pc["adapter"] = "audit"
  /\ Await(mockAudits' = OneMore(mockAudits, Message("adapter").id), UNCHANGED mockAudits,
           TRUE, TRUE)
  /\ Finish("adapter")
  /\ UNCHANGED <<mockRows, mockSent, mockResults, postVars, proposalVars, reviewVars>>
  /\ UNCHANGED <<deviceVars, restarts>>

Adapt ==
  \/ TakeMockEvent \/ InsertMockRow \/ PublishMockSent \/ PublishMockResult \/ PublishMockAudit

-----------------------------------------------------------------------------
(* device-command-translator: processReadyMessage                          *)

Command == commands[cursor]

OneMoreOf(counts, r, d) == [counts EXCEPT ![r][d] = @ + 1]

TakeReadyCommand ==
  /\ pc["translator"] = "idle" /\ position["translator"] <= Len(readyTopic)
  /\ commands' = translateReadyCommand(Message("translator"))
  /\ IF DOMAIN commands' = {}
     THEN GoTo("translator", "insert_rejected") /\ UNCHANGED cursor
     ELSE GoTo("translator", "send") /\ cursor' = Min(DOMAIN commands')
  /\ UNCHANGED <<attempts, accepted, deviceRows, results, deviceAudits, answer, deviceState>>
  /\ UNCHANGED <<postVars, proposalVars, reviewVars, mockVars, failures, restarts>>

\* The simulator accepts the command and its device changes state.
SimulatorAccepts ==
  LET device == CHOOSE i \in DOMAIN DEVICES : DEVICES[i].device_id = Command.device_id
      newState == resolveSimulator(DEVICES[device])[Command.action]
  IN  /\ accepted' = OneMoreOf(accepted, Command.dispatch_command_id, Command.device_id)
      /\ deviceState' = [deviceState EXCEPT ![Command.device_id] = newState]

\* sendDeviceCommand: a failed call counts as a rejection, though the device may
\* have got the command.
SendCommand ==
  /\ pc["translator"] = "send"
  /\ attempts' = OneMoreOf(attempts, Command.dispatch_command_id, Command.device_id)
  /\ Await(SimulatorAccepts, UNCHANGED <<accepted, deviceState>>, answer' = TRUE, answer' = FALSE)
  /\ GoTo("translator", "store")
  /\ UNCHANGED <<deviceRows, results, deviceAudits, commands, cursor>>
  /\ UNCHANGED <<postVars, proposalVars, reviewVars, mockVars, restarts>>

\* safeInsertDeviceCommandAudit: its failure is ignored.
StoreCommandAudit ==
  /\ pc["translator"] \in {"store", "insert_rejected"}
  /\ LET device == IF pc["translator"] = "store" THEN Command.device_id ELSE NoAction IN
       Await(deviceRows' = OneMoreOf(deviceRows, Message("translator").id, device),
             UNCHANGED deviceRows, TRUE, TRUE)
  /\ GoTo("translator", IF pc["translator"] = "store" THEN "result" ELSE "audit_rejected")
  /\ UNCHANGED <<attempts, accepted, results, deviceAudits, commands, cursor, answer, deviceState>>
  /\ UNCHANGED <<postVars, proposalVars, reviewVars, mockVars, restarts>>

\* The error of a send leaves the loop: the remaining devices get no command.
EndLoop == Finish("translator") /\ DropCommands

PublishResult ==
  /\ pc["translator"] = "result"
  /\ Await(results' = OneMoreOf(results, Command.dispatch_command_id, Command.device_id),
           UNCHANGED results,
           GoTo("translator", "audit") /\ UNCHANGED <<commands, cursor, answer>>, EndLoop)
  /\ UNCHANGED <<attempts, accepted, deviceRows, deviceAudits, deviceState>>
  /\ UNCHANGED <<postVars, proposalVars, reviewVars, mockVars, restarts>>

\* The loop goes on with the next device, if there is one.
NextCommand ==
  LET left == {i \in DOMAIN commands : i > cursor} IN
  IF left # {}
  THEN /\ GoTo("translator", "send") /\ UNCHANGED commands
       /\ cursor' = Min(left) /\ answer' = FALSE
  ELSE EndLoop

PublishDeviceAudit ==
  /\ pc["translator"] = "audit"
  /\ Await(deviceAudits' = OneMoreOf(deviceAudits, Command.dispatch_command_id, Command.device_id),
           UNCHANGED deviceAudits, NextCommand, EndLoop)
  /\ UNCHANGED <<attempts, accepted, deviceRows, results, deviceState>>
  /\ UNCHANGED <<postVars, proposalVars, reviewVars, mockVars, restarts>>

PublishRejectedAudit ==
  /\ pc["translator"] = "audit_rejected"
  /\ Await(deviceAudits' = OneMoreOf(deviceAudits, Message("translator").id, NoAction),
           UNCHANGED deviceAudits, TRUE, TRUE)
  /\ EndLoop
  /\ UNCHANGED <<attempts, accepted, deviceRows, results, deviceState>>
  /\ UNCHANGED <<postVars, proposalVars, reviewVars, mockVars, restarts>>

Translate ==
  \/ TakeReadyCommand \/ SendCommand \/ StoreCommandAudit \/ PublishResult
  \/ PublishDeviceAudit \/ PublishRejectedAudit

-----------------------------------------------------------------------------
Next ==
  \/ \E s \in DOMAIN Bodies : PostSignal(s) \/ StoreSignal(s) \/ PublishSignal(s)
  \/ TranslateReadings \/ Aggregate \/ Adapt \/ Translate
  \/ \E r \in RowIds : Review(r) \/ Announce(r)
  \/ \E c \in Consumers : CommitResolved(c) \/ Restart(c)

Spec == Init /\ [][Next]_vars

-----------------------------------------------------------------------------
(* Properties                                                              *)

TypeOK ==
  /\ post \in [DOMAIN Bodies -> {"unsent", "new", "store", "publish", "accepted", "failed", "refused"}]
  /\ Cardinality(translation) = (IF pc["semantic"] = "idle" THEN 0 ELSE 1)
  /\ DOMAIN rows \subseteq RowIds /\ draft \in DOMAIN rows \cup {NoRow}
  /\ failedAudits \subseteq DOMAIN gridSignals
  /\ status \in [RowIds -> Lifecycle!STATUSES \cup {Lifecycle!Absent}]
  /\ {mockRows, mockSent, mockResults, mockAudits} \subseteq [RowIds \cup {NoRow} -> Nat]
  /\ {attempts, accepted, results} \subseteq [RowIds -> [DeviceIds -> Nat]]
  /\ {deviceRows, deviceAudits} \subseteq
       [RowIds \cup {NoRow} -> [DeviceIds \cup {NoAction} -> Nat]]
  /\ pc \in [Consumers -> {"idle", "insert", "reject", "publish", "audit", "insert_rejected",
                           "sent", "result", "send", "store", "audit_rejected"}]
  /\ pc["translator"] \in {"send", "store", "result", "audit"} <=> cursor \in DOMAIN commands
  /\ \A c \in Consumers : committed[c] <= position[c] /\ position[c] <= Len(Topic(c)) + 1

Asked(event) == DOMAIN translateReadyCommand(event)

\* The trail of a reading or a proposal can be trusted backwards, whatever fails or
\* restarts in the four services: a translated reading has a row that says the same,
\* though the row may be from an earlier delivery and an invalid reading gets another
\* time in each; a "proposed" audit has its event and its event has its row; a device or
\* the mock adapter acts only on what was announced as ready; audits never outnumber
\* results, nor results the commands tried; and of the devices asked none has more
\* results than one before it in the registry, over all redeliveries (the sends of one
\* event are separate awaits and an error ends the handler, ieee20305-translator
\* kafka.js:91-99, aggregator kafka.js:116-133, mock adapter kafka.js:173-183, translator
\* kafka.js:187-214).
EvidenceIsOrdered ==
  /\ translated \subseteq ieeeReadings
  /\ proposedAudits \subseteq proposed /\ proposed \subseteq DOMAIN rows
  /\ \A r \in RowIds :
       /\ mockAudits[r] <= mockResults[r] /\ mockResults[r] <= mockSent[r]
       /\ mockSent[r] <= mockRows[r]
       /\ mockRows[r] > 0 => status[r] = "ready_to_dispatch" /\ announced[r] # {}
       /\ \A d \in DeviceIds :
            /\ deviceAudits[r][d] <= results[r][d] /\ results[r][d] <= attempts[r][d]
            /\ accepted[r][d] <= attempts[r][d]
            /\ attempts[r][d] > 0 => status[r] = "ready_to_dispatch" /\ announced[r] # {}
       /\ r \in DOMAIN rows => \A i, j \in Asked(ReadyEvent(r)) :
            i < j => results[r][DEVICES[j].device_id] <= results[r][DEVICES[i].device_id]

\* Nothing on the way has a key that would drop a repetition (no unique index on
\* the signal in dispatch_commands, none in the audit tables), so repetitions
\* multiply from hop to hop.  They stay bounded: a proposal is simulated and put to a
\* device once, and again after a restart, and every failure or restart at most doubles
\* what one grid signal asks of a device.
AmplificationIsBounded ==
  /\ pc["aggregator"] = "insert" => Len(rows) < MaxRows
  /\ \A r \in RowIds : mockRows[r] <= 1 + restarts
  /\ \A r \in RowIds, d \in DeviceIds : attempts[r][d] <= 1 + restarts
  /\ \A s \in DOMAIN Bodies : \A d \in DeviceIds :
       LET mine == {r \in DOMAIN rows : rows[r].proposal.signal_id = s} IN
       MapThenSumSet(LAMBDA r : attempts[r][d], mine) <= 2 ^ (failures + restarts)

\* The shares of the devices add up to the request, or to everything they have
\* if that is less, and none exceeds its device (allocateReduction rounds the
\* shares one by one, translator.js:68-91).  It does not depend on the state, so
\* looking at it while the topics are untouched is enough.
AllocationMeetsRequest ==
  (\A c \in Consumers : pc[c] = "idle" /\ position[c] = 1) /\ gridSignals = GridBacklog =>
  \A s \in DOMAIN Bodies : post[s] = "new" =>
  LET total == getTotalControllableLoadKw(DOMAIN DEVICES) IN
  \A requested \in 1..total + 10 :
    LET shares == allocateReduction(DOMAIN DEVICES, requested) IN
    /\ MapThenSumSet(LAMBDA i : shares[i], DOMAIN shares) = Least(requested, total)
    /\ \A i \in DOMAIN shares : shares[i] <= Load(i)

\* A signal that the translator has validated is understood by every service
\* after it: it is valid for the aggregator, has a rule in the mock adapter, and if
\* it is about load, one command for each device of its community, which the
\* simulator of the device implements.  Every audit at the end of either branch can
\* be joined to the signal by its correlation id, a refusal too.  Tables and payload
\* builders of four services have to agree for this (aggregator.js:10 and 133,
\* mock-adapter.js:5 and 67-143, translator.js:93 and 178-340).
StagesAgree ==
  \A s \in {b \in DOMAIN Bodies : post[b] = "store"},
     action \in GRID_SIGNAL_ACTIONS, severity \in GRID_SIGNAL_SEVERITIES :
    LET body  == [Bodies[s] EXCEPT !.requested_action = action, !.severity = severity]
        event == translateGridSignal(body)
        proposal == createDispatchProposal(extractGridSignal(event))
        ready == ReadyEventOf(1, proposal)
        mock  == buildMockCommandPayload(ready)
        asked == translateReadyCommand(ready)
        community == {i \in DOMAIN DEVICES : DEVICES[i].community_id = body.community_id}
        joinedBy ==
          {buildAuditPayload(proposal, "proposed").correlation_id,
           buildRejectedAudit(event).correlation_id,
           buildMockAuditRow(buildMockAudit(mock, buildMockResultPayload(mock)),
                             mock.target).correlation_id,
           buildRejectedMockAuditRow(ready).correlation_id,
           buildRejectedDeviceAudit(ready).correlation_id}
          \cup {buildDeviceAudit(buildResultPayload(c, TRUE)).correlation_id : c \in Range(asked)}
          \cup {buildAuditRowFromResult(buildResultPayload(c, FALSE)).correlation_id :
                  c \in Range(asked)}
    IN  validateGridSignal(body) =>
          /\ validateGridSignalEvent(event)
          /\ HasActionRule(proposal.proposed_action)
          /\ {c.device_id : c \in Range(asked)} =
               IF action \in LoadActions THEN {DEVICES[i].device_id : i \in community} ELSE {}
          /\ \A i \in DOMAIN asked : \E device \in Range(DEVICES) :
               /\ device.device_id = asked[i].device_id
               /\ asked[i].action \in DOMAIN resolveSimulator(device)
          /\ joinedBy = {s}

ProposedOrRefused(o) ==
  o \in failedAudits \/ \E r \in proposedAudits : rows[r].message = o

\* Restarts lose nothing: unless a call failed, every message below the committed
\* offsets was translated and published (semantic events), proposed or refused with an
\* audit (aggregator), simulated with an audit (adapter), or has an audit for each device
\* it asks, or of its refusal (translator), although a process may die between any two
\* awaits of its handler.
CommittedIsSettled ==
  failures = 0 =>
    /\ \A n \in 1..committed["semantic"] - 1 :
         \E event \in translated : event.raw_semantic_payload = enriched[n]
    /\ \A o \in 1..committed["aggregator"] - 1 : ProposedOrRefused(o)
    /\ \A n \in 1..committed["adapter"] - 1 : mockAudits[readyTopic[n].id] > 0
    /\ \A n \in 1..committed["translator"] - 1 :
         LET audits == deviceAudits[readyTopic[n].id]
             asked  == Asked(readyTopic[n])
         IN  IF asked = {} THEN audits[NoAction] > 0
             ELSE \A i \in asked : audits[DEVICES[i].device_id] > 0
=============================================================================
