-------------------------- MODULE ApprovalWorkflow --------------------------
(***************************************************************************)
(* services/approval-workflow: the HTTP handlers that move a dispatch      *)
(* proposal through its statuses.  A handler awaits the database and Kafka *)
(* several times, so the handlers of concurrent requests interleave at     *)
(* every await, any awaited call may fail, with or without its effect, and *)
(* the process may die between two awaits.                                 *)
(*                                                                         *)
(*   Receive      validateApprovalRequest, then SELECT is issued           *)
(*   ReadRow      getDispatchCommandById                                   *)
(*   CheckAndBuild  404, validateTransition (400), buildAuditEvent         *)
(*   UpdateStatus UPDATE ... WHERE id AND status = previous (409)          *)
(*   InsertAudit, PublishAudit, PublishReady   the effects that follow     *)
(***************************************************************************)
EXTENDS Naturals

CONSTANTS Commands,   \* ids a request may name
          Requests,   \* HTTP requests, each handled once
          NoCall,     \* the call of a request that has not arrived
          MaxClock    \* bound of the model: the wall clock stops here

ASSUME ClockAssumption == MaxClock \in Nat

VARIABLES
  \* TimescaleDB
  status,       \* dispatch_commands.status, or Absent
  rowAudit,     \* dispatch_commands.audit_payload: whose decision it holds
  auditTable,   \* rows of dispatch_approval_audit
  \* Kafka
  auditTopic,   \* dispatch.approval.audit
  readyTopic,   \* dispatch.command.ready
  \* the handlers, one per request
  pc,           \* the awaited call the handler of a request is at
  call,         \* what the request asks for
  seen,         \* the status read by ReadRow (previousStatus)
  stamp,        \* event_time of the audit event the handler built
  response,     \* HTTP status the client got, or NoResponse
  clock,        \* wall clock of the process
  \* observation only
  applied       \* every change of status that ever took effect

handlerVars == <<pc, call, seen, stamp, response>>
storeVars   == <<status, rowAudit, auditTable, auditTopic, readyTopic>>
vars        == <<handlerVars, storeVars, clock, applied>>

-----------------------------------------------------------------------------
(* Statuses, actions and request bodies                                    *)

STATUSES == {"proposed", "reviewed", "approved", "rejected", "ready_to_dispatch"}

Absent     == "absent"
NoResponse == 0

ALLOWED_TRANSITIONS ==
  [proposed          |-> {"reviewed", "rejected"},
   reviewed          |-> {"approved", "rejected"},
   approved          |-> {"ready_to_dispatch"},
   rejected          |-> {},
   ready_to_dispatch |-> {}]

ACTION_TO_STATUS ==
  [review     |-> "reviewed",
   approve    |-> "approved",
   reject     |-> "rejected",
   mark_ready |-> "ready_to_dispatch"]

Actions == {"review", "approve", "reject", "mark_ready"}

\* A body names its reviewer and gives a reason, names the reviewer only, or
\* lacks the reviewer.
Bodies == {"with_reason", "without_reason", "no_reviewer"}

validateApprovalRequest(action, body) ==
  /\ body # "no_reviewer"
  /\ action = "reject" => body = "with_reason"

\* Mutant: every decision is allowed on a proposal that is still open.
validateTransitionAnyOrder(previous, new) ==
  /\ previous \in STATUSES \ {"rejected", "ready_to_dispatch"}
  /\ new \in STATUSES

validateTransition(previous, new) ==
  /\ previous \in STATUSES
  /\ new \in ALLOWED_TRANSITIONS[previous]

Steps == {"idle", "read", "check", "update", "audit", "publish", "ready", "done"}

Calls == [command : Commands, action : Actions]

Target(r)  == ACTION_TO_STATUS[call[r].action]
Command(r) == call[r].command

\* Mutant: event_time is taken when the event is written, not when it is built.
AuditOfStampedLate(r) ==
  [request |-> r, command |-> Command(r), previous |-> seen[r],
   new |-> Target(r), time |-> clock]

\* The audit event a handler built (buildAuditEvent), named by its request.
AuditOf(r) ==
  [request |-> r, command |-> Command(r), previous |-> seen[r],
   new |-> Target(r), time |-> stamp[r]]

AuditRecords ==
  [request : Requests, command : Commands, previous : STATUSES,
   new : STATUSES, time : 0..MaxClock]

ReadyEvent(r) == [request |-> r, command |-> Command(r)]

ReadyEvents == [request : Requests, command : Commands]

-----------------------------------------------------------------------------
Init ==
  /\ status     = [c \in Commands |-> Absent]
  /\ rowAudit   = [c \in Commands |-> {}]
  /\ auditTable = {}
  /\ auditTopic = {}
  /\ readyTopic = {}
  /\ pc         = [r \in Requests |-> "idle"]
  /\ call       = [r \in Requests |-> NoCall]
  /\ seen       = [r \in Requests |-> Absent]
  /\ stamp      = [r \in Requests |-> 0]
  /\ response   = [r \in Requests |-> NoResponse]
  /\ clock      = 0
  /\ applied    = {}

\* The handler goes on to its next awaited call.
Continue(r, step) ==
  /\ pc' = [pc EXCEPT ![r] = step]
  /\ UNCHANGED response

\* The handler answers; its local variables are gone with it.
Respond(r, code) ==
  /\ pc' = [pc EXCEPT ![r] = "done"]
  /\ response' = [response EXCEPT ![r] = code]
  /\ call' = [call EXCEPT ![r] = NoCall]
  /\ seen' = [seen EXCEPT ![r] = Absent]
  /\ stamp' = [stamp EXCEPT ![r] = 0]

\* The aggregator inserted a new proposal (external to this service).
InsertProposal(c) ==
  /\ status[c] = Absent
  /\ status' = [status EXCEPT ![c] = "proposed"]
  /\ UNCHANGED <<rowAudit, auditTable, auditTopic, readyTopic>>
  /\ UNCHANGED <<handlerVars, clock, applied>>

Tick ==
  /\ clock < MaxClock
  /\ clock' = clock + 1
  /\ UNCHANGED <<handlerVars, storeVars, applied>>

\* transitionHandler: a request arrives and its body is validated.
Receive(r) ==
  /\ pc[r] = "idle"
  /\ \E k \in Calls, body \in Bodies :
       \/ /\ validateApprovalRequest(k.action, body)
          /\ call' = [call EXCEPT ![r] = k]
          /\ Continue(r, "read")
          /\ UNCHANGED <<seen, stamp>>
       \/ ~validateApprovalRequest(k.action, body) /\ Respond(r, 400)
  /\ UNCHANGED <<storeVars, clock, applied>>

\* getDispatchCommandById: the row as it is when the SELECT runs.
ReadRow(r) ==
  /\ pc[r] = "read"
  /\ \/ /\ seen' = [seen EXCEPT ![r] = status[Command(r)]]
        /\ Continue(r, "check")
        /\ UNCHANGED <<call, stamp>>
     \/ Respond(r, 503)
  /\ UNCHANGED <<storeVars, clock, applied>>

\* The synchronous part after the SELECT: the row's status may already be
\* stale, and event_time is taken here.
CheckAndBuild(r) ==
  /\ pc[r] = "check"
  /\ \/ seen[r] = Absent /\ Respond(r, 404)
     \/ /\ seen[r] # Absent
        /\ ~validateTransition(seen[r], Target(r))
        /\ Respond(r, 400)
     \/ /\ validateTransition(seen[r], Target(r))
        /\ stamp' = [stamp EXCEPT ![r] = clock]
        /\ Continue(r, "update")
        /\ UNCHANGED <<call, seen>>
  /\ UNCHANGED <<storeVars, clock, applied>>

\* Mutant: the UPDATE has lost its "AND status = $2".
RowMatchesById(r) == status[Command(r)] \in STATUSES

\* Mutant: the action is stored where its status belongs.
ApplyUpdateWithAction(r) ==
  /\ status' = [status EXCEPT ![Command(r)] = call[r].action]
  /\ rowAudit' = [rowAudit EXCEPT ![Command(r)] = {r}]
  /\ applied' = applied \cup {AuditOf(r)}

\* updateDispatchCommandStatus, one statement: it changes the row only if the
\* status is still the one that was read.
RowMatches(r) == status[Command(r)] = seen[r]

ApplyUpdate(r) ==
  /\ status' = [status EXCEPT ![Command(r)] = Target(r)]
  /\ rowAudit' = [rowAudit EXCEPT ![Command(r)] = {r}]
  /\ applied' = applied \cup {AuditOf(r)}

UpdateStatus(r) ==
  /\ pc[r] = "update"
  /\ \/ /\ RowMatches(r)
        /\ ApplyUpdate(r)
        /\ Continue(r, "audit") /\ UNCHANGED <<call, seen, stamp>>
     \/ RowMatches(r) /\ ApplyUpdate(r) /\ Respond(r, 503)
     \/ /\ ~RowMatches(r)
        /\ Respond(r, 409)
        /\ UNCHANGED <<status, rowAudit, applied>>
     \/ Respond(r, 503) /\ UNCHANGED <<status, rowAudit, applied>>
  /\ UNCHANGED <<auditTable, auditTopic, readyTopic, clock>>

\* Mutant: the audit row is best effort, the handler goes on without it.
InsertAuditBestEffort(r) ==
  /\ pc[r] = "audit"
  /\ auditTable' \in {auditTable, auditTable \cup {AuditOf(r)}}
  /\ Continue(r, "publish") /\ UNCHANGED <<call, seen, stamp>>
  /\ UNCHANGED <<status, rowAudit, auditTopic, readyTopic, clock, applied>>

\* Mutant: an approval is announced as well.
PublishAuditThenReady(r) ==
  /\ pc[r] = "publish"
  /\ auditTopic' = auditTopic \cup {AuditOf(r)}
  /\ \/ /\ Target(r) \in {"approved", "ready_to_dispatch"}
        /\ Continue(r, "ready") /\ UNCHANGED <<call, seen, stamp>>
     \/ Target(r) \notin {"approved", "ready_to_dispatch"} /\ Respond(r, 200)
  /\ UNCHANGED <<status, rowAudit, auditTable, readyTopic, clock, applied>>

\* Mutant: the ready event is sent without being awaited.
PublishReadyUnawaited(r) ==
  /\ pc[r] = "ready"
  /\ readyTopic' \in {readyTopic, readyTopic \cup {ReadyEvent(r)}}
  /\ Respond(r, 200)
  /\ UNCHANGED <<status, rowAudit, auditTable, auditTopic, clock, applied>>

\* An awaited effect either succeeds, fails without effect, or takes effect
\* and still reports failure (a lost acknowledgement).
InsertAudit(r) ==
  /\ pc[r] = "audit"
  /\ \/ /\ auditTable' = auditTable \cup {AuditOf(r)}
        /\ Continue(r, "publish") /\ UNCHANGED <<call, seen, stamp>>
     \/ /\ auditTable' \in {auditTable, auditTable \cup {AuditOf(r)}}
        /\ Respond(r, 503)
  /\ UNCHANGED <<status, rowAudit, auditTopic, readyTopic, clock, applied>>

PublishAudit(r) ==
  /\ pc[r] = "publish"
  /\ \/ /\ auditTopic' = auditTopic \cup {AuditOf(r)}
        /\ \/ /\ Target(r) = "ready_to_dispatch"
              /\ Continue(r, "ready") /\ UNCHANGED <<call, seen, stamp>>
           \/ Target(r) # "ready_to_dispatch" /\ Respond(r, 200)
     \/ /\ auditTopic' \in {auditTopic, auditTopic \cup {AuditOf(r)}}
        /\ Respond(r, 503)
  /\ UNCHANGED <<status, rowAudit, auditTable, readyTopic, clock, applied>>

PublishReady(r) ==
  /\ pc[r] = "ready"
  /\ \/ /\ readyTopic' = readyTopic \cup {ReadyEvent(r)}
        /\ Respond(r, 200)
     \/ /\ readyTopic' \in {readyTopic, readyTopic \cup {ReadyEvent(r)}}
        /\ Respond(r, 503)
  /\ UNCHANGED <<status, rowAudit, auditTable, auditTopic, clock, applied>>

\* The process dies and restarts: handlers in flight vanish unanswered.
Crash ==
  LET running == {r \in Requests : pc[r] \notin {"idle", "done"}} IN
  /\ running # {}
  /\ pc'    = [r \in Requests |-> IF r \in running THEN "done" ELSE pc[r]]
  /\ call'  = [r \in Requests |-> NoCall]
  /\ seen'  = [r \in Requests |-> Absent]
  /\ stamp' = [r \in Requests |-> 0]
  /\ UNCHANGED <<response, storeVars, clock, applied>>

Proceed(r) ==
  \/ ReadRow(r)
  \/ CheckAndBuild(r)
  \/ UpdateStatus(r)
  \/ InsertAudit(r)
  \/ PublishAudit(r)
  \/ PublishReady(r)

Next ==
  \/ \E c \in Commands : InsertProposal(c)
  \/ \E r \in Requests : Receive(r) \/ Proceed(r)
  \/ Tick
  \/ Crash

Spec == Init /\ [][Next]_vars

\* The event loop runs every handler whose awaited call has settled; nothing
\* obliges a client to send a request.
FairSpec == Spec /\ \A r \in Requests : WF_vars(Proceed(r))

-----------------------------------------------------------------------------
(* Properties                                                              *)

TypeOK ==
  /\ status \in [Commands -> STATUSES \cup {Absent}]
  /\ rowAudit \in [Commands -> SUBSET Requests]
  /\ auditTable \subseteq AuditRecords
  /\ auditTopic \subseteq AuditRecords
  /\ applied \subseteq AuditRecords
  /\ readyTopic \subseteq ReadyEvents
  /\ pc \in [Requests -> Steps]
  /\ call \in [Requests -> Calls \cup {NoCall}]
  /\ seen \in [Requests -> STATUSES \cup {Absent}]
  /\ stamp \in [Requests -> 0..MaxClock]
  /\ response \in [Requests -> {NoResponse, 200, 400, 404, 409, 503}]
  /\ clock \in 0..MaxClock

\* Reviewers that race on a proposal cannot both win: of all the changes that
\* ever took effect, and of all the audit rows stored, no two leave the same
\* status of the same proposal (applyApprovalAction reads the row and updates
\* it in two separate statements).
OneWinnerPerStatus ==
  \A a, b \in applied \cup auditTable :
    a.command = b.command /\ a.previous = b.previous => a = b

\* A ready event is on the topic only for a proposal that one request reviewed,
\* a later one approved and the announcing one marked ready, in that order in
\* time, and that nobody ever rejected.
GovernedReady ==
  \A e \in readyTopic :
    LET history == {a \in applied : a.command = e.command} IN
    /\ \E rv, ap, mr \in history :
         /\ rv.new = "reviewed" /\ ap.new = "approved"
         /\ mr.new = "ready_to_dispatch" /\ mr.request = e.request
         /\ rv.time <= ap.time /\ ap.time <= mr.time
    /\ \A a \in history : a.new # "rejected"

\* Whoever sorts the audit rows of a proposal by event_time, as the index of
\* dispatch_approval_audit does, reads its decisions in the order they took
\* effect, although the rows are inserted in any order and each event_time is
\* taken before the update it describes.
AuditTimesFollowLifecycle ==
  \A a, b \in auditTable :
    a.command = b.command /\ b.previous = a.new => a.time <= b.time

\* No proposal is announced for dispatch without the evidence of it: the
\* decision behind a ready event is in the audit table and on the audit topic.
ReadyIsAudited ==
  \A e \in readyTopic :
    \E a \in auditTable \cap auditTopic :
      /\ a.command = e.command /\ a.request = e.request
      /\ a.new = "ready_to_dispatch"

\* What the client is told is what happened: after a 200 the change, its audit
\* row, its audit event and, for mark_ready, its ready event all exist; after a
\* 400, 404 or 409 the request has left no trace anywhere.
ResponseTruthful ==
  \A r \in Requests :
    /\ response[r] = 200 =>
         \E a \in applied \cap auditTable \cap auditTopic :
           /\ a.request = r
           /\ a.new = "ready_to_dispatch" =>
                [request |-> r, command |-> a.command] \in readyTopic
    /\ response[r] \in {400, 404, 409} =>
         /\ \A a \in applied \cup auditTable \cup auditTopic : a.request # r
         /\ \A e \in readyTopic : e.request # r

\* The handlers implement the lifecycle: whatever the interleaving, failures and
\* crashes, a proposal moves along the status graph only, and is announced as
\* ready at most once, after it became ready.
Lifecycle == INSTANCE ApprovalLifecycle WITH
  announced <- [c \in Commands |->
                  {r \in Requests : [request |-> r, command |-> c] \in readyTopic}]

ImplementsLifecycle == Lifecycle!LifecycleSpec

\* What docs/phase-6-implementation-report.md says of the flow: "If the new
\* status is ready_to_dispatch, the service publishes a ready event".
ReadyIsAnnounced ==
  \A c \in Commands :
    status[c] = "ready_to_dispatch" ~> \E e \in readyTopic : e.command = c
=============================================================================
