---------------------- MODULE ApprovalWorkflow_proofs ----------------------
(***************************************************************************)
(* Proofs about ApprovalWorkflow for any set of proposals, any set of      *)
(* requests and any bound on the clock.                                    *)
(*                                                                         *)
(* The argument.  The status graph is acyclic, so every change moves a     *)
(* proposal strictly up in Rank, and a status that has been left is never  *)
(* met again.  Hence the guarded UPDATE lets one request win each status   *)
(* (OneWinnerPerStatus), the recorded changes of a proposal form a path    *)
(* from "proposed" to its status (PathInv), and whoever holds a read       *)
(* status has read it after the change that produced it, so its event_time *)
(* is later (TimeInv).  HandlerInv ties the position of a handler to the   *)
(* effects it has already had.                                             *)
(***************************************************************************)
EXTENDS ApprovalWorkflow, TLAPS

\* How far along the status graph a status is.
Rank(s) ==
  IF s = Absent THEN 0
  ELSE IF s = "proposed" THEN 1
  ELSE IF s = "reviewed" THEN 2
  ELSE IF s = "approved" THEN 3
  ELSE 4

Running  == {"read", "check", "update", "audit", "publish", "ready"}
Built    == {"update", "audit", "publish", "ready"}
Updated  == {"audit", "publish", "ready"}

\* What a handler has done, by the step it is at.
HandlerOK(r) ==
  /\ pc[r] \in Running => call[r] \in Calls
  /\ pc[r] \in Built => validateTransition(seen[r], Target(r)) /\ stamp[r] <= clock
  /\ pc[r] \in {"check"} \cup Built => Rank(seen[r]) <= Rank(status[Command(r)])
  /\ pc[r] \in Updated => AuditOf(r) \in applied
  /\ pc[r] \in {"publish", "ready"} => AuditOf(r) \in auditTable
  /\ pc[r] = "ready" => AuditOf(r) \in auditTopic /\ Target(r) = "ready_to_dispatch"
  /\ pc[r] \in {"idle", "read", "check", "update"} => \A a \in applied : a.request # r
  /\ pc[r] # "done" => \A e \in readyTopic : e.request # r
  /\ pc[r] # "done" => response[r] = NoResponse

HandlerInv == \A r \in Requests : HandlerOK(r)

\* Evidence never precedes what it is evidence of.
EvidenceInv ==
  /\ auditTable \subseteq applied
  /\ auditTopic \subseteq auditTable

\* The changes of a proposal are edges of the graph, lie below its present
\* status, and chain back to "proposed" in the order of their times.
PathInv ==
  /\ \A a \in applied :
       /\ a.new \in ALLOWED_TRANSITIONS[a.previous]
       /\ Rank(a.previous) < Rank(status[a.command])
       /\ Rank(a.new) <= Rank(status[a.command])
       /\ \/ a.previous = "proposed"
          \/ \E b \in applied : b.command = a.command /\ b.new = a.previous
  /\ \A c \in Commands :
       \/ status[c] \in {Absent, "proposed"}
       \/ \E a \in applied : a.command = c /\ a.new = status[c]

\* Times follow the path, also for a change that is built but not yet applied.
TimeInv ==
  /\ \A a \in applied : a.time <= clock
  /\ \A a, b \in applied :
       a.command = b.command /\ b.previous = a.new => a.time <= b.time
  /\ \A r \in Requests : pc[r] = "update" =>
       \A a \in applied : a.command = Command(r) /\ a.new = seen[r] => a.time <= stamp[r]

UniqueInv ==
  \A a, b \in applied :
    a.command = b.command /\ a.previous = b.previous => a = b

IInv ==
  /\ TypeOK
  /\ HandlerInv
  /\ EvidenceInv
  /\ PathInv
  /\ TimeInv
  /\ UniqueInv
  /\ ReadyIsAudited
  /\ ResponseTruthful

-----------------------------------------------------------------------------
(* The status graph                                                        *)

\* The edges of the graph, listed.
LEMMA TransitionGraph ==
  ASSUME NEW p \in STATUSES, NEW s \in ALLOWED_TRANSITIONS[p]
  PROVE  \/ p = "proposed" /\ s \in {"reviewed", "rejected"}
         \/ p = "reviewed" /\ s \in {"approved", "rejected"}
         \/ p = "approved" /\ s = "ready_to_dispatch"
BY DEF STATUSES, ALLOWED_TRANSITIONS

\* Every action aims at a status.
LEMMA TargetIsStatus ==
  ASSUME NEW k \in Calls
  PROVE  ACTION_TO_STATUS[k.action] \in STATUSES
BY DEF Calls, Actions, ACTION_TO_STATUS, STATUSES

\* An edge leads strictly up in Rank.
LEMMA TransitionRises ==
  ASSUME NEW p \in STATUSES, NEW s \in ALLOWED_TRANSITIONS[p]
  PROVE  Rank(p) < Rank(s)
BY TransitionGraph DEF Rank, Absent

-----------------------------------------------------------------------------
(* Type correctness                                                        *)

LEMMA TypeInit == Init => TypeOK
BY ClockAssumption DEF Init, TypeOK, Steps, STATUSES, NoResponse

\* The frame of a handler stays well typed, and so does what it emits.
LEMMA AuditOfType ==
  ASSUME TypeOK, NEW r \in Requests, call[r] \in Calls, seen[r] \in STATUSES
  PROVE  AuditOf(r) \in AuditRecords /\ ReadyEvent(r) \in ReadyEvents
BY TargetIsStatus DEF TypeOK, AuditOf, AuditRecords, Target, Command, Calls,
   ReadyEvent, ReadyEvents

LEMMA RespondType ==
  ASSUME TypeOK, NEW r \in Requests, NEW code \in {200, 400, 404, 409, 503},
         Respond(r, code)
  PROVE  /\ pc' \in [Requests -> Steps]
         /\ response' \in [Requests -> {NoResponse, 200, 400, 404, 409, 503}]
         /\ call' \in [Requests -> Calls \cup {NoCall}]
         /\ seen' \in [Requests -> STATUSES \cup {Absent}]
         /\ stamp' \in [Requests -> 0..MaxClock]
BY ClockAssumption DEF TypeOK, Respond, Steps

LEMMA ContinueType ==
  ASSUME TypeOK, NEW r \in Requests, NEW step \in Steps, Continue(r, step)
  PROVE  /\ pc' \in [Requests -> Steps]
         /\ response' \in [Requests -> {NoResponse, 200, 400, 404, 409, 503}]
BY DEF TypeOK, Continue

LEMMA TypeNext == TypeOK /\ HandlerInv /\ [Next]_vars => TypeOK'
<1> SUFFICES ASSUME TypeOK, HandlerInv, [Next]_vars PROVE TypeOK'
  OBVIOUS
<1> USE DEF storeVars
<1>1. CASE UNCHANGED vars
  BY <1>1 DEF vars, handlerVars, TypeOK
<1>2. ASSUME NEW c \in Commands, InsertProposal(c) PROVE TypeOK'
  BY <1>2 DEF InsertProposal, handlerVars, TypeOK, STATUSES
<1>3. CASE Tick
  BY <1>3, ClockAssumption DEF Tick, handlerVars, TypeOK
<1>4. CASE Crash
  BY <1>4, ClockAssumption DEF Crash, TypeOK, Steps
<1>5. ASSUME NEW r \in Requests, Receive(r) PROVE TypeOK'
  <2>1. PICK k \in Calls, body \in Bodies :
          \/ /\ call' = [call EXCEPT ![r] = k]
             /\ Continue(r, "read")
             /\ UNCHANGED <<seen, stamp>>
          \/ Respond(r, 400)
    BY <1>5 DEF Receive
  <2>2. CASE Respond(r, 400)
    BY <1>5, <2>2, RespondType DEF Receive, TypeOK
  <2>3. CASE Continue(r, "read") /\ call' = [call EXCEPT ![r] = k] /\ UNCHANGED <<seen, stamp>>
    BY <1>5, <2>3, ContinueType DEF Receive, TypeOK, Steps
  <2> QED BY <2>1, <2>2, <2>3
<1>6. ASSUME NEW r \in Requests, ReadRow(r) PROVE TypeOK'
  <2>1. Command(r) \in Commands
    BY <1>6 DEF ReadRow, HandlerInv, HandlerOK, Running, Calls, Command
  <2>2. CASE Respond(r, 503)
    BY <1>6, <2>2, RespondType DEF ReadRow, TypeOK
  <2>3. CASE Continue(r, "check") /\ seen' = [seen EXCEPT ![r] = status[Command(r)]]
             /\ UNCHANGED <<call, stamp>>
    BY <1>6, <2>1, <2>3, ContinueType DEF ReadRow, TypeOK, Steps
  <2> QED BY <1>6, <2>2, <2>3 DEF ReadRow
<1>7. ASSUME NEW r \in Requests, CheckAndBuild(r) PROVE TypeOK'
  <2>1. ASSUME NEW code \in {400, 404}, Respond(r, code) PROVE TypeOK'
    BY <1>7, <2>1, RespondType DEF CheckAndBuild, TypeOK
  <2>2. CASE Continue(r, "update") /\ stamp' = [stamp EXCEPT ![r] = clock]
             /\ UNCHANGED <<call, seen>>
    BY <1>7, <2>2, ContinueType DEF CheckAndBuild, TypeOK, Steps
  <2> QED BY <1>7, <2>1, <2>2 DEF CheckAndBuild
<1>8. ASSUME NEW r \in Requests, pc[r] \in Built
      PROVE  /\ AuditOf(r) \in AuditRecords
             /\ ReadyEvent(r) \in ReadyEvents
             /\ Target(r) \in STATUSES
  <2>1. call[r] \in Calls /\ seen[r] \in STATUSES
    BY <1>8 DEF HandlerInv, HandlerOK, Running, Built, validateTransition
  <2> QED BY <2>1, AuditOfType, TargetIsStatus DEF Target
<1>9. ASSUME NEW r \in Requests, UpdateStatus(r) PROVE TypeOK'
  <2>1. AuditOf(r) \in AuditRecords /\ Target(r) \in STATUSES
    BY <1>8, <1>9 DEF UpdateStatus, Built
  <2>2. UNCHANGED <<auditTable, auditTopic, readyTopic, clock>>
    BY <1>9 DEF UpdateStatus
  <2>3. /\ status' \in [Commands -> STATUSES \cup {Absent}]
        /\ rowAudit' \in [Commands -> SUBSET Requests]
        /\ applied' \subseteq AuditRecords
    <3>1. CASE ApplyUpdate(r)
      <4>1. status' \in [Commands -> STATUSES \cup {Absent}]
        BY <3>1, <2>1 DEF ApplyUpdate, TypeOK
      <4>2. rowAudit' \in [Commands -> SUBSET Requests]
        <5>1. {r} \in SUBSET Requests
          OBVIOUS
        <5>2. rowAudit \in [Commands -> SUBSET Requests]
          BY DEF TypeOK
        <5>3. rowAudit' = [rowAudit EXCEPT ![Command(r)] = {r}]
          BY <3>1 DEF ApplyUpdate
        <5> HIDE DEF storeVars
        <5> QED BY <5>1, <5>2, <5>3
      <4>3. applied' \subseteq AuditRecords
        BY <3>1, <2>1 DEF ApplyUpdate, TypeOK
      <4> QED BY <4>1, <4>2, <4>3
    <3>2. CASE UNCHANGED <<status, rowAudit, applied>>
      BY <3>2 DEF TypeOK
    <3> QED BY <1>9, <3>1, <3>2 DEF UpdateStatus
  <2>4. ASSUME NEW code \in {409, 503}, Respond(r, code) PROVE TypeOK'
    <3>1. code \in {200, 400, 404, 409, 503}
      OBVIOUS
    <3> QED BY <2>2, <2>3, <2>4, <3>1, RespondType DEF TypeOK
  <2>5. CASE Continue(r, "audit") /\ UNCHANGED <<call, seen, stamp>>
    <3>1. /\ pc' \in [Requests -> Steps]
          /\ response' \in [Requests -> {NoResponse, 200, 400, 404, 409, 503}]
      BY <2>5, ContinueType DEF Steps
    <3> QED BY <2>2, <2>3, <2>5, <3>1 DEF TypeOK
  <2> QED BY <1>9, <2>4, <2>5 DEF UpdateStatus
<1>10. ASSUME NEW r \in Requests, InsertAudit(r) \/ PublishAudit(r) \/ PublishReady(r)
       PROVE  TypeOK'
  <2>1. /\ auditTable' \subseteq AuditRecords
        /\ auditTopic' \subseteq AuditRecords
        /\ readyTopic' \subseteq ReadyEvents
    BY <1>8, <1>10 DEF InsertAudit, PublishAudit, PublishReady, Built, TypeOK
  <2>2. UNCHANGED <<status, rowAudit, clock, applied>>
    BY <1>10 DEF InsertAudit, PublishAudit, PublishReady
  <2>3. ASSUME NEW code \in {200, 503}, Respond(r, code) PROVE TypeOK'
    BY <2>1, <2>2, <2>3, RespondType DEF TypeOK
  <2>4. ASSUME NEW step \in {"publish", "ready"}, Continue(r, step),
               UNCHANGED <<call, seen, stamp>>
        PROVE  TypeOK'
    BY <2>1, <2>2, <2>4, ContinueType DEF TypeOK, Steps
  <2> QED BY <1>10, <2>3, <2>4 DEF InsertAudit, PublishAudit, PublishReady
<1> QED
  BY <1>1, <1>2, <1>3, <1>4, <1>5, <1>6, <1>7, <1>9, <1>10 DEF Next, Proceed

-----------------------------------------------------------------------------
(* Steps                                                                   *)

\* A step of one handler leaves the frames of all others alone.
LEMMA OthersKeep ==
  ASSUME TypeOK, NEW r \in Requests, Receive(r) \/ Proceed(r),
         NEW q \in Requests, q # r
  PROVE  /\ pc'[q] = pc[q] /\ call'[q] = call[q] /\ seen'[q] = seen[q]
         /\ stamp'[q] = stamp[q] /\ response'[q] = response[q]
<1>1. ASSUME NEW code, Respond(r, code)
      PROVE  /\ pc'[q] = pc[q] /\ call'[q] = call[q] /\ seen'[q] = seen[q]
             /\ stamp'[q] = stamp[q] /\ response'[q] = response[q]
  BY <1>1 DEF Respond, TypeOK
<1>2. CASE Receive(r)
  BY <1>1, <1>2 DEF Receive, Continue, TypeOK
<1>3. CASE ReadRow(r)
  BY <1>1, <1>3 DEF ReadRow, Continue, TypeOK
<1>4. CASE CheckAndBuild(r)
  BY <1>1, <1>4 DEF CheckAndBuild, Continue, TypeOK
<1>5. CASE UpdateStatus(r)
  BY <1>1, <1>5 DEF UpdateStatus, Continue, TypeOK
<1>6. CASE InsertAudit(r)
  BY <1>1, <1>6 DEF InsertAudit, Continue, TypeOK
<1>7. CASE PublishAudit(r)
  BY <1>1, <1>7 DEF PublishAudit, Continue, TypeOK
<1>8. CASE PublishReady(r)
  BY <1>1, <1>8 DEF PublishReady, Continue, TypeOK
<1> QED BY <1>2, <1>3, <1>4, <1>5, <1>6, <1>7, <1>8 DEF Proceed

\* The frame of a handler that has answered.
LEMMA RespondFrame ==
  ASSUME TypeOK, NEW r \in Requests, NEW code, Respond(r, code)
  PROVE  pc'[r] = "done" /\ response'[r] = code
BY DEF Respond, TypeOK

\* The frame of a handler that goes on.
LEMMA ContinueFrame ==
  ASSUME TypeOK, NEW r \in Requests, NEW step, Continue(r, step)
  PROVE  pc'[r] = step /\ response'[r] = response[r]
BY DEF Continue, TypeOK

\* What an UPDATE that matched its row does: the status it leaves is the one
\* the handler had read, and it moves strictly up.
LEMMA UpdateFacts ==
  ASSUME TypeOK, HandlerInv, NEW r \in Requests, pc[r] = "update",
         RowMatches(r), ApplyUpdate(r)
  PROVE  /\ Command(r) \in Commands
         /\ seen[r] \in STATUSES /\ Target(r) \in STATUSES
         /\ status[Command(r)] = seen[r]
         /\ Target(r) \in ALLOWED_TRANSITIONS[seen[r]]
         /\ Rank(seen[r]) < Rank(Target(r))
         /\ status'[Command(r)] = Target(r)
         /\ \A c \in Commands : c # Command(r) => status'[c] = status[c]
         /\ applied' = applied \cup {AuditOf(r)}
<1>1. call[r] \in Calls /\ validateTransition(seen[r], Target(r))
  BY DEF HandlerInv, HandlerOK, Running, Built
<1>2. Command(r) \in Commands
  BY <1>1 DEF Calls, Command
<1>3. Target(r) \in STATUSES
  BY <1>1, TargetIsStatus DEF Target
<1>4. /\ seen[r] \in STATUSES
      /\ Target(r) \in ALLOWED_TRANSITIONS[seen[r]]
  BY <1>1 DEF validateTransition
<1>5. /\ status'[Command(r)] = Target(r)
      /\ \A c \in Commands : c # Command(r) => status'[c] = status[c]
      /\ applied' = applied \cup {AuditOf(r)}
  BY <1>2 DEF ApplyUpdate, TypeOK
<1> QED BY <1>2, <1>3, <1>4, <1>5, TransitionRises DEF RowMatches

\* What an UPDATE changes, whether it matched or not.
LEMMA UpdateCases ==
  ASSUME NEW r \in Requests, UpdateStatus(r)
  PROVE  \/ RowMatches(r) /\ ApplyUpdate(r)
         \/ UNCHANGED <<status, rowAudit, applied>>
BY DEF UpdateStatus

\* The status of a proposal changes by an UPDATE that matched or by its
\* insertion, and applied only by the former.
LEMMA WhoWrites ==
  ASSUME [Next]_vars
  PROVE  \/ UNCHANGED <<status, applied>>
         \/ /\ UNCHANGED applied
            /\ \E c \in Commands : status[c] = Absent /\ status' = [status EXCEPT ![c] = "proposed"]
         \/ \E r \in Requests : pc[r] = "update" /\ RowMatches(r) /\ ApplyUpdate(r) /\ UpdateStatus(r)
<1>1. CASE UNCHANGED vars
  BY <1>1 DEF vars, storeVars
<1>2. ASSUME NEW c \in Commands, InsertProposal(c)
      PROVE  /\ UNCHANGED applied
             /\ status[c] = Absent /\ status' = [status EXCEPT ![c] = "proposed"]
  BY <1>2 DEF InsertProposal
<1>3. CASE Tick \/ Crash
  BY <1>3 DEF Tick, Crash, storeVars
<1>4. ASSUME NEW r \in Requests, Receive(r) \/ ReadRow(r) \/ CheckAndBuild(r)
      PROVE  UNCHANGED <<status, applied>>
  BY <1>4 DEF Receive, ReadRow, CheckAndBuild, storeVars
<1>5. ASSUME NEW r \in Requests, InsertAudit(r) \/ PublishAudit(r) \/ PublishReady(r)
      PROVE  UNCHANGED <<status, applied>>
  BY <1>5 DEF InsertAudit, PublishAudit, PublishReady
<1>6. ASSUME NEW r \in Requests, UpdateStatus(r)
      PROVE  \/ UNCHANGED <<status, applied>>
             \/ pc[r] = "update" /\ RowMatches(r) /\ ApplyUpdate(r) /\ UpdateStatus(r)
  BY <1>6 DEF UpdateStatus
<1> QED BY <1>1, <1>2, <1>3, <1>4, <1>5, <1>6 DEF Next, Proceed

-----------------------------------------------------------------------------
(* The recorded changes                                                    *)

\* The changes of a proposal remain edges below its status, chained back.
LEMMA PathNext == TypeOK /\ HandlerInv /\ PathInv /\ [Next]_vars => PathInv'
<1> SUFFICES ASSUME TypeOK, HandlerInv, PathInv, [Next]_vars PROVE PathInv'
  OBVIOUS
<1>1. CASE UNCHANGED <<status, applied>>
  BY <1>1 DEF PathInv
<1>2. ASSUME UNCHANGED applied,
             NEW c \in Commands, status[c] = Absent,
             status' = [status EXCEPT ![c] = "proposed"]
      PROVE  PathInv'
  <2>1. \A a \in applied : a.command # c
    <3> SUFFICES ASSUME NEW a \in applied, a.command = c PROVE FALSE
      OBVIOUS
    <3>1. Rank(a.previous) < 0
      BY <1>2 DEF PathInv, Rank
    <3>2. Rank(a.previous) \in Nat
      BY DEF Rank
    <3> QED BY <3>1, <3>2
  <2>2. \A d \in Commands : d # c => status'[d] = status[d]
    BY <1>2 DEF TypeOK
  <2>3. \A a \in applied : a.command \in Commands
    BY DEF TypeOK, AuditRecords
  <2>4. status'[c] = "proposed"
    BY <1>2 DEF TypeOK
  <2> QED BY <1>2, <2>1, <2>2, <2>3, <2>4 DEF PathInv
<1>3. ASSUME NEW r \in Requests, pc[r] = "update", RowMatches(r), ApplyUpdate(r)
      PROVE  PathInv'
  <2> DEFINE n == AuditOf(r)
  <2>1. /\ n.command = Command(r) /\ n.previous = seen[r] /\ n.new = Target(r)
    BY DEF AuditOf
  <2>2. /\ Command(r) \in Commands
        /\ status[Command(r)] = seen[r] /\ status'[Command(r)] = Target(r)
        /\ Target(r) \in ALLOWED_TRANSITIONS[seen[r]]
        /\ Rank(seen[r]) < Rank(Target(r))
        /\ \A c \in Commands : c # Command(r) => status'[c] = status[c]
        /\ applied' = applied \cup {n}
        /\ seen[r] \in STATUSES
    BY <1>3, UpdateFacts
  <2> HIDE DEF n
  <2>3. \A s : Rank(s) \in Nat
    BY DEF Rank
  <2>4. ASSUME NEW a \in applied
        PROVE  /\ a.new \in ALLOWED_TRANSITIONS[a.previous]
               /\ Rank(a.previous) < Rank(status'[a.command])
               /\ Rank(a.new) <= Rank(status'[a.command])
               /\ \/ a.previous = "proposed"
                  \/ \E b \in applied' : b.command = a.command /\ b.new = a.previous
    <3>1. /\ a.new \in ALLOWED_TRANSITIONS[a.previous]
          /\ Rank(a.previous) < Rank(status[a.command])
          /\ Rank(a.new) <= Rank(status[a.command])
          /\ \/ a.previous = "proposed"
             \/ \E b \in applied' : b.command = a.command /\ b.new = a.previous
      BY <2>2 DEF PathInv
    <3>2. a.command \in Commands
      BY DEF TypeOK, AuditRecords
    <3>3. Rank(status[a.command]) <= Rank(status'[a.command])
      BY <2>2, <2>3, <3>2
    <3> QED BY <2>3, <3>1, <3>3
  <2>5. /\ n.new \in ALLOWED_TRANSITIONS[n.previous]
        /\ Rank(n.previous) < Rank(status'[n.command])
        /\ Rank(n.new) <= Rank(status'[n.command])
    BY <2>1, <2>2, <2>3
  <2>6. \/ n.previous = "proposed"
        \/ \E b \in applied' : b.command = n.command /\ b.new = n.previous
    BY <2>1, <2>2 DEF PathInv, STATUSES, Absent
  <2>7. ASSUME NEW c \in Commands
        PROVE  \/ status'[c] \in {Absent, "proposed"}
               \/ \E a \in applied' : a.command = c /\ a.new = status'[c]
    BY <2>1, <2>2 DEF PathInv
  <2> QED BY <2>2, <2>4, <2>5, <2>6, <2>7 DEF PathInv
<1> QED BY <1>1, <1>2, <1>3, WhoWrites

\* A second change cannot leave a status that a first one has left.
LEMMA UniqueNext ==
  TypeOK /\ HandlerInv /\ PathInv /\ UniqueInv /\ [Next]_vars => UniqueInv'
<1> SUFFICES ASSUME TypeOK, HandlerInv, PathInv, UniqueInv, [Next]_vars PROVE UniqueInv'
  OBVIOUS
<1>1. CASE UNCHANGED applied
  BY <1>1 DEF UniqueInv
<1>2. ASSUME NEW r \in Requests, pc[r] = "update", RowMatches(r), ApplyUpdate(r)
      PROVE  UniqueInv'
  <2>1. /\ applied' = applied \cup {AuditOf(r)}
        /\ status[Command(r)] = seen[r]
    BY <1>2, UpdateFacts
  <2>2. AuditOf(r).command = Command(r) /\ AuditOf(r).previous = seen[r]
    BY DEF AuditOf
  <2>3. Rank(seen[r]) \in Nat
    BY DEF Rank
  <2>4. ASSUME NEW a \in applied, a.command = Command(r) PROVE a.previous # seen[r]
    <3>1. Rank(a.previous) < Rank(seen[r])
      BY <2>1, <2>4 DEF PathInv
    <3> QED BY <2>3, <3>1
  <2> QED BY <2>1, <2>2, <2>4 DEF UniqueInv
<1> QED BY <1>1, <1>2, WhoWrites

-----------------------------------------------------------------------------
(* Evidence, handlers, answers                                             *)

\* Audit rows and audit events are of changes that were applied.
LEMMA EvidenceNext == TypeOK /\ HandlerInv /\ EvidenceInv /\ [Next]_vars => EvidenceInv'
<1> SUFFICES ASSUME TypeOK, HandlerInv, EvidenceInv, [Next]_vars PROVE EvidenceInv'
  OBVIOUS
<1>1. CASE UNCHANGED <<auditTable, auditTopic, applied>>
  BY <1>1 DEF EvidenceInv
<1>2. ASSUME NEW r \in Requests, UpdateStatus(r) PROVE EvidenceInv'
  BY <1>2, UpdateCases DEF UpdateStatus, ApplyUpdate, EvidenceInv
<1>3. ASSUME NEW r \in Requests, InsertAudit(r) PROVE EvidenceInv'
  <2>1. AuditOf(r) \in applied
    BY <1>3 DEF InsertAudit, HandlerInv, HandlerOK, Updated
  <2> QED BY <1>3, <2>1 DEF InsertAudit, EvidenceInv
<1>4. ASSUME NEW r \in Requests, PublishAudit(r) PROVE EvidenceInv'
  <2>1. AuditOf(r) \in auditTable
    BY <1>4 DEF PublishAudit, HandlerInv, HandlerOK
  <2> QED BY <1>4, <2>1 DEF PublishAudit, EvidenceInv
<1>5. CASE UNCHANGED vars
  BY <1>1, <1>5 DEF vars, storeVars
<1>6. ASSUME NEW c \in Commands, InsertProposal(c) PROVE EvidenceInv'
  BY <1>1, <1>6 DEF InsertProposal
<1>7. CASE Tick \/ Crash
  BY <1>1, <1>7 DEF Tick, Crash, storeVars
<1>8. ASSUME NEW r \in Requests,
             Receive(r) \/ ReadRow(r) \/ CheckAndBuild(r) \/ PublishReady(r)
      PROVE  EvidenceInv'
  BY <1>1, <1>8 DEF Receive, ReadRow, CheckAndBuild, PublishReady, storeVars
<1> QED BY <1>2, <1>3, <1>4, <1>5, <1>6, <1>7, <1>8 DEF Next, Proceed

\* Whatever one step adds to the stores, it adds in the name of the request
\* whose handler took the step, and it removes nothing.
LEMMA Growth ==
  ASSUME TypeOK, HandlerInv, [Next]_vars
  PROVE  /\ applied \subseteq applied' /\ auditTable \subseteq auditTable'
         /\ auditTopic \subseteq auditTopic' /\ readyTopic \subseteq readyTopic'
         /\ clock <= clock'
         /\ \A c \in Commands : Rank(status[c]) <= Rank(status'[c])
<1>1. /\ applied \subseteq applied' /\ auditTable \subseteq auditTable'
      /\ auditTopic \subseteq auditTopic' /\ readyTopic \subseteq readyTopic'
      /\ clock' = clock \/ clock' = clock + 1
  BY DEF Next, Proceed, vars, storeVars, handlerVars, InsertProposal, Tick, Crash, Receive,
     ReadRow, CheckAndBuild, UpdateStatus, ApplyUpdate, InsertAudit, PublishAudit, PublishReady
<1>2. \A s : Rank(s) \in Nat
  BY DEF Rank
<1>3. ASSUME NEW c \in Commands PROVE Rank(status[c]) <= Rank(status'[c])
  <2>1. CASE UNCHANGED status
    BY <1>2, <2>1
  <2>2. ASSUME NEW d \in Commands, status[d] = Absent,
               status' = [status EXCEPT ![d] = "proposed"]
        PROVE  Rank(status[c]) <= Rank(status'[c])
    <3>1. CASE c = d
      <4>1. Rank(status[c]) = 0
        BY <2>2, <3>1 DEF Rank
      <4> QED BY <1>2, <4>1
    <3>2. CASE c # d
      BY <1>2, <2>2, <3>2 DEF TypeOK
    <3> QED BY <3>1, <3>2
  <2>3. ASSUME NEW r \in Requests, pc[r] = "update", RowMatches(r), ApplyUpdate(r)
        PROVE  Rank(status[c]) <= Rank(status'[c])
    BY <1>2, <2>3, UpdateFacts
  <2> QED BY <2>1, <2>2, <2>3, WhoWrites
<1>4. clock \in Nat
  BY ClockAssumption DEF TypeOK
<1> QED BY <1>1, <1>3, <1>4

LEMMA NewEvidence ==
  ASSUME NEW r \in Requests, Receive(r) \/ Proceed(r)
  PROVE  /\ \A a \in applied' : a \in applied \/ a.request = r
         /\ \A a \in auditTable' : a \in auditTable \/ a.request = r
         /\ \A a \in auditTopic' : a \in auditTopic \/ a.request = r
         /\ \A e \in readyTopic' : e \in readyTopic \/ e.request = r
         /\ clock' = clock
<1>1. AuditOf(r).request = r /\ ReadyEvent(r).request = r
  BY DEF AuditOf, ReadyEvent
<1> QED
  BY <1>1 DEF Proceed, storeVars, Receive, ReadRow, CheckAndBuild, UpdateStatus, ApplyUpdate,
     InsertAudit, PublishAudit, PublishReady

\* No proposal is announced without the evidence of it.
LEMMA ReadyNext ==
  TypeOK /\ HandlerInv /\ ReadyIsAudited /\ [Next]_vars => ReadyIsAudited'
<1> SUFFICES ASSUME TypeOK, HandlerInv, ReadyIsAudited, [Next]_vars PROVE ReadyIsAudited'
  OBVIOUS
<1>1. /\ auditTable \subseteq auditTable' /\ auditTopic \subseteq auditTopic'
  BY Growth
<1>2. CASE UNCHANGED readyTopic
  BY <1>1, <1>2 DEF ReadyIsAudited
<1>3. ASSUME NEW r \in Requests, PublishReady(r) PROVE ReadyIsAudited'
  <2>1. /\ AuditOf(r) \in auditTable /\ AuditOf(r) \in auditTopic
        /\ Target(r) = "ready_to_dispatch"
    BY <1>3 DEF PublishReady, HandlerInv, HandlerOK
  <2>2. /\ AuditOf(r).command = Command(r) /\ AuditOf(r).request = r
        /\ AuditOf(r).new = Target(r)
        /\ ReadyEvent(r).command = Command(r) /\ ReadyEvent(r).request = r
    BY DEF AuditOf, ReadyEvent
  <2>3. \A e \in readyTopic' : e \in readyTopic \/ e = ReadyEvent(r)
    BY <1>3 DEF PublishReady
  <2> QED BY <1>1, <2>1, <2>2, <2>3 DEF ReadyIsAudited
<1>4. CASE UNCHANGED vars
  BY <1>2, <1>4 DEF vars, storeVars
<1>5. ASSUME NEW c \in Commands, InsertProposal(c) PROVE ReadyIsAudited'
  BY <1>2, <1>5 DEF InsertProposal
<1>6. CASE Tick \/ Crash
  BY <1>2, <1>6 DEF Tick, Crash, storeVars
<1>7. ASSUME NEW r \in Requests, Receive(r) \/ ReadRow(r) \/ CheckAndBuild(r)
      PROVE ReadyIsAudited'
  BY <1>2, <1>7 DEF Receive, ReadRow, CheckAndBuild, storeVars
<1>8. ASSUME NEW r \in Requests, UpdateStatus(r) \/ InsertAudit(r) \/ PublishAudit(r)
      PROVE ReadyIsAudited'
  BY <1>2, <1>8 DEF UpdateStatus, InsertAudit, PublishAudit
<1> QED BY <1>3, <1>4, <1>5, <1>6, <1>7, <1>8 DEF Next, Proceed

\* The frame of a handler that does not move in a step survives the step.
LEMMA FrameKept ==
  ASSUME TypeOK, HandlerInv, [Next]_vars, NEW q \in Requests,
         pc'[q] = pc[q], call'[q] = call[q], seen'[q] = seen[q], stamp'[q] = stamp[q],
         response'[q] = response[q],
         \A a \in applied' : a \in applied \/ a.request # q,
         \A e \in readyTopic' : e \in readyTopic \/ e.request # q
  PROVE  HandlerOK(q)'
<1>1. /\ applied \subseteq applied' /\ auditTable \subseteq auditTable'
      /\ auditTopic \subseteq auditTopic' /\ clock <= clock'
      /\ \A c \in Commands : Rank(status[c]) <= Rank(status'[c])
  BY Growth
<1>2. HandlerOK(q)
  BY DEF HandlerInv
<1>3. Command(q)' = Command(q) /\ Target(q)' = Target(q) /\ AuditOf(q)' = AuditOf(q)
  BY DEF Command, Target, AuditOf
<1>4. \A s : Rank(s) \in Nat
  BY DEF Rank
<1>5. pc[q] \in Running => Command(q) \in Commands
  BY <1>2 DEF HandlerOK, Calls, Command
<1>6. stamp[q] \in Nat /\ clock \in Nat /\ clock' \in Nat
  <2>1. TypeOK'
    BY TypeNext
  <2> QED BY <2>1, ClockAssumption DEF TypeOK
<1>7. pc[q] \in {"check"} \cup Built => Rank(seen'[q]) <= Rank(status'[Command(q)'])
  <2> SUFFICES ASSUME pc[q] \in {"check"} \cup Built
               PROVE  Rank(seen[q]) <= Rank(status'[Command(q)])
    BY <1>3
  <2>1. Rank(seen[q]) <= Rank(status[Command(q)]) /\ Command(q) \in Commands
    BY <1>2, <1>5 DEF HandlerOK, Built, Running
  <2> QED BY <1>1, <1>4, <2>1
<1>8. pc[q] \in Built => validateTransition(seen'[q], Target(q)') /\ stamp'[q] <= clock'
  BY <1>1, <1>2, <1>3, <1>6 DEF HandlerOK, validateTransition
<1> QED BY <1>1, <1>2, <1>3, <1>7, <1>8 DEF HandlerOK

\* The handlers' positions keep telling what they have done.
LEMMA HandlerNext ==
  TypeOK /\ HandlerInv /\ EvidenceInv /\ [Next]_vars => HandlerInv'
<1> SUFFICES ASSUME TypeOK, HandlerInv, EvidenceInv, [Next]_vars, NEW q \in Requests
             PROVE  HandlerOK(q)'
  BY DEF HandlerInv
<1>1. HandlerOK(q)
  BY DEF HandlerInv
<1>2. CASE UNCHANGED vars
  BY <1>2, FrameKept DEF vars, handlerVars, storeVars
<1>3. ASSUME NEW c \in Commands, InsertProposal(c) PROVE HandlerOK(q)'
  BY <1>3, FrameKept DEF InsertProposal, handlerVars
<1>4. CASE Tick
  BY <1>4, FrameKept DEF Tick, handlerVars, storeVars
<1>5. CASE Crash
  <2>1. pc'[q] \in {"idle", "done"}
    BY <1>5 DEF Crash, TypeOK
  <2>2. pc'[q] = "idle" => pc[q] = "idle"
    BY <1>5 DEF Crash, TypeOK
  <2>3. UNCHANGED <<applied, readyTopic, response>>
    BY <1>5 DEF Crash, storeVars
  <2> QED BY <1>1, <2>1, <2>2, <2>3 DEF HandlerOK, Running, Built, Updated
<1>6. ASSUME NEW r \in Requests, Receive(r) \/ Proceed(r), q # r PROVE HandlerOK(q)'
  BY <1>6, OthersKeep, NewEvidence, FrameKept
<1>7. ASSUME NEW code, Respond(q, code) PROVE HandlerOK(q)'
  BY <1>7, RespondFrame DEF HandlerOK, Running, Built, Updated
<1>8. CASE Receive(q)
  <2>1. ASSUME NEW k \in Calls, call' = [call EXCEPT ![q] = k], Continue(q, "read"),
               UNCHANGED <<storeVars, applied>>
        PROVE  HandlerOK(q)'
    <3>1. pc'[q] = "read" /\ response'[q] = response[q] /\ call'[q] = k
      BY <2>1, ContinueFrame DEF TypeOK
    <3> QED BY <1>1, <1>8, <2>1, <3>1 DEF Receive, HandlerOK, Running, Built, Updated, storeVars
  <2> QED BY <1>7, <1>8, <2>1 DEF Receive
<1>9. CASE ReadRow(q)
  <2>1. CASE /\ seen' = [seen EXCEPT ![q] = status[Command(q)]]
             /\ Continue(q, "check")
             /\ UNCHANGED <<call, stamp>>
    <3>1. /\ pc'[q] = "check" /\ response'[q] = response[q]
          /\ call'[q] = call[q] /\ seen'[q] = status[Command(q)]
      BY <2>1, ContinueFrame DEF TypeOK
    <3>2. UNCHANGED <<storeVars, applied>> /\ pc[q] = "read"
      BY <1>9 DEF ReadRow
    <3>3. Command(q)' = Command(q)
      BY <3>1 DEF Command
    <3>4. Rank(status[Command(q)]) \in Nat
      BY DEF Rank
    <3>5. Rank(seen'[q]) <= Rank(status'[Command(q)'])
      <4>1. status' = status
        BY <3>2 DEF storeVars
      <4> QED BY <3>1, <3>3, <3>4, <4>1
    <3> QED BY <1>1, <3>1, <3>2, <3>5 DEF HandlerOK, Running, Built, Updated, storeVars
  <2> QED BY <1>7, <1>9, <2>1 DEF ReadRow
<1>10. CASE CheckAndBuild(q)
  <2>1. CASE /\ validateTransition(seen[q], Target(q))
             /\ stamp' = [stamp EXCEPT ![q] = clock]
             /\ Continue(q, "update")
             /\ UNCHANGED <<call, seen>>
    <3>1. /\ pc'[q] = "update" /\ response'[q] = response[q]
          /\ call'[q] = call[q] /\ seen'[q] = seen[q] /\ stamp'[q] = clock
      BY <2>1, ContinueFrame DEF TypeOK
    <3>2. UNCHANGED <<storeVars, applied, clock>> /\ pc[q] = "check"
      BY <1>10 DEF CheckAndBuild
    <3>3. Command(q)' = Command(q) /\ Target(q)' = Target(q)
      BY <3>1 DEF Command, Target
    <3>4. clock <= clock
      BY ClockAssumption DEF TypeOK
    <3>5. Rank(seen'[q]) <= Rank(status'[Command(q)'])
      <4>1. status' = status
        BY <3>2 DEF storeVars
      <4> QED BY <1>1, <3>1, <3>2, <3>3, <4>1 DEF HandlerOK
    <3>6. validateTransition(seen'[q], Target(q)') /\ stamp'[q] <= clock'
      BY <2>1, <3>1, <3>2, <3>3, <3>4
    <3> QED BY <1>1, <3>1, <3>2, <3>5, <3>6
        DEF HandlerOK, Running, Updated, storeVars
  <2> QED BY <1>7, <1>10, <2>1 DEF CheckAndBuild
<1>11. ASSUME Continue(q, "audit") \/ Continue(q, "publish") \/ Continue(q, "ready"),
              UNCHANGED <<call, seen, stamp>>
       PROVE  /\ response'[q] = response[q]
              /\ AuditOf(q)' = AuditOf(q) /\ Target(q)' = Target(q) /\ Command(q)' = Command(q)
              /\ pc'[q] \in {"audit", "publish", "ready"}
  BY <1>11, ContinueFrame DEF AuditOf, Target, Command
<1>12. ASSUME pc[q] \in Built, UNCHANGED <<call, seen, stamp, clock>>
       PROVE  call'[q] \in Calls /\ validateTransition(seen'[q], Target(q)') /\ stamp'[q] <= clock'
  BY <1>1, <1>12 DEF HandlerOK, Running, Built, Target, validateTransition
<1>13. ASSUME pc[q] \in Built, UNCHANGED <<call, seen>>
       PROVE  Rank(seen'[q]) <= Rank(status'[Command(q)'])
  <2>1. Command(q)' = Command(q) /\ seen'[q] = seen[q] /\ Command(q) \in Commands
    BY <1>1, <1>13 DEF HandlerOK, Command, Running, Built, Calls
  <2>2. Rank(status[Command(q)]) <= Rank(status'[Command(q)])
    BY <2>1, Growth
  <2>3. Rank(seen[q]) <= Rank(status[Command(q)])
    BY <1>1, <1>13 DEF HandlerOK
  <2>4. \A s : Rank(s) \in Nat
    BY DEF Rank
  <2> QED BY <2>1, <2>2, <2>3, <2>4
<1>14. CASE UpdateStatus(q)
  <2>1. CASE /\ RowMatches(q) /\ ApplyUpdate(q)
             /\ Continue(q, "audit") /\ UNCHANGED <<call, seen, stamp>>
    <3>1. pc[q] = "update" /\ UNCHANGED <<readyTopic, clock>>
      BY <1>14 DEF UpdateStatus
    <3>2. pc'[q] = "audit"
      BY <2>1, ContinueFrame
    <3>3. AuditOf(q) \in applied'
      BY <2>1 DEF ApplyUpdate
    <3> QED BY <1>1, <1>11, <1>12, <1>13, <2>1, <3>1, <3>2, <3>3
        DEF HandlerOK, Running, Built, Updated
  <2> QED BY <1>7, <1>14, <2>1 DEF UpdateStatus
<1>15. CASE InsertAudit(q)
  <2>1. CASE /\ auditTable' = auditTable \cup {AuditOf(q)}
             /\ Continue(q, "publish") /\ UNCHANGED <<call, seen, stamp>>
    <3>1. pc[q] = "audit" /\ UNCHANGED <<status, readyTopic, clock, applied>>
      BY <1>15 DEF InsertAudit
    <3>2. pc'[q] = "publish"
      BY <2>1, ContinueFrame
    <3> QED BY <1>1, <1>11, <1>12, <1>13, <2>1, <3>1, <3>2
        DEF HandlerOK, Running, Built, Updated
  <2> QED BY <1>7, <1>15, <2>1 DEF InsertAudit
<1>16. CASE PublishAudit(q)
  <2>1. CASE /\ auditTopic' = auditTopic \cup {AuditOf(q)}
             /\ Target(q) = "ready_to_dispatch"
             /\ Continue(q, "ready") /\ UNCHANGED <<call, seen, stamp>>
    <3>1. pc[q] = "publish" /\ UNCHANGED <<status, auditTable, readyTopic, clock, applied>>
      BY <1>16 DEF PublishAudit
    <3>2. pc'[q] = "ready"
      BY <2>1, ContinueFrame
    <3> QED BY <1>1, <1>11, <1>12, <1>13, <2>1, <3>1, <3>2
        DEF HandlerOK, Running, Built, Updated
  <2> QED BY <1>7, <1>16, <2>1 DEF PublishAudit
<1>17. CASE PublishReady(q)
  BY <1>7, <1>17 DEF PublishReady
<1> QED
  BY <1>2, <1>3, <1>4, <1>5, <1>6, <1>8, <1>9, <1>10, <1>14, <1>15, <1>16, <1>17
  DEF Next, Proceed

\* A handler at "update" was there before, or has just built its event.
LEMMA ReachesUpdate ==
  ASSUME TypeOK, NEW r \in Requests, Receive(r) \/ Proceed(r), pc'[r] = "update"
  PROVE  stamp'[r] = clock
<1>1. ASSUME NEW code, Respond(r, code) PROVE FALSE
  BY <1>1, RespondFrame
<1>2. ASSUME NEW step, Continue(r, step) PROVE step = "update"
  BY <1>2, ContinueFrame
<1>3. CASE CheckAndBuild(r)
  BY <1>1, <1>3 DEF CheckAndBuild, TypeOK
<1>4. CASE \/ Receive(r) \/ ReadRow(r) \/ UpdateStatus(r) \/ InsertAudit(r)
           \/ PublishAudit(r) \/ PublishReady(r)
  BY <1>1, <1>2, <1>4
     DEF Receive, ReadRow, UpdateStatus, InsertAudit, PublishAudit, PublishReady
<1> QED BY <1>3, <1>4 DEF Proceed

\* Event times keep following the path.
LEMMA TimeNext ==
  TypeOK /\ HandlerInv /\ PathInv /\ TimeInv /\ [Next]_vars => TimeInv'
<1> SUFFICES ASSUME TypeOK, HandlerInv, PathInv, TimeInv, [Next]_vars PROVE TimeInv'
  OBVIOUS
<1>1. /\ clock \in Nat /\ clock' \in Nat /\ clock <= clock'
      /\ \A a \in applied : a.time \in Nat
      /\ \A r \in Requests : stamp[r] \in Nat
  <2>1. TypeOK'
    BY TypeNext
  <2> QED BY <2>1, Growth, ClockAssumption DEF TypeOK, AuditRecords
<1>2. \A s : Rank(s) \in Nat
  BY DEF Rank
<1>3. ASSUME UNCHANGED applied,
             NEW q \in Requests, pc'[q] = "update",
             NEW a \in applied, a.command = Command(q)', a.new = seen'[q]
      PROVE  a.time <= stamp'[q]
  <2>1. CASE /\ pc'[q] = pc[q] /\ call'[q] = call[q] /\ seen'[q] = seen[q]
             /\ stamp'[q] = stamp[q]
    BY <1>3, <2>1 DEF TimeInv, Command
  <2>2. CASE Receive(q) \/ Proceed(q)
    BY <1>3, <2>2, ReachesUpdate DEF TimeInv
  <2>3. CASE Crash
    BY <1>3, <2>3 DEF Crash, TypeOK
  <2>4. ASSUME NEW r \in Requests, r # q, Receive(r) \/ Proceed(r)
        PROVE  a.time <= stamp'[q]
    BY <2>1, <2>4, OthersKeep
  <2>5. CASE \/ Tick \/ UNCHANGED vars \/ \E c \in Commands : InsertProposal(c)
    BY <2>1, <2>5 DEF Tick, vars, InsertProposal, handlerVars
  <2> QED BY <2>2, <2>3, <2>4, <2>5 DEF Next
<1>4. CASE UNCHANGED applied
  <2>1. \A a \in applied : a.time <= clock'
    BY <1>1 DEF TimeInv
  <2>2. \A r \in Requests : pc'[r] = "update" =>
          \A a \in applied' : a.command = Command(r)' /\ a.new = seen'[r] => a.time <= stamp'[r]
    BY <1>3, <1>4
  <2> QED BY <1>4, <2>1, <2>2 DEF TimeInv
<1>5. ASSUME NEW r \in Requests, pc[r] = "update", RowMatches(r), ApplyUpdate(r),
             UpdateStatus(r)
      PROVE  TimeInv'
  <2> DEFINE n == AuditOf(r)
  <2>1. n.command = Command(r) /\ n.previous = seen[r] /\ n.new = Target(r) /\ n.time = stamp[r]
    BY DEF AuditOf
  <2>2. /\ applied' = applied \cup {n}
        /\ status[Command(r)] = seen[r]
        /\ Rank(seen[r]) < Rank(Target(r))
    BY <1>5, UpdateFacts
  <2>3. stamp[r] <= clock /\ clock' = clock
    BY <1>5 DEF HandlerInv, HandlerOK, Built, UpdateStatus
  <2>4. \A a \in applied : a.command = Command(r) /\ a.new = seen[r] => a.time <= stamp[r]
    BY <1>5 DEF TimeInv
  <2> HIDE DEF n
  <2>5. \A a \in applied' : a.time <= clock'
    BY <1>1, <2>1, <2>2, <2>3 DEF TimeInv
  <2>6. ASSUME NEW a \in applied', NEW b \in applied', a.command = b.command, b.previous = a.new
        PROVE  a.time <= b.time
    <3>1. CASE a \in applied /\ b \in applied
      BY <2>6, <3>1 DEF TimeInv
    <3>2. CASE a \in applied /\ b = n
      BY <2>1, <2>4, <2>6, <3>2
    <3>3. CASE a = n /\ b \in applied
      <4>1. Rank(b.previous) < Rank(seen[r])
        BY <2>1, <2>2, <2>6, <3>3 DEF PathInv
      <4> QED BY <1>2, <2>1, <2>2, <2>6, <3>3, <4>1
    <3>4. CASE a = n /\ b = n
      BY <1>2, <2>1, <2>2, <2>6, <3>4
    <3> QED BY <2>2, <3>1, <3>2, <3>3, <3>4
  <2>7. ASSUME NEW q \in Requests, pc'[q] = "update",
               NEW a \in applied', a.command = Command(q)', a.new = seen'[q]
        PROVE  a.time <= stamp'[q]
    <3>1. q # r
      <4>1. ASSUME NEW code, Respond(r, code) PROVE pc'[r] # "update"
        BY <4>1, RespondFrame
      <4>2. ASSUME Continue(r, "audit") PROVE pc'[r] # "update"
        BY <4>2, ContinueFrame
      <4> QED BY <1>5, <2>7, <4>1, <4>2 DEF UpdateStatus
    <3>2. /\ pc[q] = "update" /\ Command(q)' = Command(q)
          /\ seen'[q] = seen[q] /\ stamp'[q] = stamp[q]
      BY <1>5, <2>7, <3>1, OthersKeep DEF Proceed, Command
    <3>3. CASE a \in applied
      BY <2>7, <3>2, <3>3 DEF TimeInv
    <3>4. CASE a = n
      <4>1. Rank(seen[q]) <= Rank(status[Command(q)])
        BY <3>2 DEF HandlerInv, HandlerOK, Built
      <4>2. Command(q) = Command(r) /\ seen[q] = Target(r)
        BY <2>1, <2>7, <3>2, <3>4
      <4> QED BY <1>2, <2>2, <4>1, <4>2
    <3> QED BY <2>2, <3>3, <3>4
  <2> QED BY <2>5, <2>6, <2>7 DEF TimeInv
<1> QED BY <1>4, <1>5, WhoWrites

\* The answers given remain true, and a new answer is true.
LEMMA ResponseNext ==
  TypeOK /\ HandlerInv /\ EvidenceInv /\ ResponseTruthful /\ [Next]_vars => ResponseTruthful'
<1> DEFINE OK(r) ==
      /\ response[r] = 200 =>
           \E a \in applied \cap auditTable \cap auditTopic :
             /\ a.request = r
             /\ a.new = "ready_to_dispatch" =>
                  [request |-> r, command |-> a.command] \in readyTopic
      /\ response[r] \in {400, 404, 409} =>
           /\ \A a \in applied \cup auditTable \cup auditTopic : a.request # r
           /\ \A e \in readyTopic : e.request # r
<1> SUFFICES ASSUME TypeOK, HandlerInv, EvidenceInv, ResponseTruthful, [Next]_vars,
                    NEW q \in Requests
             PROVE  OK(q)'
  BY DEF ResponseTruthful
<1>1. OK(q) /\ HandlerOK(q)
  BY DEF ResponseTruthful, HandlerInv
<1>2. EvidenceInv'
  BY EvidenceNext
<1>3. ASSUME response'[q] = response[q],
             \A a \in applied' : a \in applied \/ a.request # q,
             \A e \in readyTopic' : e \in readyTopic \/ e.request # q
      PROVE  OK(q)'
  BY <1>1, <1>2, <1>3, Growth DEF EvidenceInv
<1>4. CASE response'[q] \in {NoResponse, 503}
  BY <1>4 DEF NoResponse
<1>5. CASE \/ UNCHANGED vars \/ Tick \/ Crash \/ \E c \in Commands : InsertProposal(c)
  BY <1>3, <1>5 DEF vars, Tick, Crash, InsertProposal, handlerVars, storeVars
<1>6. ASSUME NEW r \in Requests, Receive(r) \/ Proceed(r), q # r PROVE OK(q)'
  BY <1>3, <1>6, OthersKeep, NewEvidence
<1>7. ASSUME NEW step, Continue(q, step), pc[q] # "done" PROVE OK(q)'
  BY <1>1, <1>4, <1>7, ContinueFrame DEF HandlerOK
<1>8. ASSUME NEW code \in {400, 404, 409}, Respond(q, code),
             pc[q] \in {"idle", "read", "check", "update"}, UNCHANGED <<applied, readyTopic>>
      PROVE  OK(q)'
  <2>1. response'[q] = code
    BY <1>8, RespondFrame
  <2>2. /\ \A a \in applied' : a.request # q
        /\ \A e \in readyTopic' : e.request # q
    BY <1>1, <1>8 DEF HandlerOK
  <2> QED BY <1>2, <2>1, <2>2 DEF EvidenceInv
<1>9. ASSUME Respond(q, 503) PROVE OK(q)'
  BY <1>4, <1>9, RespondFrame
<1>10. CASE Receive(q)
  BY <1>7, <1>8, <1>10 DEF Receive, storeVars
<1>11. CASE ReadRow(q)
  BY <1>7, <1>9, <1>11 DEF ReadRow
<1>12. CASE CheckAndBuild(q)
  BY <1>7, <1>8, <1>12 DEF CheckAndBuild, storeVars
<1>13. CASE UpdateStatus(q)
  BY <1>7, <1>8, <1>9, <1>13 DEF UpdateStatus
<1>14. CASE InsertAudit(q)
  BY <1>7, <1>9, <1>14 DEF InsertAudit
<1>15. CASE PublishAudit(q)
  <2>1. CASE /\ auditTopic' = auditTopic \cup {AuditOf(q)}
             /\ Target(q) # "ready_to_dispatch" /\ Respond(q, 200)
    <3>1. /\ AuditOf(q) \in applied /\ AuditOf(q) \in auditTable
          /\ UNCHANGED <<applied, auditTable>>
      BY <1>1, <1>15 DEF PublishAudit, HandlerOK, Updated
    <3>2. AuditOf(q).request = q /\ AuditOf(q).new # "ready_to_dispatch"
      BY <2>1 DEF AuditOf
    <3>3. response'[q] = 200
      BY <2>1, RespondFrame
    <3> QED BY <2>1, <3>1, <3>2, <3>3
  <2> QED BY <1>7, <1>9, <1>15, <2>1 DEF PublishAudit
<1>16. CASE PublishReady(q)
  <2>1. CASE readyTopic' = readyTopic \cup {ReadyEvent(q)} /\ Respond(q, 200)
    <3>1. /\ AuditOf(q) \in applied /\ AuditOf(q) \in auditTable /\ AuditOf(q) \in auditTopic
          /\ UNCHANGED <<applied, auditTable, auditTopic>>
      BY <1>1, <1>16 DEF PublishReady, HandlerOK, Updated
    <3>2. /\ AuditOf(q).request = q
          /\ ReadyEvent(q) = [request |-> q, command |-> AuditOf(q).command]
      BY DEF AuditOf, ReadyEvent
    <3>3. response'[q] = 200
      BY <2>1, RespondFrame
    <3> QED BY <2>1, <3>1, <3>2, <3>3
  <2> QED BY <1>9, <1>16, <2>1 DEF PublishReady
<1> QED
  BY <1>5, <1>6, <1>10, <1>11, <1>12, <1>13, <1>14, <1>15, <1>16 DEF Next, Proceed

-----------------------------------------------------------------------------
(* The inductive invariant                                                 *)

LEMMA InitIInv == Init => IInv
<1> SUFFICES ASSUME Init PROVE IInv
  OBVIOUS
<1>1. TypeOK
  BY TypeInit
<1>2. /\ applied = {} /\ auditTable = {} /\ auditTopic = {} /\ readyTopic = {}
      /\ \A r \in Requests : pc[r] = "idle" /\ response[r] = NoResponse
      /\ \A c \in Commands : status[c] = Absent
  BY DEF Init
<1>3. HandlerInv
  BY <1>2 DEF HandlerInv, HandlerOK, Running, Built, Updated
<1>4. EvidenceInv /\ PathInv /\ TimeInv /\ UniqueInv
  BY <1>2 DEF EvidenceInv, PathInv, TimeInv, UniqueInv
<1>5. ReadyIsAudited /\ ResponseTruthful
  BY <1>2 DEF ReadyIsAudited, ResponseTruthful, NoResponse
<1> QED BY <1>1, <1>3, <1>4, <1>5 DEF IInv

LEMMA NextIInv == IInv /\ [Next]_vars => IInv'
BY TypeNext, HandlerNext, EvidenceNext, PathNext, TimeNext, UniqueNext, ReadyNext,
   ResponseNext DEF IInv

\* The strengthened invariant holds in every reachable state, for any numbers
\* of proposals and of racing requests.
THEOREM Invariance == Spec => []IInv
BY InitIInv, NextIInv, PTL DEF Spec

-----------------------------------------------------------------------------
(* Safety                                                                  *)

\* Every row, record and frame of the workflow stays well formed.
THEOREM TypeCorrect == Spec => []TypeOK
BY Invariance, PTL DEF IInv

\* Of the requests that race on a status of a proposal, at most one wins: the
\* conditional UPDATE of updateDispatchCommandStatus is enough, although the
\* status is read in an earlier statement.
THEOREM OneWinner == Spec => []OneWinnerPerStatus
<1>1. IInv => OneWinnerPerStatus
  <2> SUFFICES ASSUME IInv PROVE OneWinnerPerStatus
    OBVIOUS
  <2>1. applied \cup auditTable = applied
    BY DEF IInv, EvidenceInv
  <2> QED BY <2>1 DEF IInv, UniqueInv, OneWinnerPerStatus
<1> QED BY <1>1, Invariance, PTL

\* Audit rows sorted by event_time tell the decisions in the order they took
\* effect.
THEOREM AuditTimesInOrder == Spec => []AuditTimesFollowLifecycle
<1>1. IInv => AuditTimesFollowLifecycle
  BY DEF IInv, EvidenceInv, TimeInv, AuditTimesFollowLifecycle
<1> QED BY <1>1, Invariance, PTL

\* No ready event without its audit row and audit event.
THEOREM ReadyHasEvidence == Spec => []ReadyIsAudited
BY Invariance, PTL DEF IInv

\* A 200 means that everything was done, a 400, 404 or 409 that nothing was.
THEOREM AnswersAreTrue == Spec => []ResponseTruthful
BY Invariance, PTL DEF IInv

\* Where a change to ready_to_dispatch comes from: an approval of a review, in
\* the order of time, and nothing else happened to the proposal.
LEMMA ReadyHistory ==
  ASSUME IInv, NEW mr \in applied, mr.new = "ready_to_dispatch"
  PROVE  /\ mr.previous = "approved"
         /\ \E rv, ap \in applied :
              /\ rv.command = mr.command /\ ap.command = mr.command
              /\ rv.new = "reviewed" /\ ap.new = "approved"
              /\ rv.time <= ap.time /\ ap.time <= mr.time
         /\ \A a \in applied : a.command = mr.command => a.new # "rejected"
<1>1. \A a \in applied :
        \/ a.previous = "proposed" /\ a.new \in {"reviewed", "rejected"}
        \/ a.previous = "reviewed" /\ a.new \in {"approved", "rejected"}
        \/ a.previous = "approved" /\ a.new = "ready_to_dispatch"
  <2>1. \A a \in applied : a.previous \in STATUSES
    BY DEF IInv, TypeOK, AuditRecords
  <2> QED BY <2>1, TransitionGraph DEF IInv, PathInv
<1>2. mr.previous = "approved"
  BY <1>1
<1>3. PICK ap \in applied : ap.command = mr.command /\ ap.new = "approved"
  BY <1>2 DEF IInv, PathInv
<1>4. ap.previous = "reviewed"
  BY <1>1, <1>3
<1>5. PICK rv \in applied : rv.command = mr.command /\ rv.new = "reviewed"
  BY <1>3, <1>4 DEF IInv, PathInv
<1>6. rv.previous = "proposed"
  BY <1>1, <1>5
<1>7. rv.time <= ap.time /\ ap.time <= mr.time
  BY <1>2, <1>3, <1>4, <1>5 DEF IInv, TimeInv
<1>8. ASSUME NEW a \in applied, a.command = mr.command PROVE a.new # "rejected"
  <2>1. a.previous = "proposed" => a = rv
    BY <1>5, <1>6, <1>8 DEF IInv, UniqueInv
  <2>2. a.previous = "reviewed" => a = ap
    BY <1>3, <1>4, <1>8 DEF IInv, UniqueInv
  <2> QED BY <1>1, <1>3, <1>5, <2>1, <2>2
<1> QED BY <1>2, <1>3, <1>5, <1>7, <1>8

\* A proposal reaches the dispatch adapters only after a review, an approval and
\* a release, and never after a rejection.
THEOREM ReadyIsGoverned == Spec => []GovernedReady
<1>1. IInv => GovernedReady
  <2> SUFFICES ASSUME IInv, NEW e \in readyTopic
      PROVE LET history == {a \in applied : a.command = e.command} IN
            /\ \E rv, ap, mr \in history :
                 /\ rv.new = "reviewed" /\ ap.new = "approved"
                 /\ mr.new = "ready_to_dispatch" /\ mr.request = e.request
                 /\ rv.time <= ap.time /\ ap.time <= mr.time
            /\ \A a \in history : a.new # "rejected"
    BY DEF GovernedReady
  <2>1. PICK mr \in applied : /\ mr.command = e.command /\ mr.request = e.request
                              /\ mr.new = "ready_to_dispatch"
    BY DEF IInv, ReadyIsAudited, EvidenceInv
  <2>2. PICK rv \in applied, ap \in applied :
          /\ rv.command = mr.command /\ ap.command = mr.command
          /\ rv.new = "reviewed" /\ ap.new = "approved"
          /\ rv.time <= ap.time /\ ap.time <= mr.time
    BY <2>1, ReadyHistory
  <2>3. \A a \in applied : a.command = mr.command => a.new # "rejected"
    BY <2>1, ReadyHistory
  <2> QED BY <2>1, <2>2, <2>3
<1> QED BY <1>1, Invariance, PTL

-----------------------------------------------------------------------------
(* Refinement                                                              *)

\* Who has announced proposal c.
Announced(c) == {r \in Requests : [request |-> r, command |-> c] \in readyTopic}

LEMMA PublishImplements ==
  ASSUME IInv, NEW r \in Requests, PublishReady(r)
  PROVE  [Lifecycle!LifecycleNext]_(Lifecycle!lifecycleVars)
<1> DEFINE ann == [d \in Commands |-> Announced(d)]
<1>1. /\ AuditOf(r) \in applied /\ Target(r) = "ready_to_dispatch"
      /\ call[r] \in Calls /\ \A e \in readyTopic : e.request # r
  BY DEF PublishReady, IInv, HandlerInv, HandlerOK, Updated, Running
<1>2. PICK c \in Commands : c = Command(r)
  BY <1>1 DEF Calls, Command
<1>3. AuditOf(r).command = c /\ AuditOf(r).request = r /\ AuditOf(r).new = "ready_to_dispatch"
  BY <1>1, <1>2 DEF AuditOf
<1>4. UNCHANGED status
  BY DEF PublishReady
<1>5. CASE UNCHANGED readyTopic
  BY <1>4, <1>5 DEF Lifecycle!lifecycleVars
<1>6. CASE readyTopic' = readyTopic \cup {ReadyEvent(r)}
  <2>1. \A e \in readyTopic : e.command # c
    <3> SUFFICES ASSUME NEW e \in readyTopic, e.command = c PROVE FALSE
      OBVIOUS
    <3>1. PICK a \in applied : a.command = c /\ a.request = e.request /\ a.new = "ready_to_dispatch"
      BY DEF IInv, ReadyIsAudited, EvidenceInv
    <3>2. a.previous = "approved" /\ AuditOf(r).previous = "approved"
      BY <1>1, <1>3, <3>1, ReadyHistory
    <3>3. a = AuditOf(r)
      BY <1>1, <1>3, <3>1, <3>2 DEF IInv, UniqueInv
    <3> QED BY <1>1, <1>3, <3>1, <3>3
  <2>2. status[c] = "ready_to_dispatch"
    <3>1. Rank("ready_to_dispatch") <= Rank(status[c])
      BY <1>1, <1>3 DEF IInv, PathInv
    <3>2. status[c] \notin {Absent, "proposed", "reviewed", "approved"}
      BY <3>1 DEF Rank, Absent
    <3>3. PICK a \in applied : a.command = c /\ a.new = status[c]
      BY <1>2, <3>2 DEF IInv, PathInv
    <3>4. status[c] # "rejected"
      BY <1>1, <1>3, <3>3, ReadyHistory
    <3> QED BY <1>2, <3>2, <3>4 DEF IInv, TypeOK, STATUSES
  <2>3. Announced(c) = {}
    BY <2>1 DEF Announced
  <2>4. Announced(c)' = {r}
    BY <1>2, <1>6, <2>1 DEF Announced, ReadyEvent
  <2>5. \A d \in Commands : d # c => Announced(d)' = Announced(d)
    BY <1>2, <1>6 DEF Announced, ReadyEvent
  <2>6. ann' = [ann EXCEPT ![c] = {r}]
    BY <1>2, <2>4, <2>5
  <2>7. Lifecycle!Announce(c, r)
    BY <1>2, <1>4, <2>2, <2>3, <2>6 DEF Lifecycle!Announce, Announced
  <2> QED BY <1>2, <2>7 DEF Lifecycle!LifecycleNext
<1> QED BY <1>5, <1>6 DEF PublishReady

LEMMA StepImplements ==
  IInv /\ [Next]_vars => [Lifecycle!LifecycleNext]_(Lifecycle!lifecycleVars)
<1> SUFFICES ASSUME IInv, [Next]_vars
             PROVE  [Lifecycle!LifecycleNext]_(Lifecycle!lifecycleVars)
  OBVIOUS
<1>1. CASE UNCHANGED <<status, readyTopic>>
  BY <1>1 DEF Lifecycle!lifecycleVars
<1>2. ASSUME NEW c \in Commands, InsertProposal(c)
      PROVE  [Lifecycle!LifecycleNext]_(Lifecycle!lifecycleVars)
  <2>1. Lifecycle!Propose(c)
    BY <1>2 DEF InsertProposal, Lifecycle!Propose, Absent, Lifecycle!Absent
  <2> QED BY <2>1 DEF Lifecycle!LifecycleNext
<1>3. ASSUME NEW r \in Requests, UpdateStatus(r)
      PROVE  [Lifecycle!LifecycleNext]_(Lifecycle!lifecycleVars)
  <2>1. UNCHANGED readyTopic /\ pc[r] = "update"
    BY <1>3 DEF UpdateStatus
  <2>2. CASE UNCHANGED status
    BY <1>1, <2>1, <2>2
  <2>3. CASE RowMatches(r) /\ ApplyUpdate(r)
    <3>1. /\ Command(r) \in Commands /\ seen[r] \in STATUSES
          /\ status[Command(r)] = seen[r]
          /\ Target(r) \in ALLOWED_TRANSITIONS[seen[r]]
      BY <2>1, <2>3, UpdateFacts DEF IInv
    <3>2. Lifecycle!Decide(Command(r))
      BY <2>1, <2>3, <3>1 DEF ApplyUpdate, Lifecycle!Decide, ALLOWED_TRANSITIONS,
         Lifecycle!ALLOWED_TRANSITIONS, STATUSES, Lifecycle!STATUSES
    <3> QED BY <3>1, <3>2 DEF Lifecycle!LifecycleNext
  <2> QED BY <1>3, <2>2, <2>3, UpdateCases
<1>4. ASSUME NEW r \in Requests, PublishReady(r)
      PROVE  [Lifecycle!LifecycleNext]_(Lifecycle!lifecycleVars)
  BY <1>4, PublishImplements
<1>5. CASE UNCHANGED vars \/ Tick \/ Crash
  BY <1>1, <1>5 DEF vars, Tick, Crash, storeVars
<1>6. ASSUME NEW r \in Requests, Receive(r) \/ ReadRow(r) \/ CheckAndBuild(r)
      PROVE  [Lifecycle!LifecycleNext]_(Lifecycle!lifecycleVars)
  BY <1>1, <1>6 DEF Receive, ReadRow, CheckAndBuild, storeVars
<1>7. ASSUME NEW r \in Requests, InsertAudit(r) \/ PublishAudit(r)
      PROVE  [Lifecycle!LifecycleNext]_(Lifecycle!lifecycleVars)
  BY <1>1, <1>7 DEF InsertAudit, PublishAudit
<1> QED BY <1>2, <1>3, <1>4, <1>5, <1>6, <1>7 DEF Next, Proceed

\* The handlers, whatever races, failures and crashes, implement the lifecycle
\* of ApprovalLifecycle: one path of the status graph, one announcement.
THEOREM WorkflowImplementsLifecycle == Spec => ImplementsLifecycle
<1>1. Init => Lifecycle!LifecycleInit
  BY DEF Init, Lifecycle!LifecycleInit, Absent, Lifecycle!Absent
<1> QED BY <1>1, Invariance, StepImplements, PTL
     DEF Spec, ImplementsLifecycle, Lifecycle!LifecycleSpec

=============================================================================
