----------------------- MODULE EdgeTelemetry_proofs -----------------------
(***************************************************************************)
(* Proofs about EdgeTelemetry for any fleet, requests, loads and limits.   *)
(*                                                                         *)
(* The argument.  A device waits for the one request that carries its      *)
(* pending reading, and takes the next only when that was answered with a  *)
(* 2xx, which the API sends after the publication: each reading but the    *)
(* pending one is on the topic, behind its predecessors (DeviceOK,         *)
(* ReadingsInv).  A refused device carries the rest of the window in its   *)
(* delay, so it comes back in the next one (ToldOK).  An answer stays      *)
(* without a trace only when both writes failed, or when the gateway went  *)
(* down with it, one slot each (TraceInv).  An export is handed out after  *)
(* its audit, and the catalog's event before its own (ExportInv); what is  *)
(* in it follows from how queries, rows and sections take their limit.     *)
(***************************************************************************)
EXTENDS EdgeTelemetry, FiniteSetTheorems, WellFoundedInduction, TLAPS

W == Config.rateLimitWindow

Stages == Downstream \cup {"free", "arriving", "page", "audit", "done"}

Senders == Devices \cup Others \cup DOMAIN MqttPayloads

Requests ==
  [stage : Stages, reading : Nat, status : Nat, retryAfter : 0..W,
   answered : BOOLEAN, heard : BOOLEAN, forgotten : BOOLEAN]

Traces ==
  [auditedFirst : Nat, answeredFirst : Nat, unaudited : SUBSET (Slots \X Nat)]

Windows == [age : 0..W, count : Nat]

RawMessages == [sender : Senders, reading : Nat]

\* The kind of value each variable holds.
Shapes ==
  /\ load \in Loads
  /\ nextAt \in [Devices -> -MaxOverdue..InFlight]
  /\ pending \in [Devices -> Nat] /\ generated \in [Devices -> Nat]
  /\ waiting \in [Devices -> 0..MaxLanes] /\ inFlight \in Nat
  /\ request \in [Slots -> Requests]
  /\ window \in [Clients -> Windows] /\ told \in [Devices -> Nat]
  /\ untraced \in Traces
  /\ raw \in [Keys -> Seq(RawMessages)]
  /\ unsent \subseteq load.requests /\ mqttQueue \subseteq load.messages
  /\ failures \in Nat /\ timeouts \in Nat /\ restarts \in Nat
  /\ failures + timeouts + restarts <= load.disturbances

\* A request is answered at its audit at the earliest, and forgotten only while a
\* service works on it for nobody.
RequestOK(r) ==
  /\ r.stage = "free" => r = Free
  /\ r.answered => r.stage \in {"audit", "done"}
  /\ r.forgotten => r.heard /\ r.stage \in Downstream

\* A device waits for the request that carries its pending reading.
DeviceOK(d) ==
  /\ (nextAt[d] = InFlight) <=> (waiting[d] # 0)
  /\ generated[d] <= load.readings
  /\ pending[d] \in {0, generated[d]}
  /\ waiting[d] # 0 =>
       /\ request[Awaited(d)].stage # "free" /\ ~request[Awaited(d)].heard
       /\ pending[d] # 0 /\ request[Awaited(d)].reading = pending[d]

IsPublished(d, n) ==
  \E i \in DOMAIN MessagesOf(d) : MessagesOf(d)[i].sender = d /\ MessagesOf(d)[i].reading = n

\* A device's request carries a reading whose predecessors are all published, and
\* is answered with a 2xx only when its own is.
CarrierOK(d, r) ==
  r.stage # "free" =>
    /\ r.stage \in {"arriving", "ingestion", "audit", "done"}
    /\ r.reading \in 1..generated[d]
    /\ \A n \in 1..(r.reading - 1) : IsPublished(d, n)
    /\ r.stage \in {"audit", "done"} /\ r.status < 300 => IsPublished(d, r.reading)

\* The messages of a device start with its first reading and leave none out.
OrderOK(d) ==
  \A i \in DOMAIN MessagesOf(d) : MessagesOf(d)[i].sender = d =>
    \A n \in 1..(MessagesOf(d)[i].reading - 1) :
      \E j \in 1..(i - 1) : MessagesOf(d)[j].reading = n

ReadingsInv ==
  \A d \in Devices :
    /\ \A n \in 1..generated[d] : n # pending[d] => IsPublished(d, n)
    /\ \A lane \in Lanes : CarrierOK(d, request[<<d, lane>>])
    /\ OrderOK(d)

MqttInv ==
  \A k \in Keys, m \in DOMAIN MqttPayloads :
    /\ m \in mqttQueue => \A i \in DOMAIN raw[k] : raw[k][i].sender # m
    /\ \A i, j \in DOMAIN raw[k] : raw[k][i].sender = m /\ raw[k][j].sender = m => i = j

Waiting == {d \in Devices : waiting[d] # 0}

CountInv == inFlight = Cardinality(Waiting) /\ inFlight <= load.maxInFlight

\* A device that was refused in this window comes back when the window is over: the
\* window is over, or the refusal is still to be heard, or the device sits it out.
ToldOK(d) ==
  LET age == window[DeviceRequests[d].client].age
      answer == request[Awaited(d)]
  IN  told[d] = 0 \/ ( /\ told[d] = 1
                       /\ \/ age = W
                          \/ /\ waiting[d] # 0 /\ answer.stage \in {"audit", "done"}
                             /\ answer.status = 429 /\ answer.retryAfter + age >= W
                          \/ waiting[d] = 0 /\ nextAt[d] + age >= W )

\* Two failures leave one answer without a trace, a restart at most one in each slot, and
\* what is never audited needs none.
TraceInv ==
  /\ \A answer \in untraced.unaudited : NeedsNoAudit(Content(answer[1]), answer[2])
  /\ 2 * untraced.auditedFirst <= failures
  /\ 2 * (untraced.auditedFirst + untraced.answeredFirst)
       <= failures + 2 * (restarts * Cardinality(Slots))

IInv ==
  /\ Shapes
  /\ \A s \in Slots : RequestOK(request[s])
  /\ \A d \in Devices : DeviceOK(d)
  /\ ReadingsInv
  /\ MqttInv
  /\ CountInv
  /\ \A d \in Devices : ToldOK(d)
  /\ TraceInv

-----------------------------------------------------------------------------
(* Numbers, sets and slots                                                 *)

LEMMA MaxOfTwo ==
  ASSUME NEW a \in Int, NEW b \in Int
  PROVE  Max({a, b}) = IF a >= b THEN a ELSE b
<1>1. \A x \in {a, b} : (\A y \in {a, b} : x >= y) <=> x = (IF a >= b THEN a ELSE b)
  OBVIOUS
<1> QED
  BY <1>1 DEF Max

LEMMA LeastOf ==
  ASSUME NEW S \in SUBSET Nat, S # {}
  PROVE  Min(S) \in S /\ \A x \in S : Min(S) <= x
<1>1. PICK k \in S : \A j \in S : ~ (<<j, k>> \in OpToRel(<, Nat))
  BY WFMin, NatLessThanWellFounded
<1>2. \A j \in S : ~ (j < k)
  BY <1>1 DEF OpToRel
<1>3. k \in Nat /\ \A j \in S : j \in Nat
  OBVIOUS
<1>4. \A j \in S : k <= j
  BY <1>2, <1>3
<1> QED
  BY <1>3, <1>4 DEF Min

LEMMA GreatestOf ==
  ASSUME NEW n \in Nat, NEW S \in SUBSET (0..n), S # {}
  PROVE  Max(S) \in S
<1> DEFINE T == {n - x : x \in S}
<1>a. \A x \in S : x \in Nat /\ n - x \in Nat
  OBVIOUS
<1>1. T \in SUBSET Nat /\ T # {}
  BY <1>a
<1>2. Min(T) \in T /\ \A y \in T : Min(T) <= y
  BY <1>1, LeastOf
<1>3. PICK x \in S : \A y \in S : n - x <= n - y
  BY <1>2
<1>4. \A y \in S : x >= y
  BY <1>a, <1>3
<1>5. \A z \in S : (\A y \in S : z >= y) => z = x
  BY <1>a, <1>4
<1> QED
  BY <1>4, <1>5 DEF Max

LEMMA ConstantFacts ==
  /\ W \in Nat /\ W > 0 /\ W < InFlight /\ InFlight \in Nat
  /\ RetryDelay \in 1..(InFlight - 1) /\ ReportingDelays \subseteq 1..(InFlight - 1)
  /\ MaxOverdue \in Nat /\ MaxLanes \in Nat /\ MaxLanes > 0
  /\ \A l \in Loads : l.maxInFlight \in Nat /\ l.readings \in Nat /\ l.disturbances \in Nat
BY EdgeAssumption, ConfigAssumption DEF W

LEMMA SlotFacts ==
  /\ \A d \in Devices, lane \in Lanes :
       <<d, lane>> \in Slots /\ Sender(<<d, lane>>) = d /\ d \notin Others
  /\ \A o \in Others : <<o, 1>> \in Slots /\ Sender(<<o, 1>>) = o /\ o \notin Devices
  /\ \A s \in Slots : /\ Sender(s) \in Devices \cup Others
                      /\ Sender(s) \in Devices => s[2] \in Lanes /\ s = <<Sender(s), s[2]>>
  /\ \A s \in Slots : Content(s).client \in Clients
  /\ \A d \in Devices : DeviceRequests[d].client \in Clients
  /\ Lanes \subseteq Nat \ {0} /\ 1 \in Lanes /\ 0 \notin Lanes /\ Lanes = 1..MaxLanes
<1>1. Lanes \subseteq Nat \ {0} /\ 1 \in Lanes /\ Lanes = 1..MaxLanes
  BY ConstantFacts DEF Lanes
<1>2. /\ \A d \in Devices, lane \in Lanes :
           <<d, lane>> \in Slots /\ Sender(<<d, lane>>) = d /\ d \notin Others
      /\ \A o \in Others : <<o, 1>> \in Slots /\ Sender(<<o, 1>>) = o /\ o \notin Devices
      /\ \A s \in Slots : /\ Sender(s) \in Devices \cup Others
                          /\ Sender(s) \in Devices => s[2] \in Lanes /\ s = <<Sender(s), s[2]>>
  BY FleetAssumption DEF Slots, Sender
<1>3. \A s \in Slots : Content(s).client \in Clients
  BY DEF Clients
<1>4. \A d \in Devices : Content(<<d, 1>>) = DeviceRequests[d]
  BY <1>1, <1>2 DEF Content
<1>5. \A d \in Devices : DeviceRequests[d].client \in Clients
  BY <1>1, <1>2, <1>3, <1>4
<1> QED
  BY <1>1, <1>2, <1>3, <1>5

LEMMA FiniteSlots == IsFiniteSet(Slots) /\ Cardinality(Slots) \in Nat
<1>1. IsFiniteSet(Lanes) /\ IsFiniteSet({1})
  <2>1. IsFiniteSet(1..MaxLanes)
    BY ConstantFacts, FS_Interval
  <2> QED
    BY <2>1, FS_Singleton DEF Lanes
<1>2. IsFiniteSet(Devices \X Lanes) /\ IsFiniteSet(Others \X {1})
  BY <1>1, EdgeAssumption, FS_Product
<1> QED
  BY <1>2, FS_Union, FS_CardinalityType DEF Slots

LEMMA FreeFacts == Free \in Requests /\ Free.stage = "free" /\ RequestOK(Free)
BY ConstantFacts DEF Free, Requests, Stages, Downstream, NoReading, RequestOK

\* What a step leaves alone keeps its shape.
LEMMA RestKeepsShape ==
  ASSUME Shapes,
         UNCHANGED <<pending, generated, inFlight, window, untraced, unsent, mqttQueue, load>>
  PROVE  /\ load' \in Loads
         /\ pending' \in [Devices -> Nat] /\ generated' \in [Devices -> Nat] /\ inFlight' \in Nat
         /\ window' \in [Clients -> Windows]
         /\ untraced' \in Traces
         /\ unsent' \subseteq load'.requests /\ mqttQueue' \subseteq load'.messages
BY DEF Shapes

\* Who is due longest goes first: no more go than there is room for.
LEMMA RankBound ==
  ASSUME NEW S \in SUBSET Devices, nextAt \in [Devices -> Int], NEW k \in Nat
  PROVE  LET chosen == {d \in S : Cardinality({e \in S : Before(e, d)}) < k}
         IN  IsFiniteSet(chosen) /\ Cardinality(chosen) <= k
<1> DEFINE Ahead(d) == {e \in S : Before(e, d)}
           chosen == {d \in S : Cardinality(Ahead(d)) < k}
           rank == [d \in chosen |-> Cardinality(Ahead(d))]
<1>1. IsFiniteSet(S)
  BY EdgeAssumption, FS_Subset
<1>2. \A d \in S : IsFiniteSet(Ahead(d)) /\ Cardinality(Ahead(d)) \in Nat
  BY <1>1, FS_Subset, FS_CardinalityType
<1>3. ASSUME NEW d \in S, NEW e \in S, Before(d, e)
      PROVE  Cardinality(Ahead(d)) # Cardinality(Ahead(e))
  <2>1. \A x \in S : Before(x, d) => Before(x, e)
    BY <1>3, EdgeAssumption DEF Before
  <2>2. Ahead(d) \in SUBSET Ahead(e)
    BY <2>1
  <2>3. d \in Ahead(e) /\ d \notin Ahead(d)
    BY <1>3, EdgeAssumption DEF Before
  <2> QED
    BY <1>2, <2>2, <2>3, FS_Subset
<1>4. \A d, e \in S : d # e => Before(d, e) \/ Before(e, d)
  BY EdgeAssumption DEF Before
<1>5. rank \in [chosen -> 0..(k - 1)]
  BY <1>2
<1>6. rank \in Injection(chosen, 0..(k - 1))
  BY <1>3, <1>4, <1>5 DEF Injection, IsInjective
<1>7. IsFiniteSet(0..(k - 1)) /\ Cardinality(0..(k - 1)) = k
  BY FS_Interval
<1> QED
  BY <1>6, <1>7, FS_Injection

-----------------------------------------------------------------------------
(* What the gateway makes of a request                                     *)

\* Request s becomes r.  An answer that a device waits for stays what it is.
Moves(s, r) ==
  /\ r \in Requests /\ RequestOK(r)
  /\ Sender(s) \in Devices =>
       /\ request[s].stage # "free"
       /\ r.stage = "free" => request[s].heard
       /\ r.stage # "free" => r.reading = request[s].reading /\ r.heard = request[s].heard
       /\ request[s].stage \in {"audit", "done"} /\ r.stage # "free" =>
            /\ r.stage \in {"audit", "done"}
            /\ r.status = request[s].status /\ r.retryAfter = request[s].retryAfter

\* The number of the failed calls after a step that may have failed.
FailuresOK ==
  /\ failures' \in Nat /\ failures' >= failures
  /\ failures' + timeouts + restarts <= load.disturbances

LEMMA RawStays ==
  ASSUME UNCHANGED raw
  PROVE  /\ \A d \in Devices : OrderOK(d)' <=> OrderOK(d)
         /\ \A d \in Devices, n \in Nat : IsPublished(d, n)' <=> IsPublished(d, n)
BY DEF OrderOK, IsPublished, MessagesOf

LEMMA AwaitedFacts ==
  ASSUME Shapes, NEW d \in Devices, waiting[d] # 0
  PROVE  waiting[d] \in Lanes /\ Awaited(d) = <<d, waiting[d]>> /\ Awaited(d) \in Slots
BY SlotFacts DEF Shapes, Awaited

\* The fleet's side of such a step.
LEMMA RequestMoves ==
  ASSUME IInv, NEW s \in Slots, NEW r, Moves(s, r), request' = [request EXCEPT ![s] = r],
         UNCHANGED <<nextAt, pending, generated, waiting, inFlight, load>>,
         \A d \in Devices, n \in Nat : IsPublished(d, n) => IsPublished(d, n)',
         Sender(s) \in Devices => CarrierOK(Sender(s), r)'
  PROVE  /\ request' \in [Slots -> Requests]
         /\ \A t \in Slots : RequestOK(request[t])'
         /\ \A d \in Devices : DeviceOK(d)'
         /\ \A d \in Devices : \A n \in 1..generated'[d] : n # pending'[d] => IsPublished(d, n)'
         /\ \A d \in Devices, lane \in Lanes : CarrierOK(d, request[<<d, lane>>])'
         /\ CountInv'
<1>1. /\ request \in [Slots -> Requests] /\ request'[s] = r /\ r \in Requests
      /\ \A t \in Slots : t # s => request'[t] = request[t]
  BY DEF IInv, Shapes, Moves
<1>2. request' \in [Slots -> Requests]
  BY DEF IInv, Shapes, Moves
<1>3. \A t \in Slots : RequestOK(request[t])'
  BY <1>1 DEF IInv, Moves, RequestOK
<1>4. ASSUME NEW d \in Devices PROVE DeviceOK(d)'
  <2>1. CASE waiting[d] # 0
    <3>1. Awaited(d) \in Slots /\ Sender(Awaited(d)) = d /\ Awaited(d)' = Awaited(d)
      BY <2>1, AwaitedFacts, SlotFacts DEF IInv, Awaited
    <3>2. request[Awaited(d)].stage # "free" /\ ~request[Awaited(d)].heard
      BY <2>1 DEF IInv, DeviceOK
    <3>3. /\ request'[Awaited(d)].stage # "free" /\ ~request'[Awaited(d)].heard
          /\ request'[Awaited(d)].reading = request[Awaited(d)].reading
      BY <1>1, <3>1, <3>2 DEF Moves
    <3> QED
      BY <3>1, <3>2, <3>3 DEF IInv, DeviceOK
  <2>2. CASE waiting[d] = 0
    BY <2>2 DEF IInv, DeviceOK
  <2> QED
    BY <2>1, <2>2
<1>5. ASSUME NEW d \in Devices, NEW lane \in Lanes
      PROVE  CarrierOK(d, request[<<d, lane>>])'
  <2>1. <<d, lane>> \in Slots /\ Sender(<<d, lane>>) = d
    BY SlotFacts
  <2>2. CASE s = <<d, lane>>
    BY <1>1, <2>1, <2>2 DEF CarrierOK
  <2>3. CASE s # <<d, lane>>
    <3>1. CarrierOK(d, request[<<d, lane>>]) /\ request'[<<d, lane>>] = request[<<d, lane>>]
      BY <1>1, <2>1, <2>3 DEF IInv, ReadingsInv
    <3>2. request[<<d, lane>>].reading \in Nat /\ generated[d] \in Nat
      BY <1>1, <2>1 DEF IInv, Shapes, Requests
    <3> QED
      BY <3>1, <3>2 DEF CarrierOK
  <2> QED
    BY <2>2, <2>3
<1>6. \A d \in Devices : \A n \in 1..generated'[d] : n # pending'[d] => IsPublished(d, n)'
  BY DEF IInv, ReadingsInv, Shapes
<1>7. CountInv'
  BY DEF IInv, CountInv, Waiting
<1> QED
  BY <1>2, <1>3, <1>4, <1>5, <1>6, <1>7

\* A refusal that was told stays told while window and device rest.
LEMMA ToldStays ==
  ASSUME IInv, NEW s \in Slots, NEW r, Moves(s, r), request' = [request EXCEPT ![s] = r],
         UNCHANGED <<nextAt, waiting, window, told>>,
         NEW d \in Devices
  PROVE  ToldOK(d)'
<1>1. ToldOK(d) /\ DeviceOK(d)
  BY DEF IInv
<1>2. CASE waiting[d] = 0
  BY <1>1, <1>2 DEF ToldOK
<1>3. CASE waiting[d] # 0
  <2>1. Awaited(d) \in Slots /\ Sender(Awaited(d)) = d /\ Awaited(d)' = Awaited(d)
    BY <1>3, AwaitedFacts, SlotFacts DEF IInv, Awaited
  <2>2. ~request[Awaited(d)].heard
    BY <1>1, <1>3 DEF DeviceOK
  <2>3. request'[Awaited(d)] = IF s = Awaited(d) THEN r ELSE request[Awaited(d)]
    BY <2>1 DEF IInv, Shapes
  <2>4. request[Awaited(d)].stage \in {"audit", "done"} =>
          /\ request'[Awaited(d)].stage \in {"audit", "done"}
          /\ request'[Awaited(d)].status = request[Awaited(d)].status
          /\ request'[Awaited(d)].retryAfter = request[Awaited(d)].retryAfter
    BY <2>1, <2>2, <2>3 DEF Moves
  <2> QED
    BY <1>1, <1>3, <2>1, <2>4 DEF ToldOK
<1> QED
  BY <1>2, <1>3

LEMMA TraceStays ==
  ASSUME IInv, FailuresOK, UNCHANGED <<untraced, restarts>>
  PROVE  TraceInv'
<1>1. failures \in Nat /\ failures' \in Nat /\ failures' >= failures /\ restarts \in Nat
      /\ restarts * Cardinality(Slots) \in Nat
      /\ untraced.auditedFirst \in Nat /\ untraced.answeredFirst \in Nat
  BY FiniteSlots DEF IInv, Shapes, FailuresOK, Traces
<1> QED
  BY <1>1 DEF IInv, TraceInv

\* A step that moves one request and tells and publishes nothing.
LEMMA RequestMove ==
  ASSUME IInv, NEW s \in Slots, NEW r, Moves(s, r), request' = [request EXCEPT ![s] = r],
         UNCHANGED <<nextAt, pending, generated, waiting, inFlight, load, window, told>>,
         UNCHANGED <<raw, mqttQueue, timeouts, restarts>>,
         unsent' \subseteq unsent, FailuresOK, untraced' \in Traces, TraceInv',
         Sender(s) \in Devices => CarrierOK(Sender(s), r)
  PROVE  IInv'
<1>1. Sender(s) \in Devices => CarrierOK(Sender(s), r)'
  <2> SUFFICES ASSUME Sender(s) \in Devices PROVE CarrierOK(Sender(s), r)'
    OBVIOUS
  <2>1. CarrierOK(Sender(s), r) /\ r.reading \in Nat
    BY DEF Moves, Requests
  <2> QED
    BY <2>1, RawStays DEF CarrierOK
<1>2. /\ request' \in [Slots -> Requests]
      /\ \A t \in Slots : RequestOK(request[t])'
      /\ \A d \in Devices : DeviceOK(d)'
      /\ \A d \in Devices : \A n \in 1..generated'[d] : n # pending'[d] => IsPublished(d, n)'
      /\ \A d \in Devices, lane \in Lanes : CarrierOK(d, request[<<d, lane>>])'
      /\ CountInv'
  BY <1>1, RawStays, RequestMoves
<1>3. Shapes'
  BY <1>2 DEF IInv, Shapes, FailuresOK
<1>4. ReadingsInv'
  BY <1>2, RawStays DEF IInv, ReadingsInv
<1>5. MqttInv'
  BY DEF IInv, MqttInv
<1>6. \A d \in Devices : ToldOK(d)'
  BY ToldStays
<1> QED
  BY <1>2, <1>3, <1>4, <1>5, <1>6 DEF IInv

\* The same, if every answer keeps its trace.
LEMMA QuietMove ==
  ASSUME IInv, NEW s \in Slots, NEW r, Moves(s, r), request' = [request EXCEPT ![s] = r],
         UNCHANGED <<nextAt, pending, generated, waiting, inFlight, load, window, told, untraced>>,
         UNCHANGED <<raw, mqttQueue, timeouts, restarts>>,
         unsent' \subseteq unsent, FailuresOK,
         Sender(s) \in Devices => CarrierOK(Sender(s), r)
  PROVE  IInv'
<1>1. untraced' \in Traces /\ TraceInv'
  BY TraceStays DEF IInv, Shapes
<1> QED
  BY <1>1, RequestMove

\* An answer without its audit, that needs none.
LEMMA UnheededTrace ==
  ASSUME IInv, NEW s \in Slots, NEW status \in Nat, Unheeded(s, status),
         NeedsNoAudit(Content(s), status), UNCHANGED <<failures, restarts>>
  PROVE  untraced' \in Traces /\ TraceInv'
<1>1. /\ untraced' = [untraced EXCEPT !.unaudited = @ \cup {<<s, status>>}]
      /\ untraced \in Traces
  BY DEF Unheeded, IInv, Shapes
<1>2. /\ untraced'.unaudited = untraced.unaudited \cup {<<s, status>>}
      /\ untraced'.auditedFirst = untraced.auditedFirst
      /\ untraced'.answeredFirst = untraced.answeredFirst /\ untraced' \in Traces
  BY <1>1 DEF Traces
<1>3. \A answer \in untraced'.unaudited : NeedsNoAudit(Content(answer[1]), answer[2])
  BY <1>2 DEF IInv, TraceInv
<1> QED
  BY <1>2, <1>3 DEF IInv, TraceInv

\* An answered request of which nothing is left but its client.
LEMMA DoneFacts ==
  ASSUME NEW q \in Requests, ~q.forgotten
  PROVE  /\ Done(q) \in Requests /\ RequestOK(Done(q))
         /\ Done(q).stage = "free" => q.heard
         /\ Done(q).stage # "free" =>
              /\ Done(q).stage = "done" /\ Done(q).heard = q.heard /\ Done(q).reading = q.reading
              /\ Done(q).status = q.status /\ Done(q).retryAfter = q.retryAfter
<1> DEFINE done == [q EXCEPT !.stage = "done", !.answered = TRUE]
<1>1. /\ done \in Requests /\ done.stage = "done" /\ done.answered /\ done.heard = q.heard
      /\ done.reading = q.reading /\ done.status = q.status /\ done.retryAfter = q.retryAfter
      /\ done.forgotten = q.forgotten
  BY DEF Requests, Stages
<1>2. Done(q) = IF q.heard THEN Free ELSE done
  BY <1>1 DEF Done, Over
<1>3. RequestOK(done)
  BY <1>1 DEF RequestOK, Downstream
<1> HIDE DEF done
<1> QED
  BY <1>1, <1>2, <1>3, FreeFacts

-----------------------------------------------------------------------------
(* The rules of the gateway                                                *)

LEMMA RuleFacts ==
  ASSUME NEW q
  PROVE  /\ \/ BeforeRateLimit(q) = Pass
            \/ /\ BeforeRateLimit(q).status \in {200, 401, 405, 415}
               /\ BeforeRateLimit(q).decision # "unaudited"
            \/ /\ BeforeRateLimit(q).status = 204 /\ q.method = "OPTIONS"
               /\ BeforeRateLimit(q).decision = "unaudited"
         /\ BeforeRateLimit(q).status = 200 => q.method = "GET"
         /\ \/ AfterRateLimit(q) = Pass
            \/ /\ AfterRateLimit(q).status \in {400, 403, 404, 413}
               /\ AfterRateLimit(q).decision # "unaudited"
            \/ /\ AfterRateLimit(q).status = 415 /\ q.body = "unreadable"
               /\ AfterRateLimit(q).decision = "unaudited"
         /\ Pass.status = 0 /\ RateLimited.status = 429 /\ RateLimited # Pass
         /\ Pass.decision # "unaudited" /\ RateLimited.decision # "unaudited"
<1>1. /\ Pass.status = 0 /\ RateLimited.status = 429 /\ RateLimited # Pass
      /\ Pass.decision # "unaudited" /\ RateLimited.decision # "unaudited"
  BY DEF Pass, RateLimited, Verdict
<1>2. \A status, decision, reason : /\ Verdict(status, decision, reason).status = status
                                   /\ Verdict(status, decision, reason).decision = decision
  BY DEF Verdict
<1>3. \/ BeforeRateLimit(q) = Pass
      \/ BeforeRateLimit(q) = Verdict(200, "accepted", "health") /\ q.method = "GET"
      \/ BeforeRateLimit(q) = Verdict(204, "unaudited", "preflight") /\ q.method = "OPTIONS"
      \/ \E status \in {401, 405, 415}, decision \in {"blocked", "unauthorized"} :
           \E reason : BeforeRateLimit(q) = Verdict(status, decision, reason)
  BY DEF BeforeRateLimit, Unaudited
<1>4. \/ AfterRateLimit(q) = Pass
      \/ AfterRateLimit(q) = Verdict(415, "unaudited", "unreadable_body") /\ q.body = "unreadable"
      \/ \E status \in {400, 403, 404, 413} :
           \E reason : AfterRateLimit(q) = Verdict(status, "blocked", reason)
  BY DEF AfterRateLimit, Unaudited
<1>5. \/ BeforeRateLimit(q) = Pass
      \/ /\ BeforeRateLimit(q).status \in {200, 401, 405, 415}
         /\ BeforeRateLimit(q).decision # "unaudited"
         /\ BeforeRateLimit(q).status = 200 => q.method = "GET"
      \/ /\ BeforeRateLimit(q).status = 204 /\ q.method = "OPTIONS"
         /\ BeforeRateLimit(q).decision = "unaudited"
  BY <1>2, <1>3
<1>6. \/ AfterRateLimit(q) = Pass
      \/ /\ AfterRateLimit(q).status \in {400, 403, 404, 413}
         /\ AfterRateLimit(q).decision # "unaudited"
      \/ /\ AfterRateLimit(q).status = 415 /\ q.body = "unreadable"
         /\ AfterRateLimit(q).decision = "unaudited"
  BY <1>2, <1>4
<1> QED
  BY <1>1, <1>5, <1>6

LEMMA LimitFacts ==
  ASSUME NEW w \in Windows
  PROVE  /\ checkRateLimit(w).window \in Windows
         /\ checkRateLimit(w).retryAfter \in 0..W
         /\ w.age = W => checkRateLimit(w).allowed /\ checkRateLimit(w).window.count = 1
         /\ w.age # W => checkRateLimit(w).window.age = w.age
         /\ ~checkRateLimit(w).allowed =>
              w.age # W /\ checkRateLimit(w).retryAfter = W - w.age
<1>1. w.age \in 0..W /\ w.count \in Nat
  BY DEF Windows
<1>2. CASE w.age = W
  <2>1. checkRateLimit(w) = [allowed |-> TRUE, retryAfter |-> 0, window |-> [age |-> 0, count |-> 1]]
    BY <1>2, ConstantFacts DEF checkRateLimit, W
  <2> QED
    BY <1>2, <2>1, ConstantFacts DEF Windows
<1>3. CASE w.age < W
  <2> DEFINE allowed == w.count + 1 <= Config.rateLimitMaxRequests
             counted == IF allowed THEN w.count + 1 ELSE Config.rateLimitMaxRequests + 1
  <2>1. checkRateLimit(w) =
          [allowed |-> allowed, retryAfter |-> IF allowed THEN 0 ELSE W - w.age,
           window |-> [w EXCEPT !.count = counted]]
    BY <1>1, <1>3, ConstantFacts DEF checkRateLimit, W
  <2>2. counted \in Nat
    BY <1>1, ConfigAssumption
  <2>3. [w EXCEPT !.count = counted] \in Windows /\ [w EXCEPT !.count = counted].age = w.age
    BY <2>2 DEF Windows
  <2>4. /\ checkRateLimit(w).window = [w EXCEPT !.count = counted]
        /\ checkRateLimit(w).allowed = allowed
        /\ checkRateLimit(w).retryAfter = IF allowed THEN 0 ELSE W - w.age
    BY <2>1
  <2> HIDE DEF counted, allowed
  <2> QED
    BY <1>1, <1>3, <2>3, <2>4, ConstantFacts
<1> QED
  BY <1>1, <1>2, <1>3, ConstantFacts

\* What the fleet sends goes to ingestion-api and nowhere else.
LEMMA FleetRoute ==
  ASSUME NEW s \in Slots, Sender(s) \in Devices
  PROVE  ServiceOf(s) = "ingestion" /\ Content(s).method = "POST"
<1> DEFINE path == [base |-> "/telemetry", deep |-> FALSE]
           answer == [allowed |-> TRUE, target |-> "ingestion"]
<1>1. Content(s).method = "POST" /\ Content(s).path = path
  BY FleetAssumption DEF Content
<1>2. findRoute(path) = {[name |-> "telemetry", methods |-> {"POST"}, base |-> "/telemetry",
                          deep |-> FALSE, target |-> "ingestion"]}
  BY DEF findRoute, ROUTES
<1>3. resolveRoute("POST", path) = {answer}
  <2> DEFINE route == [name |-> "telemetry", methods |-> {"POST"}, base |-> "/telemetry",
                       deep |-> FALSE, target |-> "ingestion"]
  <2>1. "POST" \in route.methods /\ route.target = "ingestion" /\ findRoute(path) = {route}
    BY <1>2
  <2> HIDE DEF route, path
  <2>2. ("POST" \in route.methods) = TRUE
    BY <2>1
  <2> QED
    BY <2>1, <2>2 DEF resolveRoute
<1>4. target(Content(s)) = "ingestion"
  <2>1. resolveRoute(Content(s).method, Content(s).path) = {answer} /\ answer.target = "ingestion"
    BY <1>1, <1>3
  <2> HIDE DEF answer
  <2>2. (CHOOSE r \in {answer} : TRUE) = answer
    OBVIOUS
  <2> QED
    BY <2>1, <2>2 DEF target
<1>5. ~ownPage(Content(s))
  BY <1>1 DEF ownPage
<1> QED
  BY <1>1, <1>4, <1>5 DEF ServiceOf

\* A request in the gateway, and whose it may be.
LEMMA CarrierFacts ==
  ASSUME IInv, NEW s \in Slots, request[s].stage # "free"
  PROVE  /\ request[s] \in Requests /\ RequestOK(request[s])
         /\ Sender(s) \in Devices =>
              /\ CarrierOK(Sender(s), request[s]) /\ generated[Sender(s)] \in Nat
              /\ request[s].stage \in {"arriving", "ingestion", "audit", "done"}
              /\ request[s].reading \in 1..generated[Sender(s)]
<1>1. request[s] \in Requests /\ RequestOK(request[s])
  BY DEF IInv, Shapes
<1>2. ASSUME Sender(s) \in Devices PROVE CarrierOK(Sender(s), request[s])
  BY <1>2, SlotFacts DEF IInv, ReadingsInv
<1> QED
  BY <1>1, <1>2 DEF CarrierOK, IInv, Shapes

-----------------------------------------------------------------------------
(* The steps of the gateway and of the services behind it                  *)

LEMMA ReplyMoves ==
  ASSUME IInv, NEW s \in Slots, request[s].stage \in Downstream, NEW status \in Nat,
         Reply(s, status) \/ (status = 502 /\ NoReply(s))
  PROVE  \E r : /\ Moves(s, r) /\ request' = [request EXCEPT ![s] = r]
                /\ \/ r.stage = "free"
                   \/ r.stage = "audit" /\ r.status = status /\ r.reading = request[s].reading
<1> DEFINE q == request[s]
<1>1. q \in Requests /\ RequestOK(q) /\ q.stage # "free" /\ ~q.answered
      /\ q.stage \notin {"audit", "done"}
  BY DEF IInv, Shapes, RequestOK, Downstream
<1>2. CASE q.forgotten
  <2>1. request' = [request EXCEPT ![s] = Free]
    BY <1>2 DEF Reply, NoReply
  <2>2. q.heard
    BY <1>1, <1>2 DEF RequestOK
  <2>3. Moves(s, Free)
    BY <1>1, <2>2, FreeFacts DEF Moves
  <2> WITNESS Free
  <2> QED
    BY <2>1, <2>3, FreeFacts
<1>3. CASE ~q.forgotten
  <2>1. PICK answered \in BOOLEAN :
          request' = [request EXCEPT ![s] = [q EXCEPT !.stage = "audit", !.status = status,
                                                      !.answered = answered]]
    <3>1. CASE Reply(s, status)
      <4>1. request' = [request EXCEPT ![s] = [q EXCEPT !.stage = "audit", !.status = status,
                                                        !.answered = TRUE]]
        BY <1>3, <3>1 DEF Reply
      <4> QED
        BY <4>1, Zenon
    <3>2. CASE status = 502 /\ NoReply(s)
      <4>1. request' = [request EXCEPT ![s] = [q EXCEPT !.stage = "audit", !.status = status]]
        BY <1>3, <3>2 DEF NoReply, DownstreamError, Verdict
      <4>2. [q EXCEPT !.stage = "audit", !.status = status]
              = [q EXCEPT !.stage = "audit", !.status = status, !.answered = FALSE]
        BY <1>1 DEF Requests
      <4> QED
        BY <4>1, <4>2
    <3> QED
      BY <3>1, <3>2
  <2> DEFINE r == [q EXCEPT !.stage = "audit", !.status = status, !.answered = answered]
  <2>2. r \in Requests /\ r.stage = "audit" /\ r.status = status /\ r.reading = q.reading
        /\ r.heard = q.heard /\ r.forgotten = q.forgotten
    BY <1>1 DEF Requests, Stages
  <2>3. RequestOK(r)
    BY <1>3, <2>2 DEF RequestOK
  <2>4. Moves(s, r)
    BY <1>1, <2>2, <2>3 DEF Moves
  <2> QED
    BY <2>1, <2>2, <2>4
<1> QED
  BY <1>2, <1>3

\* An answer with an error, or to somebody who is not a device, settles no reading.
LEMMA RefusalStep ==
  ASSUME IInv, NEW s \in Slots, request[s].stage \in Downstream, NEW status \in Nat,
         Reply(s, status) \/ (status = 502 /\ NoReply(s)),
         status >= 300 \/ Sender(s) \notin Devices,
         UNCHANGED <<fleetVars, window, told, untraced, raw, mqttQueue, timeouts, restarts, load>>,
         unsent' \subseteq unsent, FailuresOK
  PROVE  IInv'
<1>1. PICK r : /\ Moves(s, r) /\ request' = [request EXCEPT ![s] = r]
               /\ \/ r.stage = "free"
                  \/ r.stage = "audit" /\ r.status = status /\ r.reading = request[s].reading
  BY ReplyMoves
<1>2. request[s].stage # "free"
  BY DEF Downstream
<1>3. Sender(s) \in Devices => CarrierOK(Sender(s), r)
  BY <1>1, <1>2, CarrierFacts DEF CarrierOK
<1> QED
  BY <1>1, <1>3, QuietMove DEF fleetVars

LEMMA NoFailure ==
  ASSUME IInv, UNCHANGED failures
  PROVE  FailuresOK
BY DEF IInv, Shapes, FailuresOK

LEMMA OneFailure ==
  ASSUME IInv, Fail
  PROVE  FailuresOK
BY ConstantFacts DEF IInv, Shapes, FailuresOK, Fail, MayDisturb

LEMMA AnswerElsewhereStep ==
  ASSUME IInv, NEW s \in Slots, AnswerElsewhere(s)
  PROVE  IInv'
<1>1. request[s].stage = "elsewhere" /\ request[s].stage \in Downstream
  BY DEF AnswerElsewhere, Downstream
<1>2. Sender(s) \notin Devices
  BY <1>1, CarrierFacts
<1>3. FailuresOK
  BY NoFailure, OneFailure DEF AnswerElsewhere, Await
<1>4. \E status \in Nat : Reply(s, status) \/ (status = 502 /\ NoReply(s))
  BY DEF AnswerElsewhere, Await
<1> QED
  BY <1>1, <1>2, <1>3, <1>4, RefusalStep DEF AnswerElsewhere, exportVars

\* A request of an export goes on to the next call.
LEMMA GoOnStep ==
  ASSUME IInv, NEW s \in Slots, request[s].stage \in Downstream, Sender(s) \notin Devices,
         NEW stage \in Downstream, GoOn(s, stage),
         UNCHANGED <<fleetVars, window, told, untraced, unsent, raw, mqttQueue>>,
         UNCHANGED <<timeouts, restarts, load>>, FailuresOK
  PROVE  IInv'
<1> DEFINE q == request[s]
           r == [q EXCEPT !.stage = stage]
<1>1. q \in Requests /\ RequestOK(q)
  BY DEF IInv, Shapes
<1>2. r \in Requests /\ r.stage = stage /\ r.answered = q.answered
      /\ r.heard = q.heard /\ r.forgotten = q.forgotten
  BY <1>1 DEF Requests, Stages
<1>3. RequestOK(r)
  BY <1>1, <1>2 DEF RequestOK, Downstream
<1>4. request' = [request EXCEPT ![s] = r]
  BY DEF GoOn
<1>5. Moves(s, r)
  BY <1>2, <1>3 DEF Moves
<1> HIDE DEF r
<1> QED
  BY <1>4, <1>5, QuietMove DEF fleetVars

LEMMA StartExportStep ==
  ASSUME IInv, NEW s \in Slots, StartExport(s)
  PROVE  IInv'
<1>1. request[s].stage = "dataspace" /\ request[s].stage \in Downstream
  BY DEF StartExport, Downstream
<1>2. Sender(s) \notin Devices
  BY <1>1, CarrierFacts
<1>3. FailuresOK
  BY NoFailure, OneFailure DEF StartExport, Await
<1>4. \/ \E status \in Nat : Reply(s, status) \/ (status = 502 /\ NoReply(s))
      \/ GoOn(s, "store_export")
  BY DEF StartExport, Await
<1>5. "store_export" \in Downstream
  BY DEF Downstream
<1> QED
  BY <1>1, <1>2, <1>3, <1>4, <1>5, RefusalStep, GoOnStep DEF StartExport

LEMMA StoreExportAuditStep ==
  ASSUME IInv, NEW s \in Slots, StoreExportAudit(s)
  PROVE  IInv'
<1>1. request[s].stage = "store_export" /\ request[s].stage \in Downstream
  BY DEF StoreExportAudit, Downstream
<1>2. Sender(s) \notin Devices
  BY <1>1, CarrierFacts
<1>3. FailuresOK
  BY NoFailure, OneFailure DEF StoreExportAudit, Await
<1>4. "announce_export" \in Downstream
  BY DEF Downstream
<1> QED
  BY <1>1, <1>2, <1>3, <1>4, GoOnStep DEF StoreExportAudit

LEMMA PublishExportAuditStep ==
  ASSUME IInv, NEW s \in Slots, PublishExportAudit(s)
  PROVE  IInv'
<1>1. request[s].stage = "announce_export" /\ request[s].stage \in Downstream
  BY DEF PublishExportAudit, Downstream
<1>2. Sender(s) \notin Devices
  BY <1>1, CarrierFacts
<1>3. FailuresOK
  BY NoFailure, OneFailure DEF PublishExportAudit, Await
<1>4. \E status \in Nat : Reply(s, status) \/ (status = 502 /\ NoReply(s))
  BY DEF PublishExportAudit, Await
<1> QED
  BY <1>1, <1>2, <1>3, <1>4, RefusalStep DEF PublishExportAudit

LEMMA SendOtherStep ==
  ASSUME IInv, NEW o \in Others, SendOther(o)
  PROVE  IInv'
<1> DEFINE r == [Free EXCEPT !.stage = "arriving", !.heard = TRUE]
<1>1. <<o, 1>> \in Slots /\ Sender(<<o, 1>>) \notin Devices
  BY SlotFacts
<1>2. r \in Requests /\ RequestOK(r)
  <2>1. Free \in Requests /\ Free.answered = FALSE /\ Free.forgotten = FALSE
    BY FreeFacts DEF Free
  <2>2. /\ r \in Requests /\ r.stage = "arriving"
        /\ r.answered = Free.answered /\ r.forgotten = Free.forgotten
    BY <2>1 DEF Requests, Stages
  <2> QED
    BY <2>1, <2>2 DEF RequestOK
<1>3. Moves(<<o, 1>>, r) /\ request' = [request EXCEPT ![<<o, 1>>] = r]
  BY <1>1, <1>2 DEF Moves, SendOther
<1>4. FailuresOK
  BY NoFailure DEF SendOther, faultVars
<1> HIDE DEF r
<1> QED
  BY <1>1, <1>3, <1>4, QuietMove DEF SendOther, fleetVars, faultVars

\* createAuditRecorder: row and event are tried one by one, so that it takes two
\* failures to leave no trace.
LEMMA RecordStep ==
  ASSUME IInv, NEW s \in Slots, Record(s)
  PROVE  IInv'
<1> DEFINE q == request[s]
           r == Done(q)
<1>1. q.stage = "audit" /\ q \in Requests /\ RequestOK(q) /\ ~q.forgotten
  BY DEF Record, IInv, Shapes, RequestOK, Downstream
<1>2. /\ r \in Requests /\ RequestOK(r) /\ (r.stage = "free" => q.heard)
      /\ r.stage # "free" =>
           /\ r.stage = "done" /\ r.heard = q.heard /\ r.reading = q.reading
           /\ r.status = q.status /\ r.retryAfter = q.retryAfter
  BY <1>1, DoneFacts
<1> HIDE DEF r
<1>6. Moves(s, r)
  BY <1>1, <1>2 DEF Moves
<1>7. request' = [request EXCEPT ![s] = r]
  BY DEF Record, Audited, r
<1>8. Sender(s) \in Devices => CarrierOK(Sender(s), r)
  BY <1>1, <1>2, CarrierFacts DEF CarrierOK
<1>9. PICK failed \in 0..2, traced \in BOOLEAN :
        /\ failures' = failures + failed
        /\ failed > 0 => failures' + timeouts + restarts <= load.disturbances
        /\ ~traced => failed = 2
        /\ Audited(s, traced)
  BY DEF Record
<1>10. /\ untraced' \in Traces
       /\ \/ untraced' = untraced
          \/ /\ ~traced /\ untraced'.answeredFirst = untraced.answeredFirst + 1
             /\ untraced'.auditedFirst = untraced.auditedFirst
          \/ /\ ~traced /\ untraced'.auditedFirst = untraced.auditedFirst + 1
             /\ untraced'.answeredFirst = untraced.answeredFirst
       /\ untraced'.unaudited = untraced.unaudited
  <2>1. /\ untraced \in Traces
        /\ \/ traced /\ untraced' = untraced
           \/ ~traced /\ untraced' = [untraced EXCEPT !.answeredFirst = @ + 1]
           \/ ~traced /\ untraced' = [untraced EXCEPT !.auditedFirst = @ + 1]
    BY <1>9 DEF Audited, IInv, Shapes
  <2> QED
    BY <2>1 DEF Traces
<1>11. FailuresOK
  <2>1. /\ failures \in Nat /\ timeouts \in Nat /\ restarts \in Nat
        /\ failures + timeouts + restarts <= load.disturbances
    BY DEF IInv, Shapes
  <2> QED
    BY <1>9, <2>1 DEF FailuresOK
<1>12. TraceInv'
  <2>1. restarts \in Nat /\ restarts * Cardinality(Slots) \in Nat /\ restarts' = restarts
    BY <1>9, FiniteSlots DEF IInv, Shapes, Audited
  <2>2. untraced.auditedFirst \in Nat /\ untraced.answeredFirst \in Nat /\ failures \in Nat
    BY DEF IInv, Shapes, Traces
  <2> QED
    BY <1>9, <1>10, <2>1, <2>2 DEF IInv, TraceInv
<1>13. /\ UNCHANGED <<nextAt, pending, generated, waiting, inFlight, load, window, told>>
       /\ UNCHANGED <<unsent, raw, mqttQueue, timeouts, restarts>>
  BY <1>9 DEF Audited, fleetVars, exportVars
<1>20. raw' = raw /\ generated' = generated
  BY <1>13
<1>14. PICK p : /\ p \in Requests /\ Moves(s, p) /\ request' = [request EXCEPT ![s] = p]
                /\ Sender(s) \in Devices => CarrierOK(Sender(s), p)
  BY <1>2, <1>6, <1>7, <1>8
<1>21. Sender(s) \in Devices => CarrierOK(Sender(s), p)'
  <2> SUFFICES ASSUME Sender(s) \in Devices PROVE CarrierOK(Sender(s), p)'
    OBVIOUS
  <2>1. CarrierOK(Sender(s), p) /\ p.reading \in Nat
    BY <1>14 DEF Requests
  <2> QED
    BY <1>20, <2>1, RawStays DEF CarrierOK
<1>15. /\ request' \in [Slots -> Requests]
       /\ \A t \in Slots : RequestOK(request[t])'
       /\ \A d \in Devices : DeviceOK(d)'
       /\ \A d \in Devices : \A n \in 1..generated'[d] : n # pending'[d] => IsPublished(d, n)'
       /\ \A d \in Devices, lane \in Lanes : CarrierOK(d, request[<<d, lane>>])'
       /\ CountInv'
  BY <1>13, <1>14, <1>20, <1>21, RawStays, RequestMoves
<1>16. Shapes'
  BY <1>10, <1>11, <1>13, <1>15 DEF IInv, Shapes, FailuresOK
<1>17. ReadingsInv'
  BY <1>13, <1>15, RawStays DEF IInv, ReadingsInv
<1>18. MqttInv'
  BY <1>13 DEF IInv, MqttInv
<1>19. \A d \in Devices : ToldOK(d)'
  BY <1>6, <1>7, <1>13, ToldStays
<1> QED
  BY <1>12, <1>15, <1>16, <1>17, <1>18, <1>19 DEF IInv

-----------------------------------------------------------------------------
(* Messages on raw.telemetry                                               *)

\* A rewritten payload keeps the key of the device.
LEMMA NormalKey ==
  ASSUME NEW d \in Devices
  PROVE  LET payload == DeviceRequests[d].payload
         IN  buildMessageKey(normalizeTelemetryPayload(payload, "telemetry")) = buildMessageKey(payload)
BY FleetAssumption DEF buildMessageKey, normalizeTelemetryPayload

\* A message of a device may be appended when all earlier readings are there.
LEMMA PublishFacts ==
  ASSUME IInv, NEW payload, NEW message \in RawMessages, Publish(payload, message),
         \A d \in Devices : message.sender = d =>
           \A n \in 1..(message.reading - 1) : IsPublished(d, n)
  PROVE  /\ raw' \in [Keys -> Seq(RawMessages)]
         /\ \A d \in Devices, n \in Nat : IsPublished(d, n) => IsPublished(d, n)'
         /\ \A d \in Devices : OrderOK(d)'
         /\ \A d \in Devices : /\ message.sender = d
                               /\ buildMessageKey(payload) = buildMessageKey(DeviceRequests[d].payload)
                               => IsPublished(d, message.reading)'
         /\ \A k \in Keys : \/ raw'[k] = raw[k]
                            \/ raw'[k] = Append(raw[k], message) /\ k = buildMessageKey(payload)
<1> DEFINE key(d) == buildMessageKey(DeviceRequests[d].payload)
<1>1. raw \in [Keys -> Seq(RawMessages)]
  BY DEF IInv, Shapes
<1>2. \A k \in Keys : raw'[k] = IF k = buildMessageKey(payload) THEN Append(raw[k], message) ELSE raw[k]
  BY <1>1 DEF Publish
<1>3. raw' \in [Keys -> Seq(RawMessages)]
  <2>1. \A k \in Keys : raw'[k] \in Seq(RawMessages)
    <3>1. \A q \in Seq(RawMessages) : Append(q, message) \in Seq(RawMessages)
      OBVIOUS
    <3> QED
      BY <1>1, <1>2, <3>1
  <2>2. raw' = [k \in Keys |-> raw'[k]]
    BY <1>1 DEF Publish
  <2> QED
    BY <2>1, <2>2
<1>4. \A d \in Devices : key(d) \in Keys
  BY DEF Keys
<1>5. ASSUME NEW d \in Devices
      PROVE  /\ \A n \in Nat : IsPublished(d, n) => IsPublished(d, n)'
             /\ OrderOK(d)'
             /\ message.sender = d /\ buildMessageKey(payload) = key(d)
                  => IsPublished(d, message.reading)'
  <2> DEFINE before == raw[key(d)]
             after == raw'[key(d)]
  <2>1. before \in Seq(RawMessages) /\ after \in Seq(RawMessages)
    BY <1>1, <1>3, <1>4
  <2>2. /\ MessagesOf(d) = before /\ MessagesOf(d)' = after
        /\ OrderOK(d)
    BY DEF MessagesOf, IInv, ReadingsInv
  <2>3. CASE after = before
    <3>1. ~(message.sender = d /\ buildMessageKey(payload) = key(d))
      <4>1. Len(Append(before, message)) = Len(before) + 1 /\ Len(before) \in Nat
        BY <2>1
      <4>2. Append(before, message) # before
        BY <4>1
      <4>3. buildMessageKey(payload) = key(d) => after = Append(before, message)
        BY <1>2, <1>4
      <4> QED
        BY <2>3, <4>2, <4>3
    <3> QED
      BY <2>2, <2>3, <3>1 DEF OrderOK, IsPublished
  <2>4. CASE after = Append(before, message)
    <3> HIDE DEF before, after
    <3>1. /\ Len(before) \in Nat /\ DOMAIN before = 1..Len(before)
          /\ DOMAIN after = 1..(Len(before) + 1)
          /\ \A i \in 1..Len(before) : after[i] = before[i]
          /\ after[Len(before) + 1] = message
      BY <2>1, <2>4
    <3>2. \A n \in Nat : IsPublished(d, n) => IsPublished(d, n)'
      BY <2>2, <3>1 DEF IsPublished
    <3>3. message.sender = d => IsPublished(d, message.reading)'
      BY <2>2, <3>1 DEF IsPublished
    <3>4. OrderOK(d)'
      <4> SUFFICES ASSUME NEW i \in DOMAIN after, after[i].sender = d,
                          NEW n \in 1..(after[i].reading - 1)
                   PROVE  \E j \in 1..(i - 1) : after[j].reading = n
        BY <2>2 DEF OrderOK
      <4>1. CASE i \in 1..Len(before)
        <5>1. PICK j \in 1..(i - 1) : before[j].reading = n
          BY <2>2, <3>1, <4>1 DEF OrderOK
        <5> QED
          BY <3>1, <4>1, <5>1
      <4>2. CASE i = Len(before) + 1
        <5>1. PICK j \in DOMAIN before : before[j].reading = n
          BY <2>2, <3>1, <4>2 DEF IsPublished
        <5> QED
          BY <3>1, <4>2, <5>1
      <4> QED
        BY <3>1, <4>1, <4>2
    <3> QED
      BY <3>2, <3>3, <3>4
  <2> QED
    BY <1>2, <1>4, <2>3, <2>4
<1> QED
  BY <1>2, <1>3, <1>5

\* ingestion-api has published the message, whether it can tell or not.
LEMMA IngestedStep ==
  ASSUME IInv, NEW s \in Slots, request[s].stage = "ingestion", NEW status \in Nat,
         Reply(s, status) \/ (status = 502 /\ NoReply(s)),
         Publish(normalizeTelemetryPayload(Content(s).payload, "telemetry"),
                 [sender |-> Sender(s), reading |-> request[s].reading]),
         UNCHANGED <<fleetVars, window, told, untraced, exportVars, mqttQueue, timeouts, restarts, load>>,
         FailuresOK
  PROVE  IInv'
<1> DEFINE payload == normalizeTelemetryPayload(Content(s).payload, "telemetry")
<1>1. PICK r : /\ Moves(s, r) /\ request' = [request EXCEPT ![s] = r]
               /\ \/ r.stage = "free"
                  \/ r.stage = "audit" /\ r.status = status /\ r.reading = request[s].reading
  BY ReplyMoves DEF Downstream
<1>2. /\ request[s] \in Requests
      /\ Sender(s) \in Devices => /\ CarrierOK(Sender(s), request[s])
                                  /\ request[s].reading \in 1..generated[Sender(s)]
                                  /\ generated[Sender(s)] \in Nat
  BY CarrierFacts
<1>3. PICK message : message = [sender |-> Sender(s), reading |-> request[s].reading]
  OBVIOUS
<1>4. message \in RawMessages /\ message.sender = Sender(s) /\ message.reading = request[s].reading
      /\ message.sender \notin DOMAIN MqttPayloads
  BY <1>2, <1>3, SlotFacts, FleetAssumption DEF RawMessages, Senders, Requests
<1>5. \A d \in Devices : message.sender = d =>
        \A n \in 1..(message.reading - 1) : IsPublished(d, n)
  BY <1>2, <1>4 DEF CarrierOK
<1>6. Publish(payload, message)
  BY <1>3
<1>7. /\ raw' \in [Keys -> Seq(RawMessages)]
      /\ \A d \in Devices, n \in Nat : IsPublished(d, n) => IsPublished(d, n)'
      /\ \A d \in Devices : OrderOK(d)'
      /\ \A d \in Devices : /\ message.sender = d
                            /\ buildMessageKey(payload) = buildMessageKey(DeviceRequests[d].payload)
                            => IsPublished(d, message.reading)'
      /\ \A k \in Keys : raw'[k] = raw[k] \/ raw'[k] = Append(raw[k], message)
  <2> HIDE DEF payload
  <2> QED
    BY <1>4, <1>5, <1>6, PublishFacts
<1>8. ASSUME Sender(s) \in Devices PROVE CarrierOK(Sender(s), r)'
  <2>1. Content(s).payload = DeviceRequests[Sender(s)].payload
    BY <1>8 DEF Content
  <2>5. buildMessageKey(payload) = buildMessageKey(DeviceRequests[Sender(s)].payload)
    BY <1>8, <2>1, NormalKey
  <2>2. IsPublished(Sender(s), message.reading)'
    <3> HIDE DEF payload
    <3> QED
      BY <1>4, <1>7, <1>8, <2>5
  <2>3. generated' = generated
    BY DEF fleetVars
  <2>4. \A n \in 1..(request[s].reading - 1) : IsPublished(Sender(s), n)'
    BY <1>2, <1>7, <1>8 DEF CarrierOK
  <2> QED
    BY <1>1, <1>2, <1>4, <1>8, <2>2, <2>3, <2>4 DEF CarrierOK
<1>9. UNCHANGED <<nextAt, pending, generated, waiting, inFlight, load, window, told, untraced,
                  unsent, mqttQueue, timeouts, restarts>>
  BY DEF fleetVars, exportVars
<1>10. /\ request' \in [Slots -> Requests]
       /\ \A t \in Slots : RequestOK(request[t])'
       /\ \A d \in Devices : DeviceOK(d)'
       /\ \A d \in Devices : \A n \in 1..generated'[d] : n # pending'[d] => IsPublished(d, n)'
       /\ \A d \in Devices, lane \in Lanes : CarrierOK(d, request[<<d, lane>>])'
       /\ CountInv'
  BY <1>1, <1>7, <1>8, <1>9, RequestMoves
<1>11. Shapes'
  <2>1. Shapes
    BY DEF IInv
  <2>2. raw' \in [Keys -> Seq(RawMessages)] /\ request' \in [Slots -> Requests]
    BY <1>7, <1>10
  <2>3. failures' \in Nat /\ failures' + timeouts' + restarts' <= load'.disturbances
    BY <1>9 DEF FailuresOK
  <2>4. /\ nextAt' \in [Devices -> -MaxOverdue..InFlight]
        /\ waiting' \in [Devices -> 0..MaxLanes] /\ told' \in [Devices -> Nat]
        /\ timeouts' \in Nat /\ restarts' \in Nat
    BY <1>9, <2>1 DEF Shapes
  <2>5. UNCHANGED <<pending, generated, inFlight, window, untraced, unsent, mqttQueue, load>>
    BY <1>9
  <2> QED
    BY <2>1, <2>2, <2>3, <2>4, <2>5, RestKeepsShape DEF Shapes
<1>12. ReadingsInv'
  BY <1>7, <1>10 DEF ReadingsInv
<1>13. MqttInv'
  <2> SUFFICES ASSUME NEW k \in Keys, NEW m \in DOMAIN MqttPayloads
               PROVE  /\ m \in mqttQueue => \A i \in DOMAIN raw'[k] : raw'[k][i].sender # m
                      /\ \A i, j \in DOMAIN raw'[k] :
                           raw'[k][i].sender = m /\ raw'[k][j].sender = m => i = j
    BY <1>9 DEF MqttInv
  <2>1. /\ m \in mqttQueue => \A i \in DOMAIN raw[k] : raw[k][i].sender # m
        /\ \A i, j \in DOMAIN raw[k] : raw[k][i].sender = m /\ raw[k][j].sender = m => i = j
    BY DEF IInv, MqttInv
  <2>2. raw[k] \in Seq(RawMessages)
    BY DEF IInv, Shapes
  <2>3. CASE raw'[k] = Append(raw[k], message)
    <3>1. /\ DOMAIN raw'[k] = 1..(Len(raw[k]) + 1) /\ DOMAIN raw[k] = 1..Len(raw[k])
          /\ Len(raw[k]) \in Nat
          /\ \A i \in DOMAIN raw'[k] : raw'[k][i] = IF i = Len(raw[k]) + 1 THEN message ELSE raw[k][i]
      BY <2>2, <2>3
    <3>2. \A i \in DOMAIN raw'[k] : raw'[k][i].sender = m =>
            i \in DOMAIN raw[k] /\ raw[k][i].sender = m
      BY <1>4, <3>1
    <3> QED
      BY <2>1, <3>2
  <2> QED
    BY <1>7, <2>1, <2>3
<1>14. \A d \in Devices : ToldOK(d)'
  BY <1>1, <1>9, ToldStays
<1>15. TraceInv'
  BY <1>9, TraceStays
<1> QED
  BY <1>10, <1>11, <1>12, <1>13, <1>14, <1>15 DEF IInv

LEMMA IngestStep ==
  ASSUME IInv, NEW s \in Slots, Ingest(s)
  PROVE  IInv'
<1> DEFINE payload == normalizeTelemetryPayload(Content(s).payload, "telemetry")
           message == [sender |-> Sender(s), reading |-> request[s].reading]
<1>1. request[s].stage = "ingestion" /\ request[s].stage \in Downstream
  BY DEF Ingest, Downstream
<1>2. /\ UNCHANGED <<fleetVars, window, told, untraced, exportVars, mqttQueue, timeouts, restarts, load>>
      /\ unsent' = unsent
  BY DEF Ingest, exportVars
<1>3. FailuresOK
  BY NoFailure, OneFailure DEF Ingest, Await
<1>4. \/ Publish(payload, message) /\ \E status \in Nat : Reply(s, status) \/ (status = 502 /\ NoReply(s))
      \/ UNCHANGED raw /\ \E status \in Nat : status >= 300 /\ (Reply(s, status) \/ (status = 502 /\ NoReply(s)))
  BY DEF Ingest, Await
<1> HIDE DEF payload, message
<1>5. CASE Publish(payload, message)
           /\ \E status \in Nat : Reply(s, status) \/ (status = 502 /\ NoReply(s))
  BY <1>1, <1>2, <1>3, <1>5, IngestedStep DEF payload, message
<1>6. CASE UNCHANGED raw
           /\ \E status \in Nat : status >= 300 /\ (Reply(s, status) \/ (status = 502 /\ NoReply(s)))
  BY <1>1, <1>2, <1>3, <1>6, RefusalStep
<1> QED
  BY <1>4, <1>5, <1>6

LEMMA HandleMqttStep ==
  ASSUME IInv, NEW m \in DOMAIN MqttPayloads, HandleMqtt(m)
  PROVE  IInv'
<1> PICK message : message = [sender |-> m, reading |-> NoReading]
  OBVIOUS
<1>1. /\ m \in mqttQueue /\ mqttQueue' = mqttQueue \ {m}
      /\ UNCHANGED <<nextAt, pending, generated, waiting, inFlight, request, window, told, untraced,
                     unsent, timeouts, restarts, load>>
  BY DEF HandleMqtt, fleetVars, gatewayVars, exportVars
<1>2. FailuresOK
  BY NoFailure, OneFailure DEF HandleMqtt, Await
<1>3. UNCHANGED raw \/ Publish(MqttPayloads[m], message)
  BY DEF HandleMqtt, Await
<1>4. message \in RawMessages /\ message.sender = m /\ m \notin Devices
  BY FleetAssumption DEF RawMessages, Senders, NoReading
<1>5. /\ raw' \in [Keys -> Seq(RawMessages)]
      /\ \A d \in Devices, n \in Nat : IsPublished(d, n) => IsPublished(d, n)'
      /\ \A d \in Devices : OrderOK(d)'
      /\ \A k \in Keys : \/ raw'[k] = raw[k]
                         \/ raw'[k] = Append(raw[k], message) /\ k = buildMessageKey(MqttPayloads[m])
  <2>1. CASE UNCHANGED raw
    BY <2>1, RawStays DEF IInv, Shapes, ReadingsInv
  <2>2. CASE Publish(MqttPayloads[m], message)
    BY <1>4, <2>2, PublishFacts
  <2> QED
    BY <1>3, <2>1, <2>2
<1>6. Shapes'
  BY <1>1, <1>2, <1>5 DEF IInv, Shapes, FailuresOK
<1>7. \A s \in Slots : RequestOK(request[s])'
  BY <1>1 DEF IInv, RequestOK
<1>8. \A d \in Devices : DeviceOK(d)'
  BY <1>1 DEF IInv, DeviceOK, Awaited
<1>9. ReadingsInv'
  <2>1. ASSUME NEW d \in Devices, NEW lane \in Lanes PROVE CarrierOK(d, request[<<d, lane>>])'
    <3> PICK r : r = request[<<d, lane>>]
      OBVIOUS
    <3>1. CarrierOK(d, r) /\ r.reading \in Nat
      BY SlotFacts DEF IInv, ReadingsInv, Shapes, Requests
    <3>2. \A n \in 1..(r.reading - 1) : IsPublished(d, n) => IsPublished(d, n)'
      BY <1>5, <3>1
    <3>3. r.reading \in 1..generated[d] => (IsPublished(d, r.reading) => IsPublished(d, r.reading)')
      BY <1>5, <3>1
    <3>4. CarrierOK(d, r)'
      BY <1>1, <3>1, <3>2, <3>3 DEF CarrierOK
    <3> QED
      BY <1>1, <3>4
  <2>2. \A d \in Devices : \A n \in 1..generated'[d] : n # pending'[d] => IsPublished(d, n)'
    BY <1>1, <1>5 DEF IInv, Shapes, ReadingsInv
  <2> QED
    BY <1>5, <2>1, <2>2 DEF ReadingsInv
<1>10. MqttInv'
  <2> SUFFICES ASSUME NEW k \in Keys, NEW n \in DOMAIN MqttPayloads
               PROVE  /\ n \in mqttQueue' => \A i \in DOMAIN raw'[k] : raw'[k][i].sender # n
                      /\ \A i, j \in DOMAIN raw'[k] :
                           raw'[k][i].sender = n /\ raw'[k][j].sender = n => i = j
    BY DEF MqttInv
  <2>1. /\ n \in mqttQueue => \A i \in DOMAIN raw[k] : raw[k][i].sender # n
        /\ \A i, j \in DOMAIN raw[k] : raw[k][i].sender = n /\ raw[k][j].sender = n => i = j
    BY DEF IInv, MqttInv
  <2>2. raw[k] \in Seq(RawMessages)
    BY DEF IInv, Shapes
  <2>3. CASE raw'[k] = Append(raw[k], message)
    <3>1. /\ DOMAIN raw'[k] = 1..(Len(raw[k]) + 1) /\ DOMAIN raw[k] = 1..Len(raw[k])
          /\ Len(raw[k]) \in Nat
          /\ \A i \in DOMAIN raw'[k] : raw'[k][i] = IF i = Len(raw[k]) + 1 THEN message ELSE raw[k][i]
      BY <2>2, <2>3
    <3>2. CASE n = m
      BY <1>1, <1>4, <2>1, <3>1, <3>2
    <3>3. CASE n # m
      <4>1. \A i \in DOMAIN raw'[k] : raw'[k][i].sender = n =>
              i \in DOMAIN raw[k] /\ raw[k][i].sender = n
        BY <1>4, <3>1, <3>3
      <4> QED
        BY <1>1, <2>1, <4>1
    <3> QED
      BY <3>2, <3>3
  <2> QED
    BY <1>1, <1>5, <2>1, <2>3
<1>11. CountInv'
  BY <1>1 DEF IInv, CountInv, Waiting
<1>12. \A d \in Devices : ToldOK(d)'
  BY <1>1 DEF IInv, ToldOK, Awaited
<1>13. TraceInv'
  BY <1>1, <1>2, TraceStays
<1> QED
  BY <1>6, <1>7, <1>8, <1>9, <1>10, <1>11, <1>12, <1>13 DEF IInv

-----------------------------------------------------------------------------
(* The rate limit                                                          *)

LEMMA AdmitStep ==
  ASSUME IInv, NEW s \in Slots, Admit(s)
  PROVE  IInv'
<1> DEFINE q       == request[s]
           client  == Content(s).client
           before  == BeforeRateLimit(Content(s))
           limit   == checkRateLimit(window[client])
           verdict == IF before # Pass THEN before
                      ELSE IF limit.allowed THEN AfterRateLimit(Content(s)) ELSE RateLimited
           renewed == before = Pass /\ limit.window.count = 1
           passed  == [q EXCEPT !.stage = ServiceOf(s)]
           refused == [q EXCEPT !.stage = "audit", !.status = verdict.status,
                                !.retryAfter = IF verdict = RateLimited THEN limit.retryAfter ELSE 0]
           chosen  == IF verdict = Pass THEN passed
                      ELSE IF verdict.decision = "unaudited" THEN Done(refused) ELSE refused
<1>1. /\ q.stage = "arriving"
      /\ window' = IF before = Pass THEN [window EXCEPT ![client] = limit.window] ELSE window
      /\ told' = [d \in Devices |->
                    IF renewed /\ DeviceRequests[d].client = client THEN 0
                    ELSE IF verdict = RateLimited /\ IsAwaited(s) /\ Sender(s) = d
                    THEN told[d] + 1 ELSE told[d]]
      /\ request' = [request EXCEPT ![s] = chosen]
      /\ IF verdict.decision = "unaudited" THEN Unheeded(s, verdict.status) ELSE UNCHANGED untraced
  BY DEF Admit
<1>2. /\ UNCHANGED <<nextAt, pending, generated, waiting, inFlight, load, unsent, raw>>
      /\ UNCHANGED <<mqttQueue, failures, timeouts, restarts>>
      /\ raw' = raw /\ generated' = generated
  BY DEF Admit, fleetVars, exportVars, faultVars
<1>3. client \in Clients /\ window[client] \in Windows /\ q \in Requests /\ RequestOK(q)
  BY SlotFacts DEF IInv, Shapes
<1>4. /\ limit.window \in Windows /\ limit.retryAfter \in 0..W
      /\ window[client].age = W => limit.allowed /\ limit.window.count = 1
      /\ window[client].age # W => limit.window.age = window[client].age
      /\ ~limit.allowed => window[client].age # W /\ limit.retryAfter = W - window[client].age
  BY <1>3, LimitFacts
<1>5. /\ verdict = Pass \/ verdict.status \in {200, 204, 400, 401, 403, 404, 405, 413, 415, 429}
      /\ Sender(s) \in Devices => verdict.status \notin {200, 204}
      /\ verdict = RateLimited => before = Pass /\ ~limit.allowed /\ verdict.status = 429
      /\ verdict.decision = "unaudited" =>
           verdict # Pass /\ verdict # RateLimited /\ NeedsNoAudit(Content(s), verdict.status)
      /\ Pass.status = 0 /\ RateLimited # Pass
  <2> DEFINE after == AfterRateLimit(Content(s))
  <2>1. /\ \/ before = Pass
           \/ before.status \in {200, 401, 405, 415} /\ before.decision # "unaudited"
           \/ /\ before.status = 204 /\ Content(s).method = "OPTIONS"
              /\ before.decision = "unaudited"
        /\ before.status = 200 => Content(s).method = "GET"
        /\ \/ after = Pass
           \/ after.status \in {400, 403, 404, 413} /\ after.decision # "unaudited"
           \/ /\ after.status = 415 /\ Content(s).body = "unreadable"
              /\ after.decision = "unaudited"
        /\ Pass.status = 0 /\ RateLimited.status = 429 /\ RateLimited # Pass
        /\ Pass.decision # "unaudited" /\ RateLimited.decision # "unaudited"
    BY RuleFacts
  <2>2. Sender(s) \in Devices => Content(s).method \notin {"GET", "OPTIONS"}
    BY FleetRoute
  <2>3. /\ verdict = IF before # Pass THEN before ELSE IF limit.allowed THEN after ELSE RateLimited
        /\ Content(s).method = "OPTIONS" => NeedsNoAudit(Content(s), 204)
        /\ Content(s).body = "unreadable" => NeedsNoAudit(Content(s), 415)
    BY DEF NeedsNoAudit
  <2> HIDE DEF before, limit, after, verdict
  <2>4. verdict \in {before, after, RateLimited}
        /\ (verdict = RateLimited => \/ verdict = before \/ verdict = after
                                     \/ before = Pass /\ ~limit.allowed)
    BY <2>3
  <2> QED
    BY <2>1, <2>2, <2>3
<1> HIDE DEF q, client, before, limit, verdict, renewed, passed, refused, chosen
<1>6. /\ passed \in Requests /\ passed.stage = ServiceOf(s) /\ passed.heard = q.heard
      /\ passed.reading = q.reading /\ passed.answered = q.answered /\ passed.forgotten = q.forgotten
      /\ ServiceOf(s) \in {"ingestion", "dataspace", "elsewhere", "page"}
  <2>1. ServiceOf(s) \in {"ingestion", "dataspace", "elsewhere", "page"}
    BY DEF ServiceOf
  <2> QED
    BY <1>3, <2>1 DEF Requests, Stages, Downstream, passed
<1>7. verdict # Pass =>
        /\ refused \in Requests /\ refused.stage = "audit" /\ refused.heard = q.heard
        /\ refused.reading = q.reading /\ refused.answered = q.answered
        /\ refused.forgotten = q.forgotten /\ refused.status = verdict.status
        /\ verdict = RateLimited => refused.retryAfter = limit.retryAfter
  <2>1. (IF verdict = RateLimited THEN limit.retryAfter ELSE 0) \in 0..W
    BY <1>4, ConstantFacts
  <2>2. verdict # Pass => verdict.status \in Nat
    BY <1>5
  <2> QED
    BY <1>3, <2>1, <2>2 DEF Requests, Stages, refused
<1>8. PICK r : r = chosen
  OBVIOUS
<1>9. ~q.answered /\ ~q.forgotten
  BY <1>1, <1>3 DEF RequestOK, Downstream
<1>21. /\ r \in Requests /\ RequestOK(r) /\ (r.stage = "free" => q.heard)
       /\ r.stage # "free" => r.reading = q.reading /\ r.heard = q.heard
       /\ \/ verdict = Pass /\ r.stage = ServiceOf(s)
          \/ verdict # Pass /\ r.stage = "free"
          \/ verdict # Pass /\ r.stage \in {"audit", "done"} /\ r.status = verdict.status
       /\ verdict = RateLimited => r = refused
  <2>1. CASE verdict = Pass
    BY <1>5, <1>6, <1>8, <1>9, <2>1 DEF RequestOK, chosen
  <2>2. CASE verdict # Pass /\ verdict.decision = "unaudited"
    <3>1. r = Done(refused) /\ refused \in Requests /\ ~refused.forgotten /\ verdict # RateLimited
      BY <1>5, <1>7, <1>8, <1>9, <2>2 DEF chosen
    <3>2. /\ Done(refused) \in Requests /\ RequestOK(Done(refused))
          /\ Done(refused).stage = "free" => refused.heard
          /\ Done(refused).stage # "free" =>
               /\ Done(refused).stage = "done" /\ Done(refused).heard = refused.heard
               /\ Done(refused).reading = refused.reading /\ Done(refused).status = refused.status
      BY <3>1, DoneFacts
    <3> QED
      BY <1>7, <2>2, <3>1, <3>2
  <2>3. CASE verdict # Pass /\ verdict.decision # "unaudited"
    BY <1>7, <1>8, <1>9, <2>3 DEF RequestOK, chosen
  <2> QED
    BY <2>1, <2>2, <2>3
<1>11. Moves(s, r) /\ request' = [request EXCEPT ![s] = r]
  BY <1>1, <1>8, <1>21 DEF Moves, q
<1>12. ASSUME Sender(s) \in Devices PROVE CarrierOK(Sender(s), r)'
  <2>1. CarrierOK(Sender(s), q) /\ q.reading \in Nat
    BY <1>1, <1>3, <1>12, CarrierFacts DEF q, Requests
  <2>2. q.reading \in 1..generated[Sender(s)] /\ \A n \in 1..(q.reading - 1) : IsPublished(Sender(s), n)
    BY <1>1, <2>1 DEF CarrierOK
  <2>3. \/ r.stage \in {"free", "ingestion"}
        \/ r.stage \in {"audit", "done"} /\ r.status >= 400
    BY <1>5, <1>12, <1>21, FleetRoute
  <2>4. r.stage # "free" =>
          /\ r.reading \in 1..generated'[Sender(s)]
          /\ \A n \in 1..(r.reading - 1) : IsPublished(Sender(s), n)'
    BY <1>2, <1>12, <1>21, <2>1, <2>2, RawStays
  <2> QED
    BY <1>21, <2>3, <2>4 DEF CarrierOK, Requests
<1>13. /\ request' \in [Slots -> Requests]
       /\ \A t \in Slots : RequestOK(request[t])'
       /\ \A d \in Devices : DeviceOK(d)'
       /\ \A d \in Devices : \A n \in 1..generated'[d] : n # pending'[d] => IsPublished(d, n)'
       /\ \A d \in Devices, lane \in Lanes : CarrierOK(d, request[<<d, lane>>])'
       /\ CountInv'
  BY <1>2, <1>11, <1>12, RawStays, RequestMoves
<1>14. window' \in [Clients -> Windows] /\ told' \in [Devices -> Nat]
  BY <1>1, <1>3, <1>4 DEF IInv, Shapes
<1>20. untraced' \in Traces /\ TraceInv'
  <2>1. CASE verdict.decision = "unaudited"
    BY <1>1, <1>2, <1>5, <2>1, UnheededTrace
  <2>2. CASE verdict.decision # "unaudited"
    BY <1>1, <1>2, <2>2, NoFailure, TraceStays DEF IInv, Shapes
  <2> QED
    BY <2>1, <2>2
<1>15. Shapes'
  BY <1>2, <1>13, <1>14, <1>20 DEF IInv, Shapes
<1>16. ReadingsInv'
  BY <1>2, <1>13, RawStays DEF IInv, ReadingsInv
<1>17. MqttInv'
  BY <1>2 DEF IInv, MqttInv
<1>18. ASSUME NEW d \in Devices PROVE ToldOK(d)'
  <2> DEFINE mine == DeviceRequests[d].client
  <2>1. ToldOK(d) /\ DeviceOK(d) /\ mine \in Clients /\ window[mine].age \in 0..W
    BY SlotFacts DEF IInv, Shapes, Windows
  <2>2. CASE renewed /\ mine = client
    BY <1>1, <2>2 DEF ToldOK
  <2>3. CASE ~(renewed /\ mine = client)
    <3>1. window'[mine].age = window[mine].age
      BY <1>1, <1>3, <1>4, <2>1, <2>3 DEF IInv, Shapes, renewed
    <3>2. CASE verdict = RateLimited /\ IsAwaited(s) /\ Sender(s) = d
      <4>1. mine = client /\ Awaited(d) = s /\ Awaited(d)' = s /\ waiting[d] # 0
        BY <1>2, <3>2, SlotFacts DEF client, Content, IsAwaited, Awaited
      <4>2. r.stage = "audit" /\ r.status = 429 /\ r.retryAfter = W - window[mine].age
        BY <1>4, <1>5, <1>7, <1>21, <3>2, <4>1
      <4>3. window[mine].age # W
        BY <1>4, <1>5, <3>2, <4>1
      <4>4. told[d] = 0
        BY <1>1, <2>1, <4>1, <4>3 DEF ToldOK, q
      <4>5. told'[d] = 1
        BY <1>1, <2>3, <3>2, <4>4
      <4>6. request'[s] = r
        BY <1>11 DEF IInv, Shapes
      <4> QED
        BY <1>2, <2>1, <3>1, <4>1, <4>2, <4>5, <4>6, ConstantFacts DEF ToldOK
    <3>3. CASE ~(verdict = RateLimited /\ IsAwaited(s) /\ Sender(s) = d)
      <4>1. told'[d] = told[d]
        BY <1>1, <2>3, <3>3
      <4>2. CASE waiting[d] = 0
        BY <1>2, <2>1, <3>1, <4>1, <4>2 DEF ToldOK
      <4>3. CASE waiting[d] # 0
        <5>1. Awaited(d) \in Slots /\ Awaited(d)' = Awaited(d)
          BY <1>2, <4>3, AwaitedFacts DEF IInv, Awaited
        <5>2. request[Awaited(d)].stage \in {"audit", "done"} => request'[Awaited(d)] = request[Awaited(d)]
          BY <1>1, <1>11, <5>1 DEF IInv, Shapes, q
        <5> QED
          BY <1>2, <2>1, <3>1, <4>1, <4>3, <5>1, <5>2 DEF ToldOK
      <4> QED
        BY <4>2, <4>3
    <3> QED
      BY <3>2, <3>3
  <2> QED
    BY <2>2, <2>3
<1> QED
  BY <1>13, <1>15, <1>16, <1>17, <1>18, <1>20 DEF IInv

\* Only other clients ask for the gateway's own pages.
LEMMA ReadPageStep ==
  ASSUME IInv, NEW s \in Slots, ReadPage(s)
  PROVE  IInv'
<1> DEFINE q == request[s]
           answer(status) == [q EXCEPT !.stage = "audit", !.status = status]
<1>1. /\ q.stage = "page" /\ q \in Requests /\ ~q.answered /\ ~q.forgotten
      /\ Sender(s) \notin Devices
  <2>1. q.stage = "page"
    BY DEF ReadPage
  <2> QED
    BY <2>1, CarrierFacts DEF RequestOK, Downstream
<1>2. PICK status \in {200, 503} :
        \/ /\ status = 503 /\ Content(s).path.base \in PLATFORM_PAGES /\ Unheeded(s, 503)
           /\ request' = [request EXCEPT ![s] = Done(answer(503))]
        \/ UNCHANGED untraced /\ request' = [request EXCEPT ![s] = answer(status)]
  BY ZenonT(60) DEF ReadPage
<1>3. ASSUME NEW c \in {200, 503}
      PROVE  /\ answer(c) \in Requests /\ answer(c).stage = "audit"
             /\ ~answer(c).answered /\ ~answer(c).forgotten
  <2>1. q \in Requests /\ ~q.answered /\ ~q.forgotten /\ c \in Nat
    BY <1>1
  <2> HIDE DEF q
  <2> QED
    BY <2>1 DEF Requests, Stages
<1> HIDE DEF q, answer
<1>4. /\ UNCHANGED <<nextAt, pending, generated, waiting, inFlight, load, window, told>>
      /\ UNCHANGED <<raw, mqttQueue, failures, timeouts, restarts, unsent>>
  BY DEF ReadPage, fleetVars, exportVars, faultVars
<1>5. PICK r : r \in Requests /\ RequestOK(r) /\ request' = [request EXCEPT ![s] = r]
  <2>1. \A c \in {200, 503} : RequestOK(answer(c))
    BY <1>3 DEF RequestOK
  <2>2. Done(answer(503)) \in Requests /\ RequestOK(Done(answer(503)))
    BY <1>3, DoneFacts
  <2> QED
    BY <1>2, <1>3, <2>1, <2>2
<1>6. Moves(s, r)
  BY <1>1, <1>5 DEF Moves
<1>7. FailuresOK
  BY <1>4, NoFailure
<1>8. untraced' \in Traces /\ TraceInv'
  <2>1. CASE UNCHANGED untraced
    BY <1>4, <1>7, <2>1, TraceStays DEF IInv, Shapes
  <2>2. CASE Content(s).path.base \in PLATFORM_PAGES /\ Unheeded(s, 503)
    BY <1>4, <2>2, UnheededTrace DEF NeedsNoAudit
  <2> QED
    BY <1>2, <2>1, <2>2
<1> QED
  BY <1>1, <1>4, <1>5, <1>6, <1>7, <1>8, RequestMove

-----------------------------------------------------------------------------
(* The fleet                                                               *)

LEMMA CountFacts ==
  IsFiniteSet(Waiting) /\ Cardinality(Waiting) \in Nat
BY EdgeAssumption, FS_Subset, FS_CardinalityType DEF Waiting

\* A device's send ends.  Its reading is given up only when it is published.
LEMMA WaitEnds ==
  ASSUME IInv, NEW d \in Devices, waiting[d] # 0, NEW delay \in 1..(InFlight - 1),
         Settled(d, delay), Heard(d), generated' = generated, raw' = raw, load' = load,
         pending' = pending \/ (pending' = [pending EXCEPT ![d] = 0] /\ IsPublished(d, generated[d]))
  PROVE  /\ nextAt' \in [Devices -> -MaxOverdue..InFlight] /\ pending' \in [Devices -> Nat]
         /\ waiting' \in [Devices -> 0..MaxLanes] /\ inFlight' \in Nat
         /\ request' \in [Slots -> Requests]
         /\ nextAt'[d] = delay /\ waiting'[d] = 0
         /\ \A e \in Devices : e # d =>
              /\ nextAt'[e] = nextAt[e] /\ waiting'[e] = waiting[e]
              /\ waiting[e] # 0 => request'[Awaited(e)] = request[Awaited(e)]
         /\ \A s \in Slots : RequestOK(request[s])'
         /\ \A e \in Devices : DeviceOK(e)'
         /\ ReadingsInv'
         /\ CountInv'
<1> DEFINE q == request[Awaited(d)]
           heard == [q EXCEPT !.heard = TRUE]
<1>1. /\ Awaited(d) \in Slots /\ Sender(Awaited(d)) = d /\ Awaited(d) = <<d, waiting[d]>>
      /\ waiting[d] \in Lanes
  BY AwaitedFacts, SlotFacts DEF IInv
<1>2. q \in Requests /\ RequestOK(q) /\ q.stage # "free"
  BY <1>1 DEF IInv, Shapes, DeviceOK
<1>3. PICK r : r = Over(heard)
  OBVIOUS
<1>4. /\ heard \in Requests /\ heard.stage = q.stage /\ heard.answered = q.answered /\ heard.heard
      /\ heard.forgotten = q.forgotten /\ heard.reading = q.reading /\ heard.status = q.status
  BY <1>2 DEF Requests
<1>5. r = IF q.stage = "done" THEN Free ELSE heard
  BY <1>3, <1>4 DEF Over
<1>6. request' = [request EXCEPT ![Awaited(d)] = r]
  BY <1>3 DEF Heard
<1> HIDE DEF q, heard
<1>7. r \in Requests /\ RequestOK(r)
  BY <1>2, <1>4, <1>5, FreeFacts DEF RequestOK
<1>8. /\ request' \in [Slots -> Requests] /\ request'[Awaited(d)] = r
      /\ \A s \in Slots : s # Awaited(d) => request'[s] = request[s]
  BY <1>1, <1>6, <1>7 DEF IInv, Shapes
<1>9. /\ nextAt' \in [Devices -> -MaxOverdue..InFlight] /\ nextAt'[d] = delay
      /\ waiting' \in [Devices -> 0..MaxLanes] /\ waiting'[d] = 0
      /\ \A e \in Devices : e # d => nextAt'[e] = nextAt[e] /\ waiting'[e] = waiting[e]
  <2>1. /\ nextAt \in [Devices -> -MaxOverdue..InFlight] /\ waiting \in [Devices -> 0..MaxLanes]
        /\ nextAt' = [nextAt EXCEPT ![d] = delay] /\ waiting' = [waiting EXCEPT ![d] = 0]
    BY DEF Settled, IInv, Shapes
  <2>2. delay \in -MaxOverdue..InFlight /\ 0 \in 0..MaxLanes
    BY ConstantFacts
  <2> QED
    BY <2>1, <2>2
<1>10. /\ pending' \in [Devices -> Nat]
       /\ \A e \in Devices : e # d => pending'[e] = pending[e]
       /\ pending'[d] = pending[d] \/ (pending'[d] = 0 /\ IsPublished(d, generated[d]))
  <2>1. pending \in [Devices -> Nat]
    BY DEF IInv, Shapes
  <2> QED
    BY <2>1
<1>11. \A s \in Slots : RequestOK(request[s])'
  BY <1>7, <1>8 DEF IInv, RequestOK
<1>12. \A e \in Devices : e # d /\ waiting[e] # 0 =>
         /\ Awaited(e) \in Slots /\ Awaited(e) # Awaited(d) /\ Awaited(e)' = Awaited(e)
         /\ request'[Awaited(e)] = request[Awaited(e)]
  BY <1>1, <1>8, <1>9, AwaitedFacts, SlotFacts DEF IInv, Awaited
<1>13. ASSUME NEW e \in Devices PROVE DeviceOK(e)'
  <2>1. DeviceOK(e)
    BY DEF IInv
  <2>2. CASE e = d
    BY <1>9, <1>10, <2>1, <2>2, ConstantFacts DEF DeviceOK
  <2>3. CASE e # d
    BY <1>9, <1>10, <1>12, <2>1, <2>3 DEF DeviceOK
  <2> QED
    BY <2>2, <2>3
<1>14. ReadingsInv'
  <2>1. ASSUME NEW e \in Devices, NEW lane \in Lanes PROVE CarrierOK(e, request[<<e, lane>>])'
    <3>1. <<e, lane>> \in Slots /\ CarrierOK(e, request[<<e, lane>>]) /\ generated[e] \in Nat
      BY SlotFacts DEF IInv, ReadingsInv, Shapes
    <3> PICK p : p = request'[<<e, lane>>]
      OBVIOUS
    <3>2. CarrierOK(e, p) /\ p.reading \in Nat
      <4>1. CASE <<e, lane>> = Awaited(d)
        BY <1>2, <1>4, <1>5, <1>7, <1>8, <3>1, <4>1, FreeFacts DEF CarrierOK, q, Requests
      <4>2. CASE <<e, lane>> # Awaited(d)
        BY <1>8, <3>1, <4>2 DEF Requests
      <4> QED
        BY <4>1, <4>2
    <3>3. CarrierOK(e, p)'
      BY <3>2, RawStays DEF CarrierOK
    <3> QED
      BY <3>3
  <2>2. ASSUME NEW e \in Devices, NEW n \in 1..generated[e], n # pending'[e] PROVE IsPublished(e, n)
    <3>1. n # pending[e] => IsPublished(e, n)
      BY DEF IInv, ReadingsInv
    <3>2. pending[e] \in {0, generated[e]} /\ generated[e] \in Nat
      BY DEF IInv, DeviceOK, Shapes
    <3> QED
      BY <1>10, <2>2, <3>1, <3>2
  <2>3. \A e \in Devices : \A n \in 1..generated'[e] : n # pending'[e] => IsPublished(e, n)'
    <3>1. /\ \A e \in Devices : generated[e] \in Nat
          /\ \A e \in Devices, n \in Nat : IsPublished(e, n)' <=> IsPublished(e, n)
      BY RawStays DEF IInv, Shapes
    <3> QED
      BY <2>2, <3>1
  <2> QED
    BY <2>1, <2>3, RawStays DEF IInv, ReadingsInv
<1>15. CountInv' /\ inFlight' \in Nat
  <2>1. Waiting' = Waiting \ {d} /\ d \in Waiting
    BY <1>9 DEF Waiting
  <2>2. Cardinality(Waiting') = Cardinality(Waiting) - 1 /\ Cardinality(Waiting') \in Nat
    BY <2>1, CountFacts, FS_RemoveElement, FS_CardinalityType
  <2>3. inFlight = Cardinality(Waiting) /\ inFlight <= load.maxInFlight /\ inFlight' = inFlight - 1
    BY DEF IInv, CountInv, Settled
  <2>4. load.maxInFlight \in Nat
    BY ConstantFacts DEF IInv, Shapes
  <2> QED
    BY <2>2, <2>3, <2>4, CountFacts DEF CountInv
<1> QED
  BY <1>8, <1>9, <1>10, <1>11, <1>12, <1>13, <1>14, <1>15

LEMMA SettleStep ==
  ASSUME IInv, NEW d \in Devices, Settle(d)
  PROVE  IInv'
<1> DEFINE answer == request[Awaited(d)]
<1>1. /\ waiting[d] # 0 /\ answer.answered /\ Heard(d)
      /\ UNCHANGED <<generated, window, told, untraced, unsent, raw, mqttQueue>>
      /\ UNCHANGED <<failures, timeouts, restarts, load>>
      /\ generated' = generated /\ raw' = raw /\ load' = load
  BY DEF Settle, exportVars, faultVars
<1>2. /\ Awaited(d) \in Slots /\ Awaited(d) = <<d, waiting[d]>> /\ waiting[d] \in Lanes
  BY <1>1, AwaitedFacts DEF IInv
<1>3. /\ answer \in Requests /\ answer.stage \in {"audit", "done"}
      /\ answer.reading = pending[d] /\ pending[d] = generated[d]
      /\ CarrierOK(d, answer)
  <2>1. answer \in Requests /\ RequestOK(answer) /\ DeviceOK(d)
    BY <1>2 DEF IInv, Shapes
  <2>2. CarrierOK(d, answer)
    BY <1>2 DEF IInv, ReadingsInv
  <2>3. answer.reading = pending[d] /\ pending[d] = generated[d]
    BY <1>1, <2>1 DEF DeviceOK
  <2> QED
    BY <1>1, <2>1, <2>2, <2>3 DEF RequestOK
<1>4. PICK delay \in 1..(InFlight - 1) :
        /\ Settled(d, delay)
        /\ \/ answer.status < 300 /\ pending' = [pending EXCEPT ![d] = 0]
           \/ ~(answer.status < 300) /\ pending' = pending /\ delay >= answer.retryAfter
  <2>1. CASE answer.status < 300
    BY <2>1, ConstantFacts DEF Settle, NoReading
  <2>2. CASE ~(answer.status < 300)
    <3>1. answer.retryAfter \in 0..W
      BY <1>3 DEF Requests
    <3>2. /\ Max({1, answer.retryAfter}) \in 1..(InFlight - 1)
          /\ Max({1, answer.retryAfter}) >= answer.retryAfter
      BY <3>1, ConstantFacts, MaxOfTwo
    <3> QED
      BY <2>2, <3>2 DEF Settle
  <2> QED
    BY <2>1, <2>2
<1>5. pending' = pending \/ (pending' = [pending EXCEPT ![d] = 0] /\ IsPublished(d, generated[d]))
  BY <1>3, <1>4 DEF CarrierOK
<1>6. /\ nextAt' \in [Devices -> -MaxOverdue..InFlight] /\ pending' \in [Devices -> Nat]
      /\ waiting' \in [Devices -> 0..MaxLanes] /\ inFlight' \in Nat
      /\ request' \in [Slots -> Requests]
      /\ nextAt'[d] = delay /\ waiting'[d] = 0
      /\ \A e \in Devices : e # d =>
           /\ nextAt'[e] = nextAt[e] /\ waiting'[e] = waiting[e]
           /\ waiting[e] # 0 => request'[Awaited(e)] = request[Awaited(e)]
      /\ \A s \in Slots : RequestOK(request[s])'
      /\ \A e \in Devices : DeviceOK(e)'
      /\ ReadingsInv'
      /\ CountInv'
  BY <1>1, <1>4, <1>5, WaitEnds
<1>7. Shapes'
  BY <1>1, <1>6 DEF IInv, Shapes
<1>8. MqttInv'
  BY <1>1 DEF IInv, MqttInv
<1>9. ASSUME NEW e \in Devices PROVE ToldOK(e)'
  <2> DEFINE mine == DeviceRequests[e].client
  <2>1. ToldOK(e) /\ window[mine].age \in 0..W /\ window' = window /\ told' = told
    BY <1>1, SlotFacts DEF IInv, Shapes, Windows
  <2>2. CASE e = d
    <3>1. answer.retryAfter \in 0..W /\ ~(429 < 300)
      BY <1>3 DEF Requests
    <3> QED
      BY <1>1, <1>4, <1>6, <2>1, <2>2, <3>1, ConstantFacts DEF ToldOK
  <2>3. CASE e # d
    BY <1>6, <2>1, <2>3 DEF ToldOK, Awaited
  <2> QED
    BY <2>2, <2>3
<1>10. TraceInv'
  BY <1>1, NoFailure, TraceStays
<1> QED
  BY <1>6, <1>7, <1>8, <1>9, <1>10 DEF IInv

LEMMA TimeoutStep ==
  ASSUME IInv, NEW d \in Devices, Timeout(d)
  PROVE  IInv'
<1>1. /\ waiting[d] # 0 /\ Heard(d) /\ Settled(d, RetryDelay) /\ MayDisturb
      /\ UNCHANGED <<pending, generated, window, untraced, unsent, raw, mqttQueue>>
      /\ UNCHANGED <<failures, restarts, load>> /\ timeouts' = timeouts + 1
      /\ generated' = generated /\ raw' = raw /\ load' = load /\ pending' = pending
      /\ told' = [told EXCEPT ![d] = 0]
  BY DEF Timeout, exportVars
<1>2. /\ nextAt' \in [Devices -> -MaxOverdue..InFlight] /\ pending' \in [Devices -> Nat]
      /\ waiting' \in [Devices -> 0..MaxLanes] /\ inFlight' \in Nat
      /\ request' \in [Slots -> Requests]
      /\ \A e \in Devices : e # d =>
           /\ nextAt'[e] = nextAt[e] /\ waiting'[e] = waiting[e]
           /\ waiting[e] # 0 => request'[Awaited(e)] = request[Awaited(e)]
      /\ \A s \in Slots : RequestOK(request[s])'
      /\ \A e \in Devices : DeviceOK(e)'
      /\ ReadingsInv'
      /\ CountInv'
  BY <1>1, ConstantFacts, WaitEnds
<1>3. Shapes'
  <2>1. told' \in [Devices -> Nat]
    BY <1>1 DEF IInv, Shapes
  <2>2. timeouts' \in Nat /\ failures' + timeouts' + restarts' <= load'.disturbances
    <3>1. load \in Loads /\ failures \in Nat /\ timeouts \in Nat /\ restarts \in Nat
      BY DEF IInv, Shapes
    <3>2. failures + timeouts + restarts < load.disturbances /\ load.disturbances \in Nat
      BY <1>1, <3>1, ConstantFacts DEF MayDisturb
    <3>3. /\ failures' = failures /\ restarts' = restarts /\ load' = load
          /\ timeouts' = timeouts + 1
      BY <1>1
    <3> QED
      BY <3>1, <3>2, <3>3
  <2>3. Shapes
    BY DEF IInv
  <2>4. /\ load' \in Loads /\ generated' \in [Devices -> Nat]
        /\ window' \in [Clients -> Windows]
        /\ untraced' \in Traces
    BY <1>1, <2>3 DEF Shapes
  <2>5. /\ raw' \in [Keys -> Seq(RawMessages)]
        /\ unsent' \subseteq load'.requests /\ mqttQueue' \subseteq load'.messages
        /\ failures' \in Nat /\ restarts' \in Nat
    BY <1>1, <2>3 DEF Shapes
  <2> QED
    BY <1>2, <2>1, <2>2, <2>4, <2>5 DEF Shapes
<1>4. MqttInv'
  BY <1>1 DEF IInv, MqttInv
<1>5. ASSUME NEW e \in Devices PROVE ToldOK(e)'
  <2>1. ToldOK(e) /\ told'[e] = IF e = d THEN 0 ELSE told[e]
    BY <1>1 DEF IInv, Shapes
  <2>2. CASE e = d
    BY <2>1, <2>2 DEF ToldOK
  <2>3. CASE e # d
    BY <1>1, <1>2, <2>1, <2>3 DEF ToldOK, Awaited
  <2> QED
    BY <2>2, <2>3
<1>6. TraceInv'
  BY <1>1 DEF IInv, TraceInv
<1> QED
  BY <1>2, <1>3, <1>4, <1>5, <1>6 DEF IInv

\* A tick brings the next turn and the end of a window equally closer.
LEMMA TickStep ==
  ASSUME IInv, Tick
  PROVE  IInv'
<1>1. /\ UNCHANGED <<pending, generated, waiting, inFlight, request, told, untraced, unsent, raw>>
      /\ UNCHANGED <<mqttQueue, failures, timeouts, restarts, load>>
      /\ generated' = generated /\ raw' = raw /\ request' = request /\ waiting' = waiting
  BY DEF Tick, exportVars, faultVars
<1>2. ASSUME NEW d \in Devices
      PROVE  /\ nextAt'[d] \in -MaxOverdue..InFlight
             /\ nextAt[d] = InFlight => nextAt'[d] = InFlight
             /\ nextAt[d] # InFlight => nextAt'[d] # InFlight /\ nextAt'[d] >= nextAt[d] - 1
  <2>1. nextAt[d] \in -MaxOverdue..InFlight /\ MaxOverdue \in Nat /\ InFlight \in Nat /\ InFlight > 0
    BY ConstantFacts DEF IInv, Shapes
  <2>2. nextAt'[d] = IF nextAt[d] = InFlight THEN InFlight ELSE Max({-MaxOverdue, nextAt[d] - 1})
    BY DEF Tick
  <2>3. Max({-MaxOverdue, nextAt[d] - 1})
          = IF -MaxOverdue >= nextAt[d] - 1 THEN -MaxOverdue ELSE nextAt[d] - 1
    BY <2>1, MaxOfTwo
  <2> QED
    BY <2>1, <2>2, <2>3
<1>3. nextAt' \in [Devices -> -MaxOverdue..InFlight]
  <2>1. nextAt' = [d \in Devices |-> nextAt'[d]]
    BY DEF Tick
  <2> QED
    BY <1>2, <2>1
<1>4. ASSUME NEW c \in Clients
      PROVE  /\ window'[c] \in Windows /\ window[c].age \in 0..W
             /\ window'[c].age = IF window[c].age = W THEN W ELSE window[c].age + 1
  <2>1. window[c] \in Windows /\ W \in Nat
    BY ConstantFacts DEF IInv, Shapes
  <2>2. window'[c] = IF window[c].age >= W THEN NoWindow ELSE [window[c] EXCEPT !.age = @ + 1]
    BY DEF Tick, W
  <2>3. NoWindow \in Windows /\ NoWindow.age = W
    BY <2>1 DEF NoWindow, Windows, W
  <2>4. CASE window[c].age >= W
    BY <2>1, <2>2, <2>3, <2>4 DEF Windows
  <2>5. CASE ~(window[c].age >= W)
    BY <2>1, <2>2, <2>5 DEF Windows
  <2> QED
    BY <2>4, <2>5
<1>5. window' \in [Clients -> Windows]
  <2>1. window' = [c \in Clients |-> window'[c]]
    BY DEF Tick
  <2> QED
    BY <1>4, <2>1
<1>6. Shapes'
  BY <1>1, <1>3, <1>5 DEF IInv, Shapes
<1>7. \A s \in Slots : RequestOK(request[s])'
  BY <1>1 DEF IInv, RequestOK
<1>8. \A d \in Devices : DeviceOK(d)'
  BY <1>1, <1>2 DEF IInv, DeviceOK, Awaited
<1>9. ReadingsInv'
  <2>1. ASSUME NEW d \in Devices, NEW lane \in Lanes PROVE CarrierOK(d, request[<<d, lane>>])'
    <3> PICK r : r = request[<<d, lane>>]
      OBVIOUS
    <3>1. CarrierOK(d, r) /\ r.reading \in Nat
      BY SlotFacts DEF IInv, ReadingsInv, Shapes, Requests
    <3>2. CarrierOK(d, r)'
      BY <1>1, <3>1, RawStays DEF CarrierOK
    <3> QED
      BY <1>1, <3>2
  <2>2. \A d \in Devices : \A n \in 1..generated'[d] : n # pending'[d] => IsPublished(d, n)'
    BY <1>1, RawStays DEF IInv, Shapes, ReadingsInv
  <2> QED
    BY <1>1, <2>1, <2>2, RawStays DEF IInv, ReadingsInv
<1>10. MqttInv' /\ CountInv'
  BY <1>1 DEF IInv, MqttInv, CountInv, Waiting
<1>11. ASSUME NEW d \in Devices PROVE ToldOK(d)'
  <2> DEFINE mine == DeviceRequests[d].client
  <2>1. ToldOK(d) /\ DeviceOK(d) /\ mine \in Clients /\ W \in Nat
    BY SlotFacts, ConstantFacts DEF IInv
  <2>2. nextAt[d] \in Int /\ nextAt'[d] \in Int
    BY <1>2 DEF IInv, Shapes
  <2>3. window'[mine].age = IF window[mine].age = W THEN W ELSE window[mine].age + 1
    BY <1>4, <2>1
  <2>4. waiting[d] = 0 => nextAt'[d] >= nextAt[d] - 1
    BY <1>2, <2>1 DEF DeviceOK
  <2>5. waiting[d] # 0 => request[Awaited(d)].retryAfter \in Nat
    <3>1. Shapes
      BY DEF IInv
    <3>2. waiting[d] # 0 => request[Awaited(d)] \in Requests
      BY <3>1, AwaitedFacts DEF Shapes
    <3> QED
      BY <3>2, ConstantFacts DEF Requests
  <2>6. window[mine].age \in 0..W
    BY <1>4, <2>1
  <2> QED
    BY <1>1, <2>1, <2>2, <2>3, <2>4, <2>5, <2>6 DEF ToldOK, Awaited
<1>12. TraceInv'
  BY <1>1, NoFailure, TraceStays
<1> QED
  BY <1>6, <1>7, <1>8, <1>9, <1>10, <1>11, <1>12 DEF IInv

LEMMA StepStep ==
  ASSUME IInv, Step
  PROVE  IInv'
<1> DEFINE capacity == load.maxInFlight - inFlight
           chosen   == {d \in Due : Cardinality({e \in Due : Before(e, d)}) < capacity}
           new      == {d \in chosen : pending[d] = NoReading}
           lane     == [d \in chosen |-> Min({l \in Lanes : request[<<d, l>>] = Free})]
<1>1. /\ inFlight' = inFlight + Cardinality(chosen)
      /\ generated' = [d \in Devices |-> generated[d] + (IF d \in new THEN 1 ELSE 0)]
      /\ pending' = [d \in Devices |-> IF d \in new THEN generated[d] + 1 ELSE pending[d]]
      /\ nextAt' = [d \in Devices |-> IF d \in chosen THEN InFlight ELSE nextAt[d]]
      /\ waiting' = [d \in Devices |-> IF d \in chosen THEN lane[d] ELSE waiting[d]]
      /\ request' = [s \in Slots |->
                       IF \E d \in chosen : s = <<d, lane[d]>>
                       THEN [Free EXCEPT !.stage = "arriving", !.reading = pending'[Sender(s)]]
                       ELSE request[s]]
  BY DEF Step, Emit
<1>22. inFlight' = inFlight + Cardinality(chosen)
  BY <1>1
<1>2. /\ UNCHANGED <<window, told, untraced, unsent, raw, mqttQueue>>
      /\ UNCHANGED <<failures, timeouts, restarts, load>>
      /\ raw' = raw /\ load' = load
  BY DEF Step, exportVars, faultVars
<1>3. capacity \in Nat /\ inFlight = Cardinality(Waiting)
  BY ConstantFacts DEF IInv, Shapes, CountInv
<1>4. chosen \subseteq Due /\ Due \subseteq Devices
  BY DEF Due
<1>5. IsFiniteSet(chosen) /\ Cardinality(chosen) <= capacity /\ Cardinality(chosen) \in Nat
  <2>1. nextAt \in [Devices -> Int]
    BY DEF IInv, Shapes
  <2>2. IsFiniteSet(chosen) /\ Cardinality(chosen) <= capacity
    BY <1>3, <1>4, <2>1, RankBound
  <2> QED
    BY <2>2, FS_CardinalityType
<1>6. ASSUME NEW d \in chosen
      PROVE  /\ d \in Devices /\ nextAt[d] <= 0 /\ waiting[d] = 0
             /\ pending[d] # 0 \/ generated[d] < load.readings
             /\ lane[d] \in Lanes /\ request[<<d, lane[d]>>] = Free
  <2>1. d \in Due /\ d \in Devices
    BY <1>4
  <2>2. nextAt[d] <= 0 /\ (pending[d] # 0 \/ generated[d] < load.readings)
    BY <2>1 DEF Due, NoReading
  <2>3. {l \in Lanes : request[<<d, l>>] = Free} # {}
    BY <2>1 DEF Due
  <2>4. {l \in Lanes : request[<<d, l>>] = Free} \in SUBSET Nat
    BY SlotFacts
  <2>5. lane[d] \in {l \in Lanes : request[<<d, l>>] = Free}
    BY <2>3, <2>4, LeastOf
  <2>6. nextAt[d] # InFlight
    BY <2>1, <2>2, ConstantFacts DEF IInv, Shapes
  <2> QED
    BY <2>1, <2>2, <2>5, <2>6 DEF IInv, DeviceOK
<1> HIDE DEF capacity, chosen, lane
<1>7. /\ generated \in [Devices -> Nat] /\ pending \in [Devices -> Nat]
      /\ \A d \in Devices : DeviceOK(d) /\ ToldOK(d)
  BY DEF IInv, Shapes
<1>8. ASSUME NEW d \in Devices
      PROVE  /\ generated'[d] \in Nat /\ pending'[d] \in Nat
             /\ generated[d] <= generated'[d] /\ generated'[d] <= load.readings
             /\ pending'[d] \in {0, generated'[d]}
             /\ d \in chosen => pending'[d] # 0 /\ pending'[d] = generated'[d]
             /\ d \notin chosen => pending'[d] = pending[d] /\ generated'[d] = generated[d]
             /\ \A n \in 1..generated'[d] : n # pending'[d] => IsPublished(d, n)
  <2>1. /\ generated'[d] = generated[d] + (IF d \in chosen /\ pending[d] = 0 THEN 1 ELSE 0)
        /\ pending'[d] = IF d \in chosen /\ pending[d] = 0 THEN generated[d] + 1 ELSE pending[d]
    BY <1>1 DEF NoReading
  <2>2. pending[d] \in {0, generated[d]} /\ generated[d] <= load.readings /\ load.readings \in Nat
    BY <1>7, ConstantFacts DEF DeviceOK, IInv, Shapes
  <2>3. d \in chosen => pending[d] # 0 \/ generated[d] < load.readings
    BY <1>6
  <2>4. \A n \in 1..generated[d] : n # pending[d] => IsPublished(d, n)
    BY DEF IInv, ReadingsInv
  <2> QED
    BY <1>7, <2>1, <2>2, <2>3, <2>4
<1>9. \A d \in Devices : waiting'[d] = (IF d \in chosen THEN lane[d] ELSE waiting[d])
                         /\ nextAt'[d] = (IF d \in chosen THEN InFlight ELSE nextAt[d])
  BY <1>1
<1>10. ASSUME NEW d \in chosen
       PROVE  /\ <<d, lane[d]>> \in Slots
              /\ request'[<<d, lane[d]>>].stage = "arriving"
              /\ request'[<<d, lane[d]>>].reading = pending'[d]
              /\ ~request'[<<d, lane[d]>>].heard /\ ~request'[<<d, lane[d]>>].answered
              /\ ~request'[<<d, lane[d]>>].forgotten
              /\ request'[<<d, lane[d]>>] \in Requests
  <2>1. d \in Devices /\ <<d, lane[d]>> \in Slots /\ Sender(<<d, lane[d]>>) = d
    BY <1>6, SlotFacts
  <2>2. request'[<<d, lane[d]>>] = [Free EXCEPT !.stage = "arriving", !.reading = pending'[d]]
    BY <1>1, <2>1
  <2>3. Free \in Requests /\ ~Free.heard /\ ~Free.answered /\ ~Free.forgotten /\ pending'[d] \in Nat
    BY <1>8, <2>1, FreeFacts DEF Free
  <2> QED
    BY <2>1, <2>2, <2>3 DEF Requests, Stages
<1>11. ASSUME NEW s \in Slots
       PROVE  (\E d \in chosen : s = <<d, lane[d]>>) \/ request'[s] = request[s]
  BY <1>1
<1>12. request' \in [Slots -> Requests]
  <2>1. \A s \in Slots : request'[s] \in Requests
    BY <1>10, <1>11 DEF IInv, Shapes
  <2> DEFINE at(s) == IF \E d \in chosen : s = <<d, lane[d]>>
                      THEN [Free EXCEPT !.stage = "arriving", !.reading = pending'[Sender(s)]]
                      ELSE request[s]
  <2>3. request' = [s \in Slots |-> at(s)]
    BY <1>1
  <2> HIDE DEF at
  <2>2. request' = [s \in Slots |-> request'[s]]
    BY <2>3
  <2> QED
    BY <2>1, <2>2
<1>13. Shapes'
  <2>a. \A d \in Devices : nextAt'[d] \in -MaxOverdue..InFlight
    <3>1. InFlight \in -MaxOverdue..InFlight /\ \A d \in Devices : nextAt[d] \in -MaxOverdue..InFlight
      BY ConstantFacts DEF IInv, Shapes
    <3> QED
      BY <1>9, <3>1
  <2>b. \A d \in Devices : waiting'[d] \in 0..MaxLanes
    <3>1. \A d \in chosen : lane[d] \in Lanes
      BY <1>6
    <3>2. Lanes \subseteq 0..MaxLanes
      BY ConstantFacts DEF Lanes
    <3>3. \A d \in Devices : waiting[d] \in 0..MaxLanes
      BY DEF IInv, Shapes
    <3> QED
      BY <1>9, <3>1, <3>2, <3>3
  <2>1. nextAt' \in [Devices -> -MaxOverdue..InFlight]
    <3>1. nextAt' = [d \in Devices |-> IF d \in chosen THEN InFlight ELSE nextAt[d]]
      BY <1>1
    <3> QED
      BY <2>a, <3>1
  <2>2. waiting' \in [Devices -> 0..MaxLanes]
    <3>1. waiting' = [d \in Devices |-> IF d \in chosen THEN lane[d] ELSE waiting[d]]
      BY <1>1
    <3> QED
      BY <2>b, <3>1
  <2>3. pending' \in [Devices -> Nat] /\ generated' \in [Devices -> Nat]
    <3>1. /\ generated' = [d \in Devices |-> generated[d] + (IF d \in new THEN 1 ELSE 0)]
          /\ pending' = [d \in Devices |-> IF d \in new THEN generated[d] + 1 ELSE pending[d]]
      BY <1>1
    <3> HIDE DEF new
    <3> QED
      BY <1>8, <3>1
  <2>4. inFlight' \in Nat
    BY <1>22, <1>5 DEF IInv, Shapes
  <2> QED
    BY <1>2, <1>12, <2>1, <2>2, <2>3, <2>4 DEF IInv, Shapes
<1>14. ASSUME NEW s \in Slots PROVE RequestOK(request[s])'
  <2>1. CASE \E d \in chosen : s = <<d, lane[d]>>
    BY <1>10, <2>1 DEF RequestOK
  <2>2. CASE request'[s] = request[s]
    BY <2>2 DEF IInv, RequestOK
  <2> QED
    BY <1>11, <2>1, <2>2
<1>15. ASSUME NEW d \in Devices, d \notin chosen, waiting[d] # 0
       PROVE  Awaited(d)' = Awaited(d) /\ request'[Awaited(d)] = request[Awaited(d)]
  <2>1. Awaited(d) \in Slots /\ Awaited(d)' = Awaited(d) /\ Awaited(d)[1] = d
    BY <1>9, <1>15, AwaitedFacts DEF IInv, Awaited
  <2> QED
    BY <1>11, <1>15, <2>1
<1>16. ASSUME NEW d \in Devices PROVE DeviceOK(d)'
  <2>1. CASE d \in chosen
    <3>1. Awaited(d)' = <<d, lane[d]>> /\ waiting'[d] # 0 /\ nextAt'[d] = InFlight
      BY <1>6, <1>9, <2>1, SlotFacts DEF Awaited
    <3> QED
      BY <1>2, <1>8, <1>10, <2>1, <3>1 DEF DeviceOK
  <2>2. CASE d \notin chosen
    BY <1>2, <1>7, <1>8, <1>9, <1>15, <2>2 DEF DeviceOK
  <2> QED
    BY <2>1, <2>2
<1>17. ReadingsInv'
  <2>1. ASSUME NEW d \in Devices, NEW l \in Lanes PROVE CarrierOK(d, request[<<d, l>>])'
    <3> PICK r : r = request'[<<d, l>>]
      OBVIOUS
    <3>1. <<d, l>> \in Slots /\ CarrierOK(d, request[<<d, l>>]) /\ generated[d] \in Nat
          /\ request[<<d, l>>].reading \in Nat
      BY SlotFacts DEF IInv, ReadingsInv, Shapes, Requests
    <3>2. r.stage # "free" =>
            /\ r.stage \in {"arriving", "ingestion", "audit", "done"}
            /\ r.reading \in 1..generated'[d]
            /\ \A n \in 1..(r.reading - 1) : IsPublished(d, n)
            /\ r.stage \in {"audit", "done"} /\ r.status < 300 => IsPublished(d, r.reading)
      <4>1. CASE r = request[<<d, l>>]
        BY <1>8, <3>1, <4>1 DEF CarrierOK
      <4>2. CASE \E e \in chosen : <<d, l>> = <<e, lane[e]>>
        <5>1. d \in chosen /\ l = lane[d]
          BY <4>2
        <5>2. r.stage = "arriving" /\ r.reading = pending'[d]
          BY <1>10, <5>1
        <5> QED
          BY <1>8, <5>1, <5>2
      <4> QED
        BY <1>11, <3>1, <4>1, <4>2
    <3>3. r.reading \in Nat
      BY <1>12, <3>1 DEF Requests
    <3>4. CarrierOK(d, r)'
      BY <1>2, <3>2, <3>3, RawStays DEF CarrierOK
    <3> QED
      BY <3>4
  <2>2. \A d \in Devices : \A n \in 1..generated'[d] : n # pending'[d] => IsPublished(d, n)'
    BY <1>2, <1>8, RawStays
  <2> QED
    BY <1>2, <2>1, <2>2, RawStays DEF IInv, ReadingsInv
<1>18. MqttInv'
  BY <1>2 DEF IInv, MqttInv
<1>19. CountInv'
  <2>1. Waiting' = Waiting \cup chosen /\ Waiting \cap chosen = {}
    BY <1>4, <1>6, <1>9, SlotFacts DEF Waiting
  <2>2. Cardinality(Waiting') = Cardinality(Waiting) + Cardinality(chosen)
    BY <1>5, <2>1, CountFacts, FS_Union, FS_EmptySet
  <2>3. load.maxInFlight \in Nat
    BY ConstantFacts DEF IInv, Shapes
  <2> QED
    BY <1>2, <1>3, <1>5, <1>22, <2>2, <2>3, CountFacts DEF CountInv, capacity
<1>20. ASSUME NEW d \in Devices PROVE ToldOK(d)'
  <2>1. CASE d \in chosen
    <3>1. nextAt[d] \in Int /\ window[DeviceRequests[d].client].age \in 0..W /\ W \in Nat
      BY SlotFacts, ConstantFacts DEF IInv, Shapes, Windows
    <3>2. told[d] = 0 \/ (told[d] = 1 /\ window[DeviceRequests[d].client].age = W)
      <4>1. waiting[d] = 0 /\ nextAt[d] <= 0 /\ ToldOK(d)
        BY <1>6, <1>7, <2>1
      <4> QED
        BY <3>1, <4>1 DEF ToldOK
    <3> QED
      BY <1>2, <3>2 DEF ToldOK
  <2>2. CASE d \notin chosen
    BY <1>2, <1>7, <1>9, <1>15, <2>2 DEF ToldOK
  <2> QED
    BY <2>1, <2>2
<1>21. TraceInv'
  BY <1>2, NoFailure, TraceStays
<1> QED
  BY <1>13, <1>14, <1>16, <1>17, <1>18, <1>19, <1>20, <1>21 DEF IInv

\* A restart is heard by every device whose answer is still to come.
LEMMA RestartStep ==
  ASSUME IInv, Restart
  PROVE  IInv'
<1> DEFINE cut == {d \in Devices : waiting[d] # 0 /\ ~request[Awaited(d)].answered}
           unaudited == {s \in Slots : request[s].answered /\ request[s].stage = "audit"}
           left(q) == [q EXCEPT !.forgotten = TRUE, !.heard = TRUE]
           done(q) == [q EXCEPT !.stage = "done"]
           after(q) == IF q.stage \in Downstream THEN left(q)
                       ELSE IF q.answered THEN Over(done(q)) ELSE Free
<1>1. /\ window' = [c \in Clients |-> NoWindow] /\ told' = [d \in Devices |-> 0]
      /\ untraced' = [untraced EXCEPT !.answeredFirst = @ + Cardinality(unaudited)]
      /\ nextAt' = [d \in Devices |-> IF d \in cut THEN RetryDelay ELSE nextAt[d]]
      /\ waiting' = [d \in Devices |-> IF d \in cut THEN 0 ELSE waiting[d]]
      /\ inFlight' = inFlight - Cardinality(cut)
      /\ request' = [s \in Slots |-> after(request[s])]
  BY DEF Restart
<1>2. /\ UNCHANGED <<pending, generated, unsent, raw, mqttQueue, failures, timeouts, load>>
      /\ MayDisturb /\ restarts' = restarts + 1
      /\ raw' = raw /\ load' = load /\ generated' = generated /\ pending' = pending
  BY DEF Restart, exportVars
<1>3. ASSUME NEW q \in Requests, RequestOK(q)
      PROVE  /\ after(q) \in Requests /\ RequestOK(after(q))
             /\ after(q).stage # "free" =>
                  /\ after(q).reading = q.reading /\ after(q).status = q.status
                  /\ after(q).stage = q.stage \/ (q.stage = "audit" /\ after(q).stage = "done")
             /\ q.answered /\ ~q.heard => after(q).stage # "free" /\ ~after(q).heard
  <2>1. CASE q.stage \in Downstream
    <3>1. /\ left(q) \in Requests /\ left(q).stage = q.stage /\ left(q).answered = q.answered
          /\ left(q).heard /\ left(q).reading = q.reading /\ left(q).status = q.status
      BY DEF Requests
    <3>2. after(q) = left(q) /\ ~q.answered
      BY <1>3, <2>1 DEF RequestOK, Downstream
    <3> HIDE DEF left, after
    <3> QED
      BY <1>3, <2>1, <3>1, <3>2 DEF RequestOK, Downstream
  <2>2. CASE q.stage \notin Downstream /\ q.answered
    <3>1. /\ done(q) \in Requests /\ done(q).stage = "done" /\ done(q).answered = q.answered
          /\ done(q).heard = q.heard /\ done(q).forgotten = q.forgotten
          /\ done(q).reading = q.reading /\ done(q).status = q.status
      BY DEF Requests, Stages
    <3>2. after(q) = IF q.heard THEN Free ELSE done(q)
      BY <2>2, <3>1 DEF Over
    <3>3. q.stage \in {"audit", "done"} /\ RequestOK(done(q))
      BY <1>3, <2>2, <3>1 DEF RequestOK
    <3> HIDE DEF done, after
    <3> QED
      BY <3>1, <3>2, <3>3, FreeFacts
  <2>3. CASE q.stage \notin Downstream /\ ~q.answered
    BY <2>3, FreeFacts
  <2> QED
    BY <2>1, <2>2, <2>3
<1>4. \A s \in Slots : request'[s] = after(request[s])
  BY <1>1
<1> HIDE DEF after, cut, unaudited, left, done
<1>5. request' \in [Slots -> Requests]
  <2>1. \A s \in Slots : after(request[s]) \in Requests
    BY <1>3 DEF IInv, Shapes
  <2> QED
    BY <1>1, <2>1
<1>6. \A d \in Devices : /\ nextAt'[d] = (IF d \in cut THEN RetryDelay ELSE nextAt[d])
                         /\ waiting'[d] = (IF d \in cut THEN 0 ELSE waiting[d])
  BY <1>1
<1>7. NoWindow \in Windows
  BY ConstantFacts DEF NoWindow, Windows, W
<1>8. IsFiniteSet(cut) /\ Cardinality(cut) \in Nat /\ Cardinality(cut) <= Cardinality(Waiting)
      /\ cut \subseteq Waiting
  <2>1. cut \subseteq Waiting
    BY DEF cut, Waiting
  <2> QED
    BY <2>1, CountFacts, FS_Subset, FS_CardinalityType
<1>9. Cardinality(unaudited) \in Nat /\ Cardinality(unaudited) <= Cardinality(Slots)
  <2>1. unaudited \in SUBSET Slots
    BY DEF unaudited
  <2> QED
    BY <2>1, FiniteSlots, FS_Subset, FS_CardinalityType
<1>10. Shapes'
  <2>1. nextAt' \in [Devices -> -MaxOverdue..InFlight]
    <3>1. RetryDelay \in -MaxOverdue..InFlight
      BY ConstantFacts
    <3> QED
      BY <1>1, <3>1 DEF IInv, Shapes
  <2>2. waiting' \in [Devices -> 0..MaxLanes]
    <3>1. 0 \in 0..MaxLanes
      BY ConstantFacts
    <3> QED
      BY <1>1, <3>1 DEF IInv, Shapes
  <2>3. inFlight' \in Nat
    <3>1. inFlight' = inFlight - Cardinality(cut) /\ inFlight = Cardinality(Waiting)
      BY <1>1 DEF IInv, CountInv
    <3> QED
      BY <1>8, <3>1, CountFacts
  <2>4. window' \in [Clients -> Windows] /\ told' \in [Devices -> Nat]
    BY <1>1, <1>7
  <2>5. untraced' \in Traces
    <3>1. /\ untraced' = [untraced EXCEPT !.answeredFirst = @ + Cardinality(unaudited)]
          /\ untraced \in Traces
      BY <1>1 DEF IInv, Shapes
    <3> QED
      BY <1>9, <3>1 DEF Traces
  <2>6. restarts' \in Nat /\ failures' + timeouts' + restarts' <= load'.disturbances
    BY <1>2, ConstantFacts DEF IInv, Shapes, MayDisturb
  <2> QED
    BY <1>2, <1>5, <2>1, <2>2, <2>3, <2>4, <2>5, <2>6 DEF IInv, Shapes
<1>11. \A s \in Slots : RequestOK(request[s])'
  <2>1. \A s \in Slots : RequestOK(request'[s])
    BY <1>3, <1>4 DEF IInv, Shapes
  <2> QED
    BY <2>1 DEF RequestOK
<1>12. ASSUME NEW d \in Devices PROVE DeviceOK(d)'
  <2>1. DeviceOK(d)
    BY DEF IInv
  <2>2. CASE d \in cut
    <3>1. nextAt'[d] = RetryDelay /\ waiting'[d] = 0 /\ RetryDelay # InFlight
      BY <1>6, <2>2, ConstantFacts
    <3> QED
      BY <1>2, <2>1, <3>1 DEF DeviceOK
  <2>3. CASE d \notin cut /\ waiting[d] # 0
    <3>1. Awaited(d) \in Slots /\ Awaited(d)' = Awaited(d)
      BY <1>6, <2>3, AwaitedFacts DEF IInv, Awaited
    <3>2. request[Awaited(d)].answered /\ ~request[Awaited(d)].heard
      BY <2>1, <2>3 DEF cut, DeviceOK
    <3>3. /\ request'[Awaited(d)].stage # "free" /\ ~request'[Awaited(d)].heard
          /\ request'[Awaited(d)].reading = request[Awaited(d)].reading
      BY <1>3, <1>4, <3>1, <3>2 DEF IInv, Shapes
    <3> QED
      BY <1>2, <1>6, <2>1, <2>3, <3>1, <3>3 DEF DeviceOK
  <2>4. CASE d \notin cut /\ waiting[d] = 0
    BY <1>2, <1>6, <2>1, <2>4 DEF DeviceOK
  <2> QED
    BY <2>2, <2>3, <2>4
<1>13. ReadingsInv'
  <2>1. ASSUME NEW d \in Devices, NEW lane \in Lanes PROVE CarrierOK(d, request[<<d, lane>>])'
    <3> PICK r : r = request'[<<d, lane>>]
      OBVIOUS
    <3>1. <<d, lane>> \in Slots /\ CarrierOK(d, request[<<d, lane>>])
      BY SlotFacts DEF IInv, ReadingsInv
    <3>2. request[<<d, lane>>] \in Requests /\ RequestOK(request[<<d, lane>>])
      BY <3>1 DEF IInv, Shapes
    <3>3. /\ r \in Requests
          /\ r.stage # "free" =>
               /\ r.reading = request[<<d, lane>>].reading /\ r.status = request[<<d, lane>>].status
               /\ \/ r.stage = request[<<d, lane>>].stage
                  \/ request[<<d, lane>>].stage = "audit" /\ r.stage = "done"
      BY <1>3, <1>4, <3>1, <3>2
    <3>4. CarrierOK(d, r) /\ r.reading \in Nat
      <4>1. request[<<d, lane>>].stage = "free" => r.stage = "free"
        BY <3>3
      <4> QED
        BY <3>1, <3>3, <4>1 DEF CarrierOK, Requests
    <3>5. CarrierOK(d, r)'
      BY <1>2, <3>4, RawStays DEF CarrierOK
    <3> QED
      BY <3>5
  <2>2. \A d \in Devices : \A n \in 1..generated'[d] : n # pending'[d] => IsPublished(d, n)'
    BY <1>2, RawStays DEF IInv, Shapes, ReadingsInv
  <2> QED
    BY <1>2, <2>1, <2>2, RawStays DEF IInv, ReadingsInv
<1>14. MqttInv'
  BY <1>2 DEF IInv, MqttInv
<1>15. CountInv'
  <2>1. Waiting' = Waiting \ cut
    BY <1>6 DEF Waiting
  <2>2. Cardinality(Waiting') = Cardinality(Waiting) - Cardinality(cut)
    <3>1. Waiting \cap cut = cut
      BY <1>8
    <3> QED
      BY <2>1, <3>1, CountFacts, FS_Difference
  <2>3. inFlight = Cardinality(Waiting) /\ inFlight' = inFlight - Cardinality(cut)
        /\ inFlight <= load.maxInFlight /\ load.maxInFlight \in Nat
    BY <1>1, ConstantFacts DEF IInv, Shapes, CountInv
  <2> QED
    BY <1>2, <1>8, <2>2, <2>3, CountFacts DEF CountInv
<1>16. \A d \in Devices : ToldOK(d)'
  BY <1>1 DEF ToldOK
<1>17. TraceInv'
  <2> DEFINE n == Cardinality(Slots)
  <2>1. n \in Nat /\ restarts \in Nat /\ restarts * n \in Nat /\ restarts' * n = restarts * n + n
    <3>1. n \in Nat /\ restarts \in Nat /\ restarts' = restarts + 1
      BY <1>2, FiniteSlots DEF IInv, Shapes
    <3> HIDE DEF n
    <3> QED
      BY <3>1
  <2>2. /\ untraced'.auditedFirst = untraced.auditedFirst
        /\ untraced'.answeredFirst = untraced.answeredFirst + Cardinality(unaudited)
        /\ untraced.auditedFirst \in Nat /\ untraced.answeredFirst \in Nat
        /\ untraced'.unaudited = untraced.unaudited
    BY <1>1 DEF IInv, Shapes, Traces
  <2>3. /\ 2 * untraced.auditedFirst <= failures
        /\ 2 * (untraced.auditedFirst + untraced.answeredFirst) <= failures + 2 * (restarts * n)
        /\ failures \in Nat /\ failures' = failures
    BY <1>2 DEF IInv, TraceInv, Shapes
  <2> QED
    BY <1>9, <2>1, <2>2, <2>3 DEF IInv, TraceInv
<1> QED
  BY <1>10, <1>11, <1>12, <1>13, <1>14, <1>15, <1>16, <1>17 DEF IInv

-----------------------------------------------------------------------------
(* The beginning                                                           *)

LEMMA Quotient ==
  ASSUME NEW x \in Nat, NEW n \in Nat, n > 0
  PROVE  x \div n \in Nat /\ (x \div n) * n <= x
OBVIOUS

LEMMA ShareBound ==
  ASSUME NEW k \in Nat, NEW m \in Nat, NEW n \in Nat, n > 0, k <= n
  PROVE  (k * m) \div n \in 0..m
<1>1. k * m \in Nat /\ n * m \in Nat /\ k * m <= n * m
  <2>1. (n - k) * m \in Nat /\ (n - k) * m = n * m - k * m
    OBVIOUS
  <2> QED
    BY <2>1
<1> DEFINE x == k * m
           q == x \div n
<1>2. q \in Nat /\ q * n <= x
  <2>1. x \in Nat
    BY <1>1
  <2> HIDE DEF x
  <2> QED
    BY <2>1, Quotient
<1>3. ASSUME q > m PROVE FALSE
  <2> HIDE DEF q
  <2>1. (q - m) * n \in Nat /\ (q - m) * n >= n /\ (q - m) * n = q * n - n * m
    BY <1>2, <1>3
  <2> QED
    BY <1>1, <1>2, <2>1
<1> QED
  BY <1>2, <1>3

LEMMA FirstTurns ==
  ASSUME NEW d \in Devices
  PROVE  firstAt(d) \in 0..(InFlight - 1)
<1> DEFINE earlier == {e \in Devices : e < d}
<1>1. Cardinality(earlier) \in Nat /\ Cardinality(earlier) <= Cardinality(Devices)
      /\ Cardinality(Devices) \in Nat /\ Cardinality(Devices) > 0
  <2>1. earlier \in SUBSET Devices
    OBVIOUS
  <2>2. Cardinality(Devices) \in Nat /\ Cardinality(Devices) # 0
    BY EdgeAssumption, FS_CardinalityType, FS_EmptySet
  <2> QED
    BY <2>1, <2>2, EdgeAssumption, FS_Subset, FS_CardinalityType
<1>2. Max(ReportingDelays) \in 1..(InFlight - 1)
  <2>1. ReportingDelays \in SUBSET (0..InFlight) /\ ReportingDelays # {}
    BY ConstantFacts, EdgeAssumption
  <2> QED
    BY <2>1, ConstantFacts, GreatestOf
<1>3. (Cardinality(earlier) * Max(ReportingDelays)) \div Cardinality(Devices)
        \in 0..Max(ReportingDelays)
  BY <1>1, <1>2, ShareBound
<1> HIDE DEF earlier
<1>4. firstAt(d) = (Cardinality(earlier) * Max(ReportingDelays)) \div Cardinality(Devices)
  BY DEF firstAt, earlier
<1> QED
  BY <1>2, <1>3, <1>4, ConstantFacts

LEMMA InitEstablishes == Init => IInv
<1> SUFFICES ASSUME Init PROVE IInv
  OBVIOUS
<1>1. Shapes
  <2>1. nextAt \in [Devices -> -MaxOverdue..InFlight]
    <3>1. \A d \in Devices : firstAt(d) \in -MaxOverdue..InFlight
      BY FirstTurns, ConstantFacts
    <3> QED
      BY <3>1 DEF Init
  <2>2. window \in [Clients -> Windows]
    <3>1. NoWindow \in Windows
      BY ConstantFacts DEF NoWindow, Windows, W
    <3> QED
      BY <3>1 DEF Init
  <2>3. request \in [Slots -> Requests]
    BY FreeFacts DEF Init
  <2>4. raw \in [Keys -> Seq(RawMessages)]
    BY DEF Init
  <2>5. untraced \in Traces
    BY DEF Init, Traces
  <2>6. waiting \in [Devices -> 0..MaxLanes]
    BY ConstantFacts DEF Init
  <2>7. /\ pending \in [Devices -> Nat] /\ generated \in [Devices -> Nat]
        /\ told \in [Devices -> Nat] /\ inFlight \in Nat
    BY DEF Init, NoReading
  <2>8. failures + timeouts + restarts <= load.disturbances
    BY ConstantFacts DEF Init
  <2> QED
    BY <2>1, <2>2, <2>3, <2>4, <2>5, <2>6, <2>7, <2>8 DEF Shapes, Init
<1>2. \A s \in Slots : request[s] = Free
  BY DEF Init
<1>3. \A s \in Slots : RequestOK(request[s])
  BY <1>2, FreeFacts
<1>4. ASSUME NEW d \in Devices PROVE DeviceOK(d) /\ ToldOK(d)
  <2>1. nextAt[d] # InFlight
    BY FirstTurns, ConstantFacts DEF Init
  <2>2. waiting[d] = 0 /\ generated[d] = 0 /\ pending[d] = 0 /\ told[d] = 0 /\ load.readings \in Nat
    BY ConstantFacts DEF Init, NoReading
  <2> QED
    BY <2>1, <2>2 DEF DeviceOK, ToldOK
<1>5. ReadingsInv
  <2>1. \A d \in Devices : generated[d] = 0 /\ MessagesOf(d) = <<>>
    BY DEF Init, MessagesOf, Keys
  <2>2. \A d \in Devices, lane \in Lanes : request[<<d, lane>>].stage = "free"
    BY <1>2, SlotFacts, FreeFacts
  <2> QED
    BY <2>1, <2>2 DEF ReadingsInv, CarrierOK, OrderOK
<1>6. MqttInv
  <2>1. \A k \in Keys : DOMAIN raw[k] = {}
    BY DEF Init
  <2> QED
    BY <2>1 DEF MqttInv
<1>7. CountInv
  <2>1. Waiting = {}
    BY DEF Init, Waiting
  <2> QED
    BY <2>1, FS_EmptySet, ConstantFacts DEF CountInv, Init
<1>8. TraceInv
  BY FiniteSlots DEF Init, TraceInv
<1> QED
  BY <1>1, <1>3, <1>4, <1>5, <1>6, <1>7, <1>8 DEF IInv

-----------------------------------------------------------------------------
(* The theorems                                                            *)

LEMMA StepPreserves == IInv /\ [Next]_vars => IInv'
<1>1. CASE UNCHANGED vars
  <2>1. raw' = raw /\ request' = request /\ waiting' = waiting /\ generated' = generated
    BY <1>1 DEF vars, fleetVars, gatewayVars
  <2>2. IInv = IInv'
    BY <1>1 DEF vars, fleetVars, gatewayVars, exportVars, faultVars, IInv, Shapes, RequestOK,
                DeviceOK, ReadingsInv, MqttInv, CountInv, ToldOK, TraceInv, Waiting, Awaited,
                CarrierOK, OrderOK, IsPublished, MessagesOf
  <2> QED
    BY <2>2
<1>2. ASSUME IInv, Next PROVE IInv'
  <2>1. CASE Step \/ Tick \/ Restart
    BY <1>2, <2>1, StepStep, TickStep, RestartStep
  <2>2. CASE \E d \in Devices : Settle(d) \/ Timeout(d)
    BY <1>2, <2>2, SettleStep, TimeoutStep
  <2>3. CASE \E o \in Others : SendOther(o)
    BY <1>2, <2>3, SendOtherStep
  <2>4. CASE \E m \in DOMAIN MqttPayloads : HandleMqtt(m)
    BY <1>2, <2>4, HandleMqttStep
  <2>5. CASE \E s \in Slots :
               \/ Admit(s) \/ ReadPage(s) \/ Record(s) \/ Ingest(s) \/ AnswerElsewhere(s)
               \/ StartExport(s) \/ StoreExportAudit(s) \/ PublishExportAudit(s)
    BY <1>2, <2>5, AdmitStep, ReadPageStep, RecordStep, IngestStep, AnswerElsewhereStep,
       StartExportStep, StoreExportAuditStep, PublishExportAuditStep
  <2> QED
    BY <1>2, <2>1, <2>2, <2>3, <2>4, <2>5 DEF Next
<1> QED
  BY <1>1, <1>2

\* The invariant above, for any fleet, requests, limits and disturbances.
THEOREM EdgeInvariance == Spec => []IInv
<1> QED
  BY InitEstablishes, StepPreserves, PTL DEF Spec

\* Variables stay in their types, and stats.in_flight of the fleet counts the devices
\* that wait, never more than maxInFlight (createRuntime, index.js:75-123).
THEOREM EdgeTypeCorrect == Spec => []TypeOK
<1>1. ASSUME IInv PROVE TypeOK
  <2>1. ASSUME NEW d \in Devices
        PROVE  /\ nextAt[d] \in -MaxOverdue..InFlight
               /\ pending[d] \in 0..generated[d] /\ generated[d] <= load.readings
               /\ waiting[d] \in Lanes \cup {0} /\ (nextAt[d] = InFlight) = (waiting[d] # 0)
               /\ waiting[d] # 0 => request[Awaited(d)].stage # "free"
    <3>1. DeviceOK(d) /\ generated[d] \in Nat /\ waiting[d] \in 0..MaxLanes
          /\ nextAt[d] \in -MaxOverdue..InFlight
      BY <1>1 DEF IInv, Shapes
    <3> QED
      BY <3>1, SlotFacts DEF DeviceOK
  <2>2. inFlight = Cardinality({d \in Devices : waiting[d] # 0}) /\ inFlight <= load.maxInFlight
    BY <1>1 DEF IInv, CountInv, Waiting
  <2>3. \A s \in Slots : /\ request[s].stage \in Stages
                         /\ request[s].stage = "free" => request[s] = Free
    BY <1>1 DEF IInv, Shapes, Requests, RequestOK
  <2>4. \A c \in Clients : window[c].age \in 0..W
    BY <1>1 DEF IInv, Shapes, Windows
  <2> QED
    BY <1>1, <2>1, <2>2, <2>3, <2>4 DEF TypeOK, IInv, Shapes, Stages, W
<1> QED
  BY <1>1, EdgeInvariance, PTL

LEMMA PublishedMeans ==
  ASSUME NEW d, NEW n
  PROVE  n \in PublishedReadings(d) <=> IsPublished(d, n)
BY DEF PublishedReadings, IsPublished, Range

\* Whatever times out, fails after it took effect, is sent again or overtaken, the fleet
\* loses no reading and readings first arrive in their order; MQTT delivers once.
THEOREM NoReadingIsLost == Spec => []ReadingsAreAccountedFor
<1>1. ASSUME IInv PROVE ReadingsAreAccountedFor
  <2>1. \A d \in Devices : (1..generated[d]) \ PublishedReadings(d) \subseteq {pending[d]}
    BY <1>1, PublishedMeans DEF IInv, ReadingsInv
  <2>2. ASSUME NEW d \in Devices, NEW i \in DOMAIN MessagesOf(d), MessagesOf(d)[i].sender = d
        PROVE  1..(MessagesOf(d)[i].reading - 1)
                 \subseteq {m.reading : m \in {MessagesOf(d)[j] : j \in 1..(i - 1)}}
    BY <1>1, <2>2 DEF IInv, ReadingsInv, OrderOK
  <2>3. ASSUME NEW k \in Keys, NEW m \in DOMAIN MqttPayloads
        PROVE  Cardinality({i \in DOMAIN raw[k] : raw[k][i].sender = m})
                 <= (IF m \in mqttQueue THEN 0 ELSE 1)
    <3> DEFINE its == {i \in DOMAIN raw[k] : raw[k][i].sender = m}
    <3>1. /\ m \in mqttQueue => its = {}
          /\ \A i, j \in its : i = j
      BY <1>1 DEF IInv, MqttInv
    <3>2. its = {} \/ \E i : its = {i}
      BY <3>1
    <3>3. Cardinality(its) = 0 \/ (Cardinality(its) = 1 /\ its # {})
      BY <3>2, FS_EmptySet, FS_Singleton
    <3> QED
      BY <3>1, <3>3, FS_EmptySet
  <2> QED
    BY <2>1, <2>2, <2>3 DEF ReadingsAreAccountedFor
<1> QED
  BY <1>1, EdgeInvariance, PTL

\* A device that does as it is told is refused at most once in a window, whatever the
\* window, the limit and the number of devices and others that share the client's count.
THEOREM RefusedOnlyOnce == Spec => []RefusedOncePerWindow
<1>1. ASSUME IInv PROVE RefusedOncePerWindow
  <2>1. \A d \in Devices : told[d] = 0 \/ told[d] = 1
    BY <1>1 DEF IInv, ToldOK
  <2> QED
    BY <2>1 DEF RefusedOncePerWindow
<1> QED
  BY <1>1, EdgeInvariance, PTL

\* createAuditRecorder: for any traffic, an audited answer is without row and event only
\* at the price of two failed calls, or of a restart; and only a preflight, a body express
\* refuses and a platform page that cannot be read are answered without an audit.
THEOREM AnswersLeaveTraces == Spec => []NothingLeavesUntraced
<1>1. ASSUME IInv PROVE NothingLeavesUntraced
  <2>1. restarts \in Nat /\ restarts * Cardinality(Slots) \in Nat /\ failures \in Nat
        /\ untraced.auditedFirst \in Nat /\ untraced.answeredFirst \in Nat
        /\ (restarts = 0 => restarts * Cardinality(Slots) = 0)
    BY <1>1, FiniteSlots DEF IInv, Shapes, Traces
  <2> QED
    BY <1>1, <2>1 DEF IInv, TraceInv, NothingLeavesUntraced
<1> QED
  BY <1>1, EdgeInvariance, PTL

-----------------------------------------------------------------------------
(* Ranks and folds                                                         *)

\* The elements of a set that a relation puts before one of them.
Lesser(S, R, x) == {y \in S : <<y, x>> \in R}

StrictOrder(S, R) ==
  /\ \A x \in S : <<x, x>> \notin R
  /\ \A x, y, z \in S : <<x, y>> \in R /\ <<y, z>> \in R => <<x, z>> \in R
  /\ \A x, y \in S : x = y \/ <<x, y>> \in R \/ <<y, x>> \in R

\* In a finite set under a strict order without ties every rank is taken, by one element.
LEMMA RankTaken ==
  ASSUME NEW S, IsFiniteSet(S), NEW R, StrictOrder(S, R)
  PROVE  /\ \A k \in 0..(Cardinality(S) - 1) : \E x \in S : Cardinality(Lesser(S, R, x)) = k
         /\ \A x \in S : Cardinality(Lesser(S, R, x)) \in 0..(Cardinality(S) - 1)
         /\ \A x, y \in S : Cardinality(Lesser(S, R, x)) = Cardinality(Lesser(S, R, y)) => x = y
<1> DEFINE n == Cardinality(S)
           rank == [x \in S |-> Cardinality(Lesser(S, R, x))]
<1>1. n \in Nat
  BY FS_CardinalityType
<1>2. \A x \in S : /\ IsFiniteSet(Lesser(S, R, x)) /\ Cardinality(Lesser(S, R, x)) \in Nat
                   /\ Cardinality(Lesser(S, R, x)) <= n - 1
  <2> SUFFICES ASSUME NEW x \in S
               PROVE  /\ IsFiniteSet(Lesser(S, R, x)) /\ Cardinality(Lesser(S, R, x)) \in Nat
                      /\ Cardinality(Lesser(S, R, x)) <= n - 1
    OBVIOUS
  <2>1. IsFiniteSet(S \ {x}) /\ Cardinality(S \ {x}) = n - 1
    BY FS_RemoveElement
  <2>2. Lesser(S, R, x) \in SUBSET (S \ {x})
    BY DEF Lesser, StrictOrder
  <2> QED BY <2>1, <2>2, FS_Subset, FS_CardinalityType
<1>3. rank \in [S -> 0..(n - 1)]
  BY <1>1, <1>2
<1>4. \A x, y \in S : <<x, y>> \in R => rank[x] < rank[y]
  <2> SUFFICES ASSUME NEW x \in S, NEW y \in S, <<x, y>> \in R
               PROVE  Cardinality(Lesser(S, R, x)) < Cardinality(Lesser(S, R, y))
    OBVIOUS
  <2>1. x \notin Lesser(S, R, x)
    BY DEF Lesser, StrictOrder
  <2>2. Lesser(S, R, x) \cup {x} \in SUBSET Lesser(S, R, y)
    BY DEF Lesser, StrictOrder
  <2>3. Cardinality(Lesser(S, R, x) \cup {x}) = Cardinality(Lesser(S, R, x)) + 1
    BY <1>2, <2>1, FS_AddElement
  <2>4. Cardinality(Lesser(S, R, x) \cup {x}) <= Cardinality(Lesser(S, R, y))
    BY <1>2, <2>2, FS_Subset
  <2> QED BY <1>2, <2>3, <2>4
<1>5. \A x, y \in S : rank[x] = rank[y] => x = y
  <2> SUFFICES ASSUME NEW x \in S, NEW y \in S, rank[x] = rank[y]
               PROVE  x = y
    OBVIOUS
  <2>1. rank[x] \in Int /\ rank[y] \in Int
    BY <1>2
  <2>2. <<x, y>> \notin R /\ <<y, x>> \notin R
    BY <1>4, <2>1
  <2> QED BY <2>2 DEF StrictOrder
<1>6. rank \in Injection(S, 0..(n - 1))
  BY <1>3, <1>5 DEF Injection, IsInjective
<1>7. IsFiniteSet(0..(n - 1)) /\ Cardinality(0..(n - 1)) = n
  BY <1>1, FS_Interval
<1>8. rank \in Surjection(S, 0..(n - 1))
  BY <1>6, <1>7, FS_Injection
<1>9. \A x \in S : rank[x] = Cardinality(Lesser(S, R, x))
  OBVIOUS
<1> HIDE DEF rank
<1>10. \A k \in 0..(n - 1) : \E x \in S : Cardinality(Lesser(S, R, x)) = k
  BY <1>8, <1>9 DEF Surjection
<1>11. \A x \in S : Cardinality(Lesser(S, R, x)) \in 0..(n - 1)
  BY <1>3, <1>9, Zenon
<1>12. \A x, y \in S : Cardinality(Lesser(S, R, x)) = Cardinality(Lesser(S, R, y)) => x = y
  BY <1>5, <1>9, Zenon
<1> QED BY <1>10, <1>11, <1>12

\* The ranks of a finite set of integers.
LEMMA NumberRanks ==
  ASSUME NEW S \in SUBSET Int, IsFiniteSet(S)
  PROVE  /\ \A k \in 0..(Cardinality(S) - 1) : \E x \in S : Cardinality({y \in S : y < x}) = k
         /\ \A x \in S : Cardinality({y \in S : y < x}) \in 0..(Cardinality(S) - 1)
         /\ \A x, y \in S : Cardinality({z \in S : z < x}) = Cardinality({z \in S : z < y}) => x = y
<1> DEFINE R == {p \in S \X S : p[1] < p[2]}
           Below(x) == {y \in S : y < x}
<1>1. StrictOrder(S, R)
  BY DEF StrictOrder
<1>2. \A x \in S : Lesser(S, R, x) = Below(x)
  BY DEF Lesser
<1> SUFFICES
      /\ \A k \in 0..(Cardinality(S) - 1) : \E x \in S : Cardinality(Below(x)) = k
      /\ \A x \in S : Cardinality(Below(x)) \in 0..(Cardinality(S) - 1)
      /\ \A x, y \in S : Cardinality(Below(x)) = Cardinality(Below(y)) => x = y
  BY Zenon
<1> HIDE DEF R, Below
<1>3. \A x \in S : Cardinality(Lesser(S, R, x)) = Cardinality(Below(x))
  BY <1>2
<1>4. /\ \A k \in 0..(Cardinality(S) - 1) : \E x \in S : Cardinality(Lesser(S, R, x)) = k
      /\ \A x \in S : Cardinality(Lesser(S, R, x)) \in 0..(Cardinality(S) - 1)
      /\ \A x, y \in S : Cardinality(Lesser(S, R, x)) = Cardinality(Lesser(S, R, y)) => x = y
  BY <1>1, RankTaken, Zenon
<1>5. \A k \in 0..(Cardinality(S) - 1) : \E x \in S : Cardinality(Below(x)) = k
  BY <1>3, <1>4, Zenon
<1>6. \A x \in S : Cardinality(Below(x)) \in 0..(Cardinality(S) - 1)
  BY <1>3, <1>4, Zenon
<1>7. \A x, y \in S : Cardinality(Below(x)) = Cardinality(Below(y)) => x = y
  BY <1>3, <1>4, Zenon
<1> QED
  BY <1>5, <1>6, <1>7

LEMMA NumberInduction ==
  ASSUME NEW Good, 0 \in Good, \A n \in Nat : n \in Good => n + 1 \in Good
  PROVE  \A n \in Nat : n \in Good
<1> DEFINE Bad == Nat \ Good
           m == Min(Bad)
<1>1. SUFFICES ASSUME Bad # {} PROVE FALSE
  OBVIOUS
<1>2. m \in Bad /\ \A n \in Bad : m <= n
  BY <1>1, LeastOf
<1> HIDE DEF m
<1>3. m \in Nat /\ m \notin Good /\ m # 0
  BY <1>2
<1>4. m - 1 \in Nat /\ m - 1 \notin Bad /\ (m - 1) + 1 = m
  BY <1>2, <1>3
<1> QED
  BY <1>3, <1>4

IsFold(f, S, base, step, pick) ==
  \A T \in SUBSET S : f[T] = IF T = {} THEN base ELSE step[<<f[T \ {pick[T]}], pick[T]>>]

\* A fold over a finite set is well defined, and what its steps keep in X stays in X.
LEMMA FoldExists ==
  ASSUME NEW S, IsFiniteSet(S), NEW X, NEW base \in X, NEW step \in [X \X S -> X],
         NEW pick, \A T \in SUBSET S : T # {} => pick[T] \in T
  PROVE  \E f \in [SUBSET S -> X] : IsFold(f, S, base, step, pick)
<1> DEFINE Fold(f, T) == IF T = {} THEN base ELSE step[<<f[T \ {pick[T]}], pick[T]>>]
           Upto(n) == \E f \in [SUBSET S -> X] :
                        \A T \in SUBSET S : Cardinality(T) <= n => f[T] = Fold(f, T)
           Good == {n \in Nat : Upto(n)}
<1>1. Cardinality(S) \in Nat
  BY FS_CardinalityType
<1>2. \A T \in SUBSET S : /\ IsFiniteSet(T) /\ Cardinality(T) \in Nat
                          /\ Cardinality(T) <= Cardinality(S)
  BY FS_Subset, FS_CardinalityType
<1>3. \A f \in [SUBSET S -> X], T \in SUBSET S : Fold(f, T) \in X
  OBVIOUS
<1>4. ASSUME NEW n \in Nat, n # 0, Upto(n - 1)
      PROVE  Upto(n)
  <2>1. PICK f \in [SUBSET S -> X] :
               \A T \in SUBSET S : Cardinality(T) <= n - 1 => f[T] = Fold(f, T)
    BY <1>4
  <2> DEFINE g == [T \in SUBSET S |-> IF Cardinality(T) = n THEN Fold(f, T) ELSE f[T]]
  <2>2. g \in [SUBSET S -> X]
    BY <1>3
  <2>3. \A T \in SUBSET S : Cardinality(T) <= n - 1 => g[T] = f[T]
    BY <1>2
  <2>4. ASSUME NEW T \in SUBSET S, Cardinality(T) <= n
        PROVE  Fold(g, T) = Fold(f, T)
    <3>1. CASE T = {}
      BY <3>1
    <3>2. CASE T # {}
      <4>1. pick[T] \in T /\ T \ {pick[T]} \in SUBSET S
        BY <3>2
      <4>2. Cardinality(T \ {pick[T]}) = Cardinality(T) - 1
        BY <1>2, <4>1, FS_RemoveElement
      <4>3. g[T \ {pick[T]}] = f[T \ {pick[T]}]
        BY <1>2, <2>3, <2>4, <4>1, <4>2
      <4> HIDE DEF g
      <4> QED
        BY <4>3
    <3> QED
      BY <3>1, <3>2
  <2>5. ASSUME NEW T \in SUBSET S, Cardinality(T) <= n
        PROVE  g[T] = Fold(g, T)
    <3>1. CASE Cardinality(T) = n
      BY <2>4, <2>5, <3>1
    <3>2. CASE Cardinality(T) # n
      <4>1. Cardinality(T) <= n - 1
        BY <1>2, <2>5, <3>2
      <4> QED
        BY <2>1, <2>3, <2>4, <2>5, <4>1
    <3> QED
      BY <3>1, <3>2
  <2> HIDE DEF g
  <2> QED
    BY <2>2, <2>5
<1>5. Upto(0)
  <2> DEFINE f == [T \in SUBSET S |-> base]
  <2>1. f \in [SUBSET S -> X]
    OBVIOUS
  <2>2. \A T \in SUBSET S : Cardinality(T) <= 0 => T = {}
    BY <1>2, FS_EmptySet
  <2>3. \A T \in SUBSET S : Cardinality(T) <= 0 => f[T] = Fold(f, T)
    BY <2>2
  <2> HIDE DEF f
  <2> QED
    BY <2>1, <2>3
<1> HIDE DEF Upto
<1>6. ASSUME NEW n \in Nat, n \in Good
      PROVE  n + 1 \in Good
  BY <1>4, <1>6
<1>7. \A n \in Nat : n \in Good
  <2>1. 0 \in Good
    BY <1>5
  <2> HIDE DEF Good
  <2> QED
    BY <1>6, <2>1, NumberInduction
<1>8. Upto(Cardinality(S))
  BY <1>1, <1>7
<1> QED
  BY <1>2, <1>8 DEF Upto, IsFold

-----------------------------------------------------------------------------
(* What an export hands out                                                *)

\* Rows as they are handed out.
NamelessRows == {mapRow(type, row) : type \in Range(Sections), row \in Rows}

Handed(k) == {data \in Seq(NamelessRows) : Len(data) <= k}

LEMMA NobodyIsNamed ==
  ASSUME NEW row \in NamelessRows
  PROVE  row.household_ref \notin RawIds /\ row.device_ref \notin RawIds
<1>1. PICK type \in Range(Sections), from \in Rows : row = mapRow(type, from)
  BY DEF NamelessRows
<1>2. NoId \notin RawIds
  BY DEF RawIds
<1>3. /\ from.household_id = NoId \/ from.household_id \in RawIds
      /\ from.device_id = NoId \/ from.device_id \in RawIds
  BY DEF RawIds
<1>4. pseudonymizeHouseholdId(from.household_id) \notin RawIds
  <2>1. CASE from.household_id = NoId
    BY <1>2, <2>1 DEF pseudonymizeHouseholdId
  <2>2. CASE from.household_id \in RawIds
    BY <2>2, PseudonymAssumption
  <2> QED
    BY <1>3, <2>1, <2>2
<1>5. pseudonymizeDeviceId(from.device_id) \notin RawIds
  <2>1. CASE from.device_id = NoId
    BY <1>2, <2>1 DEF pseudonymizeDeviceId
  <2>2. CASE from.device_id \in RawIds
    BY <2>2, PseudonymAssumption
  <2> QED
    BY <1>3, <2>1, <2>2
<1> QED
  BY <1>1, <1>2, <1>4, <1>5 DEF mapRow

\* An export takes rows of its table.
LEMMA QueryFacts ==
  ASSUME NEW type \in Range(Sections), NEW community, NEW limit \in Nat
  PROVE  EXPORT_HANDLERS(type, community, limit) \in Seq(Rows)
<1> DEFINE table == Tables[type]
           found == {i \in DOMAIN table : community \in {NoId, table[i].community_id}}
           count == Cardinality(found)
           k == IF count < limit THEN count ELSE limit
           rank(i) == Cardinality({j \in found : j < i})
<1>1. type \in DOMAIN Tables /\ table \in Seq(Range(table))
  BY TablesAssumption
<1>2. Len(table) \in Nat /\ DOMAIN table = 1..Len(table)
  BY <1>1
<1>3. \A i \in DOMAIN table : table[i] \in Rows
  BY <1>1 DEF Rows, Range
<1>4. IsFiniteSet(found) /\ found \in SUBSET Int /\ found \subseteq DOMAIN table
  <2>1. IsFiniteSet(1..Len(table)) /\ 1..Len(table) \subseteq Int
    BY <1>2, FS_Interval
  <2>2. found \in SUBSET (1..Len(table))
    BY <1>2
  <2> QED
    BY <1>2, <2>1, <2>2, FS_Subset
<1>5. count \in Nat
  BY <1>4, FS_CardinalityType
<1> HIDE DEF found
<1>6. \A n \in 0..(count - 1) : \E i \in found : rank(i) = n
  BY <1>4, NumberRanks, Zenon
<1> DEFINE nth(n) == CHOOSE i \in found : rank(i) = n - 1
<1>7. \A n \in 1..k : nth(n) \in found
  <2> SUFFICES ASSUME NEW n \in 1..k PROVE nth(n) \in found
    OBVIOUS
  <2> HIDE DEF rank
  <2>1. n - 1 \in 0..(count - 1)
    BY <1>5
  <2>2. \E i \in found : rank(i) = n - 1
    BY <1>6, <2>1, Zenon
  <2> QED
    BY <2>2, Zenon
<1>8. k \in Nat
  BY <1>5
<1>9. EXPORT_HANDLERS(type, community, limit) = [n \in 1..k |-> table[nth(n)]]
  BY Zenon DEF EXPORT_HANDLERS, found
<1> HIDE DEF k, nth, table
<1>10. \A n \in 1..k : table[nth(n)] \in Rows
  BY <1>3, <1>4, <1>7
<1> QED
  BY <1>8, <1>9, <1>10

LEMMA MapRowsFacts ==
  ASSUME NEW type \in Range(Sections), NEW rows \in Seq(Rows), NEW k \in Nat
  PROVE  mapRows(type, rows, k) \in Handed(k)
<1> DEFINE n == IF Len(rows) < k THEN Len(rows) ELSE k
<1>1. n \in Nat /\ n <= k /\ n <= Len(rows)
  OBVIOUS
<1>2. mapRows(type, rows, k) = [i \in 1..n |-> mapRow(type, rows[i])]
  BY DEF mapRows
<1> HIDE DEF n
<1>3. \A i \in 1..n : rows[i] \in Rows
  BY <1>1
<1>4. \A i \in 1..n : mapRow(type, rows[i]) \in NamelessRows
  BY <1>3 DEF NamelessRows
<1>5. mapRows(type, rows, k) \in Seq(NamelessRows)
  BY <1>1, <1>2, <1>4
<1>6. Len(mapRows(type, rows, k)) = n
  BY <1>1, <1>2
<1> QED
  BY <1>1, <1>5, <1>6 DEF Handed

LEMMA LimitsAreKept ==
  ASSUME NEW limit \in Int, NEW maxRecords \in Int
  PROVE  LET safeMax == normalizeRequestedLimit(limit, maxRecords) IN
         /\ safeMax \in Nat /\ normalizeRequestedLimit(safeMax, safeMax) = safeMax
         /\ normalizeRequestedLimit(limit, normalizeMaxRecords(maxRecords)) = safeMax
BY DEF normalizeRequestedLimit, normalizeMaxRecords

\* A section adds what the sections before it have left of the limit.
LEMMA SectionFacts ==
  ASSUME NEW type \in Range(Sections), NEW rows, \A t \in Range(Sections) : rows[t] \in Seq(Rows),
         NEW k \in Nat, NEW taken \in Handed(k)
  PROVE  taken \o mapRows(type, rows[type], k - Len(taken)) \in Handed(k)
<1>1. taken \in Seq(NamelessRows) /\ Len(taken) \in Nat /\ k - Len(taken) \in Nat
  BY DEF Handed
<1> PICK left \in Nat : left = k - Len(taken)
  BY <1>1
<1>2. mapRows(type, rows[type], left) \in Handed(left)
  BY MapRowsFacts
<1> PICK more : more = mapRows(type, rows[type], left)
  OBVIOUS
<1>3. more \in Seq(NamelessRows) /\ Len(more) <= left
  BY <1>2 DEF Handed
<1>4. /\ taken \o more \in Seq(NamelessRows)
      /\ Len(taken \o more) = Len(taken) + Len(more)
  BY <1>1, <1>3
<1>5. Len(taken \o more) <= k
  BY <1>1, <1>3, <1>4
<1> QED
  BY <1>4, <1>5 DEF Handed

LEMMA FullExportFacts ==
  ASSUME NEW rows, \A t \in Range(Sections) : rows[t] \in Seq(Rows), NEW community,
         NEW limit \in Nat, normalizeRequestedLimit(limit, limit) = limit
  PROVE  LET payload == buildFullPipelineDemoPayload(community, rows, limit) IN
         payload.data \in Handed(limit) /\ payload.record_count = Len(payload.data)
<1> DEFINE X == Handed(limit)
           S == DOMAIN Sections
           next(taken, type) == taken \o mapRows(type, rows[type], limit - Len(taken))
           step == [p \in X \X S |-> next(p[1], Sections[p[2]])]
           pick == [T \in SUBSET S |-> Max(T)]
           Equation(g) == g = [s \in SUBSET S |-> IF s = {} THEN <<>>
                                 ELSE next(g[s \ {Max(s)}], Sections[Max(s)])]
           iter == CHOOSE g : Equation(g)
<1>1. S = 1..5 /\ \A i \in S : Sections[i] \in Range(Sections)
  BY DEF Sections, Range
<1>2. IsFiniteSet(S)
  <2>1. \A n \in Int : IsFiniteSet(1..n)
    BY FS_Interval
  <2>2. 5 \in Int
    OBVIOUS
  <2>3. IsFiniteSet(1..5)
    BY <2>1, <2>2, Zenon
  <2> QED
    BY <1>1, <2>3, Zenon
<1>3. <<>> \in X
  BY DEF Handed
<1>4. step \in [X \X S -> X]
  <2>1. \A p \in X \X S : next(p[1], Sections[p[2]]) \in X
    BY <1>1, SectionFacts
  <2> QED
    BY <2>1
<1>5. \A T \in SUBSET S : T # {} => pick[T] \in T
  <2> SUFFICES ASSUME NEW T \in SUBSET S, T # {} PROVE pick[T] \in T
    OBVIOUS
  <2>1. T \in SUBSET (0..5)
    BY <1>1
  <2> QED
    BY <2>1, GreatestOf
<1> HIDE DEF step, pick, X, S, iter
<1>6. PICK f \in [SUBSET S -> X] : IsFold(f, S, <<>>, step, pick)
  BY <1>2, <1>3, <1>4, <1>5, FoldExists
<1>7. ASSUME NEW s \in SUBSET S, s # {}
      PROVE  f[s] = next(f[s \ {Max(s)}], Sections[Max(s)])
  <2>1. f[s] = step[<<f[s \ {pick[s]}], pick[s]>>]
    BY <1>6, <1>7 DEF IsFold
  <2>2. pick[s] = Max(s) /\ Max(s) \in S
    BY <1>5, <1>7 DEF pick
  <2>3. f[s \ {Max(s)}] \in X
    OBVIOUS
  <2> QED
    BY <2>1, <2>2, <2>3 DEF step
<1>8. Equation(f)
  <2>1. f = [s \in SUBSET S |-> f[s]]
    BY <1>6
  <2>2. f[{}] = <<>>
    BY <1>6 DEF IsFold
  <2> HIDE DEF next
  <2> QED
    BY <1>7, <2>1, <2>2
<1>9. Equation(iter)
  BY <1>8, Zenon DEF iter
<1>10. iter[{}] = <<>>
  BY <1>9
<1>11. ASSUME NEW n \in 1..5, iter[1..(n - 1)] \in X PROVE iter[1..n] \in X
  <2>1. 1..n \in SUBSET S /\ 1..n # {}
    <3>1. 1..n \in SUBSET (1..5) /\ n \in 1..n
      OBVIOUS
    <3> QED
      BY <1>1, <3>1, Zenon
  <2>2. Max(1..n) = n
    <3>1. \A x \in 1..n : (\A y \in 1..n : x >= y) <=> x = n
      OBVIOUS
    <3> QED
      BY <3>1 DEF Max
  <2>3. (1..n) \ {n} = 1..(n - 1)
    OBVIOUS
  <2>4. iter[1..n] = next(iter[1..(n - 1)], Sections[n])
    BY <1>9, <2>1, <2>2, <2>3
  <2>5. Sections[n] \in Range(Sections)
    BY <1>1
  <2>6. \A taken \in Handed(limit) : next(taken, Sections[n]) \in Handed(limit)
    BY <2>5, SectionFacts
  <2> QED
    BY <1>11, <2>4, <2>6, Zenon DEF X
<1>12. iter[1..0] \in X
  <2>1. 1..0 = {}
    OBVIOUS
  <2> QED
    BY <1>3, <1>10, <2>1
<1>13. iter[S] \in X
  <2>1. iter[1..1] \in X
    BY <1>11, <1>12
  <2>2. iter[1..2] \in X
    BY <1>11, <2>1
  <2>3. iter[1..3] \in X
    BY <1>11, <2>2
  <2>4. iter[1..4] \in X
    BY <1>11, <2>3
  <2>5. iter[1..5] \in X
    BY <1>11, <2>4
  <2> QED
    BY <1>1, <2>5
<1>14. /\ buildFullPipelineDemoPayload(community, rows, limit).data = iter[S]
       /\ buildFullPipelineDemoPayload(community, rows, limit).record_count = Len(iter[S])
  BY DEF buildFullPipelineDemoPayload, FoldLeft, MapThenFoldSet, iter, S
<1> QED
  BY <1>13, <1>14 DEF X

-----------------------------------------------------------------------------
(* Exports and their audits                                                *)

AuditStages == {"store_export", "announce_export"}

IsCatalog(s) == Content(s).query.export = "catalog_publish"

\* Only other clients export; each export has its audit, each audit is that of a request,
\* and what writes the audit of the catalog comes after the catalog's event.
ExportInv ==
  /\ \A s \in exported : s \in Slots /\ Sender(s) \in Others /\ <<s, AuditOf(s)>> \in exportAudits
  /\ \A a \in exportAudits : \E s \in Slots : /\ a = <<s, AuditOf(s)>>
                                              /\ IsCatalog(s) => s \in catalogEvents
  /\ \A s \in Slots : request[s].stage \in AuditStages /\ IsCatalog(s) => s \in catalogEvents

LEMMA QuietExports ==
  ASSUME ExportInv, UNCHANGED <<catalogEvents, exportAudits, exported>>,
         \A s \in Slots : request'[s].stage \in AuditStages => request[s].stage \in AuditStages
  PROVE  ExportInv'
BY DEF ExportInv

\* Steps that move one request elsewhere.
LEMMA ElsewhereQuiet ==
  ASSUME IInv, ExportInv, NEW s \in Slots, NEW r, r.stage \notin AuditStages,
         request' = [request EXCEPT ![s] = r],
         UNCHANGED <<catalogEvents, exportAudits, exported>>
  PROVE  ExportInv'
<1>1. request \in [Slots -> Requests]
  BY DEF IInv, Shapes
<1>2. request'[s] = r /\ \A t \in Slots : t # s => request'[t] = request[t]
  BY <1>1
<1> QED
  BY <1>2, QuietExports, Zenon

LEMMA RequestFacts ==
  ASSUME IInv, NEW s \in Slots
  PROVE  /\ request[s] \in Requests
         /\ request[s].stage \in AuditStages \cup {"dataspace"} =>
              Sender(s) \in Others /\ Sender(s) \notin Devices
<1>1. request[s] \in Requests
  BY DEF IInv, Shapes
<1>2. ASSUME Sender(s) \in Devices
      PROVE  request[s].stage \notin AuditStages \cup {"dataspace"}
  <2>1. request[s].stage # "free" =>
          request[s].stage \in {"arriving", "ingestion", "audit", "done"}
    BY <1>2, CarrierFacts
  <2> QED
    BY <2>1 DEF AuditStages
<1> QED
  BY <1>1, <1>2, SlotFacts

LEMMA OverStage ==
  ASSUME NEW r \in Requests
  PROVE  /\ Over(r).stage \in {r.stage, "free"}
         /\ Over([r EXCEPT !.heard = TRUE]).stage \in {r.stage, "free"}
         /\ Over([r EXCEPT !.stage = "done"]).stage \in {"done", "free"}
         /\ Done(r).stage \in {"done", "free"}
         /\ [r EXCEPT !.forgotten = TRUE, !.heard = TRUE].stage = r.stage
BY DEF Done, Over, Requests, Free

LEMMA AnsweredStage ==
  ASSUME NEW q \in Requests, NEW status, NEW retryAfter
  PROVE  /\ [q EXCEPT !.stage = "audit", !.status = status].stage \notin AuditStages
         /\ Done([q EXCEPT !.stage = "audit", !.status = status]).stage \notin AuditStages
         /\ [q EXCEPT !.stage = "audit", !.status = status,
                      !.retryAfter = retryAfter].stage \notin AuditStages
         /\ Done([q EXCEPT !.stage = "audit", !.status = status,
                           !.retryAfter = retryAfter]).stage \notin AuditStages
<1>1. /\ [q EXCEPT !.stage = "audit", !.status = status].stage = "audit"
      /\ [q EXCEPT !.stage = "audit", !.status = status,
                   !.retryAfter = retryAfter].stage = "audit"
      /\ "stage" \in DOMAIN [q EXCEPT !.stage = "audit", !.status = status]
      /\ "stage" \in DOMAIN [q EXCEPT !.stage = "audit", !.status = status,
                                      !.retryAfter = retryAfter]
  BY DEF Requests
<1>2. ASSUME NEW a, "stage" \in DOMAIN a PROVE Done(a).stage \in {"done", "free"}
  <2>1. /\ [a EXCEPT !.stage = "done", !.answered = TRUE].stage = "done"
        /\ Free.stage = "free"
    BY <1>2 DEF Free
  <2> QED
    BY <2>1 DEF Done, Over
<1> QED
  BY <1>1, <1>2 DEF AuditStages

LEMMA ReplyStage ==
  ASSUME IInv, NEW s \in Slots, NEW status, Reply(s, status) \/ NoReply(s)
  PROVE  \E r : r.stage \notin AuditStages /\ request' = [request EXCEPT ![s] = r]
<1>1. request[s] \in Requests
  BY RequestFacts
<1>2. /\ Free.stage \notin AuditStages
      /\ [request[s] EXCEPT !.stage = "audit", !.status = status, !.answered = TRUE].stage
           \notin AuditStages
      /\ [request[s] EXCEPT !.stage = "audit", !.status = DownstreamError.status].stage
           \notin AuditStages
  BY <1>1 DEF Free, AuditStages, Requests
<1>3. CASE Reply(s, status)
  <2>1. PICK r : /\ r \in {Free, [request[s] EXCEPT !.stage = "audit", !.status = status,
                                                    !.answered = TRUE]}
                 /\ request' = [request EXCEPT ![s] = r]
    BY <1>3, Zenon DEF Reply
  <2> QED
    BY <1>2, <2>1, Zenon
<1>4. CASE NoReply(s)
  <2>1. PICK r : /\ r \in {Free, [request[s] EXCEPT !.stage = "audit",
                                                    !.status = DownstreamError.status]}
                 /\ request' = [request EXCEPT ![s] = r]
    BY <1>4, Zenon DEF NoReply
  <2> QED
    BY <1>2, <2>1, Zenon
<1> QED
  BY <1>3, <1>4

LEMMA HeardExports ==
  ASSUME IInv, ExportInv, NEW d \in Devices, waiting[d] # 0, Heard(d),
         UNCHANGED <<catalogEvents, exportAudits, exported>>
  PROVE  ExportInv'
<1>1. Awaited(d) \in Slots /\ request[Awaited(d)] \in Requests
  BY AwaitedFacts, RequestFacts DEF IInv
<1>2. request \in [Slots -> Requests]
  BY DEF IInv, Shapes
<1> PICK r : r = Over([request[Awaited(d)] EXCEPT !.heard = TRUE])
  OBVIOUS
<1>3. r.stage \in {request[Awaited(d)].stage, "free"}
  BY <1>1, OverStage
<1>4. request' = [request EXCEPT ![Awaited(d)] = r]
  BY Zenon DEF Heard
<1>5. \A s \in Slots : request'[s].stage \in AuditStages => request[s].stage \in AuditStages
  <2>1. "free" \notin AuditStages
    BY DEF AuditStages
  <2>2. \A s \in Slots : request'[s] = IF s = Awaited(d) THEN r ELSE request[s]
    BY <1>2, <1>4
  <2> QED
    BY <1>3, <2>1, <2>2, Zenon
<1> QED
  BY <1>5, QuietExports

LEMMA FleetExports ==
  ASSUME IInv, ExportInv,
         \/ Step \/ Tick \/ Restart
         \/ \E d \in Devices : Settle(d) \/ Timeout(d)
         \/ \E m \in DOMAIN MqttPayloads : HandleMqtt(m)
  PROVE  ExportInv'
<1>1. UNCHANGED <<catalogEvents, exportAudits, exported>>
  BY DEF Step, Tick, Restart, Settle, Timeout, HandleMqtt, exportVars
<1>2. CASE Step
  <2>1. PICK chosen : Emit(chosen)
    BY <1>2 DEF Step
  <2>2. \A s \in Slots : \/ request'[s] = request[s]
                         \/ \E n : request'[s] = [Free EXCEPT !.stage = "arriving", !.reading = n]
    BY <2>1 DEF Emit
  <2>3. \A n : [Free EXCEPT !.stage = "arriving", !.reading = n].stage \notin AuditStages
    BY DEF Free, AuditStages
  <2> QED
    BY <1>1, <2>2, <2>3, QuietExports
<1>3. CASE Tick \/ \E m \in DOMAIN MqttPayloads : HandleMqtt(m)
  <2>1. request' = request
    BY <1>3 DEF Tick, HandleMqtt, gatewayVars
  <2> QED
    BY <1>1, <2>1, QuietExports
<1>4. CASE Restart
  <2>1. \A s \in Slots :
          request'[s] \in {[request[s] EXCEPT !.forgotten = TRUE, !.heard = TRUE],
                           Over([request[s] EXCEPT !.stage = "done"]), Free}
    BY <1>4, Zenon DEF Restart
  <2>2. ASSUME NEW s \in Slots
        PROVE  request'[s].stage \in AuditStages => request[s].stage \in AuditStages
    <3>1. request[s] \in Requests
      BY RequestFacts
    <3>2. /\ [request[s] EXCEPT !.forgotten = TRUE, !.heard = TRUE].stage = request[s].stage
          /\ Over([request[s] EXCEPT !.stage = "done"]).stage \in {"done", "free"}
      BY <3>1, OverStage
    <3>3. Free.stage \notin AuditStages /\ {"done", "free"} \cap AuditStages = {}
      BY DEF Free, AuditStages
    <3> QED
      BY <2>1, <3>2, <3>3
  <2> QED
    BY <1>1, <2>2, QuietExports
<1>5. CASE \E d \in Devices : Settle(d) \/ Timeout(d)
  <2>1. PICK d \in Devices : waiting[d] # 0 /\ Heard(d)
    BY <1>5 DEF Settle, Timeout
  <2> QED
    BY <1>1, <2>1, HeardExports
<1> QED
  BY <1>2, <1>3, <1>4, <1>5

LEMMA GatewayExports ==
  ASSUME IInv, ExportInv,
         \/ \E o \in Others : SendOther(o)
         \/ \E s \in Slots : Admit(s) \/ ReadPage(s) \/ Record(s) \/ Ingest(s) \/ AnswerElsewhere(s)
  PROVE  ExportInv'
<1>1. UNCHANGED <<catalogEvents, exportAudits, exported>>
  <2>1. CASE \E o \in Others : SendOther(o)
    BY <2>1 DEF SendOther, exportVars
  <2>2. ASSUME NEW s \in Slots, Admit(s) \/ ReadPage(s)
        PROVE  UNCHANGED <<catalogEvents, exportAudits, exported>>
    BY <2>2, ZenonT(60) DEF Admit, ReadPage, exportVars
  <2>3. CASE \E s \in Slots : Record(s) \/ Ingest(s) \/ AnswerElsewhere(s)
    BY <2>3 DEF Record, Audited, Ingest, AnswerElsewhere, exportVars
  <2> QED
    BY <2>1, <2>2, <2>3
<1>2. CASE \E o \in Others : SendOther(o)
  <2>1. PICK o \in Others : request' = [request EXCEPT ![<<o, 1>>] =
                                          [Free EXCEPT !.stage = "arriving", !.heard = TRUE]]
    BY <1>2 DEF SendOther
  <2>2. <<o, 1>> \in Slots
    BY SlotFacts
  <2>3. [Free EXCEPT !.stage = "arriving", !.heard = TRUE].stage \notin AuditStages
    BY DEF Free, AuditStages
  <2> QED
    BY <1>1, <2>1, <2>2, <2>3, ElsewhereQuiet, Zenon
<1>3. ASSUME NEW s \in Slots, Admit(s) PROVE ExportInv'
  <2>1. request[s] \in Requests
    BY RequestFacts
  <2>2. ServiceOf(s) \notin AuditStages
    BY DEF ServiceOf, AuditStages
  <2>3. PICK r, status, retryAfter :
          /\ \/ r = [request[s] EXCEPT !.stage = ServiceOf(s)]
             \/ r = [request[s] EXCEPT !.stage = "audit", !.status = status,
                                       !.retryAfter = retryAfter]
             \/ r = Done([request[s] EXCEPT !.stage = "audit", !.status = status,
                                            !.retryAfter = retryAfter])
          /\ request' = [request EXCEPT ![s] = r]
    BY <1>3, Zenon DEF Admit
  <2>4. r.stage \notin AuditStages
    <3>1. [request[s] EXCEPT !.stage = ServiceOf(s)].stage = ServiceOf(s)
      BY <2>1 DEF Requests
    <3>2. /\ [request[s] EXCEPT !.stage = "audit", !.status = status,
                                !.retryAfter = retryAfter].stage \notin AuditStages
          /\ Done([request[s] EXCEPT !.stage = "audit", !.status = status,
                                     !.retryAfter = retryAfter]).stage \notin AuditStages
      BY <2>1, AnsweredStage
    <3>3. CASE r = [request[s] EXCEPT !.stage = ServiceOf(s)]
      BY <2>2, <3>1, <3>3
    <3> QED
      BY <2>3, <3>2, <3>3, Zenon
  <2> QED
    BY <1>1, <2>3, <2>4, ElsewhereQuiet, Zenon
<1>6. ASSUME NEW s \in Slots, ReadPage(s) PROVE ExportInv'
  <2>1. request[s] \in Requests
    BY RequestFacts
  <2>2. PICK r, status : /\ \/ r = [request[s] EXCEPT !.stage = "audit", !.status = status]
                            \/ r = Done([request[s] EXCEPT !.stage = "audit", !.status = status])
                         /\ request' = [request EXCEPT ![s] = r]
    BY <1>6, ZenonT(60) DEF ReadPage
  <2>3. r.stage \notin AuditStages
    BY <2>1, <2>2, AnsweredStage, Zenon
  <2> QED
    BY <1>1, <2>2, <2>3, ElsewhereQuiet, Zenon
<1>4. ASSUME NEW s \in Slots, Record(s) PROVE ExportInv'
  <2>1. request[s] \in Requests
    BY RequestFacts
  <2>2. PICK r : /\ r = Done(request[s])
                 /\ request' = [request EXCEPT ![s] = r]
    BY <1>4, Zenon DEF Record, Audited
  <2>3. r.stage \notin AuditStages
    BY <2>1, <2>2, OverStage DEF AuditStages
  <2> QED
    BY <1>1, <2>2, <2>3, ElsewhereQuiet, Zenon
<1>5. ASSUME NEW s \in Slots, Ingest(s) \/ AnswerElsewhere(s) PROVE ExportInv'
  <2>1. \E status : Reply(s, status) \/ NoReply(s)
    BY <1>5 DEF Ingest, AnswerElsewhere, Await
  <2> QED
    BY <1>1, <2>1, ReplyStage, ElsewhereQuiet, Zenon
<1> QED
  BY <1>2, <1>3, <1>4, <1>5, <1>6

LEMMA StartExportExports ==
  ASSUME IInv, ExportInv, NEW s \in Slots, StartExport(s)
  PROVE  ExportInv'
<1>1. UNCHANGED <<exportAudits, exported>>
  BY DEF StartExport
<1>2. CASE \E status : (Reply(s, status) \/ NoReply(s))
  <2>1. catalogEvents' \in {catalogEvents, catalogEvents \cup {s}}
    BY DEF StartExport, Await
  <2>2. PICK r : r.stage \notin AuditStages /\ request' = [request EXCEPT ![s] = r]
    BY <1>2, ReplyStage, Zenon
  <2>3. /\ request \in [Slots -> Requests]
        /\ request'[s] = r /\ \A t \in Slots : t # s => request'[t] = request[t]
    BY <2>2 DEF IInv, Shapes
  <2> QED
    BY <1>1, <2>1, <2>2, <2>3 DEF ExportInv
<1>3. CASE GoOn(s, "store_export") /\ (IsCatalog(s) => catalogEvents' = catalogEvents \cup {s})
           /\ (~IsCatalog(s) => catalogEvents' = catalogEvents)
  <2>1. \A t \in Slots : t # s => request'[t] = request[t]
    BY <1>3 DEF GoOn, IInv, Shapes
  <2>2. /\ IsCatalog(s) => s \in catalogEvents'
        /\ catalogEvents \subseteq catalogEvents'
    BY <1>3
  <2>3. \A t \in Slots : request'[t].stage \in AuditStages /\ IsCatalog(t) => t \in catalogEvents'
    BY <2>1, <2>2 DEF ExportInv
  <2> QED
    BY <1>1, <2>2, <2>3 DEF ExportInv
<1> QED
  <2>1. \/ \E status : (Reply(s, status) \/ NoReply(s))
        \/ /\ GoOn(s, "store_export")
           /\ IF IsCatalog(s) THEN catalogEvents' = catalogEvents \cup {s}
              ELSE UNCHANGED catalogEvents
    BY Zenon DEF StartExport, Await, IsCatalog
  <2> QED
    BY <1>2, <1>3, <2>1

LEMMA StoreExportExports ==
  ASSUME IInv, ExportInv, NEW s \in Slots, StoreExportAudit(s)
  PROVE  ExportInv'
<1>1. UNCHANGED <<catalogEvents, exportAudits, exported>>
  BY DEF StoreExportAudit
<1>2. request[s].stage \in AuditStages /\ GoOn(s, "announce_export")
  BY DEF StoreExportAudit, AuditStages
<1>3. \A t \in Slots : t # s => request'[t] = request[t]
  BY <1>2 DEF GoOn, IInv, Shapes
<1> QED
  BY <1>1, <1>2, <1>3, QuietExports, Zenon

LEMMA PublishExportExports ==
  ASSUME IInv, ExportInv, NEW s \in Slots, PublishExportAudit(s)
  PROVE  ExportInv'
<1>1. request[s].stage \in AuditStages /\ Sender(s) \in Others /\ catalogEvents' = catalogEvents
  BY RequestFacts DEF PublishExportAudit, AuditStages
<1>2. PICK r : r.stage \notin AuditStages /\ request' = [request EXCEPT ![s] = r]
  <2>1. \E status : Reply(s, status) \/ NoReply(s)
    BY DEF PublishExportAudit, Await
  <2> QED
    BY <2>1, ReplyStage, Zenon
<1>3. \/ exportAudits' = exportAudits \cup {<<s, AuditOf(s)>>} /\ exported' = exported \cup {s}
      \/ exportAudits' = exportAudits \cup {<<s, AuditOf(s)>>} /\ exported' = exported
      \/ exportAudits' = exportAudits /\ exported' = exported
  BY DEF PublishExportAudit, Await
<1>4. /\ request'[s] = r /\ \A t \in Slots : t # s => request'[t] = request[t]
  BY <1>2 DEF IInv, Shapes
<1>5. \A t \in Slots : request'[t].stage \in AuditStages /\ IsCatalog(t) => t \in catalogEvents'
  BY <1>1, <1>2, <1>4 DEF ExportInv
<1>6. IsCatalog(s) => s \in catalogEvents
  BY <1>1 DEF ExportInv
<1>7. exportAudits \subseteq exportAudits'
  BY <1>3
<1>8. \A t \in exported' :
        t \in Slots /\ Sender(t) \in Others /\ <<t, AuditOf(t)>> \in exportAudits'
  BY <1>1, <1>3, <1>7 DEF ExportInv
<1>9. \A a \in exportAudits' : \E t \in Slots : /\ a = <<t, AuditOf(t)>>
                                                /\ IsCatalog(t) => t \in catalogEvents'
  BY <1>1, <1>3, <1>6 DEF ExportInv
<1> QED
  BY <1>5, <1>8, <1>9 DEF ExportInv

LEMMA ExportsPreserved == IInv /\ ExportInv /\ [Next]_vars => ExportInv'
<1>1. ASSUME IInv, ExportInv, UNCHANGED vars PROVE ExportInv'
  <2>1. UNCHANGED <<request, catalogEvents, exportAudits, exported>>
    BY <1>1 DEF vars, gatewayVars, exportVars
  <2> QED
    BY <1>1, <2>1 DEF ExportInv
<1>2. ASSUME IInv, ExportInv, Next PROVE ExportInv'
  <2>1. CASE \/ Step \/ Tick \/ Restart
             \/ \E d \in Devices : Settle(d) \/ Timeout(d)
             \/ \E m \in DOMAIN MqttPayloads : HandleMqtt(m)
    BY <1>2, <2>1, FleetExports
  <2>2. CASE \/ \E o \in Others : SendOther(o)
             \/ \E s \in Slots : Admit(s) \/ ReadPage(s) \/ Record(s) \/ Ingest(s) \/ AnswerElsewhere(s)
    BY <1>2, <2>2, GatewayExports
  <2>3. CASE \E s \in Slots : StartExport(s) \/ StoreExportAudit(s) \/ PublishExportAudit(s)
    BY <1>2, <2>3, StartExportExports, StoreExportExports, PublishExportExports
  <2> QED
    BY <1>2, <2>1, <2>2, <2>3, Zenon DEF Next
<1> QED
  BY <1>1, <1>2

LEMMA ExportsStart == Init => ExportInv
<1> SUFFICES ASSUME Init PROVE ExportInv
  OBVIOUS
<1>1. exported = {} /\ exportAudits = {} /\ \A s \in Slots : request[s].stage = "free"
  BY DEF Init, Free
<1> QED
  BY <1>1 DEF ExportInv, AuditStages

LEMMA ExportInvariance == Spec => []ExportInv
<1> QED
  BY ExportsStart, ExportsPreserved, EdgeInvariance, PTL DEF Spec

\* What a requester gets of an export, and what its audit says of it.
LEMMA PayloadFacts ==
  ASSUME NEW s \in Slots, Sender(s) \in Others, Content(s).query.export \in DOMAIN ASSETS
  PROVE  LET limit == normalizeRequestedLimit(Content(s).query.limit, MaxRecords) IN
         /\ PayloadOf(s).data \in Handed(limit) /\ limit \in Nat
         /\ PayloadOf(s).record_count = Len(PayloadOf(s).data)
         /\ AuditOf(s).record_count = PayloadOf(s).record_count
<1> DEFINE q == Content(s).query
           limit == normalizeRequestedLimit(q.limit, MaxRecords)
           full == q.export = "full_pipeline_demo_summary"
<1>1. q.limit \in Int /\ MaxRecords \in Int
  BY SlotFacts, EdgeAssumption DEF Content
<1>2. /\ limit \in Nat /\ normalizeRequestedLimit(limit, limit) = limit
      /\ normalizeRequestedLimit(q.limit, normalizeMaxRecords(MaxRecords)) = limit
  BY <1>1, LimitsAreKept
<1>3. PayloadOf(s) =
        IF full THEN buildFullPipelineDemoPayload(q.community,
                       getFullPipelineDemoSummary(q.community, limit), limit)
        ELSE buildExportPayload(q.export, q.community,
                                EXPORT_HANDLERS(q.export, q.community, limit), limit)
  BY <1>2, Zenon DEF PayloadOf
<1>4. AuditOf(s).record_count = PayloadOf(s).record_count
  <2>1. q.export # "catalog_publish"
    BY DEF ASSETS
  <2> QED
    BY <2>1 DEF AuditOf, buildAuditEvent, buildAuditPayload
<1>5. CASE full
  <2>1. \A t \in Range(Sections) :
          getFullPipelineDemoSummary(q.community, limit)[t] \in Seq(Rows)
    BY <1>2, QueryFacts DEF getFullPipelineDemoSummary
  <2> PICK rows : rows = getFullPipelineDemoSummary(q.community, limit)
    OBVIOUS
  <2> PICK payload : payload = buildFullPipelineDemoPayload(q.community, rows, limit)
    OBVIOUS
  <2>2. payload.data \in Handed(limit) /\ payload.record_count = Len(payload.data)
    <3>1. \A t \in Range(Sections) : rows[t] \in Seq(Rows)
      BY <2>1
    <3> HIDE DEF limit
    <3> QED
      BY <1>2, <3>1, FullExportFacts
  <2>3. PayloadOf(s) = payload
    BY <1>3, <1>5
  <2> QED
    BY <1>2, <1>4, <2>2, <2>3
<1>6. CASE ~full
  <2>1. q.export \in Range(Sections)
    BY <1>6 DEF ASSETS, Sections, Range
  <2>2. EXPORT_HANDLERS(q.export, q.community, limit) \in Seq(Rows)
    BY <1>2, <2>1, QueryFacts
  <2>3. mapRows(q.export, EXPORT_HANDLERS(q.export, q.community, limit), limit) \in Handed(limit)
    BY <1>2, <2>1, <2>2, MapRowsFacts
  <2>4. /\ PayloadOf(s).data
             = mapRows(q.export, EXPORT_HANDLERS(q.export, q.community, limit), limit)
        /\ PayloadOf(s).record_count = Len(PayloadOf(s).data)
    BY <1>2, <1>3, <1>6 DEF buildExportPayload
  <2> QED
    BY <1>2, <1>4, <2>3, <2>4
<1> QED
  BY <1>5, <1>6

\* An audit of type catalog_publish is that of the catalog.
LEMMA CatalogAudits ==
  ASSUME NEW s \in Slots, AuditOf(s).export_type = "catalog_publish"
  PROVE  IsCatalog(s)
<1> SUFFICES ASSUME ~IsCatalog(s) PROVE FALSE
  OBVIOUS
<1>1. AuditOf(s).export_type = PayloadOf(s).export_type
  BY DEF AuditOf, IsCatalog, buildAuditEvent, buildAuditPayload
<1>2. PayloadOf(s).export_type \in {Content(s).query.export, "full_pipeline_demo_summary"}
  BY DEF PayloadOf, buildFullPipelineDemoPayload, buildExportPayload
<1> QED
  BY <1>1, <1>2 DEF IsCatalog

\* storeAndPublishAudit and export-builder.js, for any tables, limits and requests: whoever
\* got an export is in the audit with what was handed out, within the limit and nameless,
\* and the catalog's audit follows its event.
THEOREM ExportsHaveAudits == Spec => []ExportsAreAudited
<1>1. ASSUME ExportInv PROVE ExportsAreAudited
  <2>1. \A s \in exported : <<s, AuditOf(s)>> \in exportAudits
    BY <1>1 DEF ExportInv
  <2>2. ASSUME NEW s \in exported, Content(s).query.export \in DOMAIN ASSETS
        PROVE  /\ PayloadOf(s).record_count = AuditOf(s).record_count
               /\ PayloadOf(s).record_count
                    <= normalizeRequestedLimit(Content(s).query.limit, MaxRecords)
               /\ \A row \in Range(PayloadOf(s).data) :
                    row.household_ref \notin RawIds /\ row.device_ref \notin RawIds
    <3> DEFINE limit == normalizeRequestedLimit(Content(s).query.limit, MaxRecords)
    <3>1. s \in Slots /\ Sender(s) \in Others
      BY <1>1 DEF ExportInv
    <3>2. /\ PayloadOf(s).data \in Handed(limit)
          /\ PayloadOf(s).record_count = Len(PayloadOf(s).data)
          /\ AuditOf(s).record_count = PayloadOf(s).record_count
      BY <2>2, <3>1, PayloadFacts
    <3>3. PayloadOf(s).data \in Seq(NamelessRows) /\ Len(PayloadOf(s).data) <= limit
      BY <3>2 DEF Handed
    <3>4. \A row \in Range(PayloadOf(s).data) : row \in NamelessRows
      BY <3>3 DEF Range
    <3> QED
      BY <3>2, <3>3, <3>4, NobodyIsNamed
  <2>3. ASSUME NEW audit \in exportAudits, audit[2].export_type = "catalog_publish"
        PROVE  audit[1] \in catalogEvents
    <3>1. PICK s \in Slots : audit = <<s, AuditOf(s)>> /\ (IsCatalog(s) => s \in catalogEvents)
      BY <1>1 DEF ExportInv
    <3> QED
      BY <2>3, <3>1, CatalogAudits
  <2> QED
    BY <2>1, <2>2, <2>3 DEF ExportsAreAudited
<1> QED
  BY <1>1, ExportInvariance, PTL
=============================================================================
