----------------------- MODULE DispatchChain_proofs -----------------------
(***************************************************************************)
(* Proofs about DispatchChain for any signals, backlogs, semantic events,  *)
(* and any number of failed calls and restarts.                            *)
(*                                                                         *)
(* The argument.  The topics and the rows only grow, so what one service   *)
(* knows of them stays true while the others move (LogsGrow and the Rests  *)
(* lemmas), and a step matters only to the part of the invariant that is   *)
(* about its own service:                                                  *)
(*   SemanticInv    a row was translated at an earlier take than what is   *)
(*                  about to be stored, so a row that stands in its place  *)
(*                  says the same;                                         *)
(*   AggregatorInv  the proposal in hand has its row, and then its event;  *)
(*   ReadyInv       a ready event is that of a proposal announced as       *)
(*                  ready, which no decision takes back;                   *)
(*   MockInv        each step of the adapter raises a count that is behind *)
(*                  the one before it;                                     *)
(*   DeviceInv      so does each step of the translator's loop, and of the *)
(*                  devices of the event in hand those it is done with     *)
(*                  have strictly more results than those it is not: that  *)
(*                  keeps them in order when a redelivery starts over.     *)
(* Each part also says that while no call has failed everything behind the *)
(* position is settled.  A restart returns to the committed offset, which  *)
(* is never ahead of it.                                                   *)
(*                                                                         *)
(* How often a signal acts (BoundInv): it is on its topic once more than   *)
(* it was posted only after a failed call, a message has another row only  *)
(* after a restart of the aggregator, a row has one ready event, and that  *)
(* is tried again only after a restart of the adapter or the translator.   *)
(* The restarts are split between the aggregator and the translator, and   *)
(* (1 + f) * (1 + a) * (1 + t) stays below 2 ^ (f + a + t).                *)
(*                                                                         *)
(* The allocation and the payload builders are about no state: the sums    *)
(* over the three devices are written out (SumOfThree), the two rounded    *)
(* shares leave the last device what it can give (Rounding), and a valid   *)
(* signal is followed from builder to builder.                             *)
(***************************************************************************)
EXTENDS DispatchChain, SequenceTheorems, FiniteSetTheorems, WellFoundedInduction, TLAPS

Steps == {"idle", "insert", "reject", "publish", "audit", "insert_rejected",
          "sent", "result", "send", "store", "audit_rejected"}

IsSequence(s) == s \in Seq(Range(s))

\* The message a consumer has in hand is on its topic, and it starts again at a message
\* it has already seen.
OffsetInv ==
  /\ pc \in [Consumers -> Steps]
  /\ position \in [Consumers -> Nat \ {0}] /\ committed \in [Consumers -> Nat \ {0}]
  /\ \A c \in Consumers : /\ committed[c] <= position[c] /\ position[c] <= Len(Topic(c)) + 1
                          /\ pc[c] # "idle" => position[c] <= Len(Topic(c))
  /\ failures \in Nat /\ restarts \in Nat

PostInv ==
  /\ post \in [DOMAIN Bodies -> {"unsent", "new", "store", "publish", "accepted", "failed", "refused"}]
  /\ IsSequence(gridSignals) /\ enriched \in {<<>>, Enriched}

\* A row was translated at an earlier take than what is about to be stored.
SemanticInv ==
  /\ takes \in Nat
  /\ pc["semantic"] \in {"idle", "store", "publish"}
  /\ pc["semantic"] # "idle" => takes > 0
  /\ translation = (IF pc["semantic"] = "idle" THEN {}
                    ELSE {translateSemanticEvent(Message("semantic"), ProcessedAt(takes))})
  /\ \A row \in ieeeReadings :
       \E e \in Range(Enriched), t \in 1..takes :
         /\ row = translateSemanticEvent(e, ProcessedAt(t))
         /\ pc["semantic"] = "store" => t < takes
  /\ pc["semantic"] = "publish" => translation \subseteq ieeeReadings
  /\ translated \subseteq ieeeReadings
  /\ failures = 0 =>
       \A n \in 1..position["semantic"] - 1 :
         \E event \in translated : event.raw_semantic_payload = enriched[n]

\* The proposal in hand has its row.
AggregatorInv ==
  /\ pc["aggregator"] \in {"idle", "insert", "reject", "publish", "audit"}
  /\ IsSequence(rows) /\ DOMAIN rows \subseteq RowIds
  /\ proposedAudits \subseteq proposed /\ proposed \subseteq DOMAIN rows
  /\ failedAudits \subseteq DOMAIN gridSignals
  /\ IF pc["aggregator"] \in {"publish", "audit"}
     THEN draft \in DOMAIN rows /\ rows[draft].message = position["aggregator"]
     ELSE draft = NoRow
  /\ pc["aggregator"] = "audit" => draft \in proposed
  /\ failures = 0 => \A o \in 1..position["aggregator"] - 1 : ProposedOrRefused(o)

IsReady(r) == status[r] = "ready_to_dispatch" /\ announced[r] # {}

\* A ready event is about a row that was announced, or it is none of the workflow's.
ReadyInv ==
  /\ IsSequence(readyTopic)
  /\ status \in [RowIds -> Lifecycle!STATUSES \cup {Lifecycle!Absent}]
  /\ announced \in [RowIds -> SUBSET {"reviewer"}]
  /\ \A r \in RowIds : status[r] # Lifecycle!Absent => r \in DOMAIN rows
  /\ \A n \in DOMAIN readyTopic :
       LET event == readyTopic[n] IN
       \/ event.id = NoRow /\ ~validateReadyCommand(event)
       \/ event.id \in DOMAIN rows /\ event = ReadyEvent(event.id) /\ IsReady(event.id)

\* The counts of every proposal are in the order of the steps.
MockOrder ==
  /\ mockRows \in [RowIds \cup {NoRow} -> Nat] /\ mockSent \in [RowIds \cup {NoRow} -> Nat]
  /\ mockResults \in [RowIds \cup {NoRow} -> Nat] /\ mockAudits \in [RowIds \cup {NoRow} -> Nat]
  /\ \A q \in RowIds :
       /\ mockAudits[q] <= mockResults[q] /\ mockResults[q] <= mockSent[q]
       /\ mockSent[q] <= mockRows[q]
       /\ mockRows[q] > 0 => IsReady(q)

\* Each step of the adapter leaves what the next one needs.
MockInv ==
  LET r == Message("adapter").id
      step == pc["adapter"]
  IN  /\ MockOrder
      /\ step \in {"idle", "insert", "insert_rejected", "sent", "result", "audit"}
      /\ step \in {"insert", "sent", "result"} => r \in RowIds
      /\ step = "insert_rejected" => r = NoRow
      /\ step = "sent" => mockSent[r] < mockRows[r]
      /\ step = "result" => mockResults[r] < mockSent[r]
      /\ step = "audit" => r = NoRow \/ mockAudits[r] < mockResults[r]
      /\ failures = 0 => \A n \in 1..position["adapter"] - 1 : mockAudits[readyTopic[n].id] > 0

DeviceId(i) == DEVICES[i].device_id

\* The counts of every device are in the order of the steps, and the results of a
\* proposal in the order of the registry.
DeviceOrder ==
  /\ attempts \in [RowIds -> [DeviceIds -> Nat]] /\ accepted \in [RowIds -> [DeviceIds -> Nat]]
  /\ results \in [RowIds -> [DeviceIds -> Nat]]
  /\ deviceRows \in [RowIds \cup {NoRow} -> [DeviceIds \cup {NoAction} -> Nat]]
  /\ deviceAudits \in [RowIds \cup {NoRow} -> [DeviceIds \cup {NoAction} -> Nat]]
  /\ \A r \in RowIds, d \in DeviceIds :
       /\ deviceAudits[r][d] <= results[r][d] /\ results[r][d] <= attempts[r][d]
       /\ accepted[r][d] <= attempts[r][d]
       /\ attempts[r][d] > 0 => IsReady(r)
  /\ \A r \in DOMAIN rows : \A i, j \in Asked(ReadyEvent(r)) :
       i < j => results[r][DeviceId(j)] <= results[r][DeviceId(i)]

InLoop == pc["translator"] \in {"send", "store", "result", "audit"}

\* Devices whose result of the event in hand is published, and audited.
Resulted(i) == i < cursor \/ (i = cursor /\ pc["translator"] = "audit")

LoopOK(event) ==
  LET r == event.id IN
  /\ r \in RowIds /\ commands = translateReadyCommand(event) /\ cursor \in DOMAIN commands
  /\ pc["translator"] \in {"store", "result"} =>
       results[r][DeviceId(cursor)] < attempts[r][DeviceId(cursor)]
  /\ pc["translator"] = "audit" =>
       deviceAudits[r][DeviceId(cursor)] < results[r][DeviceId(cursor)]
  /\ \A i, j \in Asked(event) : Resulted(i) /\ ~Resulted(j) =>
       results[r][DeviceId(j)] < results[r][DeviceId(i)]
  /\ failures = 0 =>
       \A i \in Asked(event) : i < cursor => deviceAudits[r][DeviceId(i)] > 0

IsAudited(n) ==
  LET audits == deviceAudits[readyTopic[n].id]
      asked  == Asked(readyTopic[n])
  IN  IF asked = {} THEN audits[NoAction] > 0 ELSE \A i \in asked : audits[DeviceId(i)] > 0

\* The loop over the devices is at a device of the event, behind those it is done with.
DeviceInv ==
  /\ DeviceOrder
  /\ pc["translator"] \in
       {"idle", "insert_rejected", "send", "store", "result", "audit", "audit_rejected"}
  /\ InLoop => LoopOK(Message("translator"))
  /\ ~InLoop => commands = NoCommands
  /\ pc["translator"] \in {"insert_rejected", "audit_rejected"} => Asked(Message("translator")) = {}
  /\ failures = 0 => \A n \in 1..position["translator"] - 1 : IsAudited(n)

IInv ==
  OffsetInv /\ PostInv /\ SemanticInv /\ AggregatorInv /\ ReadyInv /\ MockInv /\ DeviceInv

-----------------------------------------------------------------------------
(* Operators                                                               *)

LEMMA SequenceFacts ==
  ASSUME NEW s, IsSequence(s)
  PROVE  Len(s) \in Nat /\ DOMAIN s = 1..Len(s)
BY DEF IsSequence

\* Appending to a log leaves what is in it.
LEMMA AppendFacts ==
  ASSUME NEW s, IsSequence(s), NEW e
  PROVE  LET t == Append(s, e) IN
         /\ IsSequence(t) /\ Len(t) = Len(s) + 1
         /\ DOMAIN s \subseteq DOMAIN t /\ DOMAIN t = DOMAIN s \cup {Len(s) + 1}
         /\ t[Len(s) + 1] = e
         /\ \A i \in DOMAIN s : t[i] = s[i]
<1> PICK t : t = Append(s, e)
  OBVIOUS
<1> DEFINE S == Range(s) \cup {e}
<1>1. s \in Seq(S)
  <2>1. s \in [1..Len(s) -> S] /\ Len(s) \in Nat
    <3>1. s \in Seq(Range(s)) /\ Range(s) \subseteq S
      BY DEF IsSequence
    <3> QED
      BY <3>1, LenProperties
  <2> QED
    BY <2>1
<1>2. /\ t \in Seq(S) /\ Len(t) = Len(s) + 1 /\ t[Len(s) + 1] = e
      /\ \A i \in 1..Len(s) : t[i] = s[i]
  BY <1>1
<1>3. Len(t) \in Nat /\ t \in [1..Len(t) -> S]
  BY <1>2, LenProperties
<1>4. t \in Seq(Range(t))
  <2>1. t \in [1..Len(t) -> Range(t)]
    BY <1>3 DEF Range
  <2> QED
    BY <1>3, <2>1, SeqDef, ZenonT(60)
<1> QED
  BY <1>1, <1>2, <1>4, SequenceFacts DEF IsSequence

\* The registry has three devices with ids of their own.
LEMMA DeviceFacts ==
  /\ DOMAIN DEVICES = 1..3
  /\ \A i \in DOMAIN DEVICES : DeviceId(i) \in DeviceIds /\ DeviceId(i) # NoAction
  /\ \A i, j \in DOMAIN DEVICES : i # j => DeviceId(i) # DeviceId(j)
<1>1. DOMAIN DEVICES = 1..3
  BY DEF DEVICES
<1>2. /\ DeviceId(1) = "shelly-plug-001" /\ DeviceId(2) = "easee-core-001"
      /\ DeviceId(3) = "heat-pump-001"
  BY DEF DEVICES, DeviceId
<1>3. \A i \in DOMAIN DEVICES : i = 1 \/ i = 2 \/ i = 3
  BY <1>1
<1>4. \A i \in DOMAIN DEVICES : DeviceId(i) \in DeviceIds
  BY DEF DeviceId, DeviceIds
<1> QED
  BY <1>1, <1>2, <1>3, <1>4 DEF NoAction

\* The loop starts, and goes on, with the first device there is.
LEMMA MinFacts ==
  ASSUME NEW I, I \subseteq DOMAIN DEVICES, I # {}
  PROVE  Min(I) \in I /\ \A i \in I : Min(I) <= i
<1>1. PICK m \in I : \A i \in I : m <= i
  <2>1. I \subseteq {1, 2, 3}
    BY DeviceFacts
  <2>2. CASE 1 \in I
    BY <2>1, <2>2
  <2>3. CASE 1 \notin I /\ 2 \in I
    BY <2>1, <2>3
  <2>4. CASE 1 \notin I /\ 2 \notin I
    BY <2>1, <2>4
  <2> QED
    BY <2>2, <2>3, <2>4
<1> QED
  BY <1>1 DEF Min

\* A command is for a device of the registry, and about the event it comes from.
LEMMA CommandFacts ==
  ASSUME NEW event
  PROVE  /\ Asked(event) \subseteq DOMAIN DEVICES
         /\ \A i \in Asked(event) :
              LET command == translateReadyCommand(event)[i] IN
              command.dispatch_command_id = event.id /\ command.device_id = DeviceId(i)
         /\ Asked(event) # {} => validateReadyCommand(event)
         /\ Asked(event) = {} => translateReadyCommand(event) = NoCommands
<1> DEFINE devices == findDevicesForScope(event.community_id, DefaultArea)
           shares == allocateReduction(devices, getRequestedReductionKw(event, devices))
           action(i) == getDeviceAction(DEVICES[i], event, shares[i])
           commands_ == [i \in DOMAIN shares |->
                           buildCommandPayload(event, DEVICES[i], action(i), shares[i])]
<1>1. DOMAIN shares \subseteq DOMAIN DEVICES
  <2>1. devices \subseteq DOMAIN DEVICES
    BY DEF findDevicesForScope
  <2>2. DOMAIN shares \subseteq devices
    BY DEF allocateReduction
  <2> QED
    BY <2>1, <2>2
<1>2. \/ translateReadyCommand(event) = NoCommands
      \/ translateReadyCommand(event) = commands_ /\ validateReadyCommand(event)
  BY DEF translateReadyCommand
<1>3. DOMAIN NoCommands = {}
  BY DEF NoCommands
<1>4. \A i \in DOMAIN shares : /\ commands_[i].dispatch_command_id = event.id
                               /\ commands_[i].device_id = DeviceId(i)
  BY DEF buildCommandPayload, DeviceId
<1>5. DOMAIN commands_ = {} => commands_ = NoCommands
  BY DEF NoCommands
<1> QED
  BY <1>1, <1>2, <1>3, <1>4, <1>5 DEF Asked

-----------------------------------------------------------------------------
(* What a step of one service leaves to the others                         *)

\* t is s, or s and what was appended to it.
Grows(s, t) ==
  /\ IsSequence(s) /\ IsSequence(t) /\ Len(s) <= Len(t)
  /\ \A i \in DOMAIN s : i \in DOMAIN t /\ t[i] = s[i]

LogsGrow ==
  /\ Grows(gridSignals, gridSignals') /\ Grows(readyTopic, readyTopic') /\ Grows(rows, rows')
  /\ IsSequence(enriched) /\ UNCHANGED enriched

FaultsGrow ==
  /\ failures' \in Nat /\ restarts' \in Nat /\ (failures' = 0 => failures = 0)

ReadyStays == \A r \in RowIds : IsReady(r) => IsReady(r)'

Rests(c) == pc'[c] = pc[c] /\ position'[c] = position[c]

LEMMA SameLog ==
  ASSUME NEW s, IsSequence(s)
  PROVE  Grows(s, s)
BY SequenceFacts DEF Grows

LEMMA LongerLog ==
  ASSUME NEW s, IsSequence(s), NEW e
  PROVE  Grows(s, Append(s, e))
<1>1. LET t == Append(s, e) IN
      /\ IsSequence(t) /\ Len(t) = Len(s) + 1 /\ DOMAIN s \subseteq DOMAIN t
      /\ \A i \in DOMAIN s : t[i] = s[i]
  BY AppendFacts
<1>2. Len(s) \in Nat
  BY SequenceFacts
<1> QED
  BY <1>1, <1>2 DEF Grows

LEMMA TopicFacts ==
  /\ Topic("semantic") = enriched /\ Topic("aggregator") = gridSignals
  /\ Topic("adapter") = readyTopic /\ Topic("translator") = readyTopic
BY DEF Topic

\* Topics and rows are sequences.
LEMMA LogFacts ==
  ASSUME IInv
  PROVE  IsSequence(enriched) /\ IsSequence(gridSignals) /\ IsSequence(readyTopic) /\ IsSequence(rows)
<1>1. IsSequence(<<>>) /\ IsSequence(Enriched)
  BY EnrichedAssumption, EmptySeq DEF IsSequence
<1> QED
  BY <1>1 DEF IInv, PostInv, ReadyInv, AggregatorInv

\* Each part of the invariant outlives the steps of the other services.
LEMMA SemanticRests ==
  ASSUME IInv, Rests("semantic"), UNCHANGED readingVars, FaultsGrow
  PROVE  SemanticInv'
BY DEF IInv, SemanticInv, Rests, readingVars, FaultsGrow, Message, Topic

LEMMA AggregatorRests ==
  ASSUME IInv, Rests("aggregator"), UNCHANGED proposalVars, LogsGrow, FaultsGrow
  PROVE  AggregatorInv'
<1>1. DOMAIN gridSignals \subseteq DOMAIN gridSignals'
  BY DEF LogsGrow, Grows
<1> QED
  BY <1>1 DEF IInv, AggregatorInv, Rests, proposalVars, FaultsGrow, ProposedOrRefused

\* A row keeps its ready event.
LEMMA ReadyEventStays ==
  ASSUME LogsGrow, NEW r \in DOMAIN rows
  PROVE  r \in DOMAIN rows' /\ ReadyEvent(r)' = ReadyEvent(r)
BY DEF LogsGrow, Grows, ReadyEvent

\* An event that was announced stays the event of a ready proposal.
LEMMA EventsStay ==
  ASSUME IInv, LogsGrow, ReadyStays, NEW n \in DOMAIN readyTopic,
         ~(readyTopic[n].id = NoRow /\ ~validateReadyCommand(readyTopic[n]))
  PROVE  \E r : /\ r = readyTopic[n].id /\ r \in DOMAIN rows'
                /\ readyTopic[n] = ReadyEvent(r)' /\ IsReady(r)'
<1> PICK r : r = readyTopic[n].id
  OBVIOUS
<1>1. r \in DOMAIN rows /\ readyTopic[n] = ReadyEvent(r) /\ IsReady(r) /\ r \in RowIds
  BY DEF IInv, ReadyInv, AggregatorInv
<1>2. IsReady(r)' /\ r \in DOMAIN rows' /\ ReadyEvent(r)' = ReadyEvent(r)
  BY <1>1, ReadyEventStays DEF ReadyStays
<1> QED
  BY <1>1, <1>2

\* A step that leaves the events leaves what they say.
LEMMA EventsRest ==
  ASSUME IInv, LogsGrow, ReadyStays, UNCHANGED readyTopic
  PROVE  \A n \in DOMAIN readyTopic' :
           \/ readyTopic'[n].id = NoRow /\ ~validateReadyCommand(readyTopic'[n])
           \/ \E r : /\ r = readyTopic'[n].id /\ r \in DOMAIN rows'
                    /\ readyTopic'[n] = ReadyEvent(r)' /\ IsReady(r)'
BY EventsStay

LEMMA ReviewRests ==
  ASSUME IInv, UNCHANGED reviewVars, LogsGrow
  PROVE  ReadyInv' /\ ReadyStays
<1>1. ReadyStays
  BY DEF ReadyStays, IsReady, reviewVars
<1>2. UNCHANGED readyTopic
  BY DEF reviewVars
<1>3. \A r \in RowIds : status'[r] # Lifecycle!Absent => r \in DOMAIN rows'
  BY DEF IInv, ReadyInv, reviewVars, LogsGrow, Grows
<1>4. ReadyInv'
  BY <1>1, <1>2, <1>3, EventsRest DEF IInv, ReadyInv, reviewVars
<1> QED
  BY <1>1, <1>4

\* The message a consumer has in hand.
LEMMA InHand ==
  ASSUME IInv, NEW c \in Consumers, pc[c] # "idle"
  PROVE  /\ position[c] \in DOMAIN Topic(c) /\ position[c] \in Nat \ {0}
         /\ LogsGrow /\ Rests(c) => Message(c)' = Message(c)
<1>1. IsSequence(Topic(c))
  BY LogFacts DEF Topic
<1>2. position[c] \in 1..Len(Topic(c))
  BY <1>1, SequenceFacts DEF IInv, OffsetInv
<1>3. position[c] \in DOMAIN Topic(c)
  BY <1>1, <1>2, SequenceFacts
<1>4. LogsGrow => Topic(c)'[position[c]] = Topic(c)[position[c]]
  BY <1>3 DEF LogsGrow, Grows, Topic
<1> QED
  BY <1>2, <1>3, <1>4 DEF Rests, Message

\* What a consumer is done with stays as it is.
LEMMA BehindPosition ==
  ASSUME IInv, NEW c \in Consumers, NEW n \in 1..position[c] - 1
  PROVE  n \in DOMAIN Topic(c)
<1>1. IsSequence(Topic(c))
  BY LogFacts DEF Topic
<1>2. n \in 1..Len(Topic(c))
  BY <1>1, SequenceFacts DEF IInv, OffsetInv
<1> QED
  BY <1>1, <1>2, SequenceFacts

LEMMA AdapterRests ==
  ASSUME IInv, Rests("adapter"), UNCHANGED mockVars, LogsGrow, FaultsGrow, ReadyStays
  PROVE  MockInv'
<1>1. pc["adapter"] # "idle" => Message("adapter")' = Message("adapter")
  BY InHand DEF Consumers
<1>2. \A n \in 1..position["adapter"] - 1 : readyTopic'[n] = readyTopic[n]
  BY BehindPosition, TopicFacts DEF LogsGrow, Grows, Consumers
<1>3. failures' = 0 => \A n \in 1..position'["adapter"] - 1 : mockAudits'[readyTopic'[n].id] > 0
  BY <1>2 DEF IInv, MockInv, MockOrder, Rests, mockVars, FaultsGrow
<1>4. \A q \in RowIds : mockRows[q] > 0 => IsReady(q)'
  BY DEF IInv, MockInv, MockOrder, ReadyStays
<1> QED
  BY <1>1, <1>3, <1>4 DEF IInv, MockInv, MockOrder, Rests, mockVars

\* A device that has no row has no results.
LEMMA NoResults ==
  ASSUME IInv, NEW r \in RowIds \ DOMAIN rows, NEW d \in DeviceIds
  PROVE  results[r][d] = 0
<1>1. ~IsReady(r)
  BY DEF IInv, ReadyInv, IsReady, Lifecycle!Absent
<1>2. attempts[r][d] = 0 /\ results[r][d] <= attempts[r][d] /\ results[r][d] \in Nat
  BY <1>1 DEF IInv, DeviceInv, DeviceOrder
<1> QED
  BY <1>2

LEMMA TranslatorRests ==
  ASSUME IInv, Rests("translator"), UNCHANGED deviceVars, LogsGrow, FaultsGrow, ReadyStays,
         DOMAIN rows' \subseteq RowIds
  PROVE  DeviceInv'
<1>1. pc["translator"] # "idle" => Message("translator")' = Message("translator")
  BY InHand DEF Consumers
<1>2. \A n \in 1..position["translator"] - 1 : readyTopic'[n] = readyTopic[n]
  BY BehindPosition, TopicFacts DEF LogsGrow, Grows, Consumers
<1>3. failures' = 0 => \A n \in 1..position'["translator"] - 1 : IsAudited(n)'
  BY <1>2 DEF IInv, DeviceInv, DeviceOrder, IsAudited, Rests, deviceVars, FaultsGrow
<1>4. \A r \in DOMAIN rows' : \A i, j \in Asked(ReadyEvent(r)') :
        i < j => results'[r][DeviceId(j)] <= results'[r][DeviceId(i)]
  <2> SUFFICES ASSUME NEW r \in DOMAIN rows', NEW i \in Asked(ReadyEvent(r)'),
                      NEW j \in Asked(ReadyEvent(r)'), i < j
               PROVE  results[r][DeviceId(j)] <= results[r][DeviceId(i)]
    BY DEF deviceVars
  <2>1. CASE r \in DOMAIN rows
    BY <2>1, ReadyEventStays DEF IInv, DeviceInv, DeviceOrder
  <2>2. CASE r \notin DOMAIN rows
    BY <2>2, NoResults, CommandFacts, DeviceFacts
  <2> QED
    BY <2>1, <2>2
<1>5. InLoop => LoopOK(Message("translator"))'
  <2> SUFFICES ASSUME InLoop
               PROVE  LoopOK(Message("translator"))'
    OBVIOUS
  <2>1. LoopOK(Message("translator")) /\ Message("translator")' = Message("translator")
    BY <1>1 DEF IInv, DeviceInv, DeviceOrder, InLoop
  <2> QED
    BY <2>1 DEF LoopOK, Rests, deviceVars, FaultsGrow, Resulted
<1>6. InLoop' <=> InLoop
  BY DEF InLoop, Rests
<1>7. \A r \in RowIds, d \in DeviceIds : attempts[r][d] > 0 => IsReady(r)'
  BY DEF IInv, DeviceInv, DeviceOrder, ReadyStays
<1> QED
  BY <1>1, <1>3, <1>4, <1>5, <1>6, <1>7 DEF IInv, DeviceInv, DeviceOrder, Rests, deviceVars

-----------------------------------------------------------------------------
(* The steps of a consumer as such                                         *)

\* Of the consumers only c moves.
OnlyMoves(c) == \A o \in Consumers \ {c} : Rests(o)

LEMMA TopicsGrow ==
  ASSUME LogsGrow, NEW c \in Consumers
  PROVE  Len(Topic(c)) \in Nat /\ Len(Topic(c)') \in Nat /\ Len(Topic(c)) <= Len(Topic(c)')
<1>1. \A s \in {enriched, gridSignals, readyTopic} : IsSequence(s)
  BY DEF LogsGrow, Grows
<1>2. \A s \in {enriched', gridSignals', readyTopic'} : IsSequence(s)
  BY DEF LogsGrow, Grows
<1>3. /\ Len(gridSignals) <= Len(gridSignals') /\ Len(readyTopic) <= Len(readyTopic')
      /\ enriched' = enriched
  BY DEF LogsGrow, Grows
<1>4. \A s \in {enriched, gridSignals, readyTopic} : Len(s) \in Nat
  BY <1>1, SequenceFacts
<1>5. \A s \in {enriched', gridSignals', readyTopic'} : Len(s) \in Nat
  BY <1>2, SequenceFacts
<1> QED
  BY <1>3, <1>4, <1>5 DEF Topic

LEMMA ConsumersRest ==
  ASSUME IInv, LogsGrow, FaultsGrow, UNCHANGED <<pc, offsetVars>>
  PROVE  OffsetInv' /\ \A c \in Consumers : Rests(c)
<1>1. \A c \in Consumers : position'[c] = position[c] /\ pc'[c] = pc[c] /\ committed'[c] = committed[c]
  BY DEF offsetVars
<1> QED
  BY <1>1, TopicsGrow DEF IInv, OffsetInv, Rests, offsetVars, FaultsGrow

\* Taking a message, or going on with it.
LEMMA GoToStep ==
  ASSUME IInv, LogsGrow, FaultsGrow, NEW c \in Consumers, NEW step \in Steps, GoTo(c, step),
         pc[c] # "idle" \/ position[c] <= Len(Topic(c))
  PROVE  /\ OffsetInv' /\ OnlyMoves(c) /\ pc'[c] = step /\ position'[c] = position[c]
         /\ position[c] \in DOMAIN Topic(c) /\ position[c] \in Nat \ {0} /\ Message(c)' = Message(c)
<1>1. position[c] <= Len(Topic(c)) /\ position[c] \in Nat \ {0}
  BY DEF IInv, OffsetInv
<1>2. pc' = [pc EXCEPT ![c] = step] /\ position' = position /\ committed' = committed
  BY DEF GoTo, offsetVars
<1>3. pc'[c] = step /\ OnlyMoves(c)
  BY <1>2 DEF IInv, OffsetInv, OnlyMoves, Rests
<1>4. OffsetInv'
  <2>1. pc' \in [Consumers -> Steps]
    BY <1>2 DEF IInv, OffsetInv
  <2>2. ASSUME NEW o \in Consumers
        PROVE  /\ committed'[o] <= position'[o] /\ position'[o] <= Len(Topic(o)') + 1
               /\ pc'[o] # "idle" => position'[o] <= Len(Topic(o)')
    <3>1. /\ committed[o] <= position[o] /\ position[o] <= Len(Topic(o)) + 1
          /\ pc'[o] # "idle" => position[o] <= Len(Topic(o))
          /\ position[o] \in Nat
      BY <1>1, <1>3 DEF IInv, OffsetInv, OnlyMoves, Rests
    <3> QED
      BY <1>2, <3>1, TopicsGrow
  <2> QED
    BY <1>2, <2>1, <2>2 DEF IInv, OffsetInv, FaultsGrow
<1>5. IsSequence(Topic(c)) /\ position[c] \in DOMAIN Topic(c)
  <2>1. IsSequence(Topic(c))
    BY LogFacts DEF Topic
  <2> QED
    BY <1>1, <2>1, SequenceFacts
<1>6. Message(c)' = Message(c)
  BY <1>2, <1>5 DEF LogsGrow, Grows, Message, Topic
<1> QED
  BY <1>1, <1>2, <1>3, <1>4, <1>5, <1>6

\* Being done with a message.
LEMMA FinishStep ==
  ASSUME IInv, LogsGrow, FaultsGrow, NEW c \in Consumers, Finish(c), pc[c] # "idle"
  PROVE  /\ OffsetInv' /\ OnlyMoves(c) /\ pc'[c] = "idle" /\ position'[c] = position[c] + 1
         /\ position[c] \in DOMAIN Topic(c) /\ position[c] \in Nat \ {0}
<1>1. /\ pc' = [pc EXCEPT ![c] = "idle"] /\ position' = [position EXCEPT ![c] = @ + 1]
      /\ committed' = committed
  BY DEF Finish
<1>2. pc'[c] = "idle" /\ position'[c] = position[c] + 1 /\ OnlyMoves(c)
  BY <1>1 DEF IInv, OffsetInv, OnlyMoves, Rests
<1>3. OffsetInv'
  <2>1. pc' \in [Consumers -> Steps] /\ position' \in [Consumers -> Nat \ {0}]
    BY <1>1 DEF IInv, OffsetInv, Steps
  <2>2. ASSUME NEW o \in Consumers
        PROVE  /\ committed'[o] <= position'[o] /\ position'[o] <= Len(Topic(o)') + 1
               /\ pc'[o] # "idle" => position'[o] <= Len(Topic(o)')
    <3>1. /\ committed[o] \in Nat /\ position[o] \in Nat /\ committed[o] <= position[o]
          /\ pc[o] # "idle" => position[o] <= Len(Topic(o))
          /\ position[o] <= Len(Topic(o)) + 1
      BY DEF IInv, OffsetInv
    <3>2. CASE o = c
      BY <1>1, <1>2, <3>1, <3>2, TopicsGrow
    <3>3. CASE o # c
      BY <1>1, <1>2, <3>1, <3>3, TopicsGrow DEF OnlyMoves, Rests
    <3> QED
      BY <3>2, <3>3
  <2> QED
    BY <1>1, <2>1, <2>2 DEF IInv, OffsetInv, FaultsGrow
<1> QED
  BY <1>2, <1>3, InHand

\* An awaited call fails in both ways or in none.
LEMMA AwaitFaults ==
  ASSUME IInv, UNCHANGED restarts, UNCHANGED failures \/ Fail
  PROVE  FaultsGrow /\ (Fail => failures' # 0)
BY DEF IInv, OffsetInv, FaultsGrow, Fail

LEMMA SameLogs ==
  ASSUME IInv, UNCHANGED <<enriched, gridSignals, readyTopic, rows>>
  PROVE  LogsGrow
BY LogFacts, SameLog DEF LogsGrow

-----------------------------------------------------------------------------
(* ieee20305-translator                                                    *)

LEMMA PostStep ==
  ASSUME IInv, NEW s \in DOMAIN Bodies, PostSignal(s) \/ StoreSignal(s) \/ PublishSignal(s)
  PROVE  IInv'
<1>1. /\ UNCHANGED <<readingVars, proposalVars, reviewVars, mockVars, deviceVars, pc, offsetVars>>
      /\ UNCHANGED restarts
      /\ UNCHANGED failures \/ Fail
      /\ UNCHANGED gridSignals \/ gridSignals' = Append(gridSignals, translateGridSignal(Bodies[s]))
      /\ \E step \in {"store", "refused", "publish", "failed", "accepted"} : PostGoesTo(s, step)
  BY DEF PostSignal, StoreSignal, PublishSignal, Await, Fail
<1>2. FaultsGrow
  BY <1>1, AwaitFaults
<1>3. Grows(gridSignals, gridSignals') /\ IsSequence(gridSignals')
  <2>1. CASE UNCHANGED gridSignals
    BY <2>1, LogFacts, SameLog DEF Grows
  <2>2. CASE gridSignals' = Append(gridSignals, translateGridSignal(Bodies[s]))
    BY <2>2, LogFacts, LongerLog DEF Grows
  <2> QED
    BY <1>1, <2>1, <2>2
<1>4. LogsGrow
  BY <1>1, <1>3, LogFacts, SameLog DEF LogsGrow, readingVars, proposalVars, reviewVars
<1>5. OffsetInv' /\ \A c \in Consumers : Rests(c)
  BY <1>1, <1>2, <1>4, ConsumersRest
<1>6. PostInv'
  BY <1>1, <1>3 DEF IInv, PostInv, PostGoesTo, readingVars
<1>7. ReadyInv' /\ ReadyStays
  BY <1>1, <1>4, ReviewRests
<1>8. SemanticInv' /\ AggregatorInv' /\ MockInv'
  BY <1>1, <1>2, <1>4, <1>5, <1>7, SemanticRests, AggregatorRests, AdapterRests DEF Consumers
<1>9. DOMAIN rows' \subseteq RowIds
  BY <1>8 DEF AggregatorInv
<1>10. DeviceInv'
  BY <1>1, <1>2, <1>4, <1>5, <1>7, <1>9, TranslatorRests DEF Consumers
<1> QED
  BY <1>5, <1>6, <1>7, <1>8, <1>10 DEF IInv

\* What every translation keeps of the event, and when it depends on the clock.
LEMMA TranslationFacts ==
  ASSUME NEW e, NEW now
  PROVE  LET event == translateSemanticEvent(e, now) IN
         /\ event.raw_semantic_payload = e /\ event.reading_id = e.reading_id
         /\ event.event_time = (IF e.event_time = NoTime THEN now ELSE e.event_time)
         /\ e.event_time # NoTime => \A later : event = translateSemanticEvent(e, later)
BY DEF translateSemanticEvent, buildInvalidSemanticTranslation, validateSemanticEvent,
       normalizeTimestamp

\* The row that is there says what was to be stored.
LEMMA StoredTranslation ==
  ASSUME IInv, pc["semantic"] = "store", NEW event \in translation
  PROVE  event \in WithTranslation(ieeeReadings, event)
<1>1. position["semantic"] \in DOMAIN enriched /\ Message("semantic") \in Range(Enriched)
  <2>1. position["semantic"] \in DOMAIN enriched /\ enriched \in {<<>>, Enriched}
    BY InHand, TopicFacts DEF Consumers, IInv, PostInv
  <2>2. enriched = Enriched
    BY <2>1
  <2> QED
    BY <2>1, <2>2 DEF Message, Topic, Range
<1> PICK e : e = Message("semantic")
  OBVIOUS
<1>2. event = translateSemanticEvent(e, ProcessedAt(takes)) /\ takes \in Nat
  BY DEF IInv, SemanticInv
<1>3. SUFFICES ASSUME event.reading_id # Missing, NEW row \in ieeeReadings,
                      row.reading_id = event.reading_id, row.event_time = event.event_time
               PROVE  event = row
  BY DEF WithTranslation
<1>4. PICK f \in Range(Enriched), t \in 1..takes :
        row = translateSemanticEvent(f, ProcessedAt(t)) /\ t < takes
  BY DEF IInv, SemanticInv
<1>5. /\ row.reading_id = f.reading_id
      /\ row.event_time = (IF f.event_time = NoTime THEN ProcessedAt(t) ELSE f.event_time)
      /\ event.reading_id = e.reading_id
      /\ event.event_time = (IF e.event_time = NoTime THEN ProcessedAt(takes) ELSE e.event_time)
  BY <1>2, <1>4, TranslationFacts
<1>6. e.event_time \in 0..ProcessedAt(0) /\ f.event_time \in 0..ProcessedAt(0)
  <2>1. \A g \in Range(Enriched) : g.event_time \in 0..ProcessedAt(0)
    BY EnrichedAssumption, Zenon
  <2> QED
    BY <1>1, <2>1, Zenon
<1>7. e.event_time # NoTime /\ f.event_time # NoTime
  <2>1. /\ ProcessedAt(t) \notin 0..ProcessedAt(0)
        /\ ProcessedAt(takes) \notin 0..ProcessedAt(0)
        /\ ProcessedAt(t) # ProcessedAt(takes)
    BY <1>2, <1>4, SMTT(30) DEF ProcessedAt
  <2>2. CASE e.event_time = NoTime
    BY <1>3, <1>5, <1>6, <2>1, <2>2, Zenon
  <2>3. CASE f.event_time = NoTime
    BY <1>3, <1>5, <1>6, <2>1, <2>3, Zenon
  <2> QED
    BY <2>2, <2>3, Zenon
<1>8. e = f
  BY <1>1, <1>3, <1>5, <1>7, EnrichedAssumption, Zenon
<1> QED
  BY <1>2, <1>4, <1>7, <1>8, TranslationFacts

LEMMA ReadingStep ==
  ASSUME IInv, TranslateReadings
  PROVE  IInv'
<1>1. /\ UNCHANGED <<post, gridSignals, enriched, proposalVars, reviewVars, mockVars, deviceVars>>
      /\ UNCHANGED restarts
      /\ UNCHANGED failures \/ Fail
  BY DEF TranslateReadings, TakeReading, StoreReading, PublishReading, Await, Fail
<1>2. FaultsGrow /\ LogsGrow
  BY <1>1, AwaitFaults, SameLogs DEF proposalVars, reviewVars
<1>3. OffsetInv' /\ OnlyMoves("semantic") /\ SemanticInv'
  <2>1. CASE TakeReading
    <3>1. GoTo("semantic", "store") /\ position["semantic"] <= Len(enriched)
          /\ pc["semantic"] = "idle"
      BY <2>1 DEF TakeReading
    <3>2. /\ OffsetInv' /\ OnlyMoves("semantic") /\ pc'["semantic"] = "store"
          /\ position'["semantic"] = position["semantic"]
          /\ Message("semantic")' = Message("semantic")
      BY <1>2, <3>1, GoToStep, TopicFacts DEF Consumers, Steps
    <3>3. /\ takes' = takes + 1 /\ UNCHANGED <<ieeeReadings, translated, failures, enriched>>
          /\ translation' = {translateSemanticEvent(Message("semantic"), ProcessedAt(takes'))}
      BY <2>1 DEF TakeReading
    <3>4. \A row \in ieeeReadings' :
            \E e \in Range(Enriched), t \in 1..takes' :
              row = translateSemanticEvent(e, ProcessedAt(t)) /\ t < takes'
      BY <3>3 DEF IInv, SemanticInv
    <3> QED
      BY <3>2, <3>3, <3>4 DEF IInv, SemanticInv
  <2>2. CASE StoreReading
    <3>1. PICK event \in translation :
            \/ /\ ieeeReadings' = WithTranslation(ieeeReadings, event) /\ UNCHANGED failures
               /\ GoTo("semantic", "publish") /\ UNCHANGED translation
            \/ /\ ieeeReadings' \in {WithTranslation(ieeeReadings, event), ieeeReadings}
               /\ FinishReading /\ Fail
      BY <2>2 DEF StoreReading, Await
    <3>2. pc["semantic"] = "store" /\ UNCHANGED <<takes, translated, enriched>>
      BY <2>2 DEF StoreReading
    <3>3. event = translateSemanticEvent(Message("semantic"), ProcessedAt(takes))
          /\ translation = {event} /\ takes \in Nat
      BY <3>2 DEF IInv, SemanticInv
    <3>4. Message("semantic") \in Range(Enriched) /\ takes \in 1..takes
      <4>1. position["semantic"] \in DOMAIN enriched /\ enriched \in {<<>>, Enriched}
        BY <3>2, InHand, TopicFacts DEF Consumers, IInv, PostInv
      <4>2. Message("semantic") \in Range(Enriched)
        BY <4>1 DEF Message, Topic, Range
      <4>3. takes \in 1..takes
        BY <3>2 DEF IInv, SemanticInv
      <4> QED
        BY <4>2, <4>3
    <3>5. \A row \in ieeeReadings' :
            \E e \in Range(Enriched), t \in 1..takes : row = translateSemanticEvent(e, ProcessedAt(t))
      <4>1. ieeeReadings' \subseteq ieeeReadings \cup {event}
        BY <3>1 DEF WithTranslation
      <4> QED
        BY <3>3, <3>4, <4>1 DEF IInv, SemanticInv
    <3>6. ieeeReadings \subseteq ieeeReadings'
      BY <3>1 DEF WithTranslation
    <3>7. translated' \subseteq ieeeReadings'
      BY <3>2, <3>6 DEF IInv, SemanticInv
    <3>8. CASE GoTo("semantic", "publish") /\ UNCHANGED <<translation, failures>>
               /\ ieeeReadings' = WithTranslation(ieeeReadings, event)
      <4>1. /\ OffsetInv' /\ OnlyMoves("semantic") /\ pc'["semantic"] = "publish"
            /\ position'["semantic"] = position["semantic"]
            /\ Message("semantic")' = Message("semantic")
        BY <1>2, <3>2, <3>8, GoToStep DEF Consumers, Steps
      <4>2. translation' \subseteq ieeeReadings'
        BY <3>2, <3>3, <3>8, StoredTranslation
      <4> QED
        BY <3>2, <3>3, <3>5, <3>7, <3>8, <4>1, <4>2 DEF IInv, SemanticInv
    <3>9. CASE FinishReading /\ Fail
      <4>1. /\ OffsetInv' /\ OnlyMoves("semantic") /\ pc'["semantic"] = "idle"
            /\ translation' = {} /\ failures' # 0
        BY <1>1, <1>2, <3>2, <3>9, FinishStep, AwaitFaults DEF Consumers, FinishReading
      <4> QED
        BY <3>2, <3>3, <3>5, <3>7, <4>1 DEF IInv, SemanticInv
    <3> QED
      BY <3>1, <3>8, <3>9
  <2>3. CASE PublishReading
    <3>1. /\ pc["semantic"] = "publish" /\ FinishReading
          /\ UNCHANGED <<takes, ieeeReadings, enriched>>
          /\ \/ translated' = translated \cup translation /\ UNCHANGED failures
             \/ translated' \in {translated \cup translation, translated} /\ Fail
      BY <2>3 DEF PublishReading, Await
    <3>2. /\ OffsetInv' /\ OnlyMoves("semantic") /\ pc'["semantic"] = "idle" /\ translation' = {}
          /\ position'["semantic"] = position["semantic"] + 1 /\ position["semantic"] \in Nat \ {0}
      BY <1>2, <3>1, FinishStep DEF Consumers, FinishReading
    <3>3. translated' \subseteq ieeeReadings'
      BY <3>1 DEF IInv, SemanticInv
    <3>4. PICK event : translation = {event} /\ event.raw_semantic_payload = enriched[position["semantic"]]
      BY <3>1, TranslationFacts, TopicFacts DEF IInv, SemanticInv, Message
    <3>5. failures' = 0 =>
            \A n \in 1..position'["semantic"] - 1 :
              \E e \in translated' : e.raw_semantic_payload = enriched'[n]
      <4> SUFFICES ASSUME failures' = 0, NEW n \in 1..position["semantic"]
                   PROVE  \E e \in translated' : e.raw_semantic_payload = enriched[n]
        BY <3>1, <3>2
      <4>1. translated' = translated \cup {event} /\ failures = 0
        BY <1>1, <1>2, <3>1, <3>4, AwaitFaults DEF FaultsGrow
      <4>2. CASE n = position["semantic"]
        BY <3>4, <4>1, <4>2
      <4>3. CASE n # position["semantic"]
        BY <3>2, <4>1, <4>3 DEF IInv, SemanticInv
      <4> QED
        BY <4>2, <4>3
    <3> QED
      BY <3>1, <3>2, <3>3, <3>5 DEF IInv, SemanticInv
  <2> QED
    BY <2>1, <2>2, <2>3 DEF TranslateReadings
<1>4. PostInv'
  BY <1>1 DEF IInv, PostInv
<1>5. ReadyInv' /\ ReadyStays
  BY <1>1, <1>2, ReviewRests
<1>6. AggregatorInv' /\ MockInv'
  BY <1>1, <1>2, <1>3, <1>5, AggregatorRests, AdapterRests DEF Consumers, OnlyMoves
<1>7. DOMAIN rows' \subseteq RowIds
  BY <1>6 DEF AggregatorInv
<1>8. DeviceInv'
  BY <1>1, <1>2, <1>3, <1>5, <1>7, TranslatorRests DEF Consumers, OnlyMoves
<1> QED
  BY <1>3, <1>4, <1>5, <1>6, <1>8 DEF IInv

-----------------------------------------------------------------------------
(* aggregator                                                              *)

\* A new row is proposed; no ready event is about it yet.
LEMMA ProposeStep ==
  ASSUME IInv, StoreProposal, UNCHANGED <<readyTopic, gridSignals, enriched>>
  PROVE  /\ LogsGrow /\ ReadyInv' /\ ReadyStays
         /\ IsSequence(rows') /\ DOMAIN rows' \subseteq RowIds
         /\ DOMAIN rows \subseteq DOMAIN rows' /\ \A r \in DOMAIN rows : rows'[r] = rows[r]
         /\ Len(rows) + 1 \in DOMAIN rows' /\ rows'[Len(rows) + 1].message = position["aggregator"]
<1>1. PICK proposal :
        /\ rows' = Append(rows, [message |-> position["aggregator"], proposal |-> proposal])
        /\ Len(rows) + 1 \in RowIds /\ status[Len(rows) + 1] = Lifecycle!Absent
        /\ status' = [status EXCEPT ![Len(rows) + 1] = "proposed"] /\ UNCHANGED announced
  BY DEF StoreProposal, Lifecycle!Propose
<1> PICK q : q = Len(rows) + 1
  OBVIOUS
<1>2. /\ IsSequence(rows') /\ DOMAIN rows' = DOMAIN rows \cup {q}
      /\ rows'[q].message = position["aggregator"]
      /\ \A r \in DOMAIN rows : rows'[r] = rows[r]
      /\ Grows(rows, rows')
  BY <1>1, LogFacts, AppendFacts, LongerLog
<1>3. LogsGrow
  BY <1>2, LogFacts, SameLog DEF LogsGrow
<1>4. DOMAIN rows' \subseteq RowIds
  BY <1>1, <1>2 DEF IInv, AggregatorInv
<1>5. \A r \in RowIds : status'[r] = status[r] \/ (r = q /\ status'[r] = "proposed")
  BY <1>1 DEF IInv, ReadyInv
<1>6. ReadyStays
  <2>1. \A r \in RowIds : status[r] = "ready_to_dispatch" => r # q
    BY <1>1 DEF Lifecycle!Absent
  <2> QED
    BY <1>1, <1>5, <2>1 DEF ReadyStays, IsReady
<1>7. \A r \in RowIds : status'[r] # Lifecycle!Absent => r \in DOMAIN rows'
  BY <1>2, <1>5 DEF IInv, ReadyInv
<1>8. status' \in [RowIds -> Lifecycle!STATUSES \cup {Lifecycle!Absent}]
  BY <1>1 DEF IInv, ReadyInv, Lifecycle!STATUSES
<1>9. ReadyInv'
  BY <1>1, <1>3, <1>6, <1>7, <1>8, EventsRest DEF IInv, ReadyInv
<1> QED
  BY <1>2, <1>3, <1>4, <1>6, <1>9

\* What is done with the message in hand is added to what was done with those before.
LEMMA SettleSignal ==
  ASSUME IInv, FaultsGrow, UNCHANGED rows, proposedAudits \subseteq proposedAudits',
         failedAudits \subseteq failedAudits', NEW p \in Nat \ {0}, p = position["aggregator"],
         position'["aggregator"] = p + 1, failures' = 0 => ProposedOrRefused(p)'
  PROVE  failures' = 0 => \A o \in 1..position'["aggregator"] - 1 : ProposedOrRefused(o)'
<1> SUFFICES ASSUME failures' = 0, NEW o \in 1..p
             PROVE  ProposedOrRefused(o)'
  OBVIOUS
<1>1. CASE o = p
  BY <1>1
<1>2. CASE o # p
  <2>1. ProposedOrRefused(o)
    BY <1>2 DEF IInv, AggregatorInv, FaultsGrow
  <2> QED
    BY <2>1 DEF ProposedOrRefused
<1> QED
  BY <1>1, <1>2

LEMMA AggregateStep ==
  ASSUME IInv, Aggregate
  PROVE  IInv'
<1>1. /\ UNCHANGED <<postVars, mockVars, deviceVars, readyTopic, restarts>>
      /\ UNCHANGED failures \/ Fail
  BY DEF Aggregate, TakeSignal, InsertProposal, AuditFailure, PublishProposal, AuditProposal,
         Await, Fail, reviewVars
<1>2. FaultsGrow /\ UNCHANGED <<gridSignals, enriched, readingVars>>
  BY <1>1, AwaitFaults DEF postVars, readingVars
<1>3. ~InsertProposal => UNCHANGED <<rows, reviewVars>>
  BY DEF Aggregate, TakeSignal, AuditFailure, PublishProposal, AuditProposal, proposalVars
<1>4. StoreProposal \/ UNCHANGED <<rows, status, announced>>
  BY <1>3 DEF InsertProposal, Await, reviewVars
<1>5. LogsGrow /\ ReadyInv' /\ ReadyStays /\ IsSequence(rows') /\ DOMAIN rows' \subseteq RowIds
  <2>1. CASE StoreProposal
    BY <1>1, <1>2, <2>1, ProposeStep
  <2>2. CASE UNCHANGED <<rows, status, announced>>
    <3>1. LogsGrow
      BY <1>1, <1>2, <2>2, SameLogs
    <3>2. UNCHANGED reviewVars
      BY <1>1, <2>2 DEF reviewVars
    <3> QED
      BY <2>2, <3>1, <3>2, ReviewRests, LogFacts DEF IInv, AggregatorInv
  <2> QED
    BY <1>4, <2>1, <2>2
<1>6. OffsetInv' /\ OnlyMoves("aggregator") /\ AggregatorInv'
  <2>1. CASE TakeSignal
    <3>1. PICK step \in {"insert", "reject"} : GoTo("aggregator", step)
      BY <2>1 DEF TakeSignal
    <3>2. pc["aggregator"] = "idle" /\ position["aggregator"] <= Len(gridSignals)
          /\ UNCHANGED <<proposalVars, failures>>
      BY <2>1 DEF TakeSignal
    <3>3. /\ OffsetInv' /\ OnlyMoves("aggregator") /\ pc'["aggregator"] = step
          /\ position'["aggregator"] = position["aggregator"]
      BY <1>2, <1>5, <3>1, <3>2, GoToStep, TopicFacts DEF Consumers, Steps
    <3> QED
      BY <1>2, <1>5, <3>2, <3>3 DEF IInv, AggregatorInv, ProposedOrRefused, proposalVars
  <2>2. CASE InsertProposal
    <3>1. /\ pc["aggregator"] = "insert" /\ UNCHANGED <<proposed, proposedAudits, failedAudits>>
          /\ \/ StoreProposal /\ draft' = Len(rows) + 1 /\ GoTo("aggregator", "publish")
             \/ UNCHANGED draft /\ GoTo("aggregator", "reject")
      BY <2>2 DEF InsertProposal, Await
    <3>2. /\ DOMAIN rows \subseteq DOMAIN rows' /\ \A r \in DOMAIN rows : rows'[r] = rows[r]
      BY <1>1, <1>2, <1>4, ProposeStep
    <3>3. failures' = 0 => \A o \in 1..position["aggregator"] - 1 : ProposedOrRefused(o)'
      <4> SUFFICES ASSUME failures' = 0, NEW o \in 1..position["aggregator"] - 1
                   PROVE  ProposedOrRefused(o)'
        OBVIOUS
      <4>1. ProposedOrRefused(o)
        BY <1>2 DEF IInv, AggregatorInv, FaultsGrow
      <4>2. proposedAudits \subseteq DOMAIN rows
        BY DEF IInv, AggregatorInv
      <4> QED
        BY <3>1, <3>2, <4>1, <4>2 DEF ProposedOrRefused
    <3>4. CASE StoreProposal /\ draft' = Len(rows) + 1 /\ GoTo("aggregator", "publish")
      <4>1. /\ OffsetInv' /\ OnlyMoves("aggregator") /\ pc'["aggregator"] = "publish"
            /\ position'["aggregator"] = position["aggregator"]
        BY <1>2, <1>5, <3>1, <3>4, GoToStep DEF Consumers, Steps
      <4>2. draft' \in DOMAIN rows' /\ rows'[draft'].message = position["aggregator"]
        BY <1>1, <1>2, <3>4, ProposeStep
      <4> QED
        BY <1>2, <1>5, <3>1, <3>2, <3>3, <4>1, <4>2 DEF IInv, AggregatorInv
    <3>5. CASE UNCHANGED draft /\ GoTo("aggregator", "reject")
      <4>1. /\ OffsetInv' /\ OnlyMoves("aggregator") /\ pc'["aggregator"] = "reject"
            /\ position'["aggregator"] = position["aggregator"]
        BY <1>2, <1>5, <3>1, <3>5, GoToStep DEF Consumers, Steps
      <4> QED
        BY <1>2, <1>5, <3>1, <3>2, <3>3, <3>5, <4>1 DEF IInv, AggregatorInv
    <3> QED
      BY <3>1, <3>4, <3>5
  <2>3. CASE AuditFailure
    <3>1. /\ pc["aggregator"] = "reject" /\ Finish("aggregator")
          /\ UNCHANGED <<rows, draft, proposed, proposedAudits>>
          /\ \/ failedAudits' = failedAudits \cup {position["aggregator"]} /\ UNCHANGED failures
             \/ failedAudits' \in {failedAudits \cup {position["aggregator"]}, failedAudits} /\ Fail
      BY <2>3 DEF AuditFailure, Await
    <3>2. /\ OffsetInv' /\ OnlyMoves("aggregator") /\ pc'["aggregator"] = "idle"
          /\ position'["aggregator"] = position["aggregator"] + 1
          /\ position["aggregator"] \in DOMAIN gridSignals /\ position["aggregator"] \in Nat \ {0}
      BY <1>2, <1>5, <3>1, FinishStep, TopicFacts DEF Consumers
    <3> PICK p : p = position["aggregator"]
      OBVIOUS
    <3>3. failures' = 0 => ProposedOrRefused(p)'
      BY <1>1, <3>1, AwaitFaults DEF ProposedOrRefused
    <3>4. failures' = 0 => \A o \in 1..position'["aggregator"] - 1 : ProposedOrRefused(o)'
      BY <1>2, <3>1, <3>2, <3>3, SettleSignal
    <3> QED
      BY <1>2, <1>5, <3>1, <3>2, <3>4 DEF IInv, AggregatorInv
  <2>4. CASE PublishProposal
    <3>1. /\ pc["aggregator"] = "publish" /\ UNCHANGED <<rows, proposedAudits, failedAudits>>
          /\ \/ /\ proposed' = proposed \cup {draft} /\ UNCHANGED draft
                /\ GoTo("aggregator", "audit")
             \/ /\ proposed' \in {proposed \cup {draft}, proposed} /\ draft' = NoRow
                /\ Finish("aggregator") /\ Fail
      BY <2>4 DEF PublishProposal, Await
    <3>2. draft \in DOMAIN rows /\ rows[draft].message = position["aggregator"]
      BY <3>1 DEF IInv, AggregatorInv
    <3>3. proposed' \subseteq DOMAIN rows' /\ proposed \subseteq proposed'
      BY <3>1, <3>2 DEF IInv, AggregatorInv
    <3>4. CASE proposed' = proposed \cup {draft} /\ UNCHANGED draft /\ GoTo("aggregator", "audit")
      <4>1. /\ OffsetInv' /\ OnlyMoves("aggregator") /\ pc'["aggregator"] = "audit"
            /\ position'["aggregator"] = position["aggregator"]
        BY <1>2, <1>5, <3>1, <3>4, GoToStep DEF Consumers, Steps
      <4>2. failures' = 0 => \A o \in 1..position["aggregator"] - 1 : ProposedOrRefused(o)'
        BY <1>2, <3>1 DEF IInv, AggregatorInv, FaultsGrow, ProposedOrRefused
      <4> QED
        BY <1>2, <1>5, <3>1, <3>2, <3>3, <3>4, <4>1, <4>2 DEF IInv, AggregatorInv
    <3>5. CASE Finish("aggregator") /\ Fail /\ draft' = NoRow
      <4>1. /\ OffsetInv' /\ OnlyMoves("aggregator") /\ pc'["aggregator"] = "idle"
            /\ failures' # 0
        BY <1>1, <1>2, <1>5, <3>1, <3>5, FinishStep, AwaitFaults DEF Consumers
      <4> QED
        BY <1>2, <1>5, <3>1, <3>3, <3>5, <4>1 DEF IInv, AggregatorInv
    <3> QED
      BY <3>1, <3>4, <3>5
  <2>5. CASE AuditProposal
    <3>1. /\ pc["aggregator"] = "audit" /\ Finish("aggregator") /\ draft' = NoRow
          /\ UNCHANGED <<rows, proposed, failedAudits>>
          /\ \/ proposedAudits' = proposedAudits \cup {draft} /\ UNCHANGED failures
             \/ proposedAudits' \in {proposedAudits \cup {draft}, proposedAudits} /\ Fail
      BY <2>5 DEF AuditProposal, Await
    <3>2. /\ OffsetInv' /\ OnlyMoves("aggregator") /\ pc'["aggregator"] = "idle"
          /\ position'["aggregator"] = position["aggregator"] + 1
          /\ position["aggregator"] \in Nat \ {0}
      BY <1>2, <1>5, <3>1, FinishStep DEF Consumers
    <3>3. draft \in proposed /\ rows[draft].message = position["aggregator"]
      BY <3>1 DEF IInv, AggregatorInv
    <3> PICK p : p = position["aggregator"]
      OBVIOUS
    <3>4. failures' = 0 => ProposedOrRefused(p)'
      BY <1>1, <3>1, <3>3, AwaitFaults DEF ProposedOrRefused
    <3>5. failures' = 0 => \A o \in 1..position'["aggregator"] - 1 : ProposedOrRefused(o)'
      BY <1>2, <3>1, <3>2, <3>4, SettleSignal
    <3> QED
      BY <1>2, <1>5, <3>1, <3>2, <3>3, <3>5 DEF IInv, AggregatorInv
  <2> QED
    BY <2>1, <2>2, <2>3, <2>4, <2>5 DEF Aggregate
<1>7. PostInv' /\ SemanticInv' /\ MockInv' /\ DeviceInv'
  <2>1. PostInv'
    BY <1>1, <1>2 DEF IInv, PostInv, postVars
  <2> QED
    BY <1>1, <1>2, <1>5, <1>6, <2>1, SemanticRests, AdapterRests, TranslatorRests
       DEF Consumers, OnlyMoves
<1> QED
  BY <1>5, <1>6, <1>7 DEF IInv

-----------------------------------------------------------------------------
(* approval-workflow                                                       *)

\* A decision never takes a ready proposal any further.
LEMMA DecideFacts ==
  ASSUME IInv, NEW r \in RowIds, Lifecycle!Decide(r)
  PROVE  /\ UNCHANGED announced /\ ReadyStays
         /\ status' \in [RowIds -> Lifecycle!STATUSES \cup {Lifecycle!Absent}]
         /\ \A q \in RowIds : status'[q] # Lifecycle!Absent => q \in DOMAIN rows
<1>1. /\ UNCHANGED announced /\ status[r] \in Lifecycle!STATUSES
      /\ \E s \in Lifecycle!ALLOWED_TRANSITIONS[status[r]] : status' = [status EXCEPT ![r] = s]
  BY DEF Lifecycle!Decide
<1>2. PICK s \in Lifecycle!STATUSES :
        status' = [status EXCEPT ![r] = s] /\ status[r] # "ready_to_dispatch"
  <2> PICK s \in Lifecycle!ALLOWED_TRANSITIONS[status[r]] : status' = [status EXCEPT ![r] = s]
    BY <1>1
  <2>1. /\ Lifecycle!ALLOWED_TRANSITIONS.proposed \subseteq Lifecycle!STATUSES
        /\ Lifecycle!ALLOWED_TRANSITIONS.reviewed \subseteq Lifecycle!STATUSES
        /\ Lifecycle!ALLOWED_TRANSITIONS.approved \subseteq Lifecycle!STATUSES
        /\ Lifecycle!ALLOWED_TRANSITIONS.rejected = {}
        /\ Lifecycle!ALLOWED_TRANSITIONS.ready_to_dispatch = {}
    BY DEF Lifecycle!STATUSES, Lifecycle!ALLOWED_TRANSITIONS
  <2>2. status[r] \in {"proposed", "reviewed", "approved"}
    BY <1>1, <2>1 DEF Lifecycle!STATUSES
  <2> QED
    BY <2>1, <2>2
<1>3. status[r] # Lifecycle!Absent
  BY <1>1 DEF Lifecycle!STATUSES, Lifecycle!Absent
<1>4. \A q \in RowIds : status'[q] = status[q] \/ q = r
  BY <1>2 DEF IInv, ReadyInv
<1>5. status' \in [RowIds -> Lifecycle!STATUSES \cup {Lifecycle!Absent}]
  BY <1>2 DEF IInv, ReadyInv
<1>6. ReadyStays
  BY <1>1, <1>2, <1>4 DEF ReadyStays, IsReady
<1>7. \A q \in RowIds : status'[q] # Lifecycle!Absent => q \in DOMAIN rows
  BY <1>3, <1>4 DEF IInv, ReadyInv
<1> QED
  BY <1>1, <1>5, <1>6, <1>7

\* An announcement is one more event, about a proposal that has become ready.
LEMMA AnnounceFacts ==
  ASSUME IInv, NEW r \in RowIds, Announce(r)
  PROVE  /\ UNCHANGED status /\ ReadyStays /\ IsReady(r)' /\ r \in DOMAIN rows
         /\ announced' \in [RowIds -> SUBSET {"reviewer"}]
<1>1. /\ status[r] = "ready_to_dispatch" /\ UNCHANGED status
      /\ announced' = [announced EXCEPT ![r] = {"reviewer"}]
  BY DEF Announce, Lifecycle!Announce
<1>2. announced' \in [RowIds -> SUBSET {"reviewer"}]
  BY <1>1 DEF IInv, ReadyInv
<1>3. \A q \in RowIds : announced'[q] = (IF q = r THEN {"reviewer"} ELSE announced[q])
  BY <1>1 DEF IInv, ReadyInv
<1>4. ReadyStays
  BY <1>1, <1>3 DEF ReadyStays, IsReady
<1>5. IsReady(r)'
  BY <1>1, <1>3 DEF IsReady
<1>6. r \in DOMAIN rows
  BY <1>1 DEF IInv, ReadyInv, Lifecycle!Absent
<1> QED
  BY <1>1, <1>2, <1>4, <1>5, <1>6

LEMMA ReviewStep ==
  ASSUME IInv, NEW r \in RowIds, Review(r) \/ Announce(r)
  PROVE  IInv'
<1>1. UNCHANGED <<postVars, proposalVars, mockVars, deviceVars, pc, offsetVars, failures, restarts>>
  BY DEF Review, Announce
<1>2. FaultsGrow /\ UNCHANGED <<gridSignals, enriched, readingVars, rows>>
  BY <1>1 DEF IInv, OffsetInv, FaultsGrow, postVars, readingVars, proposalVars
<1>3. ReadyStays
  BY DecideFacts, AnnounceFacts DEF Review
<1>4. LogsGrow
  <2>1. CASE Review(r)
    <3>1. UNCHANGED readyTopic
      BY <2>1 DEF Review
    <3> QED
      BY <1>2, <3>1, SameLogs
  <2>2. CASE Announce(r)
    <3>1. readyTopic' = Append(readyTopic, ReadyEvent(r))
      BY <2>2 DEF Announce
    <3>2. Grows(readyTopic, readyTopic')
      BY <3>1, LogFacts, LongerLog
    <3> QED
      BY <1>2, <3>2, LogFacts, SameLog DEF LogsGrow
  <2> QED
    BY <2>1, <2>2
<1>5. ReadyInv'
  <2>1. CASE Review(r)
    <3>1. UNCHANGED readyTopic /\ Lifecycle!Decide(r)
      BY <2>1 DEF Review
    <3>2. /\ UNCHANGED announced
          /\ status' \in [RowIds -> Lifecycle!STATUSES \cup {Lifecycle!Absent}]
          /\ \A q \in RowIds : status'[q] # Lifecycle!Absent => q \in DOMAIN rows'
      BY <1>2, <3>1, DecideFacts
    <3> QED
      BY <1>3, <1>4, <3>1, <3>2, EventsRest DEF IInv, ReadyInv
  <2>2. CASE Announce(r)
    <3>1. /\ readyTopic' = Append(readyTopic, ReadyEvent(r)) /\ UNCHANGED status
          /\ announced' \in [RowIds -> SUBSET {"reviewer"}]
          /\ IsReady(r)' /\ r \in DOMAIN rows'
      BY <1>2, <2>2, AnnounceFacts DEF Announce
    <3>2. /\ IsSequence(readyTopic') /\ DOMAIN readyTopic' = DOMAIN readyTopic \cup {Len(readyTopic) + 1}
          /\ readyTopic'[Len(readyTopic) + 1] = ReadyEvent(r)
          /\ \A n \in DOMAIN readyTopic : readyTopic'[n] = readyTopic[n]
      BY <3>1, LogFacts, AppendFacts
    <3>3. ReadyEvent(r).id = r /\ ReadyEvent(r)' = ReadyEvent(r)
      BY <1>2 DEF ReadyEvent, ReadyEventOf
    <3>4. ASSUME NEW n \in DOMAIN readyTopic',
                 ~(readyTopic'[n].id = NoRow /\ ~validateReadyCommand(readyTopic'[n]))
          PROVE  \E q : /\ q = readyTopic'[n].id /\ q \in DOMAIN rows'
                        /\ readyTopic'[n] = ReadyEvent(q)' /\ IsReady(q)'
      <4>1. CASE n \in DOMAIN readyTopic
        <5>1. readyTopic'[n] = readyTopic[n]
          BY <3>2, <4>1
        <5>2. PICK q : /\ q = readyTopic[n].id /\ q \in DOMAIN rows'
                       /\ readyTopic[n] = ReadyEvent(q)' /\ IsReady(q)'
          BY <1>3, <1>4, <3>4, <4>1, <5>1, EventsStay
        <5> QED
          BY <5>1, <5>2
      <4>2. CASE n = Len(readyTopic) + 1
        BY <3>1, <3>2, <3>3, <4>2
      <4> QED
        BY <3>2, <4>1, <4>2
    <3>5. \A q \in RowIds : status'[q] # Lifecycle!Absent => q \in DOMAIN rows'
      BY <1>2, <3>1 DEF IInv, ReadyInv
    <3> QED
      BY <1>1, <3>1, <3>2, <3>4, <3>5 DEF IInv, ReadyInv
  <2> QED
    BY <2>1, <2>2
<1>6. OffsetInv' /\ \A c \in Consumers : Rests(c)
  BY <1>1, <1>2, <1>4, ConsumersRest
<1>7. PostInv'
  BY <1>1, <1>2 DEF IInv, PostInv, postVars
<1>8. SemanticInv' /\ AggregatorInv' /\ MockInv'
  BY <1>1, <1>2, <1>3, <1>4, <1>6, SemanticRests, AggregatorRests, AdapterRests DEF Consumers
<1>9. DeviceInv'
  <2>1. DOMAIN rows' \subseteq RowIds
    BY <1>2 DEF IInv, AggregatorInv
  <2> QED
    BY <1>1, <1>2, <1>3, <1>4, <1>6, <2>1, TranslatorRests DEF Consumers
<1> QED
  BY <1>5, <1>6, <1>7, <1>8, <1>9 DEF IInv

-----------------------------------------------------------------------------
(* mock-dispatch-adapter                                                   *)

\* A ready event is valid and about a ready proposal, or neither.
LEMMA ReadyEventFacts ==
  ASSUME IInv, NEW n \in DOMAIN readyTopic
  PROVE  LET event == readyTopic[n] IN
         \/ event.id = NoRow /\ ~validateReadyCommand(event) /\ ~validateReadyEvent(event)
         \/ /\ event.id \in RowIds /\ event.id \in DOMAIN rows /\ event = ReadyEvent(event.id)
            /\ IsReady(event.id) /\ validateReadyCommand(event) /\ validateReadyEvent(event)
<1>1. \A event : validateReadyCommand(event) <=> validateReadyEvent(event)
  BY DEF validateReadyCommand, validateReadyEvent
<1>2. \A r : validateReadyCommand(ReadyEvent(r))
  BY DEF validateReadyCommand, ReadyEvent, ReadyEventOf
<1> QED
  BY <1>1, <1>2 DEF IInv, ReadyInv, AggregatorInv

LEMMA RowIdsFacts == NoRow \notin RowIds
BY DEF RowIds, NoRow

LEMMA OneMoreFacts ==
  ASSUME NEW S, NEW counts \in [S -> Nat], NEW r \in S
  PROVE  /\ OneMore(counts, r) \in [S -> Nat]
         /\ OneMore(counts, r)[r] = counts[r] + 1
         /\ \A q \in S : q # r => OneMore(counts, r)[q] = counts[q]
BY DEF OneMore

\* One count goes up where it was behind the count of the step before.
LEMMA CountsStep ==
  ASSUME IInv, UNCHANGED reviewVars, NEW r \in RowIds \cup {NoRow},
         \/ /\ mockRows' \in {OneMore(mockRows, r), mockRows}
            /\ UNCHANGED <<mockSent, mockResults, mockAudits>>
            /\ r \in RowIds => IsReady(r)
         \/ /\ mockSent' \in {OneMore(mockSent, r), mockSent}
            /\ UNCHANGED <<mockRows, mockResults, mockAudits>>
            /\ r \in RowIds => mockSent[r] < mockRows[r]
         \/ /\ mockResults' \in {OneMore(mockResults, r), mockResults}
            /\ UNCHANGED <<mockRows, mockSent, mockAudits>>
            /\ r \in RowIds => mockResults[r] < mockSent[r]
         \/ /\ mockAudits' \in {OneMore(mockAudits, r), mockAudits}
            /\ UNCHANGED <<mockRows, mockSent, mockResults>>
            /\ r \in RowIds => mockAudits[r] < mockResults[r]
  PROVE  MockOrder' /\ \A q \in RowIds \cup {NoRow} : mockAudits[q] <= mockAudits'[q]
<1>1. MockOrder
  BY DEF IInv, MockInv, MockOrder
<1>2. \A q : IsReady(q)' <=> IsReady(q)
  BY DEF IsReady, reviewVars
<1>3. \A counts \in [RowIds \cup {NoRow} -> Nat] :
        /\ OneMore(counts, r) \in [RowIds \cup {NoRow} -> Nat]
        /\ OneMore(counts, r)[r] = counts[r] + 1
        /\ \A q \in RowIds \cup {NoRow} : q # r => OneMore(counts, r)[q] = counts[q]
  BY OneMoreFacts
<1>4. CASE /\ mockRows' \in {OneMore(mockRows, r), mockRows}
           /\ UNCHANGED <<mockSent, mockResults, mockAudits>>
           /\ r \in RowIds => IsReady(r)
  BY <1>1, <1>2, <1>3, <1>4 DEF MockOrder
<1>5. CASE /\ mockSent' \in {OneMore(mockSent, r), mockSent}
           /\ UNCHANGED <<mockRows, mockResults, mockAudits>>
           /\ r \in RowIds => mockSent[r] < mockRows[r]
  BY <1>1, <1>2, <1>3, <1>5 DEF MockOrder
<1>6. CASE /\ mockResults' \in {OneMore(mockResults, r), mockResults}
           /\ UNCHANGED <<mockRows, mockSent, mockAudits>>
           /\ r \in RowIds => mockResults[r] < mockSent[r]
  <2>1. \A q \in RowIds : /\ (q # r => mockResults'[q] = mockResults[q])
                           /\ (q = r => mockResults'[q] \in {mockResults[q], mockResults[q] + 1})
    BY <1>1, <1>3, <1>6 DEF MockOrder
  <2>2. mockResults' \in [RowIds \cup {NoRow} -> Nat]
    BY <1>1, <1>3, <1>6 DEF MockOrder
  <2>3. ASSUME NEW q \in RowIds
        PROVE  mockAudits'[q] <= mockResults'[q] /\ mockResults'[q] <= mockSent'[q]
    <3>1. /\ mockAudits[q] \in Nat /\ mockResults[q] \in Nat /\ mockSent[q] \in Nat
          /\ mockAudits[q] <= mockResults[q] /\ mockResults[q] <= mockSent[q]
      BY <1>1 DEF MockOrder
    <3> QED
      BY <1>6, <2>1, <3>1
  <2> QED
    BY <1>1, <1>2, <1>6, <2>2, <2>3 DEF MockOrder
<1>7. CASE /\ mockAudits' \in {OneMore(mockAudits, r), mockAudits}
           /\ UNCHANGED <<mockRows, mockSent, mockResults>>
           /\ r \in RowIds => mockAudits[r] < mockResults[r]
  BY <1>1, <1>2, <1>3, <1>7 DEF MockOrder
<1> QED
  BY <1>4, <1>5, <1>6, <1>7

\* The messages behind the adapter keep their audits.
LEMMA AuditsStay ==
  ASSUME IInv, FaultsGrow, UNCHANGED readyTopic,
         \A q \in RowIds \cup {NoRow} : mockAudits[q] \in Nat /\ mockAudits'[q] \in Nat
                                        /\ mockAudits[q] <= mockAudits'[q]
  PROVE  failures' = 0 => \A n \in 1..position["adapter"] - 1 : mockAudits'[readyTopic'[n].id] > 0
<1> SUFFICES ASSUME failures' = 0, NEW n \in 1..position["adapter"] - 1
             PROVE  mockAudits'[readyTopic[n].id] > 0
  OBVIOUS
<1>1. n \in DOMAIN readyTopic
  BY BehindPosition, TopicFacts DEF Consumers
<1>2. readyTopic[n].id \in RowIds \cup {NoRow}
  BY <1>1, ReadyEventFacts
<1>3. mockAudits[readyTopic[n].id] > 0
  BY DEF IInv, MockInv, FaultsGrow
<1> QED
  BY <1>2, <1>3

LEMMA AdaptStep ==
  ASSUME IInv, Adapt
  PROVE  IInv'
<1>1. /\ UNCHANGED <<postVars, proposalVars, reviewVars, deviceVars, restarts>>
      /\ UNCHANGED failures \/ Fail
  BY DEF Adapt, TakeMockEvent, InsertMockRow, PublishMockSent, PublishMockResult,
         PublishMockAudit, Await, Fail
<1>2. /\ FaultsGrow /\ UNCHANGED <<gridSignals, enriched, readingVars, rows, readyTopic>>
      /\ Fail => failures' # 0
  BY <1>1, AwaitFaults DEF postVars, readingVars, proposalVars, reviewVars
<1>3. LogsGrow /\ ReadyInv' /\ ReadyStays
  BY <1>1, <1>2, SameLogs, ReviewRests
<1> PICK r : r = Message("adapter").id
  OBVIOUS
<1>4. pc["adapter"] # "idle" \/ position["adapter"] <= Len(readyTopic)
  BY DEF Adapt, TakeMockEvent, InsertMockRow, PublishMockSent, PublishMockResult, PublishMockAudit
<1>5. /\ \/ r = NoRow /\ ~validateReadyEvent(Message("adapter"))
         \/ r \in RowIds /\ IsReady(r) /\ validateReadyEvent(Message("adapter"))
      /\ Message("adapter") = readyTopic[position["adapter"]]
      /\ position["adapter"] \in DOMAIN readyTopic
  <2>1. position["adapter"] \in DOMAIN readyTopic
    <3>1. position["adapter"] \in Nat \ {0} /\ position["adapter"] <= Len(readyTopic)
      BY <1>4, TopicFacts DEF IInv, OffsetInv, Consumers
    <3> QED
      BY <3>1, LogFacts, SequenceFacts
  <2>2. Message("adapter") = readyTopic[position["adapter"]]
    BY DEF Message, Topic
  <2> QED
    BY <2>1, <2>2, ReadyEventFacts
<1>6. OffsetInv' /\ OnlyMoves("adapter") /\ MockInv'
  <2> DEFINE On(step) == /\ OffsetInv' /\ OnlyMoves("adapter") /\ pc'["adapter"] = step
                         /\ position'["adapter"] = position["adapter"]
                         /\ Message("adapter")' = Message("adapter")
             Done == /\ OffsetInv' /\ OnlyMoves("adapter") /\ pc'["adapter"] = "idle"
                     /\ position'["adapter"] = position["adapter"] + 1
             Kept == \A n \in 1..position["adapter"] - 1 : mockAudits'[readyTopic'[n].id] > 0
  <2>1. \A step \in Steps : GoTo("adapter", step) => On(step)
    BY <1>2, <1>3, <1>4, GoToStep, TopicFacts DEF Consumers
  <2>2. pc["adapter"] # "idle" /\ Finish("adapter") => Done
    BY <1>2, <1>3, FinishStep DEF Consumers
  <2>3. position["adapter"] \in Nat \ {0}
    BY DEF IInv, OffsetInv, Consumers
  <2>4. MockOrder /\ MockOrder' => \A q \in RowIds \cup {NoRow} : mockAudits[q] \in Nat /\ mockAudits'[q] \in Nat
    BY DEF MockOrder
  <2>5. MockOrder
    BY DEF IInv, MockInv, MockOrder
  <2>6. CASE TakeMockEvent
    <3>1. /\ GoTo("adapter", IF validateReadyEvent(Message("adapter")) THEN "insert" ELSE "insert_rejected")
          /\ UNCHANGED mockVars
      BY <2>6 DEF TakeMockEvent
    <3>2. UNCHANGED <<mockRows, mockSent, mockResults, mockAudits>>
      BY <3>1 DEF mockVars
    <3>3. MockOrder'
      BY <1>1, <2>5, <3>2 DEF MockOrder, IsReady, reviewVars
    <3>4. failures' = 0 => Kept
      BY <1>2, <2>4, <2>5, <3>2, <3>3, AuditsStay
    <3>5. On(IF validateReadyEvent(Message("adapter")) THEN "insert" ELSE "insert_rejected")
      BY <2>1, <3>1 DEF Steps
    <3> QED
      BY <1>5, <3>3, <3>4, <3>5 DEF MockInv, MockOrder
  <2>7. CASE InsertMockRow
    <3>1. /\ pc["adapter"] \in {"insert", "insert_rejected"}
          /\ UNCHANGED <<mockSent, mockResults, mockAudits>>
          /\ mockRows' \in {OneMore(mockRows, r), mockRows}
          /\ \/ pc["adapter"] = "insert" /\ mockRows' = OneMore(mockRows, r) /\ GoTo("adapter", "sent")
             \/ pc["adapter"] = "insert_rejected" /\ GoTo("adapter", "audit")
             \/ pc["adapter"] = "insert" /\ Finish("adapter") /\ Fail
      BY <2>7 DEF InsertMockRow, Await
    <3>2. MockOrder' /\ \A q \in RowIds \cup {NoRow} : mockAudits[q] <= mockAudits'[q]
      BY <1>1, <1>5, <3>1, CountsStep, RowIdsFacts
    <3>3. failures' = 0 => Kept
      BY <1>2, <2>4, <2>5, <3>2, AuditsStay
    <3>4. CASE pc["adapter"] = "insert" /\ mockRows' = OneMore(mockRows, r) /\ GoTo("adapter", "sent")
      <4>1. On("sent")
        BY <2>1, <3>4 DEF Steps
      <4>2. r \in RowIds
        BY <3>4 DEF IInv, MockInv
      <4>3. mockSent'[r] < mockRows'[r]
        BY <2>5, <3>1, <3>4, <4>2, OneMoreFacts DEF MockOrder
      <4> QED
        BY <3>2, <3>3, <4>1, <4>2, <4>3 DEF MockInv, MockOrder
    <3>5. CASE pc["adapter"] = "insert_rejected" /\ GoTo("adapter", "audit")
      <4>1. On("audit")
        BY <2>1, <3>5 DEF Steps
      <4>2. r = NoRow
        BY <3>5 DEF IInv, MockInv
      <4> QED
        BY <3>2, <3>3, <4>1, <4>2 DEF MockInv, MockOrder
    <3>6. CASE Finish("adapter") /\ Fail
      BY <1>2, <2>2, <3>1, <3>2, <3>6 DEF MockInv, MockOrder
    <3> QED
      BY <3>1, <3>4, <3>5, <3>6
  <2>8. CASE PublishMockSent
    <3>1. /\ pc["adapter"] = "sent" /\ UNCHANGED <<mockRows, mockResults, mockAudits>>
          /\ mockSent' \in {OneMore(mockSent, r), mockSent}
          /\ \/ mockSent' = OneMore(mockSent, r) /\ GoTo("adapter", "result")
             \/ Finish("adapter") /\ Fail
      BY <2>8 DEF PublishMockSent, Await
    <3>2. r \in RowIds /\ mockSent[r] < mockRows[r]
      BY <3>1 DEF IInv, MockInv
    <3>3. MockOrder' /\ \A q \in RowIds \cup {NoRow} : mockAudits[q] <= mockAudits'[q]
      BY <1>1, <3>1, <3>2, CountsStep
    <3>4. failures' = 0 => Kept
      BY <1>2, <2>4, <2>5, <3>3, AuditsStay
    <3>5. CASE mockSent' = OneMore(mockSent, r) /\ GoTo("adapter", "result")
      <4>1. On("result")
        BY <2>1, <3>5 DEF Steps
      <4>2. mockResults'[r] < mockSent'[r]
        BY <2>5, <3>1, <3>2, <3>5, OneMoreFacts DEF MockOrder
      <4> QED
        BY <3>2, <3>3, <3>4, <4>1, <4>2 DEF MockInv, MockOrder
    <3>6. CASE Finish("adapter") /\ Fail
      BY <1>2, <2>2, <3>1, <3>3, <3>6 DEF MockInv, MockOrder
    <3> QED
      BY <3>1, <3>5, <3>6
  <2>9. CASE PublishMockResult
    <3>1. /\ pc["adapter"] = "result" /\ UNCHANGED <<mockRows, mockSent, mockAudits>>
          /\ mockResults' \in {OneMore(mockResults, r), mockResults}
          /\ \/ mockResults' = OneMore(mockResults, r) /\ GoTo("adapter", "audit")
             \/ Finish("adapter") /\ Fail
      BY <2>9 DEF PublishMockResult, Await
    <3>2. r \in RowIds /\ mockResults[r] < mockSent[r]
      BY <3>1 DEF IInv, MockInv
    <3>3. MockOrder' /\ \A q \in RowIds \cup {NoRow} : mockAudits[q] <= mockAudits'[q]
      BY <1>1, <3>1, <3>2, CountsStep
    <3>4. failures' = 0 => Kept
      BY <1>2, <2>4, <2>5, <3>3, AuditsStay
    <3>5. CASE mockResults' = OneMore(mockResults, r) /\ GoTo("adapter", "audit")
      <4>1. On("audit")
        BY <2>1, <3>5 DEF Steps
      <4>2. mockAudits'[r] < mockResults'[r]
        BY <2>5, <3>1, <3>2, <3>5, OneMoreFacts DEF MockOrder
      <4> QED
        BY <3>2, <3>3, <3>4, <4>1, <4>2 DEF MockInv, MockOrder
    <3>6. CASE Finish("adapter") /\ Fail
      BY <1>2, <2>2, <3>1, <3>3, <3>6 DEF MockInv, MockOrder
    <3> QED
      BY <3>1, <3>5, <3>6
  <2>10. CASE PublishMockAudit
    <3>1. /\ pc["adapter"] = "audit" /\ UNCHANGED <<mockRows, mockSent, mockResults>>
          /\ mockAudits' \in {OneMore(mockAudits, r), mockAudits} /\ Finish("adapter")
          /\ mockAudits' = OneMore(mockAudits, r) \/ Fail
      BY <2>10 DEF PublishMockAudit, Await
    <3>2. r = NoRow \/ mockAudits[r] < mockResults[r]
      BY <3>1 DEF IInv, MockInv
    <3>3. MockOrder' /\ \A q \in RowIds \cup {NoRow} : mockAudits[q] <= mockAudits'[q]
      BY <1>1, <1>5, <3>1, <3>2, CountsStep, RowIdsFacts
    <3>4. failures' = 0 => Kept
      BY <1>2, <2>4, <2>5, <3>3, AuditsStay
    <3>5. Done
      BY <2>2, <3>1
    <3>6. failures' = 0 => mockAudits'[r] > 0
      BY <1>2, <1>5, <2>5, <3>1, OneMoreFacts DEF MockOrder
    <3>7. failures' = 0 => \A n \in 1..position'["adapter"] - 1 : mockAudits'[readyTopic'[n].id] > 0
      <4> SUFFICES ASSUME failures' = 0, NEW n \in 1..position["adapter"]
                   PROVE  mockAudits'[readyTopic'[n].id] > 0
        BY <3>5, <2>3
      <4>1. CASE n = position["adapter"]
        BY <1>2, <1>5, <3>6, <4>1
      <4>2. CASE n # position["adapter"]
        BY <2>3, <3>4, <4>2
      <4> QED
        BY <4>1, <4>2
    <3> QED
      BY <3>3, <3>5, <3>7 DEF MockInv, MockOrder
  <2> QED
    BY <2>6, <2>7, <2>8, <2>9, <2>10 DEF Adapt
<1>7. PostInv' /\ SemanticInv' /\ AggregatorInv' /\ DeviceInv'
  <2>1. PostInv'
    BY <1>1, <1>2 DEF IInv, PostInv, postVars
  <2>2. DOMAIN rows' \subseteq RowIds
    BY <1>2 DEF IInv, AggregatorInv
  <2> QED
    BY <1>1, <1>2, <1>3, <1>6, <2>1, <2>2, SemanticRests, AggregatorRests, TranslatorRests
       DEF Consumers, OnlyMoves
<1> QED
  BY <1>3, <1>6, <1>7 DEF IInv

-----------------------------------------------------------------------------
(* device-command-translator                                               *)

\* In the loop, the event in hand is that of a ready proposal, and so are its commands.
LEMMA LoopFacts ==
  ASSUME IInv, InLoop
  PROVE  LET event == Message("translator")
             r == event.id
         IN  /\ r \in RowIds /\ r \in DOMAIN rows /\ event = ReadyEvent(r) /\ IsReady(r)
             /\ cursor \in Asked(event) /\ Asked(event) \subseteq DOMAIN DEVICES
             /\ commands = translateReadyCommand(event)
             /\ Command.dispatch_command_id = r /\ Command.device_id = DeviceId(cursor)
             /\ DeviceId(cursor) \in DeviceIds
<1>1. position["translator"] \in DOMAIN readyTopic
  BY InHand, TopicFacts DEF InLoop, Consumers
<1>2. Message("translator") = readyTopic[position["translator"]]
  BY DEF Message, Topic
<1>3. LoopOK(Message("translator"))
  BY DEF IInv, DeviceInv
<1>4. /\ commands = translateReadyCommand(Message("translator"))
      /\ cursor \in Asked(Message("translator"))
  BY <1>3 DEF LoopOK, Asked
<1>5. validateReadyCommand(Message("translator"))
  BY <1>4, CommandFacts
<1> QED
  BY <1>1, <1>2, <1>4, <1>5, CommandFacts, DeviceFacts, ReadyEventFacts DEF Command

\* The messages behind the translator keep their audits.
LEMMA DeviceAuditsStay ==
  ASSUME IInv, FaultsGrow, UNCHANGED readyTopic,
         \A q \in RowIds \cup {NoRow}, d \in DeviceIds \cup {NoAction} :
           /\ deviceAudits[q][d] \in Nat /\ deviceAudits'[q][d] \in Nat
           /\ deviceAudits[q][d] <= deviceAudits'[q][d]
  PROVE  failures' = 0 => \A n \in 1..position["translator"] - 1 : IsAudited(n)'
<1> SUFFICES ASSUME failures' = 0, NEW n \in 1..position["translator"] - 1
             PROVE  IsAudited(n)'
  OBVIOUS
<1>1. n \in DOMAIN readyTopic
  BY BehindPosition, TopicFacts DEF Consumers
<1>2. readyTopic[n].id \in RowIds \cup {NoRow}
  BY <1>1, ReadyEventFacts
<1>3. IsAudited(n)
  BY DEF IInv, DeviceInv, FaultsGrow
<1>4. \A i \in Asked(readyTopic[n]) : DeviceId(i) \in DeviceIds
  BY CommandFacts, DeviceFacts
<1>5. \A d \in DeviceIds \cup {NoAction} :
        deviceAudits[readyTopic[n].id][d] > 0 => deviceAudits'[readyTopic[n].id][d] > 0
  BY <1>2
<1> QED
  BY <1>3, <1>4, <1>5 DEF IsAudited

\* What only adds to the counts of devices without results, keeps their order.
LEMMA SameResults ==
  ASSUME IInv, UNCHANGED <<rows, results>>
  PROVE  \A r \in DOMAIN rows' : \A i, j \in Asked(ReadyEvent(r)') :
           i < j => results'[r][DeviceId(j)] <= results'[r][DeviceId(i)]
<1>1. \A r : ReadyEvent(r)' = ReadyEvent(r)
  BY DEF ReadyEvent
<1> QED
  BY <1>1 DEF IInv, DeviceInv, DeviceOrder

\* A command is sent.
LEMMA SendOrder ==
  ASSUME IInv, SendCommand
  PROVE  DeviceOrder' /\ LET r == Message("translator").id
                             d == DeviceId(cursor)
                         IN  results'[r][d] < attempts'[r][d]
<1> PICK r, d : r = Message("translator").id /\ d = DeviceId(cursor)
  OBVIOUS
<1>1. InLoop
  BY DEF SendCommand, InLoop
<1>2. /\ r \in RowIds /\ d \in DeviceIds /\ IsReady(r)
      /\ Command.dispatch_command_id = r /\ Command.device_id = d
  BY <1>1, LoopFacts
<1>3. /\ attempts' = OneMoreOf(attempts, r, d)
      /\ accepted' \in {OneMoreOf(accepted, r, d), accepted}
      /\ UNCHANGED <<deviceRows, results, deviceAudits, rows, reviewVars>>
  BY <1>2 DEF SendCommand, Await, SimulatorAccepts, proposalVars
<1>4. DeviceOrder
  BY DEF IInv, DeviceInv
<1>5. /\ attempts' \in [RowIds -> [DeviceIds -> Nat]] /\ attempts'[r][d] = attempts[r][d] + 1
      /\ \A q \in RowIds, e \in DeviceIds : (q # r \/ e # d) => attempts'[q][e] = attempts[q][e]
  <2>1. attempts \in [RowIds -> [DeviceIds -> Nat]]
    BY <1>4 DEF DeviceOrder
  <2> QED
    BY <1>2, <1>3, <2>1 DEF OneMoreOf
<1>6. /\ accepted' \in [RowIds -> [DeviceIds -> Nat]]
      /\ accepted'[r][d] \in {accepted[r][d] + 1, accepted[r][d]}
      /\ \A q \in RowIds, e \in DeviceIds : (q # r \/ e # d) => accepted'[q][e] = accepted[q][e]
  <2>1. accepted \in [RowIds -> [DeviceIds -> Nat]]
    BY <1>4 DEF DeviceOrder
  <2>2. CASE accepted' = accepted
    BY <1>2, <2>1, <2>2
  <2>3. CASE accepted' = OneMoreOf(accepted, r, d)
    BY <1>2, <2>1, <2>3 DEF OneMoreOf
  <2> QED
    BY <1>3, <2>2, <2>3
<1>7. \A q : IsReady(q)' <=> IsReady(q)
  BY <1>3 DEF IsReady, reviewVars
<1>8. ASSUME NEW q \in RowIds, NEW e \in DeviceIds
      PROVE  /\ deviceAudits'[q][e] <= results'[q][e] /\ results'[q][e] <= attempts'[q][e]
             /\ accepted'[q][e] <= attempts'[q][e]
             /\ attempts'[q][e] > 0 => IsReady(q)'
             /\ q = r /\ e = d => results'[q][e] < attempts'[q][e]
  <2>1. /\ attempts[q][e] \in Nat /\ accepted[q][e] \in Nat /\ results[q][e] \in Nat
        /\ deviceAudits[q][e] \in Nat
        /\ deviceAudits[q][e] <= results[q][e] /\ results[q][e] <= attempts[q][e]
        /\ accepted[q][e] <= attempts[q][e] /\ (attempts[q][e] > 0 => IsReady(q))
    BY <1>4 DEF DeviceOrder
  <2>2. CASE q = r /\ e = d
    BY <1>2, <1>3, <1>5, <1>6, <1>7, <2>1, <2>2
  <2>3. CASE q # r \/ e # d
    BY <1>3, <1>5, <1>6, <1>7, <2>1, <2>3
  <2> QED
    BY <2>2, <2>3
<1>9. DeviceOrder'
  BY <1>3, <1>4, <1>5, <1>6, <1>8, SameResults DEF DeviceOrder
<1> QED
  BY <1>2, <1>8, <1>9

\* A result is published: the devices before this one have more of them already.
LEMMA ResultOrder ==
  ASSUME IInv, PublishResult
  PROVE  LET event == Message("translator")
             r == event.id
             d == DeviceId(cursor)
         IN  /\ DeviceOrder'
             /\ results' = OneMoreOf(results, r, d) =>
                  /\ deviceAudits'[r][d] < results'[r][d]
                  /\ \A i, j \in Asked(event) :
                       i <= cursor /\ cursor < j => results'[r][DeviceId(j)] < results'[r][DeviceId(i)]
<1> PICK event, r, d : event = Message("translator") /\ r = event.id /\ d = DeviceId(cursor)
  OBVIOUS
<1>1. InLoop /\ pc["translator"] = "result"
  BY DEF PublishResult, InLoop
<1>2. /\ r \in RowIds /\ d \in DeviceIds /\ r \in DOMAIN rows /\ event = ReadyEvent(r)
      /\ Command.dispatch_command_id = r /\ Command.device_id = d
      /\ cursor \in Asked(event) /\ Asked(event) \subseteq 1..3
  BY <1>1, LoopFacts, DeviceFacts
<1>3. LoopOK(event)
  BY <1>1 DEF IInv, DeviceInv
<1>4. /\ results' \in {OneMoreOf(results, r, d), results}
      /\ UNCHANGED <<attempts, accepted, deviceRows, deviceAudits, rows, reviewVars>>
  BY <1>2 DEF PublishResult, Await, proposalVars
<1>5. DeviceOrder
  BY DEF IInv, DeviceInv
<1>6. /\ \A q : IsReady(q)' <=> IsReady(q)
      /\ \A q : ReadyEvent(q)' = ReadyEvent(q)
      /\ results \in [RowIds -> [DeviceIds -> Nat]]
  BY <1>4, <1>5 DEF IsReady, reviewVars, ReadyEvent, DeviceOrder
<1>7. CASE results' = results
  <2>1. DeviceOrder'
    BY <1>4, <1>5, <1>6, <1>7, SameResults DEF DeviceOrder
  <2>2. OneMoreOf(results, r, d) # results
    <3>1. OneMoreOf(results, r, d)[r][d] = results[r][d] + 1 /\ results[r][d] \in Nat
      BY <1>2, <1>6 DEF OneMoreOf
    <3> QED
      BY <3>1
  <2> QED
    BY <1>7, <2>1, <2>2
<1>8. CASE results' = OneMoreOf(results, r, d)
  <2>1. /\ results' \in [RowIds -> [DeviceIds -> Nat]] /\ results'[r][d] = results[r][d] + 1
        /\ \A q \in RowIds, e \in DeviceIds : (q # r \/ e # d) => results'[q][e] = results[q][e]
    BY <1>2, <1>6, <1>8 DEF OneMoreOf
  <2>2. results[r][d] < attempts[r][d]
    BY <1>1, <1>3 DEF LoopOK
  <2>3. ASSUME NEW q \in RowIds, NEW e \in DeviceIds
        PROVE  deviceAudits'[q][e] <= results'[q][e] /\ results'[q][e] <= attempts'[q][e]
               /\ (q = r /\ e = d => deviceAudits'[q][e] < results'[q][e])
    <3>1. /\ attempts[q][e] \in Nat /\ results[q][e] \in Nat /\ deviceAudits[q][e] \in Nat
          /\ deviceAudits[q][e] <= results[q][e] /\ results[q][e] <= attempts[q][e]
      BY <1>5 DEF DeviceOrder
    <3>2. attempts'[q][e] = attempts[q][e] /\ deviceAudits'[q][e] = deviceAudits[q][e]
      BY <1>4
    <3>3. CASE q = r /\ e = d
      BY <2>1, <2>2, <3>1, <3>2, <3>3
    <3>4. CASE q # r \/ e # d
      <4>1. results'[q][e] = results[q][e]
        BY <2>1, <3>4
      <4> QED
        BY <3>1, <3>2, <3>4, <4>1
    <3> QED
      BY <3>3, <3>4
  <2>4. \A i \in Asked(event) : /\ DeviceId(i) \in DeviceIds /\ results[r][DeviceId(i)] \in Nat
                                /\ (i # cursor => DeviceId(i) # d)
                                /\ (i # cursor => results'[r][DeviceId(i)] = results[r][DeviceId(i)])
    BY <1>2, <1>5, <2>1, DeviceFacts, ZenonT(60) DEF DeviceOrder
  <2>5. \A i \in Asked(event) : i < cursor => results[r][d] < results[r][DeviceId(i)]
    BY <1>1, <1>2, <1>3 DEF LoopOK, Resulted
  <2>6. \A i, j \in Asked(event) : i < j => results[r][DeviceId(j)] <= results[r][DeviceId(i)]
    BY <1>2, <1>5 DEF DeviceOrder
  <2>7. \A i, j \in Asked(event) : i < j => results'[r][DeviceId(j)] <= results'[r][DeviceId(i)]
    <3> SUFFICES ASSUME NEW i \in Asked(event), NEW j \in Asked(event), i < j
                 PROVE  results'[r][DeviceId(j)] <= results'[r][DeviceId(i)]
      OBVIOUS
    <3>1. CASE i = cursor
      BY <1>2, <2>1, <2>4, <2>6, <3>1
    <3>2. CASE j = cursor
      BY <1>2, <2>1, <2>4, <2>5, <3>2
    <3>3. CASE i # cursor /\ j # cursor
      BY <2>4, <2>6, <3>3
    <3> QED
      BY <3>1, <3>2, <3>3
  <2>8. \A i, j \in Asked(event) :
          i <= cursor /\ cursor < j => results'[r][DeviceId(j)] < results'[r][DeviceId(i)]
    <3> SUFFICES ASSUME NEW i \in Asked(event), NEW j \in Asked(event), i <= cursor, cursor < j
                 PROVE  results'[r][DeviceId(j)] < results'[r][DeviceId(i)]
      OBVIOUS
    <3>1. CASE i = cursor
      BY <1>2, <2>1, <2>4, <2>6, <3>1
    <3>2. CASE i # cursor
      <4>1. i < cursor /\ j # cursor
        BY <1>2, <3>2
      <4>2. results[r][DeviceId(j)] < results[r][DeviceId(i)]
        BY <1>1, <1>3, <4>1, <1>2 DEF LoopOK, Resulted
      <4> QED
        BY <2>4, <3>2, <4>1, <4>2
    <3> QED
      BY <3>1, <3>2
  <2>9. \A q \in DOMAIN rows' : \A i, j \in Asked(ReadyEvent(q)') :
          i < j => results'[q][DeviceId(j)] <= results'[q][DeviceId(i)]
    <3> SUFFICES ASSUME NEW q \in DOMAIN rows, NEW i \in Asked(ReadyEvent(q)),
                        NEW j \in Asked(ReadyEvent(q)), i < j
                 PROVE  results'[q][DeviceId(j)] <= results'[q][DeviceId(i)]
      BY <1>4, <1>6
    <3>1. CASE q = r
      BY <1>2, <2>7, <3>1
    <3>2. CASE q # r
      <4>1. q \in RowIds /\ DeviceId(i) \in DeviceIds /\ DeviceId(j) \in DeviceIds
        BY CommandFacts, DeviceFacts DEF IInv, AggregatorInv
      <4>2. results[q][DeviceId(j)] <= results[q][DeviceId(i)]
        BY <1>5 DEF DeviceOrder
      <4> QED
        BY <2>1, <3>2, <4>1, <4>2
    <3> QED
      BY <3>1, <3>2
  <2>10. DeviceOrder'
    BY <1>4, <1>5, <1>6, <2>1, <2>3, <2>9 DEF DeviceOrder
  <2> QED
    BY <1>2, <2>3, <2>8, <2>10
<1> QED
  BY <1>4, <1>7, <1>8

-----------------------------------------------------------------------------
Counts(R, D) == [R -> [D -> Nat]]

LEMMA OneMoreOfFacts ==
  ASSUME NEW R, NEW D, NEW counts \in Counts(R, D), NEW r \in R, NEW d \in D
  PROVE  /\ OneMoreOf(counts, r, d) \in Counts(R, D)
         /\ OneMoreOf(counts, r, d)[r][d] = counts[r][d] + 1
         /\ \A q \in R, e \in D : (q # r \/ e # d) => OneMoreOf(counts, r, d)[q][e] = counts[q][e]
BY DEF OneMoreOf, Counts

\* An audit is published, of a result or of a refused event.
LEMMA AuditOrder ==
  ASSUME IInv, NEW r \in RowIds \cup {NoRow}, NEW d \in DeviceIds \cup {NoAction},
         deviceAudits' \in {OneMoreOf(deviceAudits, r, d), deviceAudits},
         d \in DeviceIds => r \in RowIds /\ deviceAudits[r][d] < results[r][d],
         UNCHANGED <<attempts, accepted, deviceRows, results, rows, reviewVars>>
  PROVE  /\ DeviceOrder'
         /\ \A q \in RowIds \cup {NoRow}, e \in DeviceIds \cup {NoAction} :
              /\ deviceAudits[q][e] \in Nat /\ deviceAudits'[q][e] \in Nat
              /\ deviceAudits[q][e] <= deviceAudits'[q][e]
         /\ deviceAudits' = OneMoreOf(deviceAudits, r, d) => deviceAudits'[r][d] > 0
<1>1. DeviceOrder
  BY DEF IInv, DeviceInv
<1>2. deviceAudits \in [RowIds \cup {NoRow} -> [DeviceIds \cup {NoAction} -> Nat]]
  BY <1>1 DEF DeviceOrder
<1>3. /\ deviceAudits' \in [RowIds \cup {NoRow} -> [DeviceIds \cup {NoAction} -> Nat]]
      /\ deviceAudits'[r][d] \in {deviceAudits[r][d] + 1, deviceAudits[r][d]}
      /\ deviceAudits' = OneMoreOf(deviceAudits, r, d) => deviceAudits'[r][d] = deviceAudits[r][d] + 1
      /\ \A q \in RowIds \cup {NoRow}, e \in DeviceIds \cup {NoAction} :
           (q # r \/ e # d) => deviceAudits'[q][e] = deviceAudits[q][e]
  <2>1. CASE deviceAudits' = deviceAudits
    <3>1. OneMoreOf(deviceAudits, r, d)[r][d] = deviceAudits[r][d] + 1 /\ deviceAudits[r][d] \in Nat
      BY <1>2 DEF OneMoreOf
    <3> QED
      BY <1>2, <2>1, <3>1
  <2>2. CASE deviceAudits' = OneMoreOf(deviceAudits, r, d)
    <3>1. deviceAudits \in Counts(RowIds \cup {NoRow}, DeviceIds \cup {NoAction})
      BY <1>2 DEF Counts
    <3>2. /\ deviceAudits' \in Counts(RowIds \cup {NoRow}, DeviceIds \cup {NoAction})
          /\ deviceAudits'[r][d] = deviceAudits[r][d] + 1
          /\ \A q \in RowIds \cup {NoRow}, e \in DeviceIds \cup {NoAction} :
               (q # r \/ e # d) => deviceAudits'[q][e] = deviceAudits[q][e]
      BY <2>2, <3>1, OneMoreOfFacts
    <3> QED
      BY <3>2 DEF Counts
  <2> QED
    BY <2>1, <2>2
<1>4. ASSUME NEW q \in RowIds, NEW e \in DeviceIds
      PROVE  deviceAudits'[q][e] <= results'[q][e]
  <2>1. deviceAudits[q][e] \in Nat /\ results[q][e] \in Nat /\ deviceAudits[q][e] <= results[q][e]
    BY <1>1 DEF DeviceOrder
  <2>2. CASE q = r /\ e = d
    BY <1>3, <2>1, <2>2
  <2>3. CASE q # r \/ e # d
    BY <1>3, <2>1, <2>3
  <2> QED
    BY <2>2, <2>3
<1>5. \A q : IsReady(q)' <=> IsReady(q)
  BY DEF IsReady, reviewVars
<1>6. DeviceOrder'
  BY <1>1, <1>3, <1>4, <1>5, SameResults DEF DeviceOrder
<1>7. ASSUME NEW q \in RowIds \cup {NoRow}, NEW e \in DeviceIds \cup {NoAction}
      PROVE  /\ deviceAudits[q][e] \in Nat /\ deviceAudits'[q][e] \in Nat
             /\ deviceAudits[q][e] <= deviceAudits'[q][e]
  <2>1. deviceAudits[q][e] \in Nat /\ deviceAudits'[q][e] \in Nat
    BY <1>2, <1>3
  <2>2. CASE q = r /\ e = d
    BY <1>3, <2>1, <2>2
  <2>3. CASE q # r \/ e # d
    BY <1>3, <2>1, <2>3
  <2> QED
    BY <2>1, <2>2, <2>3
<1> QED
  BY <1>2, <1>3, <1>6, <1>7

\* A device row is stored.
LEMMA RowOrder ==
  ASSUME IInv, NEW r \in RowIds \cup {NoRow}, NEW d \in DeviceIds \cup {NoAction},
         deviceRows' \in {OneMoreOf(deviceRows, r, d), deviceRows},
         UNCHANGED <<attempts, accepted, results, deviceAudits, rows, reviewVars>>
  PROVE  DeviceOrder'
<1>1. DeviceOrder
  BY DEF IInv, DeviceInv
<1>2. deviceRows \in [RowIds \cup {NoRow} -> [DeviceIds \cup {NoAction} -> Nat]]
  BY <1>1 DEF DeviceOrder
<1>3. deviceRows' \in [RowIds \cup {NoRow} -> [DeviceIds \cup {NoAction} -> Nat]]
  <2>1. deviceRows \in Counts(RowIds \cup {NoRow}, DeviceIds \cup {NoAction})
    BY <1>2 DEF Counts
  <2>2. deviceRows' \in Counts(RowIds \cup {NoRow}, DeviceIds \cup {NoAction})
    BY <2>1, OneMoreOfFacts
  <2> QED
    BY <2>2 DEF Counts
<1>4. \A q : IsReady(q)' <=> IsReady(q)
  BY DEF IsReady, reviewVars
<1> QED
  BY <1>1, <1>3, <1>4, SameResults DEF DeviceOrder

\* Without new audits those that are there suffice.
LEMMA SameAudits ==
  ASSUME IInv, FaultsGrow, UNCHANGED <<readyTopic, deviceAudits>>
  PROVE  failures' = 0 => \A n \in 1..position["translator"] - 1 : IsAudited(n)'
<1>1. DeviceOrder
  BY DEF IInv, DeviceInv
<1>2. \A q \in RowIds \cup {NoRow}, d \in DeviceIds \cup {NoAction} : deviceAudits[q][d] \in Nat
  BY <1>1 DEF DeviceOrder
<1> QED
  BY <1>2, DeviceAuditsStay

\* The messages done with, after the one in hand is.
LEMMA OneMoreAudited ==
  ASSUME NEW p \in Nat \ {0}, failures' = 0 => IsAudited(p)',
         failures' = 0 => \A n \in 1..p - 1 : IsAudited(n)'
  PROVE  failures' = 0 => \A n \in 1..p : IsAudited(n)'
<1> SUFFICES ASSUME failures' = 0, NEW n \in 1..p
             PROVE  IsAudited(n)'
  OBVIOUS
<1>1. CASE n = p
  BY <1>1
<1>2. CASE n # p
  BY <1>2
<1> QED
  BY <1>1, <1>2

-----------------------------------------------------------------------------
\* A step that ends in the loop, and one that ends outside.
LEMMA StayInLoop ==
  ASSUME DeviceOrder', NEW event, Message("translator")' = event, LoopOK(event)',
         pc'["translator"] \in {"send", "store", "result", "audit"},
         failures' = 0 => \A n \in 1..position'["translator"] - 1 : IsAudited(n)'
  PROVE  DeviceInv'
<1>1. LoopOK(Message("translator"))'
  BY DEF LoopOK, Resulted
<1>2. InLoop'
  BY DEF InLoop
<1> QED
  BY <1>1, <1>2 DEF DeviceInv

LEMMA OutOfLoop ==
  ASSUME DeviceOrder', pc'["translator"] = "idle" \/ Asked(Message("translator")') = {},
         commands' = NoCommands,
         pc'["translator"] \in {"idle", "insert_rejected", "audit_rejected"},
         failures' = 0 => \A n \in 1..position'["translator"] - 1 : IsAudited(n)'
  PROVE  DeviceInv'
<1>1. Asked(Message("translator"))' = Asked(Message("translator")')
  BY DEF Asked
<1> QED
  BY <1>1 DEF DeviceInv, InLoop

LEMMA TranslateStep ==
  ASSUME IInv, Translate
  PROVE  IInv'
<1>1. /\ UNCHANGED <<postVars, proposalVars, reviewVars, mockVars, restarts>>
      /\ UNCHANGED failures \/ Fail
  BY DEF Translate, TakeReadyCommand, SendCommand, StoreCommandAudit, PublishResult,
         PublishDeviceAudit, PublishRejectedAudit, Await, Fail
<1>2. /\ FaultsGrow /\ UNCHANGED <<gridSignals, enriched, readingVars, rows, readyTopic>>
      /\ Fail => failures' # 0
  BY <1>1, AwaitFaults DEF postVars, readingVars, proposalVars, reviewVars
<1>3. LogsGrow /\ ReadyInv' /\ ReadyStays
  BY <1>1, <1>2, SameLogs, ReviewRests
<1> PICK event, r, p : event = Message("translator") /\ r = event.id /\ p = position["translator"]
  OBVIOUS
<1>4. pc["translator"] # "idle" \/ position["translator"] <= Len(readyTopic)
  BY DEF Translate, TakeReadyCommand, SendCommand, StoreCommandAudit, PublishResult,
         PublishDeviceAudit, PublishRejectedAudit
<1>5. /\ p \in DOMAIN readyTopic /\ p \in Nat \ {0} /\ event = readyTopic[p]
      /\ r \in RowIds \cup {NoRow} /\ (Asked(event) # {} => r \in RowIds)
  <2>1. p \in DOMAIN readyTopic /\ p \in Nat \ {0}
    <3>1. p \in Nat \ {0} /\ p <= Len(readyTopic)
      BY <1>4, TopicFacts DEF IInv, OffsetInv, Consumers
    <3> QED
      BY <3>1, LogFacts, SequenceFacts
  <2>2. event = readyTopic[p]
    BY DEF Message, Topic
  <2> QED
    BY <2>1, <2>2, ReadyEventFacts, CommandFacts
<1>6. OffsetInv' /\ OnlyMoves("translator") /\ DeviceInv'
  <2> DEFINE On(step) == /\ OffsetInv' /\ OnlyMoves("translator") /\ pc'["translator"] = step
                         /\ position'["translator"] = p /\ Message("translator")' = event
             Done == /\ OffsetInv' /\ OnlyMoves("translator") /\ pc'["translator"] = "idle"
                     /\ position'["translator"] = p + 1
             Behind == failures' = 0 => \A n \in 1..p - 1 : IsAudited(n)'
  <2>1. \A step \in Steps : GoTo("translator", step) => On(step)
    BY <1>2, <1>3, <1>4, GoToStep, TopicFacts DEF Consumers
  <2>2. pc["translator"] # "idle" /\ Finish("translator") => Done
    BY <1>2, <1>3, FinishStep DEF Consumers
  <2>3. DeviceOrder
    BY DEF IInv, DeviceInv
  <2>4. UNCHANGED deviceAudits => Behind
    BY <1>2, SameAudits
  <2>5. InLoop => LoopOK(event)
    BY DEF IInv, DeviceInv
  <2>6. CASE TakeReadyCommand
    <3>1. /\ commands' = translateReadyCommand(event)
          /\ UNCHANGED <<attempts, accepted, deviceRows, results, deviceAudits>>
      BY <2>6 DEF TakeReadyCommand
    <3>2. DeviceOrder'
      <4>1. \A q : IsReady(q)' <=> IsReady(q)
        BY <1>1 DEF IsReady, reviewVars
      <4> QED
        BY <1>2, <2>3, <3>1, <4>1, SameResults DEF DeviceOrder
    <3>3. DOMAIN commands' = Asked(event)
      BY <3>1 DEF Asked
    <3>4. CASE Asked(event) = {}
      <4>1. commands' = NoCommands
        BY <3>1, <3>4, CommandFacts
      <4>2. GoTo("translator", "insert_rejected")
        BY <2>6, <3>3, <3>4 DEF TakeReadyCommand
      <4>3. On("insert_rejected")
        BY <2>1, <4>2 DEF Steps
      <4>4. DeviceInv'
        BY <2>4, <3>1, <3>2, <3>4, <4>1, <4>3, OutOfLoop
      <4> QED
        BY <4>3, <4>4
    <3>5. CASE Asked(event) # {}
      <4>1. GoTo("translator", "send") /\ cursor' = Min(Asked(event))
        BY <2>6, <3>3, <3>5 DEF TakeReadyCommand
      <4>2. On("send")
        BY <2>1, <4>1 DEF Steps
      <4>3. cursor' \in Asked(event) /\ \A i \in Asked(event) : ~(i < cursor')
        <5>1. Asked(event) \subseteq 1..3
          BY CommandFacts, DeviceFacts
        <5>2. Min(Asked(event)) \in Asked(event) /\ \A i \in Asked(event) : Min(Asked(event)) <= i
          BY <3>5, CommandFacts, MinFacts
        <5> QED
          BY <4>1, <5>1, <5>2
      <4>4. LoopOK(event)'
        BY <1>5, <3>1, <3>3, <3>5, <4>2, <4>3 DEF LoopOK, Resulted
      <4>5. DeviceInv'
        BY <2>4, <3>1, <3>2, <4>2, <4>4, StayInLoop
      <4> QED
        BY <4>2, <4>5
    <3> QED
      BY <3>4, <3>5
  <2>7. CASE SendCommand
    <3>1. /\ pc["translator"] = "send" /\ GoTo("translator", "store")
          /\ UNCHANGED <<deviceAudits, results, commands, cursor>>
      BY <2>7 DEF SendCommand
    <3>2. On("store")
      BY <2>1, <3>1 DEF Steps
    <3>3. DeviceOrder' /\ results'[r][DeviceId(cursor)] < attempts'[r][DeviceId(cursor)]
      BY <2>7, SendOrder
    <3>4. LoopOK(event)'
      BY <1>2, <2>5, <3>1, <3>2, <3>3 DEF LoopOK, Resulted, InLoop, FaultsGrow
    <3>5. DeviceInv'
      BY <2>4, <3>1, <3>2, <3>3, <3>4, StayInLoop
    <3> QED
      BY <3>2, <3>5
  <2>8. CASE StoreCommandAudit
    <3>1. /\ pc["translator"] \in {"store", "insert_rejected"}
          /\ UNCHANGED <<attempts, accepted, results, deviceAudits, commands, cursor>>
          /\ LET device == IF pc["translator"] = "store" THEN Command.device_id ELSE NoAction IN
             deviceRows' \in {OneMoreOf(deviceRows, r, device), deviceRows}
      BY <2>8 DEF StoreCommandAudit, Await
    <3>2. DeviceOrder'
      <4>1. pc["translator"] = "store" => Command.device_id \in DeviceIds
        BY LoopFacts DEF InLoop
      <4> QED
        BY <1>1, <1>2, <1>5, <3>1, <4>1, RowOrder
    <3>3. CASE pc["translator"] = "store"
      <4>1. On("result")
        BY <2>1, <2>8, <3>3 DEF Steps, StoreCommandAudit
      <4>2. LoopOK(event)'
        BY <1>2, <2>5, <3>1, <3>3, <4>1 DEF LoopOK, Resulted, InLoop, FaultsGrow
      <4>3. DeviceInv'
        BY <2>4, <3>1, <3>2, <4>1, <4>2, StayInLoop
      <4> QED
        BY <4>1, <4>3
    <3>4. CASE pc["translator"] = "insert_rejected"
      <4>1. On("audit_rejected")
        BY <2>1, <2>8, <3>4 DEF Steps, StoreCommandAudit
      <4>2. Asked(event) = {} /\ commands' = NoCommands
        BY <3>1, <3>4 DEF IInv, DeviceInv, InLoop
      <4>3. DeviceInv'
        BY <2>4, <3>1, <3>2, <4>1, <4>2, OutOfLoop
      <4> QED
        BY <4>1, <4>3
    <3> QED
      BY <3>1, <3>3, <3>4
  <2>9. CASE PublishResult
    <3>1. /\ pc["translator"] = "result" /\ UNCHANGED <<attempts, deviceAudits>>
          /\ \/ /\ results' = OneMoreOf(results, Command.dispatch_command_id, Command.device_id)
                /\ GoTo("translator", "audit") /\ UNCHANGED <<commands, cursor>>
             \/ EndLoop /\ Fail
      BY <2>9 DEF PublishResult, Await
    <3>2. DeviceOrder'
      BY <2>9, ResultOrder
    <3>3. CASE /\ results' = OneMoreOf(results, Command.dispatch_command_id, Command.device_id)
               /\ GoTo("translator", "audit") /\ UNCHANGED <<commands, cursor>>
      <4>1. On("audit")
        BY <2>1, <3>3 DEF Steps
      <4>2. results' = OneMoreOf(results, r, DeviceId(cursor))
        BY <3>1, <3>3, LoopFacts DEF InLoop
      <4>3. /\ deviceAudits'[r][DeviceId(cursor)] < results'[r][DeviceId(cursor)]
            /\ \A i, j \in Asked(event) :
                 i <= cursor /\ cursor < j => results'[r][DeviceId(j)] < results'[r][DeviceId(i)]
        BY <2>9, <4>2, ResultOrder
      <4>4. cursor \in Asked(event) /\ Asked(event) \subseteq 1..3
        BY <3>1, LoopFacts, DeviceFacts DEF InLoop
      <4>5. \A i, j \in Asked(event) : Resulted(i)' /\ ~Resulted(j)' =>
              results'[r][DeviceId(j)] < results'[r][DeviceId(i)]
        BY <3>3, <4>1, <4>3, <4>4 DEF Resulted
      <4>6. LoopOK(event)'
        BY <1>2, <2>5, <3>1, <3>3, <4>1, <4>3, <4>5 DEF LoopOK, InLoop, FaultsGrow
      <4>7. DeviceInv'
        BY <2>4, <3>1, <3>2, <4>1, <4>6, StayInLoop
      <4> QED
        BY <4>1, <4>7
    <3>4. CASE EndLoop /\ Fail
      <4>1. Done /\ commands' = NoCommands
        BY <2>2, <3>1, <3>4 DEF EndLoop, DropCommands
      <4>2. DeviceInv'
        BY <1>2, <3>2, <3>4, <4>1, OutOfLoop
      <4> QED
        BY <4>1, <4>2
    <3> QED
      BY <3>1, <3>3, <3>4
  <2>10. CASE PublishDeviceAudit
    <3> PICK d : d = DeviceId(cursor)
      OBVIOUS
    <3>1. /\ pc["translator"] = "audit" /\ UNCHANGED <<attempts, accepted, deviceRows, results>>
          /\ deviceAudits' \in {OneMoreOf(deviceAudits, r, d), deviceAudits}
          /\ \/ deviceAudits' = OneMoreOf(deviceAudits, r, d) /\ NextCommand
             \/ EndLoop /\ Fail
      <4>1. InLoop /\ Command.dispatch_command_id = r /\ Command.device_id = d
        BY <2>10, LoopFacts DEF InLoop, PublishDeviceAudit
      <4> QED
        BY <2>10, <4>1 DEF PublishDeviceAudit, Await
    <3>2. /\ r \in RowIds /\ d \in DeviceIds /\ cursor \in Asked(event) /\ Asked(event) \subseteq 1..3
          /\ commands = translateReadyCommand(event)
      BY <3>1, LoopFacts, DeviceFacts DEF InLoop
    <3>3. /\ deviceAudits[r][d] < results[r][d]
          /\ \A i, j \in Asked(event) : i <= cursor /\ cursor < j =>
               results[r][DeviceId(j)] < results[r][DeviceId(i)]
          /\ failures = 0 => \A i \in Asked(event) : i < cursor => deviceAudits[r][DeviceId(i)] > 0
      BY <2>5, <3>1, <3>2 DEF LoopOK, InLoop, Resulted
    <3>4. /\ DeviceOrder'
          /\ \A q \in RowIds \cup {NoRow}, e \in DeviceIds \cup {NoAction} :
               /\ deviceAudits[q][e] \in Nat /\ deviceAudits'[q][e] \in Nat
               /\ deviceAudits[q][e] <= deviceAudits'[q][e]
          /\ deviceAudits' = OneMoreOf(deviceAudits, r, d) => deviceAudits'[r][d] > 0
      BY <1>1, <1>2, <3>1, <3>2, <3>3, AuditOrder
    <3>5. Behind
      BY <1>2, <3>4, DeviceAuditsStay
    <3>6. CASE deviceAudits' = OneMoreOf(deviceAudits, r, d) /\ NextCommand
      <4>1. failures' = 0 => \A i \in Asked(event) : i <= cursor => deviceAudits'[r][DeviceId(i)] > 0
        <5> SUFFICES ASSUME failures' = 0, NEW i \in Asked(event), i <= cursor
                     PROVE  deviceAudits'[r][DeviceId(i)] > 0
          OBVIOUS
        <5>1. CASE i = cursor
          BY <3>4, <3>6, <5>1
        <5>2. CASE i # cursor
          <6>1. deviceAudits[r][DeviceId(i)] > 0 /\ DeviceId(i) \in DeviceIds
            BY <1>2, <3>2, <3>3, <5>2, DeviceFacts DEF FaultsGrow
          <6> QED
            BY <3>2, <3>4, <6>1
        <5> QED
          BY <5>1, <5>2
      <4> DEFINE left == {i \in Asked(event) : i > cursor}
      <4>2. {i \in DOMAIN commands : i > cursor} = left
        BY <3>2 DEF Asked
      <4>3. CASE left # {}
        <5>1. GoTo("translator", "send") /\ UNCHANGED commands /\ cursor' = Min(left)
          BY <3>6, <4>2, <4>3 DEF NextCommand
        <5>2. On("send")
          BY <2>1, <5>1 DEF Steps
        <5>3. cursor' \in left /\ \A i \in left : cursor' <= i
          <6>1. left \subseteq DOMAIN DEVICES
            BY <3>2, DeviceFacts
          <6>2. Min(left) \in left /\ \A i \in left : Min(left) <= i
            BY <4>3, <6>1, MinFacts
          <6> QED
            BY <5>1, <6>2
        <5>4. \A i \in Asked(event) : i < cursor' <=> i <= cursor
          BY <3>2, <5>3
        <5>5. LoopOK(event)'
          <6>1. commands' = translateReadyCommand(event) /\ cursor' \in DOMAIN commands'
            BY <3>2, <5>1, <5>3 DEF Asked
          <6>2. \A i, j \in Asked(event) : Resulted(i)' /\ ~Resulted(j)' =>
                  results'[r][DeviceId(j)] < results'[r][DeviceId(i)]
            BY <3>1, <3>2, <3>3, <5>2, <5>4 DEF Resulted
          <6> QED
            BY <3>2, <4>1, <5>2, <5>4, <6>1, <6>2 DEF LoopOK
        <5>6. DeviceInv'
          BY <3>4, <3>5, <5>2, <5>5, StayInLoop
        <5> QED
          BY <5>2, <5>6
      <4>4. CASE left = {}
        <5>1. EndLoop
          BY <3>6, <4>2, <4>4 DEF NextCommand
        <5>2. Done /\ commands' = NoCommands
          BY <2>2, <3>1, <5>1 DEF EndLoop, DropCommands
        <5>3. failures' = 0 => IsAudited(p)'
          <6>1. \A i \in Asked(event) : i <= cursor
            BY <3>2, <4>4
          <6>2. Asked(event) # {}
            BY <3>2
          <6> QED
            BY <1>2, <1>5, <4>1, <6>1, <6>2 DEF IsAudited
        <5>4. DeviceInv'
          <6>1. failures' = 0 => \A n \in 1..p : IsAudited(n)'
            BY <1>5, <3>5, <5>3, OneMoreAudited
          <6>2. position'["translator"] - 1 = p
            BY <1>5, <5>2
          <6> QED
            BY <3>4, <5>2, <6>1, <6>2, OutOfLoop
        <5> QED
          BY <5>2, <5>4
      <4> QED
        BY <4>3, <4>4
    <3>7. CASE EndLoop /\ Fail
      <4>1. Done /\ commands' = NoCommands
        BY <2>2, <3>1, <3>7 DEF EndLoop, DropCommands
      <4>2. DeviceInv'
        BY <1>2, <3>4, <3>7, <4>1, OutOfLoop
      <4> QED
        BY <4>1, <4>2
    <3> QED
      BY <3>1, <3>6, <3>7
  <2>11. CASE PublishRejectedAudit
    <3>1. /\ pc["translator"] = "audit_rejected" /\ EndLoop
          /\ UNCHANGED <<attempts, accepted, deviceRows, results>>
          /\ deviceAudits' \in {OneMoreOf(deviceAudits, r, NoAction), deviceAudits}
          /\ deviceAudits' = OneMoreOf(deviceAudits, r, NoAction) \/ Fail
      BY <2>11 DEF PublishRejectedAudit, Await
    <3>2. NoAction \notin DeviceIds
      BY DeviceFacts DEF DeviceIds, DeviceId
    <3>3. /\ DeviceOrder'
          /\ \A q \in RowIds \cup {NoRow}, e \in DeviceIds \cup {NoAction} :
               /\ deviceAudits[q][e] \in Nat /\ deviceAudits'[q][e] \in Nat
               /\ deviceAudits[q][e] <= deviceAudits'[q][e]
          /\ deviceAudits' = OneMoreOf(deviceAudits, r, NoAction) => deviceAudits'[r][NoAction] > 0
      BY <1>1, <1>2, <1>5, <3>1, <3>2, AuditOrder
    <3>4. Behind
      BY <1>2, <3>3, DeviceAuditsStay
    <3>5. Done /\ commands' = NoCommands
      BY <2>2, <3>1 DEF EndLoop, DropCommands
    <3>6. failures' = 0 => IsAudited(p)'
      <4>1. Asked(event) = {}
        BY <3>1 DEF IInv, DeviceInv
      <4> QED
        BY <1>2, <1>5, <3>1, <3>3, <4>1 DEF IsAudited
    <3>7. DeviceInv'
      <4>1. failures' = 0 => \A n \in 1..p : IsAudited(n)'
        BY <1>5, <3>4, <3>6, OneMoreAudited
      <4>2. position'["translator"] - 1 = p
        BY <1>5, <3>5
      <4> QED
        BY <3>3, <3>5, <4>1, <4>2, OutOfLoop
    <3> QED
      BY <3>5, <3>7
  <2> QED
    BY <2>6, <2>7, <2>8, <2>9, <2>10, <2>11 DEF Translate
<1>7. PostInv' /\ SemanticInv' /\ AggregatorInv' /\ MockInv'
  <2>1. PostInv'
    BY <1>1, <1>2 DEF IInv, PostInv, postVars
  <2> QED
    BY <1>1, <1>2, <1>3, <1>6, <2>1, SemanticRests, AggregatorRests, AdapterRests
       DEF Consumers, OnlyMoves
<1> QED
  BY <1>3, <1>6, <1>7 DEF IInv

-----------------------------------------------------------------------------
(* Commits, restarts and the initial state                                 *)

LEMMA CommitStep ==
  ASSUME IInv, NEW c \in Consumers, CommitResolved(c)
  PROVE  IInv'
<1>1. /\ UNCHANGED <<postVars, proposalVars, reviewVars, mockVars, deviceVars, pc, position>>
      /\ UNCHANGED <<failures, restarts>>
      /\ committed' = [committed EXCEPT ![c] = position[c]]
  BY DEF CommitResolved
<1>2. /\ UNCHANGED <<gridSignals, enriched, readingVars, rows, readyTopic>> /\ FaultsGrow
  BY <1>1 DEF postVars, readingVars, proposalVars, reviewVars, IInv, OffsetInv, FaultsGrow
<1>3. LogsGrow /\ ReadyInv' /\ ReadyStays
  BY <1>1, <1>2, SameLogs, ReviewRests
<1>4. \A o \in Consumers : Rests(o)
  BY <1>1 DEF Rests
<1>5. OffsetInv'
  <2>1. \A o \in Consumers : Topic(o)' = Topic(o)
    BY <1>2 DEF Topic
  <2>2. committed' \in [Consumers -> Nat \ {0}]
    BY <1>1 DEF IInv, OffsetInv
  <2>3. \A o \in Consumers : committed'[o] \in {committed[o], position[o]} /\ position[o] \in Nat
    BY <1>1 DEF IInv, OffsetInv
  <2> QED
    BY <1>1, <2>1, <2>2, <2>3 DEF IInv, OffsetInv
<1>6. PostInv' /\ DOMAIN rows' \subseteq RowIds
  BY <1>1, <1>2 DEF IInv, PostInv, AggregatorInv, postVars
<1>7. SemanticInv' /\ AggregatorInv' /\ MockInv' /\ DeviceInv'
  BY <1>1, <1>2, <1>3, <1>4, <1>6, SemanticRests, AggregatorRests, AdapterRests, TranslatorRests
     DEF Consumers
<1> QED
  BY <1>3, <1>5, <1>6, <1>7 DEF IInv

\* What is in hand is gone; what is behind the committed offset was behind the position.
LEMMA RestartStep ==
  ASSUME IInv, NEW c \in Consumers, Restart(c)
  PROVE  IInv'
<1>1. /\ pc' = [pc EXCEPT ![c] = "idle"] /\ position' = [position EXCEPT ![c] = committed[c]]
      /\ UNCHANGED <<committed, failures>> /\ restarts' = restarts + 1
      /\ UNCHANGED <<post, gridSignals, enriched, takes, ieeeReadings, translated>>
      /\ UNCHANGED <<rows, proposed, proposedAudits, failedAudits, reviewVars, mockVars>>
      /\ UNCHANGED <<attempts, accepted, deviceRows, results, deviceAudits>>
  BY DEF Restart
<1>2. FaultsGrow /\ UNCHANGED readyTopic
  BY <1>1 DEF IInv, OffsetInv, FaultsGrow, reviewVars
<1>3. LogsGrow /\ ReadyInv' /\ ReadyStays
  BY <1>1, <1>2, SameLogs, ReviewRests
<1>4. /\ OnlyMoves(c) /\ pc'[c] = "idle" /\ position'[c] = committed[c]
      /\ committed[c] \in Nat \ {0} /\ position[c] \in Nat \ {0} /\ committed[c] <= position[c]
  BY <1>1 DEF IInv, OffsetInv, OnlyMoves, Rests
<1>5. OffsetInv'
  <2>1. \A o \in Consumers : Topic(o)' = Topic(o) /\ Len(Topic(o)) \in Nat
    BY <1>1, <1>2, <1>3, TopicsGrow DEF Topic
  <2>2. /\ pc' \in [Consumers -> Steps] /\ position' \in [Consumers -> Nat \ {0}]
    BY <1>1 DEF IInv, OffsetInv, Steps
  <2>3. ASSUME NEW o \in Consumers
        PROVE  /\ committed'[o] <= position'[o] /\ position'[o] <= Len(Topic(o)') + 1
               /\ pc'[o] # "idle" => position'[o] <= Len(Topic(o)')
    <3>1. /\ committed[o] \in Nat /\ position[o] \in Nat /\ committed[o] <= position[o]
          /\ position[o] <= Len(Topic(o)) + 1
          /\ pc[o] # "idle" => position[o] <= Len(Topic(o))
      BY DEF IInv, OffsetInv
    <3>2. CASE o = c
      BY <1>1, <1>4, <2>1, <3>1, <3>2
    <3>3. CASE o # c
      BY <1>1, <1>4, <2>1, <3>1, <3>3 DEF OnlyMoves, Rests
    <3> QED
      BY <3>2, <3>3
  <2> QED
    BY <1>1, <1>2, <2>2, <2>3 DEF IInv, OffsetInv, FaultsGrow
<1>6. PostInv' /\ DOMAIN rows' \subseteq RowIds
  BY <1>1 DEF IInv, PostInv, AggregatorInv
<1>7. SemanticInv'
  <2>1. CASE c = "semantic"
    <3>1. translation' = {}
      BY <2>1 DEF Restart
    <3> QED
      BY <1>1, <1>4, <2>1, <3>1 DEF IInv, SemanticInv
  <2>2. CASE c # "semantic"
    <3>1. UNCHANGED readingVars
      BY <1>1, <2>2 DEF Restart, readingVars
    <3> QED
      BY <1>2, <1>4, <2>2, <3>1, SemanticRests DEF OnlyMoves, Consumers
  <2> QED
    BY <2>1, <2>2
<1>8. AggregatorInv'
  <2>1. CASE c = "aggregator"
    <3>1. draft' = NoRow
      BY <2>1 DEF Restart
    <3> QED
      BY <1>1, <1>4, <2>1, <3>1 DEF IInv, AggregatorInv, ProposedOrRefused
  <2>2. CASE c # "aggregator"
    <3>1. UNCHANGED proposalVars
      BY <1>1, <2>2 DEF Restart, proposalVars
    <3> QED
      BY <1>2, <1>3, <1>4, <2>2, <3>1, AggregatorRests DEF OnlyMoves, Consumers
  <2> QED
    BY <2>1, <2>2
<1>9. MockInv'
  <2>1. CASE c = "adapter"
    <3>1. UNCHANGED <<mockRows, mockSent, mockResults, mockAudits, readyTopic>>
      BY <1>1, <1>2 DEF mockVars
    <3>2. MockOrder'
      BY <1>1, <3>1 DEF IInv, MockInv, MockOrder, IsReady, reviewVars
    <3>3. failures' = 0 =>
            \A n \in 1..position'["adapter"] - 1 : mockAudits'[readyTopic'[n].id] > 0
      BY <1>1, <1>4, <2>1, <3>1 DEF IInv, MockInv
    <3> QED
      BY <1>4, <2>1, <3>2, <3>3 DEF MockInv
  <2>2. CASE c # "adapter"
    BY <1>1, <1>2, <1>3, <1>4, <2>2, AdapterRests DEF OnlyMoves, Consumers
  <2> QED
    BY <2>1, <2>2
<1>10. DeviceInv'
  <2>1. CASE c = "translator"
    <3>1. commands' = NoCommands
      BY <2>1 DEF Restart, DropCommands
    <3>2. DeviceOrder'
      <4>1. \A q : IsReady(q)' <=> IsReady(q)
        BY <1>1 DEF IsReady, reviewVars
      <4> QED
        BY <1>1, <4>1, SameResults DEF IInv, DeviceInv, DeviceOrder
    <3>3. failures' = 0 => \A n \in 1..position["translator"] - 1 : IsAudited(n)'
      BY <1>1, <1>2, SameAudits
    <3>4. failures' = 0 => \A n \in 1..position'["translator"] - 1 : IsAudited(n)'
      BY <1>4, <2>1, <3>3
    <3> QED
      BY <1>4, <2>1, <3>1, <3>2, <3>4, OutOfLoop
  <2>2. CASE c # "translator"
    <3>1. UNCHANGED deviceVars
      BY <1>1, <2>2 DEF Restart, deviceVars
    <3> QED
      BY <1>2, <1>3, <1>4, <1>6, <2>2, <3>1, TranslatorRests DEF OnlyMoves, Consumers
  <2> QED
    BY <2>1, <2>2
<1> QED
  BY <1>3, <1>5, <1>6, <1>7, <1>8, <1>9, <1>10 DEF IInv

LEMMA InitInv == Init => IInv
<1> SUFFICES ASSUME Init
             PROVE  IInv
  OBVIOUS
<1>1. \A s \in {<<>>, Enriched, GridBacklog, ReadyBacklog} : IsSequence(s)
  BY ChainAssumption, EnrichedAssumption, EmptySeq DEF IsSequence
<1>2. \A c \in Consumers : Topic(c) \in {<<>>, Enriched, GridBacklog, ReadyBacklog}
  BY DEF Init, Topic
<1>3. \A c \in Consumers : Len(Topic(c)) \in Nat
  BY <1>1, <1>2, SequenceFacts
<1>4. /\ pc = [c \in Consumers |-> "idle"] /\ position = [c \in Consumers |-> 1]
      /\ committed = [c \in Consumers |-> 1] /\ failures = 0 /\ restarts = 0
  BY DEF Init
<1>5. OffsetInv
  BY <1>3, <1>4 DEF OffsetInv, Steps
<1>6. PostInv
  BY <1>1 DEF Init, PostInv
<1>7. SemanticInv
  BY <1>4 DEF Init, SemanticInv, Consumers
<1>8. AggregatorInv
  <2>1. rows = <<>> /\ IsSequence(rows) /\ DOMAIN rows = {}
    BY <1>1 DEF Init
  <2> QED
    BY <1>4, <2>1 DEF Init, AggregatorInv, Consumers
<1>9. ReadyInv
  <2>1. readyTopic \in {<<>>, ReadyBacklog} /\ IsSequence(readyTopic)
    BY <1>1 DEF Init
  <2>2. \A n \in DOMAIN readyTopic :
          readyTopic[n].id = NoRow /\ ~validateReadyCommand(readyTopic[n])
    BY <2>1, ChainAssumption DEF Range
  <2>3. status = [r \in RowIds |-> Lifecycle!Absent] /\ announced = [r \in RowIds |-> {}]
    BY DEF Init, Lifecycle!LifecycleInit
  <2> QED
    BY <2>1, <2>2, <2>3 DEF ReadyInv
<1>10. MockInv
  <2>1. MockOrder
    BY RowIdsFacts DEF Init, MockOrder
  <2> QED
    BY <1>4, <2>1 DEF MockInv, Consumers
<1>11. DeviceInv
  <2>1. /\ attempts = [r \in RowIds |-> [d \in DeviceIds |-> 0]]
        /\ accepted = attempts /\ results = attempts
        /\ deviceRows = [r \in RowIds \cup {NoRow} |-> [d \in DeviceIds \cup {NoAction} |-> 0]]
        /\ deviceAudits = deviceRows /\ rows = <<>> /\ commands = NoCommands
    BY DEF Init
  <2>2. DeviceOrder
    BY <2>1 DEF DeviceOrder
  <2> QED
    BY <1>4, <2>1, <2>2 DEF DeviceInv, InLoop, Consumers
<1> QED
  BY <1>5, <1>6, <1>7, <1>8, <1>9, <1>10, <1>11 DEF IInv

LEMMA StepPreserves == IInv /\ [Next]_vars => IInv'
<1> SUFFICES ASSUME IInv, [Next]_vars
             PROVE  IInv'
  OBVIOUS
<1>1. CASE \E s \in DOMAIN Bodies : PostSignal(s) \/ StoreSignal(s) \/ PublishSignal(s)
  BY <1>1, PostStep
<1>2. CASE TranslateReadings \/ Aggregate \/ Adapt \/ Translate
  BY <1>2, ReadingStep, AggregateStep, AdaptStep, TranslateStep
<1>3. CASE \E r \in RowIds : Review(r) \/ Announce(r)
  BY <1>3, ReviewStep
<1>4. CASE \E c \in Consumers : CommitResolved(c) \/ Restart(c)
  BY <1>4, CommitStep, RestartStep
<1>5. CASE UNCHANGED vars
  <2>1. /\ UNCHANGED <<postVars, proposalVars, reviewVars, mockVars, deviceVars, pc, offsetVars>>
        /\ UNCHANGED <<failures, restarts>>
    BY <1>5 DEF vars
  <2>2. FaultsGrow /\ UNCHANGED <<gridSignals, enriched, readingVars, rows, readyTopic>>
    BY <2>1 DEF postVars, readingVars, proposalVars, reviewVars, IInv, OffsetInv, FaultsGrow
  <2>3. LogsGrow /\ ReadyInv' /\ ReadyStays
    BY <2>1, <2>2, SameLogs, ReviewRests
  <2>4. OffsetInv' /\ \A c \in Consumers : Rests(c)
    BY <2>1, <2>2, <2>3, ConsumersRest
  <2>5. PostInv' /\ DOMAIN rows' \subseteq RowIds
    BY <2>1, <2>2 DEF IInv, PostInv, AggregatorInv, postVars
  <2>6. SemanticInv' /\ AggregatorInv' /\ MockInv' /\ DeviceInv'
    BY <2>1, <2>2, <2>3, <2>4, <2>5, SemanticRests, AggregatorRests, AdapterRests, TranslatorRests
       DEF Consumers
  <2> QED
    BY <2>3, <2>4, <2>5, <2>6 DEF IInv
<1> QED
  BY <1>1, <1>2, <1>3, <1>4, <1>5 DEF Next

-----------------------------------------------------------------------------
(* Least members, ranks, folds, sums and powers                            *)

LEMMA LeastOf ==
  ASSUME NEW S \in SUBSET Nat, S # {}
  PROVE  Min(S) \in S /\ \A x \in S : Min(S) <= x
<1>1. PICK k \in S : \A j \in S : ~ (<<j, k>> \in OpToRel(<, Nat))
  BY WFMin, NatLessThanWellFounded
<1>2. \A j \in S : ~ (j < k)
  BY <1>1 DEF OpToRel
<1>3. k \in Nat /\ \A j \in S : j \in Nat
  OBVIOUS
<1>4. \A j \in S : k <= j
  BY <1>2, <1>3
<1> QED
  BY <1>3, <1>4 DEF Min

\* The elements of a set that a relation puts before one of them.
Lesser(S, R, x) == {y \in S : <<y, x>> \in R}

StrictOrder(S, R) ==
  /\ \A x \in S : <<x, x>> \notin R
  /\ \A x, y, z \in S : <<x, y>> \in R /\ <<y, z>> \in R => <<x, z>> \in R
  /\ \A x, y \in S : x = y \/ <<x, y>> \in R \/ <<y, x>> \in R

\* In a finite set under a strict order without ties every rank is taken, by one element.
LEMMA RankTaken ==
  ASSUME NEW S, IsFiniteSet(S), NEW R, StrictOrder(S, R)
  PROVE  /\ \A k \in 0..(Cardinality(S) - 1) : \E x \in S : Cardinality(Lesser(S, R, x)) = k
         /\ \A x \in S : Cardinality(Lesser(S, R, x)) \in 0..(Cardinality(S) - 1)
         /\ \A x, y \in S : Cardinality(Lesser(S, R, x)) = Cardinality(Lesser(S, R, y)) => x = y
<1> DEFINE n == Cardinality(S)
           rank == [x \in S |-> Cardinality(Lesser(S, R, x))]
<1>1. n \in Nat
  BY FS_CardinalityType
<1>2. \A x \in S : /\ IsFiniteSet(Lesser(S, R, x)) /\ Cardinality(Lesser(S, R, x)) \in Nat
                   /\ Cardinality(Lesser(S, R, x)) <= n - 1
  <2> SUFFICES ASSUME NEW x \in S
               PROVE  /\ IsFiniteSet(Lesser(S, R, x)) /\ Cardinality(Lesser(S, R, x)) \in Nat
                      /\ Cardinality(Lesser(S, R, x)) <= n - 1
    OBVIOUS
  <2>1. IsFiniteSet(S \ {x}) /\ Cardinality(S \ {x}) = n - 1
    BY FS_RemoveElement
  <2>2. Lesser(S, R, x) \in SUBSET (S \ {x})
    BY DEF Lesser, StrictOrder
  <2> QED BY <2>1, <2>2, FS_Subset, FS_CardinalityType
<1>3. rank \in [S -> 0..(n - 1)]
  BY <1>1, <1>2
<1>4. \A x, y \in S : <<x, y>> \in R => rank[x] < rank[y]
  <2> SUFFICES ASSUME NEW x \in S, NEW y \in S, <<x, y>> \in R
               PROVE  Cardinality(Lesser(S, R, x)) < Cardinality(Lesser(S, R, y))
    OBVIOUS
  <2>1. x \notin Lesser(S, R, x)
    BY DEF Lesser, StrictOrder
  <2>2. Lesser(S, R, x) \cup {x} \in SUBSET Lesser(S, R, y)
    BY DEF Lesser, StrictOrder
  <2>3. Cardinality(Lesser(S, R, x) \cup {x}) = Cardinality(Lesser(S, R, x)) + 1
    BY <1>2, <2>1, FS_AddElement
  <2>4. Cardinality(Lesser(S, R, x) \cup {x}) <= Cardinality(Lesser(S, R, y))
    BY <1>2, <2>2, FS_Subset
  <2> QED BY <1>2, <2>3, <2>4
<1>5. \A x, y \in S : rank[x] = rank[y] => x = y
  <2> SUFFICES ASSUME NEW x \in S, NEW y \in S, rank[x] = rank[y]
               PROVE  x = y
    OBVIOUS
  <2>1. rank[x] \in Int /\ rank[y] \in Int
    BY <1>2
  <2>2. <<x, y>> \notin R /\ <<y, x>> \notin R
    BY <1>4, <2>1
  <2> QED BY <2>2 DEF StrictOrder
<1>6. rank \in Injection(S, 0..(n - 1))
  BY <1>3, <1>5 DEF Injection, IsInjective
<1>7. IsFiniteSet(0..(n - 1)) /\ Cardinality(0..(n - 1)) = n
  BY <1>1, FS_Interval
<1>8. rank \in Surjection(S, 0..(n - 1))
  BY <1>6, <1>7, FS_Injection
<1> QED BY <1>2, <1>3, <1>5, <1>8 DEF Surjection

\* The ranks of a finite set of integers.
LEMMA NumberRanks ==
  ASSUME NEW S \in SUBSET Int, IsFiniteSet(S)
  PROVE  /\ \A k \in 0..(Cardinality(S) - 1) : \E x \in S : Cardinality({y \in S : y < x}) = k
         /\ \A x \in S : Cardinality({y \in S : y < x}) \in 0..(Cardinality(S) - 1)
         /\ \A x, y \in S : Cardinality({z \in S : z < x}) = Cardinality({z \in S : z < y}) => x = y
<1> DEFINE R == {p \in S \X S : p[1] < p[2]}
           Below(x) == {y \in S : y < x}
<1>1. StrictOrder(S, R)
  BY DEF StrictOrder
<1>2. \A x \in S : Lesser(S, R, x) = Below(x)
  BY DEF Lesser
<1> SUFFICES
      /\ \A k \in 0..(Cardinality(S) - 1) : \E x \in S : Cardinality(Below(x)) = k
      /\ \A x \in S : Cardinality(Below(x)) \in 0..(Cardinality(S) - 1)
      /\ \A x, y \in S : Cardinality(Below(x)) = Cardinality(Below(y)) => x = y
  BY Zenon
<1> HIDE DEF R, Below
<1>3. \A x \in S : Cardinality(Lesser(S, R, x)) = Cardinality(Below(x))
  BY <1>2
<1>4. /\ \A k \in 0..(Cardinality(S) - 1) : \E x \in S : Cardinality(Lesser(S, R, x)) = k
      /\ \A x \in S : Cardinality(Lesser(S, R, x)) \in 0..(Cardinality(S) - 1)
      /\ \A x, y \in S : Cardinality(Lesser(S, R, x)) = Cardinality(Lesser(S, R, y)) => x = y
  BY <1>1, RankTaken, Zenon
<1>5. \A k \in 0..(Cardinality(S) - 1) : \E x \in S : Cardinality(Below(x)) = k
  BY <1>3, <1>4, Zenon
<1>6. \A x \in S : Cardinality(Below(x)) \in 0..(Cardinality(S) - 1)
  BY <1>3, <1>4, Zenon
<1>7. \A x, y \in S : Cardinality(Below(x)) = Cardinality(Below(y)) => x = y
  BY <1>3, <1>4, Zenon
<1> QED
  BY <1>5, <1>6, <1>7

LEMMA NumberInduction ==
  ASSUME NEW Good, 0 \in Good, \A n \in Nat : n \in Good => n + 1 \in Good
  PROVE  \A n \in Nat : n \in Good
<1> DEFINE Bad == Nat \ Good
           m == Min(Bad)
<1>1. SUFFICES ASSUME Bad # {} PROVE FALSE
  OBVIOUS
<1>2. m \in Bad /\ \A n \in Bad : m <= n
  BY <1>1, LeastOf
<1> HIDE DEF m
<1>3. m \in Nat /\ m \notin Good /\ m # 0
  BY <1>2
<1>4. m - 1 \in Nat /\ m - 1 \notin Bad /\ (m - 1) + 1 = m
  BY <1>2, <1>3
<1> QED
  BY <1>3, <1>4

\* What holds of a set when it holds of all its proper subsets holds of a finite set.
LEMMA SubsetInduction ==
  ASSUME NEW S, IsFiniteSet(S), NEW Good,
         \A T \in SUBSET S : (\A U \in SUBSET T : U # T => U \in Good) => T \in Good
  PROVE  \A T \in SUBSET S : T \in Good
<1> DEFINE Bad == {Cardinality(T) : T \in {U \in SUBSET S : U \notin Good}}
           m == Min(Bad)
<1>1. SUFFICES ASSUME Bad # {} PROVE FALSE
  OBVIOUS
<1>2. \A T \in SUBSET S : IsFiniteSet(T) /\ Cardinality(T) \in Nat
  BY FS_Subset, FS_CardinalityType
<1>3. Bad \in SUBSET Nat
  BY <1>2
<1>4. m \in Bad /\ \A n \in Bad : m <= n
  BY <1>1, <1>3, LeastOf
<1> HIDE DEF m
<1>5. PICK T \in SUBSET S : T \notin Good /\ Cardinality(T) = m
  BY <1>4
<1>6. ASSUME NEW U \in SUBSET T, U # T, U \notin Good
      PROVE  FALSE
  <2>1. U \in SUBSET S
    OBVIOUS
  <2>2. Cardinality(U) \in Bad
    BY <1>6, <2>1
  <2>3. Cardinality(U) <= Cardinality(T) /\ Cardinality(U) # Cardinality(T)
    BY <1>2, <1>6, FS_Subset
  <2> HIDE DEF Bad
  <2> QED
    BY <1>2, <1>4, <1>5, <2>1, <2>2, <2>3
<1> QED
  BY <1>5, <1>6

IsFold(f, S, base, step, pick) ==
  \A T \in SUBSET S : f[T] = IF T = {} THEN base ELSE step[<<f[T \ {pick[T]}], pick[T]>>]

\* A fold over a finite set is well defined, and what its steps keep in X stays in X.
LEMMA FoldExists ==
  ASSUME NEW S, IsFiniteSet(S), NEW X, NEW base \in X, NEW step \in [X \X S -> X],
         NEW pick, \A T \in SUBSET S : T # {} => pick[T] \in T
  PROVE  \E f \in [SUBSET S -> X] : IsFold(f, S, base, step, pick)
<1> DEFINE Fold(f, T) == IF T = {} THEN base ELSE step[<<f[T \ {pick[T]}], pick[T]>>]
           Upto(n) == \E f \in [SUBSET S -> X] :
                        \A T \in SUBSET S : Cardinality(T) <= n => f[T] = Fold(f, T)
           Good == {n \in Nat : Upto(n)}
<1>1. Cardinality(S) \in Nat
  BY FS_CardinalityType
<1>2. \A T \in SUBSET S : /\ IsFiniteSet(T) /\ Cardinality(T) \in Nat
                          /\ Cardinality(T) <= Cardinality(S)
  BY FS_Subset, FS_CardinalityType
<1>3. \A f \in [SUBSET S -> X], T \in SUBSET S : Fold(f, T) \in X
  OBVIOUS
<1>4. ASSUME NEW n \in Nat, n # 0, Upto(n - 1)
      PROVE  Upto(n)
  <2>1. PICK f \in [SUBSET S -> X] :
               \A T \in SUBSET S : Cardinality(T) <= n - 1 => f[T] = Fold(f, T)
    BY <1>4
  <2> DEFINE g == [T \in SUBSET S |-> IF Cardinality(T) = n THEN Fold(f, T) ELSE f[T]]
  <2>2. g \in [SUBSET S -> X]
    BY <1>3
  <2>3. \A T \in SUBSET S : Cardinality(T) <= n - 1 => g[T] = f[T]
    BY <1>2
  <2>4. ASSUME NEW T \in SUBSET S, Cardinality(T) <= n
        PROVE  Fold(g, T) = Fold(f, T)
    <3>1. CASE T = {}
      BY <3>1
    <3>2. CASE T # {}
      <4>1. pick[T] \in T /\ T \ {pick[T]} \in SUBSET S
        BY <3>2
      <4>2. Cardinality(T \ {pick[T]}) = Cardinality(T) - 1
        BY <1>2, <4>1, FS_RemoveElement
      <4>3. g[T \ {pick[T]}] = f[T \ {pick[T]}]
        BY <1>2, <2>3, <2>4, <4>1, <4>2
      <4> HIDE DEF g
      <4> QED
        BY <4>3
    <3> QED
      BY <3>1, <3>2
  <2>5. ASSUME NEW T \in SUBSET S, Cardinality(T) <= n
        PROVE  g[T] = Fold(g, T)
    <3>1. CASE Cardinality(T) = n
      BY <2>4, <2>5, <3>1
    <3>2. CASE Cardinality(T) # n
      <4>1. Cardinality(T) <= n - 1
        BY <1>2, <2>5, <3>2
      <4> QED
        BY <2>1, <2>3, <2>4, <2>5, <4>1
    <3> QED
      BY <3>1, <3>2
  <2> HIDE DEF g
  <2> QED
    BY <2>2, <2>5
<1>5. Upto(0)
  <2> DEFINE f == [T \in SUBSET S |-> base]
  <2>1. f \in [SUBSET S -> X]
    OBVIOUS
  <2>2. \A T \in SUBSET S : Cardinality(T) <= 0 => T = {}
    BY <1>2, FS_EmptySet
  <2>3. \A T \in SUBSET S : Cardinality(T) <= 0 => f[T] = Fold(f, T)
    BY <2>2
  <2> HIDE DEF f
  <2> QED
    BY <2>1, <2>3
<1> HIDE DEF Upto
<1>6. ASSUME NEW n \in Nat, n \in Good
      PROVE  n + 1 \in Good
  BY <1>4, <1>6
<1>7. \A n \in Nat : n \in Good
  <2>1. 0 \in Good
    BY <1>5
  <2> HIDE DEF Good
  <2> QED
    BY <1>6, <2>1, NumberInduction
<1>8. Upto(Cardinality(S))
  BY <1>1, <1>7
<1> QED
  BY <1>2, <1>8 DEF Upto, IsFold

IsSum(F, S, g) ==
  g = [T \in SUBSET S |-> IF T = {} THEN 0
                          ELSE F[CHOOSE x \in T : TRUE] + g[T \ {CHOOSE x \in T : TRUE}]]

LEMMA SumExists ==
  ASSUME NEW S, IsFiniteSet(S), NEW F \in [S -> Int]
  PROVE  \E g : IsSum(F, S, g)
<1> DEFINE pick == [T \in SUBSET S |-> CHOOSE x \in T : TRUE]
           step == [p \in Int \X S |-> F[p[2]] + p[1]]
<1>1. step \in [Int \X S -> Int]
  OBVIOUS
<1>2. \A T \in SUBSET S : T # {} => pick[T] \in T
  OBVIOUS
<1>3. PICK f \in [SUBSET S -> Int] : IsFold(f, S, 0, step, pick)
  <2> HIDE DEF pick, step
  <2>1. 0 \in Int
    OBVIOUS
  <2> QED
    BY <1>1, <1>2, <2>1, FoldExists, Zenon
<1>4. \A T \in SUBSET S : T # {} =>
        step[<<f[T \ {pick[T]}], pick[T]>>] = F[pick[T]] + f[T \ {pick[T]}]
  <2> SUFFICES ASSUME NEW T \in SUBSET S, T # {}
               PROVE  step[<<f[T \ {pick[T]}], pick[T]>>] = F[pick[T]] + f[T \ {pick[T]}]
    OBVIOUS
  <2>1. pick[T] \in S /\ f[T \ {pick[T]}] \in Int
    BY <1>2
  <2> HIDE DEF pick
  <2> QED
    BY <2>1
<1>5. \A T \in SUBSET S : pick[T] = CHOOSE x \in T : TRUE
  OBVIOUS
<1>6. \A T \in SUBSET S :
        f[T] = IF T = {} THEN 0
               ELSE F[CHOOSE x \in T : TRUE] + f[T \ {CHOOSE x \in T : TRUE}]
  <2> HIDE DEF step, pick
  <2> SUFFICES ASSUME NEW T \in SUBSET S
               PROVE  f[T] = IF T = {} THEN 0
                             ELSE F[CHOOSE x \in T : TRUE] + f[T \ {CHOOSE x \in T : TRUE}]
    OBVIOUS
  <2>1. f[T] = IF T = {} THEN 0 ELSE F[pick[T]] + f[T \ {pick[T]}]
    BY <1>3, <1>4 DEF IsFold
  <2> QED
    BY <1>5, <2>1, Zenon
<1>7. IsSum(F, S, f)
  BY <1>6, Zenon DEF IsSum
<1> QED
  BY <1>7

\* What the equation says of one set.
LEMMA SumEquation ==
  ASSUME NEW S, NEW F, NEW g, IsSum(F, S, g)
  PROVE  /\ g[{}] = 0
         /\ \A T \in SUBSET S : T # {} =>
              \E x \in T : g[T] = F[x] + g[T \ {x}]
<1> DEFINE h == [T \in SUBSET S |-> IF T = {} THEN 0
                           ELSE F[CHOOSE x \in T : TRUE] + g[T \ {CHOOSE x \in T : TRUE}]]
<1>1. g = h
  BY Zenon DEF IsSum
<1>2. \A T \in SUBSET S :
        g[T] = IF T = {} THEN 0
               ELSE F[CHOOSE x \in T : TRUE] + g[T \ {CHOOSE x \in T : TRUE}]
  <2>1. \A T \in SUBSET S :
          h[T] = IF T = {} THEN 0
                 ELSE F[CHOOSE x \in T : TRUE] + g[T \ {CHOOSE x \in T : TRUE}]
    BY Zenon
  <2> HIDE DEF h
  <2> QED
    BY <1>1, <2>1, Zenon
<1> HIDE DEF h
<1>3. g[{}] = 0
  <2>1. {} \in SUBSET S
    OBVIOUS
  <2> QED
    BY <1>2, <2>1, Zenon
<1>4. ASSUME NEW T \in SUBSET S, T # {}
      PROVE  \E x \in T : g[T] = F[x] + g[T \ {x}]
  <2>1. (CHOOSE x \in T : TRUE) \in T
    BY <1>4
  <2>2. g[T] = F[CHOOSE x \in T : TRUE] + g[T \ {CHOOSE x \in T : TRUE}]
    BY <1>2, <1>4, Zenon
  <2> QED
    BY <2>1, <2>2, Zenon
<1> QED
  BY <1>3, <1>4

\* The sum is an integer, and it does not matter which element is taken first.
LEMMA SumFacts ==
  ASSUME NEW S, IsFiniteSet(S), NEW F \in [S -> Int], NEW g, IsSum(F, S, g)
  PROVE  /\ g[{}] = 0
         /\ \A T \in SUBSET S : g[T] \in Int
         /\ \A T \in SUBSET S : \A x \in T : g[T] = F[x] + g[T \ {x}]
<1>1. g[{}] = 0 /\ \A T \in SUBSET S : T # {} => \E x \in T : g[T] = F[x] + g[T \ {x}]
  BY SumEquation
<1> DEFINE P(T) == g[T] \in Int /\ \A x \in T : g[T] = F[x] + g[T \ {x}]
           Good == {T \in SUBSET S : P(T)}
<1>2. ASSUME NEW T \in SUBSET S, \A U \in SUBSET T : U # T => P(U)
      PROVE  P(T)
  <2>1. CASE T = {}
    BY <1>1, <2>1
  <2>2. CASE T # {}
    <3>1. PICK c \in T : g[T] = F[c] + g[T \ {c}]
      BY <1>1, <2>2
    <3>2. P(T \ {c}) /\ F[c] \in Int
      BY <1>2
    <3>3. g[T] \in Int
      BY <3>1, <3>2
    <3>4. ASSUME NEW x \in T, x # c
          PROVE  g[T] = F[x] + g[T \ {x}]
      <4>1. P(T \ {x}) /\ P((T \ {x}) \ {c}) /\ x \in T \ {c} /\ c \in T \ {x} /\ F[x] \in Int
        <5>1. T \ {x} \in SUBSET T /\ T \ {x} # T
          OBVIOUS
        <5>2. (T \ {x}) \ {c} \in SUBSET T /\ (T \ {x}) \ {c} # T
          OBVIOUS
        <5> HIDE DEF P
        <5> QED
          BY <1>2, <3>4, <5>1, <5>2
      <4> DEFINE rest == g[(T \ {x}) \ {c}]
      <4>2. (T \ {c}) \ {x} = (T \ {x}) \ {c}
        OBVIOUS
      <4>3. g[T \ {c}] = F[x] + rest
        BY <3>2, <4>1, <4>2
      <4>4. g[T \ {x}] = F[c] + rest /\ rest \in Int
        BY <4>1
      <4>5. g[T] = F[c] + (F[x] + rest) /\ g[T \ {x}] = F[c] + rest
        BY <3>1, <4>3, <4>4, Zenon
      <4> HIDE DEF rest
      <4> QED
        BY <3>2, <4>1, <4>4, <4>5
    <3> QED
      BY <3>1, <3>3, <3>4
  <2> QED
    BY <2>1, <2>2
<1>3. \A T \in SUBSET S : T \in Good
  <2>1. \A T \in SUBSET S : (\A U \in SUBSET T : U # T => U \in Good) => T \in Good
    <3> HIDE DEF P
    <3> QED
      BY <1>2
  <2> HIDE DEF Good
  <2> QED
    BY <2>1, SubsetInduction
<1> QED
  BY <1>1, <1>3

LEMMA SumBound ==
  ASSUME NEW S, IsFiniteSet(S), NEW F \in [S -> Int], NEW g, IsSum(F, S, g),
         NEW k \in Int, \A x \in S : F[x] <= k
  PROVE  g[S] <= Cardinality(S) * k
<1>1. /\ g[{}] = 0 /\ \A T \in SUBSET S : g[T] \in Int
      /\ \A T \in SUBSET S : \A x \in T : g[T] = F[x] + g[T \ {x}]
  BY SumFacts
<1> DEFINE Good == {T \in SUBSET S : g[T] <= Cardinality(T) * k}
<1>2. ASSUME NEW T \in SUBSET S, \A U \in SUBSET T : U # T => U \in Good
      PROVE  g[T] <= Cardinality(T) * k
  <2>1. IsFiniteSet(T) /\ Cardinality(T) \in Nat
    BY FS_Subset, FS_CardinalityType
  <2>2. CASE T = {}
    BY <1>1, <2>2, FS_EmptySet
  <2>3. CASE T # {}
    <3>1. PICK x \in T : TRUE
      BY <2>3
    <3>2. T \ {x} \in SUBSET T /\ T \ {x} # T
      OBVIOUS
    <3>3. Cardinality(T \ {x}) = Cardinality(T) - 1
      BY <2>1, FS_RemoveElement
    <3>4. g[T \ {x}] <= (Cardinality(T) - 1) * k /\ g[T \ {x}] \in Int
      BY <1>1, <1>2, <3>2, <3>3
    <3>5. g[T] = F[x] + g[T \ {x}] /\ F[x] <= k /\ F[x] \in Int
      BY <1>1
    <3> DEFINE n == Cardinality(T)
               rest == g[T \ {x}]
    <3>6. n \in Nat /\ rest \in Int /\ rest <= (n - 1) * k
      BY <2>1, <3>4
    <3> HIDE DEF n, rest
    <3>7. (n - 1) * k = n * k - k /\ n * k \in Int
      BY <3>6
    <3> QED
      BY <3>5, <3>6, <3>7 DEF n, rest
  <2> QED
    BY <2>2, <2>3
<1>3. \A T \in SUBSET S : (\A U \in SUBSET T : U # T => U \in Good) => T \in Good
  BY <1>2
<1>4. S \in Good
  <2> HIDE DEF Good
  <2> QED
    BY <1>3, SubsetInduction
<1> QED
  BY <1>4

LEMMA PartsBound ==
  ASSUME NEW S \in SUBSET Int, IsFiniteSet(S), NEW T, IsFiniteSet(T), NEW f \in [S -> T],
         NEW k \in Nat, \A t \in T : Cardinality({x \in S : f[x] = t}) <= k
  PROVE  Cardinality(S) <= Cardinality(T) * k
<1> DEFINE Part(t) == {x \in S : f[x] = t}
           rank == [x \in S |-> Cardinality({y \in Part(f[x]) : y < x})]
           place == [x \in S |-> <<f[x], rank[x]>>]
<1>1. \A t \in T : /\ Part(t) \in SUBSET Int /\ IsFiniteSet(Part(t))
                   /\ Cardinality(Part(t)) \in Nat /\ Cardinality(Part(t)) <= k
  BY FS_Subset, FS_CardinalityType
<1>2. ASSUME NEW x \in S
      PROVE  /\ rank[x] \in 0..(k - 1)
             /\ \A z \in S : f[z] = f[x] /\ rank[z] = rank[x] => z = x
  <2> DEFINE P == Part(f[x])
  <2>1. f[x] \in T /\ x \in P /\ \A z \in S : f[z] = f[x] => z \in P
    OBVIOUS
  <2>2. P \in SUBSET Int /\ IsFiniteSet(P) /\ Cardinality(P) \in Nat /\ Cardinality(P) <= k
    BY <1>1
  <2>3. \A z \in S : f[z] = f[x] => rank[z] = Cardinality({y \in P : y < z})
    OBVIOUS
  <2> HIDE DEF P, rank
  <2>4. /\ \A z \in P : Cardinality({y \in P : y < z}) \in 0..(Cardinality(P) - 1)
        /\ \A u, z \in P : Cardinality({y \in P : y < u}) = Cardinality({y \in P : y < z}) => u = z
    BY <2>2, NumberRanks, Zenon
  <2>5. rank[x] \in 0..(Cardinality(P) - 1)
    BY <2>1, <2>3, <2>4, Zenon
  <2>6. \A z \in S : f[z] = f[x] /\ rank[z] = rank[x] => z = x
    BY <2>1, <2>3, <2>4, Zenon
  <2> QED
    BY <2>2, <2>5, <2>6
<1> HIDE DEF rank
<1>3. place \in Injection(S, T \X (0..(k - 1)))
  BY <1>2 DEF Injection, IsInjective
<1>4. IsFiniteSet(0..(k - 1)) /\ Cardinality(0..(k - 1)) = k
  BY FS_Interval
<1>5. /\ IsFiniteSet(T \X (0..(k - 1)))
      /\ Cardinality(T \X (0..(k - 1))) = Cardinality(T) * k
  BY <1>4, FS_Product
<1> QED
  BY <1>3, <1>5, FS_Injection

\* A set of n elements has 2 ^ n subsets, which one more element doubles.
LEMMA PowersOfTwo ==
  /\ 2 ^ 0 = 1
  /\ \A n \in Nat : 2 ^ n \in Nat /\ 2 ^ (n + 1) = 2 * 2 ^ n
<1>1. ASSUME NEW n \in Nat
      PROVE  /\ IsFiniteSet(SUBSET (1..n)) /\ Cardinality(SUBSET (1..n)) \in Nat
             /\ Cardinality(SUBSET (1..n)) = 2 ^ n
  <2>1. IsFiniteSet(1..n) /\ Cardinality(1..n) = n
    BY FS_Interval
  <2> QED
    BY <2>1, FS_SUBSET, FS_CardinalityType
<1>2. 2 ^ 0 = 1
  <2>1. SUBSET (1..0) = {{}}
    OBVIOUS
  <2>2. Cardinality(SUBSET (1..0)) = 1
    BY <2>1, FS_Singleton
  <2> QED
    BY <1>1, <2>2
<1>3. ASSUME NEW n \in Nat
      PROVE  2 ^ (n + 1) = 2 * 2 ^ n
  <2> DEFINE A == SUBSET (1..n)
             B == {T \cup {n + 1} : T \in A}
             f == [T \in A |-> T \cup {n + 1}]
  <2>1. SUBSET (1..(n + 1)) = A \cup B
    <3>1. \A T \in SUBSET (1..(n + 1)) : T \in A \cup B
      <4> SUFFICES ASSUME NEW T \in SUBSET (1..(n + 1)), T \notin A
                   PROVE  T \in B
        OBVIOUS
      <4>1. n + 1 \in T /\ T \ {n + 1} \in A
        OBVIOUS
      <4>2. T = (T \ {n + 1}) \cup {n + 1}
        BY <4>1
      <4> QED
        BY <4>1, <4>2
    <3>2. \A T \in A \cup B : T \in SUBSET (1..(n + 1))
      OBVIOUS
    <3> QED
      BY <3>1, <3>2
  <2>2. A \cap B = {}
    <3>1. \A T \in A : n + 1 \notin T
      OBVIOUS
    <3>2. \A T \in B : n + 1 \in T
      OBVIOUS
    <3> QED
      BY <3>1, <3>2
  <2>3. f \in Bijection(A, B)
    <3>1. f \in [A -> B] /\ \A U \in B : \E T \in A : f[T] = U
      OBVIOUS
    <3>2. \A T \in A : f[T] \ {n + 1} = T
      OBVIOUS
    <3>3. \A T, U \in A : f[T] = f[U] => T = U
      BY <3>2
    <3> HIDE DEF f, A, B
    <3> QED
      BY <3>1, <3>3 DEF Bijection, Injection, Surjection, IsInjective
  <2>4. IsFiniteSet(A) /\ Cardinality(A) = 2 ^ n /\ Cardinality(A) \in Nat
    BY <1>1
  <2>5. IsFiniteSet(B) /\ Cardinality(B) = Cardinality(A)
    <3> HIDE DEF f, A, B
    <3> QED
      BY <2>3, <2>4, FS_Bijection DEF ExistsBijection
  <2>6. Cardinality(A \cup B) = Cardinality(A) + Cardinality(B)
    <3> HIDE DEF f, A, B
    <3> PICK k : k = Cardinality(A)
      OBVIOUS
    <3>1. k \in Nat /\ Cardinality(B) = k /\ Cardinality({}) = 0
      BY <2>4, <2>5, FS_EmptySet
    <3>2. Cardinality(A \cup B) = Cardinality(A) + Cardinality(B) - Cardinality(A \cap B)
      BY <2>4, <2>5, FS_Union, Zenon
    <3>3. Cardinality(A \cup B) = k + k - 0
      BY <2>2, <3>1, <3>2, Zenon
    <3> QED
      BY <3>1, <3>3
  <2>7. Cardinality(SUBSET (1..(n + 1))) = 2 ^ (n + 1)
    <3>1. n + 1 \in Nat
      OBVIOUS
    <3> QED
      BY <1>1, <3>1, Zenon
  <2> HIDE DEF A, B
  <2>8. 2 ^ (n + 1) = 2 ^ n + 2 ^ n
    BY <2>1, <2>4, <2>5, <2>6, <2>7, Zenon
  <2>9. \A c \in Nat : c + c = 2 * c
    OBVIOUS
  <2> QED
    BY <2>4, <2>8, <2>9, Zenon
<1> QED
  BY <1>1, <1>2, <1>3

LEMMA PowersGrow ==
  /\ \A a, b \in Nat : (1 + a) * 2 ^ b <= 2 ^ (a + b)
  /\ \A a, b \in Nat : a <= b => 2 ^ a <= 2 ^ b
<1> DEFINE P == [n \in Nat |-> 2 ^ n]
<1>1. P \in [Nat -> Nat] /\ P[0] = 1 /\ \A n \in Nat : P[n + 1] = 2 * P[n]
  <2>1. \A n \in Nat : P[n] = 2 ^ n /\ n + 1 \in Nat
    OBVIOUS
  <2>2. P \in [Nat -> Nat]
    BY PowersOfTwo
  <2>3. 0 \in Nat
    OBVIOUS
  <2> HIDE DEF P
  <2> QED
    BY <2>1, <2>2, <2>3, PowersOfTwo, Zenon
<1>2. \A n \in Nat : 2 ^ n = P[n]
  OBVIOUS
<1> HIDE DEF P
<1>3. ASSUME NEW b \in Nat
      PROVE  \A a \in Nat : (1 + a) * P[b] <= P[a + b]
  <2> DEFINE Good == {a \in Nat : (1 + a) * P[b] <= P[a + b]}
  <2>1. 0 \in Good
    BY <1>1
  <2>2. ASSUME NEW a \in Nat, a \in Good
        PROVE  a + 1 \in Good
    <3>1. P[(a + 1) + b] = 2 * P[a + b] /\ P[a + b] \in Nat /\ P[b] \in Nat
      <4>1. (a + 1) + b = (a + b) + 1 /\ a + b \in Nat
        OBVIOUS
      <4> QED
        BY <1>1, <4>1
    <3> DEFINE u == P[b]
               v == P[a + b]
    <3>2. u \in Nat /\ v \in Nat /\ (1 + a) * u <= v
      BY <2>2, <3>1
    <3> HIDE DEF u, v
    <3>3. (1 + (a + 1)) * u = (1 + a) * u + u /\ u <= (1 + a) * u
      <4>1. a * u \in Nat
        BY <3>2
      <4>2. (1 + a) * u = u + a * u /\ (1 + (a + 1)) * u = u + u + a * u
        BY <3>2
      <4> QED
        BY <3>2, <4>1, <4>2
    <3>4. (1 + a) * u \in Nat
      BY <3>2
    <3>5. (1 + (a + 1)) * u <= 2 * v
      BY <3>2, <3>3, <3>4
    <3> QED
      BY <3>1, <3>5 DEF u, v
  <2> HIDE DEF Good
  <2>3. \A a \in Nat : a \in Good
    BY <2>1, <2>2, NumberInduction
  <2> QED
    BY <2>3 DEF Good
<1>4. ASSUME NEW a \in Nat, NEW b \in Nat, a <= b
      PROVE  P[a] <= P[b]
  <2> DEFINE d == b - a
  <2>1. d \in Nat /\ d + a = b
    BY <1>4
  <2> HIDE DEF d
  <2>2. (1 + d) * P[a] <= P[b]
    BY <1>3, <2>1
  <2>3. P[a] \in Nat /\ P[b] \in Nat
    BY <1>1
  <2> DEFINE u == P[a]
  <2>4. u \in Nat /\ (1 + d) * u = u + d * u /\ d * u \in Nat
    BY <2>1, <2>3
  <2> HIDE DEF u
  <2> QED
    BY <2>2, <2>3, <2>4 DEF u
<1>5. \A a, b \in Nat : (1 + a) * 2 ^ b <= 2 ^ (a + b)
  <2> SUFFICES ASSUME NEW a \in Nat, NEW b \in Nat
               PROVE  (1 + a) * 2 ^ b <= 2 ^ (a + b)
    OBVIOUS
  <2>1. a + b \in Nat
    OBVIOUS
  <2> QED
    BY <1>2, <1>3, <2>1, Zenon
<1>6. \A a, b \in Nat : a <= b => 2 ^ a <= 2 ^ b
  BY <1>2, <1>4, Zenon
<1> QED
  BY <1>5, <1>6

-----------------------------------------------------------------------------
(* How often: the invariant behind AmplificationIsBounded                  *)

IsSignal(n) == validateGridSignalEvent(gridSignals[n])

SignalId(n) == extractGridSignal(gridSignals[n]).signal_id

\* The messages of grid.signals that carry a signal.
CopiesOf(s) == {n \in DOMAIN gridSignals : IsSignal(n) /\ SignalId(n) = s}

\* A signal is on the topic once when it was accepted, and once for each failure at most.
CopiesInv ==
  /\ \A s \in DOMAIN Bodies :
       /\ post[s] \in {"store", "publish", "accepted", "failed"} => validateGridSignal(Bodies[s])
       /\ Cardinality(CopiesOf(s)) <= failures + (IF post[s] = "accepted" THEN 1 ELSE 0)
  /\ \A n \in DOMAIN gridSignals : IsSignal(n) =>
       \E s \in DOMAIN Bodies : /\ validateGridSignal(Bodies[s])
                                /\ gridSignals[n] = translateGridSignal(Bodies[s])

\* A row is the proposal of a signal.
OriginInv ==
  /\ \A r \in DOMAIN rows :
       LET n == rows[r].message IN
       /\ n \in DOMAIN gridSignals /\ IsSignal(n)
       /\ rows[r].proposal = createDispatchProposal(extractGridSignal(gridSignals[n]))
  /\ pc["aggregator"] = "insert" => IsSignal(position["aggregator"])

RowsFor(n) == {r \in DOMAIN rows : rows[r].message = n}

\* What the aggregator, the adapter and the translator have come to since they went back last.
Inserted(n) ==
  \/ n < position["aggregator"]
  \/ n = position["aggregator"] /\ pc["aggregator"] \notin {"idle", "insert"}

EventsOf(r) == {n \in DOMAIN readyTopic : readyTopic[n].id = r}

Simulated(r) ==
  \E n \in EventsOf(r) :
    \/ n < position["adapter"]
    \/ n = position["adapter"] /\ pc["adapter"] \notin {"idle", "insert"}

Tried(r, i) ==
  \E n \in EventsOf(r) :
    \/ n < position["translator"]
    \/ /\ n = position["translator"] /\ InLoop
       /\ i < cursor \/ (i = cursor /\ pc["translator"] # "send")

OneEventEach == \A r \in RowIds : \A m, n \in EventsOf(r) : m = n

\* a, t: the restarts of the aggregator and of the translator.
RowsBounded(a) ==
  \A n \in Nat : Cardinality(RowsFor(n)) <= a + (IF Inserted(n) THEN 1 ELSE 0)

SimulationsBounded ==
  \A r \in RowIds : mockRows[r] <= restarts + (IF Simulated(r) THEN 1 ELSE 0)

AttemptsBounded(t) ==
  \A r \in RowIds, i \in DOMAIN DEVICES :
    attempts[r][DeviceId(i)] <= t + (IF Tried(r, i) THEN 1 ELSE 0)

BoundInv ==
  /\ failures + restarts <= MaxDisturbances
  /\ CopiesInv /\ OriginInv /\ OneEventEach /\ SimulationsBounded
  /\ \E a \in 0..restarts : RowsBounded(a) /\ AttemptsBounded(restarts - a)

BoundsGrow ==
  /\ failures \in Nat /\ restarts \in Nat /\ failures' \in Nat /\ restarts' \in Nat
  /\ failures <= failures' /\ restarts <= restarts' /\ failures' + restarts' <= MaxDisturbances

RowsKept == \A a \in Nat : RowsBounded(a) => RowsBounded(a)'

AttemptsKept == \A t \in Nat : AttemptsBounded(t) => AttemptsBounded(t)'

LEMMA FailureBounds ==
  ASSUME IInv, BoundInv, UNCHANGED restarts, UNCHANGED failures \/ Fail
  PROVE  BoundsGrow
BY ChainAssumption DEF IInv, OffsetInv, BoundInv, BoundsGrow, Fail

LEMMA CountsAreFinite ==
  ASSUME IInv
  PROVE  /\ \A s : IsFiniteSet(CopiesOf(s)) /\ Cardinality(CopiesOf(s)) \in Nat
         /\ \A n : IsFiniteSet(RowsFor(n)) /\ Cardinality(RowsFor(n)) \in Nat
         /\ IsFiniteSet(DOMAIN rows) /\ DOMAIN rows \in SUBSET Nat
<1>1. \A s \in {gridSignals, rows} : Len(s) \in Nat /\ DOMAIN s = 1..Len(s)
  BY LogFacts, SequenceFacts
<1>2. IsFiniteSet(DOMAIN gridSignals) /\ IsFiniteSet(DOMAIN rows)
  BY <1>1, FS_Interval
<1>3. \A s : CopiesOf(s) \in SUBSET DOMAIN gridSignals
  BY DEF CopiesOf
<1>4. \A n : RowsFor(n) \in SUBSET DOMAIN rows
  BY DEF RowsFor
<1>5. \A s : IsFiniteSet(CopiesOf(s))
  BY <1>2, <1>3, FS_Subset
<1>6. \A n : IsFiniteSet(RowsFor(n))
  BY <1>2, <1>4, FS_Subset
<1> QED
  BY <1>1, <1>2, <1>5, <1>6, FS_CardinalityType

LEMMA CopiesRest ==
  ASSUME IInv, BoundInv, BoundsGrow, UNCHANGED <<post, gridSignals>>
  PROVE  CopiesInv'
<1>1. \A s : CopiesOf(s)' = CopiesOf(s)
  BY DEF CopiesOf, IsSignal, SignalId
<1>2. \A n : IsSignal(n)' <=> IsSignal(n)
  BY DEF IsSignal
<1>3. \A s \in DOMAIN Bodies :
        Cardinality(CopiesOf(s)) <= failures' + (IF post[s] = "accepted" THEN 1 ELSE 0)
  BY CountsAreFinite DEF BoundInv, CopiesInv, BoundsGrow
<1>4. \A s \in DOMAIN Bodies :
        Cardinality(CopiesOf(s)') <= failures' + (IF post'[s] = "accepted" THEN 1 ELSE 0)
  BY <1>1, <1>3
<1> HIDE DEF CopiesOf
<1> QED
  BY <1>2, <1>4 DEF BoundInv, CopiesInv

LEMMA OriginRest ==
  ASSUME IInv, BoundInv, LogsGrow, UNCHANGED rows, Rests("aggregator")
  PROVE  OriginInv' /\ RowsKept
<1>1. \A n \in DOMAIN gridSignals : /\ n \in DOMAIN gridSignals' /\ gridSignals'[n] = gridSignals[n]
                                    /\ IsSignal(n)' <=> IsSignal(n)
  BY DEF LogsGrow, Grows, IsSignal
<1>2. pc["aggregator"] = "insert" => position["aggregator"] \in DOMAIN gridSignals
  BY InHand, TopicFacts DEF Consumers
<1>3. OriginInv'
  BY <1>1, <1>2 DEF BoundInv, OriginInv, Rests
<1>4. RowsKept
  BY DEF RowsKept, RowsBounded, RowsFor, Inserted, Rests
<1> QED
  BY <1>3, <1>4

LEMMA OneEventRests ==
  ASSUME BoundInv, UNCHANGED readyTopic
  PROVE  OneEventEach'
BY DEF BoundInv, OneEventEach, EventsOf

LEMMA EventsGrow ==
  ASSUME LogsGrow, NEW r
  PROVE  EventsOf(r) \subseteq EventsOf(r)'
BY DEF LogsGrow, Grows, EventsOf

LEMMA SimulationsRest ==
  ASSUME IInv, BoundInv, LogsGrow, BoundsGrow, UNCHANGED mockRows, Rests("adapter")
  PROVE  SimulationsBounded'
<1>1. \A r \in RowIds : Simulated(r) => Simulated(r)'
  BY EventsGrow DEF Simulated, Rests
<1>2. \A r \in RowIds : mockRows[r] \in Nat
  BY DEF IInv, MockInv, MockOrder
<1>3. \A r \in RowIds : mockRows[r] <= restarts + (IF Simulated(r) THEN 1 ELSE 0)
  BY DEF BoundInv, SimulationsBounded
<1> QED
  BY <1>1, <1>2, <1>3 DEF SimulationsBounded, BoundsGrow

LEMMA AttemptsRest ==
  ASSUME IInv, LogsGrow, UNCHANGED <<attempts, cursor>>, Rests("translator")
  PROVE  AttemptsKept
<1>1. \A r, i : Tried(r, i) => Tried(r, i)'
  BY EventsGrow DEF Tried, Rests, InLoop
<1>2. \A r \in RowIds, i \in DOMAIN DEVICES : attempts[r][DeviceId(i)] \in Nat
  BY DeviceFacts DEF IInv, DeviceInv, DeviceOrder
<1> QED
  BY <1>1, <1>2 DEF AttemptsKept, AttemptsBounded

LEMMA BoundKept ==
  ASSUME IInv, BoundInv, UNCHANGED restarts, BoundsGrow, CopiesInv', OriginInv', OneEventEach',
         SimulationsBounded', RowsKept, AttemptsKept
  PROVE  BoundInv'
<1>1. PICK a \in 0..restarts : RowsBounded(a) /\ AttemptsBounded(restarts - a)
  BY DEF BoundInv
<1> PICK t : t = restarts - a
  OBVIOUS
<1>2. a \in Nat /\ t \in Nat
  BY DEF BoundsGrow
<1>3. RowsBounded(a)' /\ AttemptsBounded(t)'
  BY <1>1, <1>2 DEF RowsKept, AttemptsKept
<1>4. AttemptsBounded(restarts - a)'
  BY <1>3
<1>5. \E b \in 0..restarts' : RowsBounded(b)' /\ AttemptsBounded(restarts - b)'
  BY <1>3, <1>4
<1>6. (\E b \in 0..restarts : RowsBounded(b) /\ AttemptsBounded(restarts - b))'
  BY <1>5
<1> QED
  BY <1>6 DEF BoundInv, BoundsGrow

\* What becomes of a signal keeps its id.
LEMMA SignalKeepsId ==
  ASSUME NEW s \in DOMAIN Bodies, validateGridSignal(Bodies[s])
  PROVE  extractGridSignal(translateGridSignal(Bodies[s])).signal_id = s
<1>1. Bodies[s].signal_id = s /\ s # Missing
  BY ChainAssumption DEF validateGridSignal, RequiredStrings
<1>2. extractGridSignal(translateGridSignal(Bodies[s])).signal_id = FirstOf(<<s, s>>)
  BY <1>1 DEF extractGridSignal, translateGridSignal
<1>3. FirstOf(<<s, s>>) = s
  <2> DEFINE given == {i \in DOMAIN <<s, s>> : <<s, s>>[i] # Missing}
  <2>1. given = {1, 2}
    BY <1>1
  <2>2. (CHOOSE i \in given : \A j \in given : i <= j) \in given
    BY <2>1
  <2>3. \A i \in given : <<s, s>>[i] = s
    BY <2>1
  <2> QED
    BY <2>1, <2>2, <2>3 DEF FirstOf
<1> QED
  BY <1>2, <1>3

LEMMA AppendCopies ==
  ASSUME IInv, NEW s \in DOMAIN Bodies, validateGridSignal(Bodies[s]),
         gridSignals' = Append(gridSignals, translateGridSignal(Bodies[s]))
  PROVE  /\ \A q : q # s => CopiesOf(q)' = CopiesOf(q)
         /\ Cardinality(CopiesOf(s)') \in Nat
         /\ Cardinality(CopiesOf(s)') <= Cardinality(CopiesOf(s)) + 1
         /\ \A n \in DOMAIN gridSignals' :
              \/ n \in DOMAIN gridSignals /\ gridSignals'[n] = gridSignals[n]
              \/ gridSignals'[n] = translateGridSignal(Bodies[s])
<1> PICK k : k = Len(gridSignals) + 1
  OBVIOUS
<1>1. /\ DOMAIN gridSignals' = DOMAIN gridSignals \cup {k}
      /\ gridSignals'[k] = translateGridSignal(Bodies[s])
      /\ \A n \in DOMAIN gridSignals : gridSignals'[n] = gridSignals[n]
  BY LogFacts, AppendFacts
<1>2. k \notin DOMAIN gridSignals
  BY LogFacts, SequenceFacts
<1>3. SignalId(k)' = s
  BY <1>1, SignalKeepsId DEF SignalId
<1>4. \A n \in DOMAIN gridSignals : (IsSignal(n)' <=> IsSignal(n)) /\ SignalId(n)' = SignalId(n)
  BY <1>1 DEF IsSignal, SignalId
<1>5. \A q : q # s => CopiesOf(q)' = CopiesOf(q)
  BY <1>1, <1>2, <1>3, <1>4 DEF CopiesOf
<1>6. CopiesOf(s)' \in SUBSET (CopiesOf(s) \cup {k})
  BY <1>1, <1>4 DEF CopiesOf
<1> PICK C, D : C = CopiesOf(s) /\ D = CopiesOf(s)'
  OBVIOUS
<1>7. /\ IsFiniteSet(C \cup {k}) /\ Cardinality(C \cup {k}) \in Nat
      /\ Cardinality(C \cup {k}) <= Cardinality(C) + 1
  <2>1. IsFiniteSet(C) /\ Cardinality(C) \in Nat
    BY CountsAreFinite
  <2>2. Cardinality(C \cup {k}) = IF k \in C THEN Cardinality(C) ELSE Cardinality(C) + 1
    BY <2>1, FS_AddElement
  <2> QED
    BY <2>1, <2>2, FS_AddElement
<1>8. Cardinality(D) \in Nat /\ Cardinality(D) <= Cardinality(C \cup {k})
  BY <1>6, <1>7, FS_Subset, FS_CardinalityType
<1>9. Cardinality(C) \in Nat
  BY CountsAreFinite
<1> QED
  BY <1>1, <1>5, <1>7, <1>8, <1>9

LEMMA PostBound ==
  ASSUME IInv, BoundInv, NEW s \in DOMAIN Bodies, PostSignal(s) \/ StoreSignal(s) \/ PublishSignal(s)
  PROVE  BoundInv'
<1> PICK added : added = translateGridSignal(Bodies[s])
  OBVIOUS
<1>1. /\ UNCHANGED <<readingVars, proposalVars, reviewVars, mockVars, deviceVars, pc, offsetVars>>
      /\ UNCHANGED restarts
      /\ UNCHANGED failures \/ Fail
  BY DEF PostSignal, StoreSignal, PublishSignal, Await, Fail
<1>2. \E step \in {"store", "refused", "publish", "failed", "accepted"} :
        /\ PostGoesTo(s, step)
        /\ step # "refused" => validateGridSignal(Bodies[s])
        /\ \/ UNCHANGED gridSignals /\ step # "accepted"
           \/ /\ gridSignals' = Append(gridSignals, added) /\ step # "refused"
              /\ step = "accepted" \/ Fail
  <2>1. CASE PostSignal(s)
    BY <2>1 DEF PostSignal
  <2>2. CASE StoreSignal(s)
    BY <2>2 DEF StoreSignal, Await, BoundInv, CopiesInv
  <2>3. CASE PublishSignal(s)
    <3>1. validateGridSignal(Bodies[s])
      BY <2>3 DEF PublishSignal, BoundInv, CopiesInv
    <3>2. \/ gridSignals' = Append(gridSignals, added) /\ PostGoesTo(s, "accepted")
          \/ (gridSignals' = Append(gridSignals, added) \/ UNCHANGED gridSignals)
             /\ PostGoesTo(s, "failed") /\ Fail
      BY <2>3 DEF PublishSignal, Await
    <3> QED
      BY <3>1, <3>2
  <2> QED
    BY <2>1, <2>2, <2>3
<1>3. PICK step \in {"store", "refused", "publish", "failed", "accepted"} :
        /\ PostGoesTo(s, step)
        /\ step # "refused" => validateGridSignal(Bodies[s])
        /\ \/ UNCHANGED gridSignals /\ step # "accepted"
           \/ /\ gridSignals' = Append(gridSignals, added) /\ step # "refused"
              /\ step = "accepted" \/ Fail
  BY <1>2
<1>4. post'[s] = step /\ \A q \in DOMAIN Bodies : q # s => post'[q] = post[q]
  BY <1>3 DEF PostGoesTo, IInv, PostInv
<1>5. post[s] # "accepted"
  BY DEF PostSignal, StoreSignal, PublishSignal
<1>6. BoundsGrow
  BY <1>1, FailureBounds
<1>7. Fail => failures' = failures + 1
  BY DEF Fail
<1>8. LogsGrow
  <2>1. Grows(gridSignals, gridSignals')
    BY <1>3, LogFacts, SameLog, LongerLog
  <2> QED
    BY <1>1, <2>1, LogFacts, SameLog DEF LogsGrow, readingVars, proposalVars, reviewVars
<1>9. \A c \in Consumers : Rests(c)
  BY <1>1 DEF Rests, offsetVars
<1>10. CopiesInv'
  <2>1. ASSUME NEW q \in DOMAIN Bodies, post'[q] \in {"store", "publish", "accepted", "failed"}
        PROVE  validateGridSignal(Bodies[q])
    BY <1>3, <1>4, <2>1 DEF BoundInv, CopiesInv
  <2>2. ASSUME NEW q \in DOMAIN Bodies
        PROVE  Cardinality(CopiesOf(q)') <= failures' + (IF post'[q] = "accepted" THEN 1 ELSE 0)
    <3>1. /\ Cardinality(CopiesOf(q)) <= failures + (IF post[q] = "accepted" THEN 1 ELSE 0)
          /\ Cardinality(CopiesOf(q)) \in Nat
      BY CountsAreFinite DEF BoundInv, CopiesInv
    <3>2. CopiesOf(q)' = CopiesOf(q) \/ (q = s /\ gridSignals' = Append(gridSignals, added))
      <4>1. CASE UNCHANGED gridSignals
        BY <4>1 DEF CopiesOf, IsSignal, SignalId
      <4>2. CASE gridSignals' = Append(gridSignals, added) /\ step # "refused"
        BY <1>3, <4>2, AppendCopies
      <4> QED
        BY <1>3, <4>1, <4>2
    <3> PICK c, d : c = Cardinality(CopiesOf(q)) /\ d = Cardinality(CopiesOf(q)')
      OBVIOUS
    <3>3. CASE CopiesOf(q)' = CopiesOf(q)
      <4>1. c = d
        BY <3>3
      <4> QED
        BY <1>4, <1>5, <1>6, <3>1, <4>1 DEF BoundsGrow
    <3>4. CASE q = s /\ gridSignals' = Append(gridSignals, added) /\ CopiesOf(q)' # CopiesOf(q)
      <4>1. step = "accepted" \/ failures' = failures + 1
        <5>1. ~UNCHANGED gridSignals
          BY <3>4 DEF CopiesOf, IsSignal, SignalId
        <5> QED
          BY <1>3, <1>7, <5>1
      <4>2. step # "refused"
        <5>1. ~UNCHANGED gridSignals
          BY <3>4 DEF CopiesOf, IsSignal, SignalId
        <5> QED
          BY <1>3, <5>1
      <4>3. d <= c + 1 /\ d \in Nat
        BY <1>3, <3>4, <4>2, AppendCopies
      <4> QED
        BY <1>4, <1>5, <1>6, <3>1, <3>4, <4>1, <4>3 DEF BoundsGrow
    <3> QED
      BY <3>2, <3>3, <3>4
  <2>3. ASSUME NEW n \in DOMAIN gridSignals', IsSignal(n)'
        PROVE  \E q \in DOMAIN Bodies : /\ validateGridSignal(Bodies[q])
                                        /\ gridSignals'[n] = translateGridSignal(Bodies[q])
    <3>1. \/ n \in DOMAIN gridSignals /\ gridSignals'[n] = gridSignals[n]
          \/ gridSignals'[n] = added /\ validateGridSignal(Bodies[s])
      BY <1>3, AppendCopies
    <3>2. CASE n \in DOMAIN gridSignals /\ gridSignals'[n] = gridSignals[n]
      <4>1. IsSignal(n)
        BY <2>3, <3>2 DEF IsSignal
      <4> QED
        BY <3>2, <4>1 DEF BoundInv, CopiesInv
    <3> QED
      BY <3>1, <3>2
  <2> QED
    BY <2>1, <2>2, <2>3 DEF CopiesInv
<1>11. OriginInv' /\ RowsKept /\ OneEventEach' /\ SimulationsBounded' /\ AttemptsKept
  BY <1>1, <1>6, <1>8, <1>9, OriginRest, OneEventRests, SimulationsRest, AttemptsRest
     DEF Consumers, proposalVars, reviewVars, mockVars, deviceVars
<1> QED
  BY <1>1, <1>6, <1>10, <1>11, BoundKept

\* A step of one consumer.
LEMMA Moves ==
  ASSUME IInv, NEW c \in Consumers
  PROVE  /\ \A step : GoTo(c, step) =>
              OnlyMoves(c) /\ pc'[c] = step /\ position'[c] = position[c]
         /\ Finish(c) => OnlyMoves(c) /\ pc'[c] = "idle" /\ position'[c] = position[c] + 1
         /\ position[c] \in Nat
BY DEF IInv, OffsetInv, GoTo, Finish, OnlyMoves, Rests, offsetVars

LEMMA ReadingBound ==
  ASSUME IInv, BoundInv, TranslateReadings
  PROVE  BoundInv'
<1>1. /\ UNCHANGED <<post, gridSignals, enriched, proposalVars, reviewVars, mockVars, deviceVars>>
      /\ UNCHANGED restarts
      /\ UNCHANGED failures \/ Fail
      /\ OnlyMoves("semantic")
  <2>1. Finish("semantic") \/ \E step : GoTo("semantic", step)
    BY DEF TranslateReadings, TakeReading, StoreReading, PublishReading, Await, FinishReading
  <2>2. OnlyMoves("semantic")
    BY <2>1, Moves DEF Consumers
  <2> QED
    BY <2>2 DEF TranslateReadings, TakeReading, StoreReading, PublishReading, Await, Fail
<1>2. LogsGrow
  BY <1>1, SameLogs DEF proposalVars, reviewVars
<1>3. BoundsGrow
  BY <1>1, FailureBounds
<1>4. CopiesInv' /\ OriginInv' /\ RowsKept /\ OneEventEach' /\ SimulationsBounded' /\ AttemptsKept
  BY <1>1, <1>2, <1>3, CopiesRest, OriginRest, OneEventRests, SimulationsRest, AttemptsRest
     DEF Consumers, OnlyMoves, proposalVars, reviewVars, mockVars, deviceVars
<1> QED
  BY <1>1, <1>3, <1>4, BoundKept

\* Without a new row it is enough that nothing inserted is forgotten.
LEMMA SameRows ==
  ASSUME IInv, UNCHANGED rows, \A n \in Nat : Inserted(n) => Inserted(n)'
  PROVE  RowsKept
<1>1. \A n : RowsFor(n)' = RowsFor(n)
  BY DEF RowsFor
<1>2. \A n : Cardinality(RowsFor(n)) \in Nat
  BY CountsAreFinite
<1> HIDE DEF RowsFor, Inserted
<1> QED
  BY <1>1, <1>2 DEF RowsKept, RowsBounded

\* The new row is the first of its message since the aggregator went back last.
LEMMA NewRow ==
  ASSUME IInv, BoundInv, StoreProposal, UNCHANGED gridSignals, pc["aggregator"] = "insert",
         position'["aggregator"] = position["aggregator"],
         pc'["aggregator"] \in {"publish", "reject"}
  PROVE  OriginInv' /\ RowsKept
<1> PICK p, q, row :
      /\ p = position["aggregator"] /\ q = Len(rows) + 1
      /\ row = [message |-> p,
                proposal |-> createDispatchProposal(extractGridSignal(Message("aggregator")))]
  OBVIOUS
<1>1. rows' = Append(rows, row)
  BY DEF StoreProposal
<1>2. /\ DOMAIN rows' = DOMAIN rows \cup {q} /\ rows'[q] = row
      /\ \A r \in DOMAIN rows : rows'[r] = rows[r]
  BY <1>1, LogFacts, AppendFacts
<1>3. p \in DOMAIN gridSignals /\ IsSignal(p) /\ Message("aggregator") = gridSignals[p]
  BY InHand, TopicFacts DEF Consumers, BoundInv, OriginInv, Message
<1>4. OriginInv'
  <2>1. \A n : IsSignal(n)' <=> IsSignal(n)
    BY DEF IsSignal
  <2>2. /\ row.message = p
        /\ row.proposal = createDispatchProposal(extractGridSignal(gridSignals[p]))
    BY <1>3
  <2> QED
    BY <1>2, <1>3, <2>1, <2>2 DEF OriginInv, BoundInv
<1>5. \A n : n # p => RowsFor(n)' = RowsFor(n)
  BY <1>2 DEF RowsFor
<1>6. RowsFor(p)' \in SUBSET (RowsFor(p) \cup {q})
  BY <1>2 DEF RowsFor
<1>7. /\ ~Inserted(p) /\ Inserted(p)' /\ p \in Nat
      /\ \A n \in Nat : n # p => (Inserted(n) <=> Inserted(n)')
  BY Moves DEF Inserted, Consumers
<1> PICK C, D : C = RowsFor(p) /\ D = RowsFor(p)'
  OBVIOUS
<1>8. Cardinality(D) \in Nat /\ Cardinality(D) <= Cardinality(C) + 1 /\ Cardinality(C) \in Nat
  <2>1. IsFiniteSet(C) /\ Cardinality(C) \in Nat
    BY CountsAreFinite
  <2>2. Cardinality(C \cup {q}) = (IF q \in C THEN Cardinality(C) ELSE Cardinality(C) + 1)
        /\ IsFiniteSet(C \cup {q})
    BY <2>1, FS_AddElement
  <2>3. /\ Cardinality(D) <= Cardinality(C \cup {q}) /\ IsFiniteSet(D)
    BY <1>6, <2>2, FS_Subset
  <2> QED
    BY <2>1, <2>2, <2>3, FS_CardinalityType
<1>9. RowsKept
  <2> SUFFICES ASSUME NEW a \in Nat, RowsBounded(a), NEW n \in Nat
               PROVE  Cardinality(RowsFor(n)') <= a + (IF Inserted(n)' THEN 1 ELSE 0)
    BY DEF RowsKept, RowsBounded
  <2>1. Cardinality(RowsFor(n)) <= a + (IF Inserted(n) THEN 1 ELSE 0)
    BY DEF RowsBounded
  <2>2. CASE n = p
    BY <1>7, <1>8, <2>1, <2>2
  <2>3. CASE n # p
    <3>1. Cardinality(RowsFor(n)') = Cardinality(RowsFor(n)) /\ (Inserted(n) <=> Inserted(n)')
      BY <1>5, <1>7, <2>3
    <3> QED
      BY <2>1, <3>1
  <2> QED
    BY <2>2, <2>3
<1> QED
  BY <1>4, <1>9

LEMMA AggregateBound ==
  ASSUME IInv, BoundInv, Aggregate
  PROVE  BoundInv'
<1>1. /\ UNCHANGED <<postVars, mockVars, deviceVars, readyTopic, restarts>>
      /\ UNCHANGED failures \/ Fail
  BY DEF Aggregate, TakeSignal, InsertProposal, AuditFailure, PublishProposal, AuditProposal,
         Await, Fail, reviewVars
<1>2. UNCHANGED <<post, gridSignals, enriched>>
  BY <1>1 DEF postVars, readingVars
<1>3. BoundsGrow
  BY <1>1, FailureBounds
<1>4. StoreProposal \/ UNCHANGED rows
  BY DEF Aggregate, TakeSignal, InsertProposal, AuditFailure, PublishProposal, AuditProposal,
         Await, proposalVars
<1>5. LogsGrow
  <2>1. CASE StoreProposal
    BY <1>1, <1>2, <2>1, ProposeStep
  <2>2. CASE UNCHANGED rows
    BY <1>1, <1>2, <2>2, SameLogs
  <2> QED
    BY <1>4, <2>1, <2>2
<1>6. OnlyMoves("aggregator")
  <2>1. Finish("aggregator") \/ \E step : GoTo("aggregator", step)
    BY DEF Aggregate, TakeSignal, InsertProposal, AuditFailure, PublishProposal, AuditProposal, Await
  <2> QED
    BY <2>1, Moves DEF Consumers
<1>7. OriginInv' /\ RowsKept
  <2>1. CASE TakeSignal
    <3>1. /\ UNCHANGED rows /\ pc["aggregator"] = "idle"
          /\ GoTo("aggregator", IF validateGridSignalEvent(Message("aggregator"))
                                THEN "insert" ELSE "reject")
      BY <2>1 DEF TakeSignal, proposalVars
    <3>2. /\ pc'["aggregator"] = (IF IsSignal(position["aggregator"]) THEN "insert" ELSE "reject")
          /\ position'["aggregator"] = position["aggregator"]
      BY <3>1, Moves DEF Consumers, Message, Topic, IsSignal
    <3>3. OriginInv'
      BY <1>2, <3>1, <3>2 DEF OriginInv, BoundInv, IsSignal
    <3>4. \A n \in Nat : Inserted(n) => Inserted(n)'
      BY <3>1, <3>2 DEF Inserted
    <3> QED
      BY <3>1, <3>3, <3>4, SameRows
  <2>2. CASE InsertProposal /\ StoreProposal
    <3>1. /\ pc["aggregator"] = "insert"
          /\ \E step \in {"publish", "reject"} : GoTo("aggregator", step)
      BY <2>2 DEF InsertProposal, Await
    <3>2. /\ position'["aggregator"] = position["aggregator"]
          /\ pc'["aggregator"] \in {"publish", "reject"}
      BY <3>1, Moves DEF Consumers
    <3> QED
      BY <1>2, <2>2, <3>1, <3>2, NewRow
  <2>3. CASE UNCHANGED rows /\ ~TakeSignal
    <3>1. /\ \/ Finish("aggregator")
             \/ \E step \in {"publish", "reject", "audit"} : GoTo("aggregator", step)
      BY <2>3 DEF Aggregate, InsertProposal, AuditFailure, PublishProposal, AuditProposal, Await
    <3>2. \/ pc'["aggregator"] = "idle" /\ position'["aggregator"] = position["aggregator"] + 1
          \/ /\ pc'["aggregator"] \in {"publish", "reject", "audit"}
             /\ position'["aggregator"] = position["aggregator"]
      BY <3>1, Moves DEF Consumers
    <3>3. \A n \in Nat : Inserted(n) => Inserted(n)'
      BY <3>2, Moves DEF Inserted, Consumers
    <3>4. OriginInv'
      BY <1>2, <2>3, <3>2 DEF OriginInv, BoundInv, IsSignal
    <3> QED
      BY <2>3, <3>3, <3>4, SameRows
  <2> QED
    BY <1>4, <2>1, <2>2, <2>3
       DEF Aggregate, AuditFailure, PublishProposal, AuditProposal
<1>8. CopiesInv' /\ OneEventEach' /\ SimulationsBounded' /\ AttemptsKept
  BY <1>1, <1>2, <1>3, <1>5, <1>6, CopiesRest, OneEventRests, SimulationsRest, AttemptsRest
     DEF Consumers, OnlyMoves, mockVars, deviceVars
<1> QED
  BY <1>1, <1>3, <1>7, <1>8, BoundKept

LEMMA AdaptBound ==
  ASSUME IInv, BoundInv, Adapt
  PROVE  BoundInv'
<1>1. /\ UNCHANGED <<postVars, proposalVars, reviewVars, deviceVars, restarts>>
      /\ UNCHANGED failures \/ Fail
  BY DEF Adapt, TakeMockEvent, InsertMockRow, PublishMockSent, PublishMockResult,
         PublishMockAudit, Await, Fail
<1>2. UNCHANGED <<post, gridSignals, enriched, rows, readyTopic, attempts, cursor>>
  BY <1>1 DEF postVars, readingVars, proposalVars, reviewVars, deviceVars
<1>3. BoundsGrow /\ LogsGrow
  BY <1>1, <1>2, FailureBounds, SameLogs
<1> PICK p, r : p = position["adapter"] /\ r = Message("adapter").id
  OBVIOUS
<1>4. p \in Nat /\ r = readyTopic[p].id
  BY Moves DEF Consumers, Message, Topic
<1>5. /\ Finish("adapter") \/ \E step : GoTo("adapter", step)
      /\ OnlyMoves("adapter")
  <2>1. Finish("adapter") \/ \E step : GoTo("adapter", step)
    BY DEF Adapt, TakeMockEvent, InsertMockRow, PublishMockSent, PublishMockResult,
           PublishMockAudit, Await
  <2> QED
    BY <2>1, Moves DEF Consumers
<1>6. ASSUME NEW q \in RowIds, Simulated(q)
      PROVE  Simulated(q)'
  <2>1. EventsOf(q)' = EventsOf(q)
    BY <1>2 DEF EventsOf
  <2>2. \/ pc'["adapter"] = "idle" /\ position'["adapter"] = p + 1
        \/ /\ position'["adapter"] = p
           /\ pc["adapter"] \notin {"idle", "insert"} => pc'["adapter"] \notin {"idle", "insert"}
    <3>1. \/ Finish("adapter")
          \/ \E step : /\ GoTo("adapter", step)
                       /\ pc["adapter"] \notin {"idle", "insert"} => step \notin {"idle", "insert"}
      BY DEF Adapt, TakeMockEvent, InsertMockRow, PublishMockSent, PublishMockResult,
             PublishMockAudit, Await
    <3> QED
      BY <3>1, Moves DEF Consumers
  <2>3. \A n \in EventsOf(q) : n \in Nat
    BY LogFacts, SequenceFacts DEF EventsOf
  <2> QED
    BY <1>4, <1>6, <2>1, <2>2, <2>3 DEF Simulated
<1>7. ASSUME NEW q \in RowIds
      PROVE  mockRows'[q] <= restarts' + (IF Simulated(q)' THEN 1 ELSE 0)
  <2>1. /\ mockRows[q] \in Nat /\ mockRows \in [RowIds \cup {NoRow} -> Nat]
        /\ mockRows[q] <= restarts + (IF Simulated(q) THEN 1 ELSE 0)
        /\ restarts' = restarts /\ restarts \in Nat
    BY <1>1 DEF IInv, MockInv, MockOrder, BoundInv, SimulationsBounded, OffsetInv
  <2>2. CASE mockRows'[q] = mockRows[q]
    BY <1>6, <2>1, <2>2
  <2>3. CASE mockRows'[q] # mockRows[q]
    <3>1. InsertMockRow /\ mockRows' = OneMore(mockRows, r)
      BY <1>1, <2>3 DEF Adapt, TakeMockEvent, InsertMockRow, PublishMockSent, PublishMockResult,
         PublishMockAudit, Await, mockVars
    <3>2. /\ pc["adapter"] \in {"insert", "insert_rejected"}
          /\ pc["adapter"] = "insert" => Finish("adapter") \/ GoTo("adapter", "sent")
      BY <3>1 DEF InsertMockRow, Await
    <3>3. p \in DOMAIN readyTopic /\ r \in RowIds \cup {NoRow} /\ q = r /\ r # NoRow
      <4>1. p \in DOMAIN readyTopic
        BY <3>2, InHand, TopicFacts DEF Consumers
      <4>2. r \in RowIds \cup {NoRow}
        BY <1>4, <4>1, ReadyEventFacts
      <4>3. q = r
        BY <2>1, <2>3, <3>1, <4>2, OneMoreFacts
      <4> QED
        BY <4>1, <4>2, <4>3, RowIdsFacts
    <3>4. pc["adapter"] = "insert"
      BY <3>2, <3>3 DEF IInv, MockInv
    <3>5. EventsOf(q) = {p}
      BY <1>4, <3>3 DEF EventsOf, OneEventEach, BoundInv
    <3>6. ~Simulated(q)
      BY <1>4, <3>4, <3>5 DEF Simulated
    <3>7. Simulated(q)'
      <4>1. EventsOf(q)' = {p}
        BY <1>2, <3>5 DEF EventsOf
      <4>2. \/ pc'["adapter"] = "sent" /\ position'["adapter"] = p
            \/ position'["adapter"] = p + 1
        BY <3>2, <3>4, Moves DEF Consumers
      <4> QED
        BY <1>4, <4>1, <4>2 DEF Simulated
    <3>8. mockRows'[q] = mockRows[q] + 1
      BY <2>1, <3>1, <3>3, OneMoreFacts
    <3> QED
      BY <2>1, <3>6, <3>7, <3>8
  <2> QED
    BY <2>2, <2>3
<1>8. SimulationsBounded'
  BY <1>7 DEF SimulationsBounded
<1>9. CopiesInv' /\ OriginInv' /\ RowsKept /\ OneEventEach' /\ AttemptsKept
  BY <1>2, <1>3, <1>5, CopiesRest, OriginRest, OneEventRests, AttemptsRest DEF Consumers, OnlyMoves
<1> QED
  BY <1>1, <1>3, <1>8, <1>9, BoundKept

LEMMA TranslateBound ==
  ASSUME IInv, BoundInv, Translate
  PROVE  BoundInv'
<1>1. /\ UNCHANGED <<postVars, proposalVars, reviewVars, mockVars, restarts>>
      /\ UNCHANGED failures \/ Fail
  BY DEF Translate, TakeReadyCommand, SendCommand, StoreCommandAudit, PublishResult,
         PublishDeviceAudit, PublishRejectedAudit, Await, Fail
<1>2. UNCHANGED <<post, gridSignals, enriched, rows, readyTopic, mockRows>>
  BY <1>1 DEF postVars, readingVars, proposalVars, reviewVars, mockVars
<1>3. BoundsGrow /\ LogsGrow
  BY <1>1, <1>2, FailureBounds, SameLogs
<1> PICK p, event : p = position["translator"] /\ event = Message("translator")
  OBVIOUS
<1>4. p \in Nat /\ event = readyTopic[p]
  BY Moves DEF Consumers, Message, Topic
\* What the step does to the place in the loop.
<1>5. \/ /\ Finish("translator") /\ UNCHANGED attempts
      \/ /\ pc["translator"] \in {"idle", "insert_rejected"} /\ UNCHANGED attempts
         /\ \E step : GoTo("translator", step)
      \/ /\ pc["translator"] = "send" /\ GoTo("translator", "store") /\ UNCHANGED cursor
         /\ attempts' = OneMoreOf(attempts, Command.dispatch_command_id, Command.device_id)
      \/ /\ pc["translator"] = "store" /\ GoTo("translator", "result")
         /\ UNCHANGED <<cursor, attempts>>
      \/ /\ pc["translator"] = "result" /\ GoTo("translator", "audit")
         /\ UNCHANGED <<cursor, attempts>>
      \/ /\ pc["translator"] = "audit" /\ GoTo("translator", "send") /\ UNCHANGED attempts
         /\ {i \in DOMAIN commands : i > cursor} # {}
         /\ cursor' = Min({i \in DOMAIN commands : i > cursor})
  <2>1. CASE TakeReadyCommand
    BY <2>1 DEF TakeReadyCommand
  <2>2. CASE SendCommand
    BY <2>2 DEF SendCommand
  <2>3. CASE StoreCommandAudit
    BY <2>3 DEF StoreCommandAudit
  <2>4. CASE PublishResult
    BY <2>4 DEF PublishResult, Await, EndLoop
  <2>5. CASE PublishDeviceAudit
    <3>1. NextCommand \/ EndLoop
      BY <2>5 DEF PublishDeviceAudit, Await
    <3> QED
      BY <2>5, <3>1 DEF PublishDeviceAudit, NextCommand, EndLoop
  <2>6. CASE PublishRejectedAudit
    BY <2>6 DEF PublishRejectedAudit, EndLoop
  <2> QED
    BY <2>1, <2>2, <2>3, <2>4, <2>5, <2>6 DEF Translate
<1>6. OnlyMoves("translator")
  BY <1>5, Moves DEF Consumers
<1>7. InLoop => /\ cursor \in DOMAIN DEVICES /\ p \in DOMAIN readyTopic /\ event.id \in RowIds
                /\ Command.dispatch_command_id = event.id /\ Command.device_id = DeviceId(cursor)
                /\ DOMAIN commands \subseteq DOMAIN DEVICES
  <2>1. InLoop => p \in DOMAIN readyTopic
    BY InHand, TopicFacts DEF InLoop, Consumers
  <2> QED
    BY <2>1, LoopFacts, CommandFacts DEF Asked
<1>8. DOMAIN DEVICES \subseteq Nat
  BY DeviceFacts
<1>9. \A q : /\ EventsOf(q)' = EventsOf(q)
             /\ \A n \in EventsOf(q) : n \in Nat
  BY <1>2, LogFacts, SequenceFacts DEF EventsOf
\* Nothing that was tried is forgotten.
<1>10. ASSUME NEW q, NEW i \in DOMAIN DEVICES, Tried(q, i)
       PROVE  Tried(q, i)'
  <2>1. PICK n \in EventsOf(q) :
          \/ n < p
          \/ /\ n = p /\ InLoop
             /\ i < cursor \/ (i = cursor /\ pc["translator"] # "send")
    BY <1>10 DEF Tried
  <2>2. n \in EventsOf(q)' /\ n \in Nat
    BY <1>9
  <2>3. CASE n < p
    <3>1. position'["translator"] \in {p, p + 1}
      BY <1>5, Moves DEF Consumers
    <3> QED
      BY <1>4, <2>2, <2>3, <3>1 DEF Tried
  <2>4. CASE n = p /\ InLoop /\ (i < cursor \/ (i = cursor /\ pc["translator"] # "send"))
    <3>1. CASE Finish("translator")
      <4>1. position'["translator"] = p + 1
        BY <3>1, Moves DEF Consumers
      <4> QED
        BY <1>4, <2>2, <2>4, <4>1 DEF Tried
    <3>2. CASE \E step \in {"store", "result", "audit"} :
                 GoTo("translator", step) /\ UNCHANGED cursor
      <4>1. pc'["translator"] \in {"store", "result", "audit"} /\ position'["translator"] = p
        BY <3>2, Moves DEF Consumers
      <4> QED
        BY <2>2, <2>4, <3>2, <4>1 DEF Tried, InLoop
    <3>3. CASE /\ GoTo("translator", "send") /\ {j \in DOMAIN commands : j > cursor} # {}
               /\ cursor' = Min({j \in DOMAIN commands : j > cursor})
      <4>1. pc'["translator"] = "send" /\ position'["translator"] = p
        BY <3>3, Moves DEF Consumers
      <4>2. cursor' \in {j \in DOMAIN commands : j > cursor}
        BY <1>7, <2>4, <3>3, MinFacts
      <4>3. cursor < cursor' /\ cursor \in Nat /\ cursor' \in Nat /\ i \in Nat
        BY <1>7, <1>8, <2>4, <4>2
      <4>4. i < cursor'
        BY <2>4, <4>3
      <4> QED
        BY <2>2, <2>4, <4>1, <4>4 DEF Tried, InLoop
    <3> QED
      BY <1>5, <2>4, <3>1, <3>2, <3>3 DEF InLoop
  <2> QED
    BY <2>1, <2>3, <2>4
<1>11. AttemptsKept
  <2> SUFFICES ASSUME NEW t \in Nat, AttemptsBounded(t), NEW q \in RowIds, NEW i \in DOMAIN DEVICES
               PROVE  attempts'[q][DeviceId(i)] <= t + (IF Tried(q, i)' THEN 1 ELSE 0)
    BY DEF AttemptsKept, AttemptsBounded
  <2>1. /\ attempts[q][DeviceId(i)] <= t + (IF Tried(q, i) THEN 1 ELSE 0)
        /\ attempts[q][DeviceId(i)] \in Nat /\ DeviceId(i) \in DeviceIds
        /\ attempts \in [RowIds -> [DeviceIds -> Nat]]
    BY DeviceFacts DEF AttemptsBounded, IInv, DeviceInv, DeviceOrder
  <2>2. CASE attempts'[q][DeviceId(i)] = attempts[q][DeviceId(i)]
    BY <1>10, <2>1, <2>2
  <2>3. CASE attempts'[q][DeviceId(i)] # attempts[q][DeviceId(i)]
    <3>1. /\ pc["translator"] = "send" /\ GoTo("translator", "store") /\ UNCHANGED cursor
          /\ attempts' = OneMoreOf(attempts, Command.dispatch_command_id, Command.device_id)
      BY <1>5, <2>3
    <3>2. /\ p \in DOMAIN readyTopic /\ event.id \in RowIds /\ cursor \in DOMAIN DEVICES
          /\ attempts' = OneMoreOf(attempts, event.id, DeviceId(cursor))
      BY <1>7, <3>1 DEF InLoop
    <3>3. q = event.id /\ i = cursor /\ attempts'[q][DeviceId(i)] = attempts[q][DeviceId(i)] + 1
      <4> PICK d, e : d = DeviceId(i) /\ e = DeviceId(cursor)
        OBVIOUS
      <4>1. d \in DeviceIds /\ e \in DeviceIds
        BY <3>2, DeviceFacts
      <4>2. attempts'[q][d] = IF q = event.id /\ d = e THEN attempts[q][d] + 1 ELSE attempts[q][d]
        BY <2>1, <3>2, <4>1 DEF OneMoreOf
      <4>3. q = event.id /\ d = e /\ attempts'[q][d] = attempts[q][d] + 1
        BY <2>3, <4>2
      <4> QED
        BY <3>2, <4>3, DeviceFacts
    <3>4. EventsOf(q) = {p}
      BY <1>4, <3>2, <3>3 DEF EventsOf, OneEventEach, BoundInv
    <3>5. ~Tried(q, i)
      BY <1>4, <1>8, <3>1, <3>3, <3>4 DEF Tried
    <3>6. Tried(q, i)'
      <4>1. pc'["translator"] = "store" /\ position'["translator"] = p
        BY <3>1, Moves DEF Consumers
      <4>2. p \in EventsOf(q)'
        BY <1>9, <3>4
      <4> QED
        BY <3>1, <3>3, <4>1, <4>2 DEF Tried, InLoop
    <3> QED
      BY <2>1, <3>3, <3>5, <3>6
  <2> QED
    BY <2>2, <2>3
<1>12. CopiesInv' /\ OriginInv' /\ RowsKept /\ OneEventEach' /\ SimulationsBounded'
  BY <1>2, <1>3, <1>6, CopiesRest, OriginRest, OneEventRests, SimulationsRest
     DEF Consumers, OnlyMoves
<1> QED
  BY <1>1, <1>3, <1>11, <1>12, BoundKept

LEMMA ReviewBound ==
  ASSUME IInv, BoundInv, NEW r \in RowIds, Review(r) \/ Announce(r)
  PROVE  BoundInv'
<1>1. UNCHANGED <<postVars, proposalVars, mockVars, deviceVars, pc, offsetVars, failures, restarts>>
  BY DEF Review, Announce
<1>2. /\ UNCHANGED <<post, gridSignals, enriched, rows, mockRows, attempts, cursor>>
      /\ \A c \in Consumers : Rests(c)
  BY <1>1 DEF postVars, readingVars, proposalVars, mockVars, deviceVars, offsetVars, Rests
<1>3. BoundsGrow
  BY <1>1, FailureBounds
<1>4. Grows(readyTopic, readyTopic') /\ OneEventEach'
  <2>1. CASE Review(r)
    <3>1. UNCHANGED readyTopic
      BY <2>1 DEF Review
    <3> QED
      BY <3>1, LogFacts, SameLog, OneEventRests DEF Grows
  <2>2. CASE Announce(r)
    <3> PICK k, event : k = Len(readyTopic) + 1 /\ event = ReadyEvent(r)
      OBVIOUS
    <3>1. readyTopic' = Append(readyTopic, event) /\ announced[r] = {} /\ event.id = r
      BY <2>2 DEF Announce, Lifecycle!Announce, ReadyEvent, ReadyEventOf
    <3>2. /\ DOMAIN readyTopic' = DOMAIN readyTopic \cup {k} /\ readyTopic'[k] = event
          /\ \A n \in DOMAIN readyTopic : readyTopic'[n] = readyTopic[n]
          /\ Grows(readyTopic, readyTopic')
      BY <3>1, LogFacts, AppendFacts, LongerLog
    <3>3. EventsOf(r) = {}
      <4>1. ASSUME NEW n \in EventsOf(r) PROVE FALSE
        BY <3>1, <4>1, RowIdsFacts DEF EventsOf, IInv, ReadyInv, IsReady
      <4> QED
        BY <4>1
    <3>4. EventsOf(r)' = {k}
      BY <3>1, <3>2, <3>3 DEF EventsOf
    <3>5. \A q : q # r => EventsOf(q)' = EventsOf(q)
      BY <3>1, <3>2 DEF EventsOf
    <3> QED
      BY <3>2, <3>4, <3>5 DEF OneEventEach, BoundInv
  <2> QED
    BY <2>1, <2>2
<1>5. LogsGrow
  BY <1>2, <1>4, LogFacts, SameLog DEF LogsGrow
<1>6. CopiesInv' /\ OriginInv' /\ RowsKept /\ SimulationsBounded' /\ AttemptsKept
  BY <1>2, <1>3, <1>5, CopiesRest, OriginRest, SimulationsRest, AttemptsRest DEF Consumers
<1> QED
  BY <1>1, <1>3, <1>4, <1>6, BoundKept

\* A step that moves no consumer and writes nothing but offsets.
LEMMA QuietBound ==
  ASSUME IInv, BoundInv, UNCHANGED <<postVars, proposalVars, reviewVars, mockVars, deviceVars>>,
         UNCHANGED <<pc, position, failures, restarts>>
  PROVE  BoundInv'
<1>1. UNCHANGED <<post, gridSignals, enriched, rows, readyTopic, mockRows, attempts, cursor>>
  BY DEF postVars, readingVars, proposalVars, reviewVars, mockVars, deviceVars
<1>2. BoundsGrow /\ LogsGrow /\ \A c \in Consumers : Rests(c)
  BY <1>1, FailureBounds, SameLogs DEF Rests
<1>3. CopiesInv' /\ OriginInv' /\ RowsKept /\ OneEventEach' /\ SimulationsBounded' /\ AttemptsKept
  BY <1>1, <1>2, CopiesRest, OriginRest, OneEventRests, SimulationsRest, AttemptsRest DEF Consumers
<1> QED
  BY <1>2, <1>3, BoundKept

\* The restart of a consumer pays for what it repeats.
LEMMA RestartBound ==
  ASSUME IInv, BoundInv, NEW c \in Consumers, Restart(c)
  PROVE  BoundInv'
<1>1. /\ UNCHANGED <<post, gridSignals, enriched, rows, readyTopic, mockRows, attempts, failures>>
      /\ pc' = [pc EXCEPT ![c] = "idle"] /\ position' = [position EXCEPT ![c] = committed[c]]
      /\ restarts' = restarts + 1 /\ failures + restarts < MaxDisturbances
      /\ c # "translator" => UNCHANGED cursor
  BY DEF Restart, reviewVars, mockVars
<1>2. /\ pc'[c] = "idle" /\ OnlyMoves(c)
  BY <1>1 DEF IInv, OffsetInv, OnlyMoves, Rests
<1>3. BoundsGrow
  BY <1>1, ChainAssumption DEF IInv, OffsetInv, BoundsGrow
<1>4. LogsGrow
  BY <1>1, SameLogs
<1>5. CopiesInv' /\ OneEventEach'
  BY <1>1, <1>3, CopiesRest, OneEventRests
<1>6. OriginInv'
  <2>1. CASE c = "aggregator"
    BY <1>1, <1>2, <2>1 DEF BoundInv, OriginInv, IsSignal
  <2>2. CASE c # "aggregator"
    BY <1>1, <1>2, <1>4, <2>2, OriginRest DEF OnlyMoves, Consumers
  <2> QED
    BY <2>1, <2>2
<1>7. SimulationsBounded'
  <2>1. CASE c = "adapter"
    <3>1. \A r \in RowIds : mockRows[r] \in Nat /\ mockRows[r] <= restarts + 1
      BY DEF IInv, MockInv, MockOrder, BoundInv, SimulationsBounded, OffsetInv
    <3> QED
      BY <1>1, <1>3, <3>1 DEF SimulationsBounded, BoundsGrow
  <2>2. CASE c # "adapter"
    BY <1>1, <1>2, <1>3, <1>4, <2>2, SimulationsRest DEF OnlyMoves, Consumers
  <2> QED
    BY <2>1, <2>2
<1>8. PICK a \in 0..restarts : RowsBounded(a) /\ AttemptsBounded(restarts - a)
  BY DEF BoundInv
<1> PICK t : t = restarts - a
  OBVIOUS
<1>9. a \in Nat /\ t \in Nat /\ restarts = a + t /\ restarts' = a + t + 1
  BY <1>1, <1>3 DEF BoundsGrow
<1>10. RowsBounded(a)' \/ (c = "aggregator" /\ RowsBounded(a + 1)')
  <2>1. CASE c = "aggregator"
    <3>1. \A n : RowsFor(n)' = RowsFor(n)
      BY <1>1 DEF RowsFor
    <3>2. \A n \in Nat : Cardinality(RowsFor(n)) \in Nat /\ Cardinality(RowsFor(n)) <= a + 1
      BY <1>8, <1>9, CountsAreFinite DEF RowsBounded
    <3>3. \A n \in Nat : Cardinality(RowsFor(n)') <= (a + 1) + (IF Inserted(n)' THEN 1 ELSE 0)
      BY <1>9, <3>1, <3>2
    <3>4. RowsBounded(a + 1)'
      BY <3>3 DEF RowsBounded
    <3> QED
      BY <2>1, <3>4
  <2>2. CASE c # "aggregator"
    BY <1>1, <1>2, <1>4, <1>8, <1>9, <2>2, OriginRest DEF OnlyMoves, Consumers, RowsKept
  <2> QED
    BY <2>1, <2>2
<1>11. AttemptsBounded(t + 1)' /\ (c # "translator" => AttemptsBounded(t)')
  <2>1. c # "translator" => AttemptsBounded(t)'
    BY <1>1, <1>2, <1>4, <1>8, <1>9, AttemptsRest DEF OnlyMoves, Consumers, AttemptsKept
  <2>2. \A r \in RowIds, i \in DOMAIN DEVICES :
          attempts[r][DeviceId(i)] \in Nat /\ attempts[r][DeviceId(i)] <= t + 1
    <3>1. \A r \in RowIds, i \in DOMAIN DEVICES : attempts[r][DeviceId(i)] \in Nat
      BY DeviceFacts DEF IInv, DeviceInv, DeviceOrder
    <3>2. \A r \in RowIds, i \in DOMAIN DEVICES :
            attempts[r][DeviceId(i)] <= t + (IF Tried(r, i) THEN 1 ELSE 0)
      BY <1>8 DEF AttemptsBounded
    <3> QED
      BY <1>9, <3>1, <3>2
  <2>3. \A r \in RowIds, i \in DOMAIN DEVICES :
          attempts'[r][DeviceId(i)] <= (t + 1) + (IF Tried(r, i)' THEN 1 ELSE 0)
    BY <1>1, <1>9, <2>2
  <2>4. AttemptsBounded(t + 1)'
    BY <2>3 DEF AttemptsBounded
  <2> QED
    BY <2>1, <2>4
<1>12. \E b \in 0..restarts' : \E u \in Nat :
         u = restarts' - b /\ RowsBounded(b)' /\ AttemptsBounded(u)'
  <2>1. CASE RowsBounded(a)'
    <3>1. a \in 0..restarts' /\ t + 1 \in Nat /\ t + 1 = restarts' - a
      BY <1>9
    <3> QED
      BY <1>11, <2>1, <3>1
  <2>2. CASE c = "aggregator" /\ RowsBounded(a + 1)'
    <3>1. a + 1 \in 0..restarts' /\ t = restarts' - (a + 1)
      BY <1>9
    <3> QED
      BY <1>9, <1>11, <2>2, <3>1
  <2> QED
    BY <1>10, <2>1, <2>2
<1>13. (\E b \in 0..restarts : RowsBounded(b) /\ AttemptsBounded(restarts - b))'
  BY <1>12
<1> QED
  BY <1>3, <1>5, <1>6, <1>7, <1>13 DEF BoundInv, BoundsGrow

LEMMA BoundInit == Init => BoundInv
<1> SUFFICES ASSUME Init
             PROVE  BoundInv
  OBVIOUS
<1>1. /\ position = [c \in Consumers |-> 1] /\ pc = [c \in Consumers |-> "idle"]
      /\ failures = 0 /\ restarts = 0 /\ rows = <<>>
      /\ gridSignals \in {<<>>, GridBacklog} /\ readyTopic \in {<<>>, ReadyBacklog}
      /\ mockRows = [r \in RowIds \cup {NoRow} |-> 0]
      /\ attempts = [r \in RowIds |-> [d \in DeviceIds |-> 0]]
      /\ \A s \in DOMAIN Bodies : post[s] \in {"new", "unsent"}
  BY DEF Init
<1>2. \A n \in DOMAIN gridSignals : ~IsSignal(n)
  BY <1>1, ChainAssumption DEF IsSignal, Range
<1>3. \A s : CopiesOf(s) = {}
  BY <1>2 DEF CopiesOf
<1>4. Cardinality({}) = 0
  BY FS_EmptySet
<1>5. CopiesInv
  <2>1. \A s : Cardinality(CopiesOf(s)) = 0
    BY <1>3, <1>4
  <2>2. ASSUME NEW s \in DOMAIN Bodies
        PROVE  /\ post[s] \notin {"store", "publish", "accepted", "failed"}
               /\ Cardinality(CopiesOf(s)) <= failures + (IF post[s] = "accepted" THEN 1 ELSE 0)
    BY <1>1, <2>1
  <2> QED
    BY <1>2, <2>2 DEF CopiesInv
<1>6. OriginInv
  BY <1>1 DEF OriginInv, Consumers
<1>7. OneEventEach
  <2>1. \A n \in DOMAIN readyTopic : readyTopic[n].id = NoRow
    BY <1>1, ChainAssumption DEF Range
  <2> QED
    BY <2>1, RowIdsFacts DEF OneEventEach, EventsOf
<1>8. SimulationsBounded
  BY <1>1 DEF SimulationsBounded
<1>9. RowsBounded(0)
  <2>1. \A n : RowsFor(n) = {}
    BY <1>1 DEF RowsFor
  <2> QED
    BY <1>4, <2>1 DEF RowsBounded
<1>10. AttemptsBounded(0)
  BY <1>1, DeviceFacts DEF AttemptsBounded
<1>11. \E a \in 0..restarts : RowsBounded(a) /\ AttemptsBounded(restarts - a)
  <2>1. 0 \in 0..restarts /\ restarts - 0 = 0
    BY <1>1
  <2> QED
    BY <1>9, <1>10, <2>1
<1> QED
  BY <1>1, <1>5, <1>6, <1>7, <1>8, <1>11, ChainAssumption DEF BoundInv

LEMMA BoundPreserved == IInv /\ BoundInv /\ [Next]_vars => BoundInv'
<1> SUFFICES ASSUME IInv, BoundInv, [Next]_vars
             PROVE  BoundInv'
  OBVIOUS
<1>1. CASE \E s \in DOMAIN Bodies : PostSignal(s) \/ StoreSignal(s) \/ PublishSignal(s)
  BY <1>1, PostBound
<1>2. CASE TranslateReadings \/ Aggregate \/ Adapt \/ Translate
  BY <1>2, ReadingBound, AggregateBound, AdaptBound, TranslateBound
<1>3. CASE \E r \in RowIds : Review(r) \/ Announce(r)
  BY <1>3, ReviewBound
<1>4. CASE \E c \in Consumers : CommitResolved(c)
  BY <1>4, QuietBound DEF CommitResolved
<1>5. CASE \E c \in Consumers : Restart(c)
  BY <1>5, RestartBound
<1>6. CASE UNCHANGED vars
  BY <1>6, QuietBound DEF vars, offsetVars
<1> QED
  BY <1>1, <1>2, <1>3, <1>4, <1>5, <1>6 DEF Next

-----------------------------------------------------------------------------
(* How often, from the bounds                                              *)

\* The commands that were tried for the rows of S and device d.
AttemptsOf(S, d) == MapThenSumSet(LAMBDA r : attempts[r][d], S)

\* The sum over a set of rows is the sum that the lemmas are about.
LEMMA SumOfAttempts ==
  ASSUME NEW S, IsFiniteSet(S), NEW d, \A x \in S : attempts[x][d] \in Int
  PROVE  \E F \in [S -> Int] : \E g :
           /\ \A x \in S : F[x] = attempts[x][d]
           /\ IsSum(F, S, g)
           /\ AttemptsOf(S, d) = g[S]
<1> DEFINE F == [x \in S |-> attempts[x][d]]
           Eq(g) == g = [T \in SUBSET S |->
                           IF T = {} THEN 0
                           ELSE attempts[CHOOSE x \in T : TRUE][d] + g[T \ {CHOOSE x \in T : TRUE}]]
           sum == CHOOSE g : Eq(g)
<1>1. F \in [S -> Int] /\ \A x \in S : F[x] = attempts[x][d]
  OBVIOUS
<1>2. ASSUME NEW g
      PROVE  IsSum(F, S, g) <=> Eq(g)
  <2> DEFINE lhs == [T \in SUBSET S |->
                       IF T = {} THEN 0
                       ELSE F[CHOOSE x \in T : TRUE] + g[T \ {CHOOSE x \in T : TRUE}]]
             rhs == [T \in SUBSET S |->
                       IF T = {} THEN 0
                       ELSE attempts[CHOOSE x \in T : TRUE][d] + g[T \ {CHOOSE x \in T : TRUE}]]
  <2>1. \A T \in SUBSET S : T # {} =>
          F[CHOOSE x \in T : TRUE] = attempts[CHOOSE x \in T : TRUE][d]
    <3>1. \A T \in SUBSET S : T # {} => (CHOOSE x \in T : TRUE) \in S
      OBVIOUS
    <3> HIDE DEF F
    <3> QED
      BY <1>1, <3>1, Zenon
  <2>2. lhs = rhs
    <3> HIDE DEF F
    <3>1. ASSUME NEW T \in SUBSET S
          PROVE  (IF T = {} THEN 0
                  ELSE F[CHOOSE x \in T : TRUE] + g[T \ {CHOOSE x \in T : TRUE}])
                 = (IF T = {} THEN 0
                    ELSE attempts[CHOOSE x \in T : TRUE][d] + g[T \ {CHOOSE x \in T : TRUE}])
      <4>1. CASE T = {}
        BY <4>1, Zenon
      <4>2. CASE T # {}
        <5>1. F[CHOOSE x \in T : TRUE] = attempts[CHOOSE x \in T : TRUE][d]
          BY <2>1, <4>2, Zenon
        <5> QED
          BY <4>2, <5>1, Zenon
      <4> QED
        BY <4>1, <4>2, Zenon
    <3> QED
      BY <3>1, Zenon
  <2> QED
    BY <2>2, Zenon DEF IsSum
<1>3. \E g : Eq(g)
  <2>1. \E g : IsSum(F, S, g)
    <3> HIDE DEF F
    <3> QED
      BY <1>1, SumExists
  <2> HIDE DEF F, Eq
  <2> QED
    BY <1>2, <2>1
<1>4. Eq(sum)
  <2> HIDE DEF Eq
  <2> QED
    BY <1>3
<1>5. AttemptsOf(S, d) = sum[S]
  BY Zenon DEF AttemptsOf, MapThenSumSet, MapThenFoldSet
<1>6. IsSum(F, S, sum)
  <2> HIDE DEF F, Eq, sum
  <2> QED
    BY <1>2, <1>4
<1> HIDE DEF F, sum
<1> QED
  BY <1>1, <1>5, <1>6

\* What grows by one at each of n occasions stays below what doubles.
LEMMA ProductsStaySmall ==
  ASSUME NEW f \in Nat, NEW a \in Nat, NEW t \in Nat
  PROVE  /\ (1 + f) * ((1 + a) * (1 + t)) <= 2 ^ (f + (a + t))
         /\ (1 + f) * (1 + a) <= 2 ^ (f + a)
         /\ 2 ^ (f + a) \in Nat /\ 2 ^ (f + (a + t)) \in Nat
<1> DEFINE P == [n \in Nat |-> 2 ^ n]
<1>1. P \in [Nat -> Nat] /\ P[0] = 1 /\ \A n \in Nat : 2 ^ n = P[n]
  <2>1. \A n \in Nat : P[n] = 2 ^ n
    OBVIOUS
  <2>2. P \in [Nat -> Nat]
    BY PowersOfTwo
  <2>3. 0 \in Nat
    OBVIOUS
  <2> HIDE DEF P
  <2> QED
    BY <2>1, <2>2, <2>3, PowersOfTwo, Zenon
<1>2. \A m, n \in Nat : (1 + m) * P[n] <= P[m + n]
  <2> SUFFICES ASSUME NEW m \in Nat, NEW n \in Nat
               PROVE  (1 + m) * P[n] <= P[m + n]
    OBVIOUS
  <2>1. m + n \in Nat
    OBVIOUS
  <2>2. (1 + m) * 2 ^ n <= 2 ^ (m + n)
    BY PowersGrow
  <2> HIDE DEF P
  <2> QED
    BY <1>1, <2>1, <2>2, Zenon
<1> HIDE DEF P
<1>3. \A m, n, k \in Nat : n <= k => (1 + m) * n <= (1 + m) * k /\ (1 + m) * n \in Nat /\ (1 + m) * k \in Nat
  <2> SUFFICES ASSUME NEW m \in Nat, NEW n \in Nat, NEW k \in Nat, n <= k
               PROVE  (1 + m) * n <= (1 + m) * k /\ (1 + m) * n \in Nat /\ (1 + m) * k \in Nat
    OBVIOUS
  <2>1. PICK d \in Nat : k = n + d
    <3>1. k - n \in Nat /\ k = n + (k - n)
      OBVIOUS
    <3> QED
      BY <3>1
  <2>2. (1 + m) * d \in Nat /\ (1 + m) * n \in Nat
    <3>1. \A i, j \in Nat : i * j \in Nat
      OBVIOUS
    <3>2. 1 + m \in Nat
      OBVIOUS
    <3> QED
      BY <3>1, <3>2
  <2>3. (1 + m) * k = (1 + m) * n + (1 + m) * d
    BY <2>1
  <2> QED
    BY <2>2, <2>3
<1>4. 1 + t <= P[t] /\ P[t] \in Nat /\ P[a] \in Nat /\ 1 + a <= P[a] /\ P[a + t] \in Nat
      /\ P[f + a] \in Nat /\ P[f + (a + t)] \in Nat
  <2>1. \A n \in Nat : 1 + n <= P[n] /\ P[n] \in Nat
    <3> SUFFICES ASSUME NEW n \in Nat
                 PROVE  1 + n <= P[n] /\ P[n] \in Nat
      OBVIOUS
    <3>1. (1 + n) * P[0] <= P[n + 0] /\ P[0] = 1 /\ n + 0 = n /\ P[n] \in Nat
      BY <1>1, <1>2
    <3> QED
      BY <3>1
  <2>2. a + t \in Nat /\ f + a \in Nat /\ f + (a + t) \in Nat
    OBVIOUS
  <2> QED
    BY <2>1, <2>2
<1>5. (1 + a) * (1 + t) <= P[a + t] /\ (1 + a) * (1 + t) \in Nat
  <2>1. (1 + a) * (1 + t) <= (1 + a) * P[t] /\ (1 + a) * (1 + t) \in Nat /\ (1 + a) * P[t] \in Nat
    BY <1>3, <1>4
  <2>2. (1 + a) * P[t] <= P[a + t]
    BY <1>2
  <2> QED
    BY <1>4, <2>1, <2>2
<1>6. (1 + f) * ((1 + a) * (1 + t)) <= P[f + (a + t)]
  <2> PICK u : u = (1 + a) * (1 + t)
    OBVIOUS
  <2>1. (1 + f) * u <= (1 + f) * P[a + t] /\ (1 + f) * u \in Nat /\ (1 + f) * P[a + t] \in Nat
    BY <1>3, <1>4, <1>5
  <2>2. (1 + f) * P[a + t] <= P[f + (a + t)]
    BY <1>2
  <2> QED
    BY <1>4, <2>1, <2>2
<1>7. (1 + f) * (1 + a) <= P[f + a]
  <2>1. (1 + f) * (1 + a) <= (1 + f) * P[a] /\ (1 + f) * (1 + a) \in Nat /\ (1 + f) * P[a] \in Nat
    BY <1>3, <1>4
  <2>2. (1 + f) * P[a] <= P[f + a]
    BY <1>2
  <2> QED
    BY <1>4, <2>1, <2>2
<1>8. f + a \in Nat /\ f + (a + t) \in Nat
  OBVIOUS
<1> QED
  BY <1>1, <1>4, <1>6, <1>7, <1>8

LEMMA Products ==
  ASSUME NEW i \in Nat, NEW j \in Nat, NEW k \in Nat, i <= j
  PROVE  i * k <= j * k /\ i * k \in Nat /\ j * k \in Nat
<1>1. PICK d \in Nat : j = i + d
  <2>1. j - i \in Nat /\ j = i + (j - i)
    OBVIOUS
  <2> QED
    BY <2>1
<1>2. i * k \in Nat /\ d * k \in Nat
  OBVIOUS
<1>3. j * k = i * k + d * k
  BY <1>1
<1> QED
  BY <1>2, <1>3

LEMMA Rearranged ==
  \A i, j, k \in Nat : (i * j) * k = (j * k) * i /\ i * j = j * i
OBVIOUS

ProposalsOf(s) == {r \in DOMAIN rows : rows[r].proposal.signal_id = s}

\* A signal has a row for each of its messages, and another for each restart in between.
LEMMA RowsOfSignal ==
  ASSUME IInv, BoundInv, NEW s \in DOMAIN Bodies, NEW a \in Nat, RowsBounded(a)
  PROVE  /\ IsFiniteSet(ProposalsOf(s)) /\ Cardinality(ProposalsOf(s)) \in Nat
         /\ Cardinality(ProposalsOf(s)) <= (1 + failures) * (1 + a)
<1> DEFINE f == [r \in ProposalsOf(s) |-> rows[r].message]
<1>1. ProposalsOf(s) \in SUBSET DOMAIN rows /\ DOMAIN rows \in SUBSET Nat /\ IsFiniteSet(DOMAIN rows)
  BY CountsAreFinite DEF ProposalsOf
<1>2. IsFiniteSet(ProposalsOf(s)) /\ Cardinality(ProposalsOf(s)) \in Nat
  BY <1>1, FS_Subset, FS_CardinalityType
<1>3. \A r \in ProposalsOf(s) : rows[r].message \in CopiesOf(s)
  <2> SUFFICES ASSUME NEW r \in ProposalsOf(s)
               PROVE  rows[r].message \in CopiesOf(s)
    OBVIOUS
  <2> PICK n : n = rows[r].message
    OBVIOUS
  <2>1. r \in DOMAIN rows /\ rows[r].proposal.signal_id = s
    BY DEF ProposalsOf
  <2>2. /\ n \in DOMAIN gridSignals /\ IsSignal(n)
        /\ rows[r].proposal = createDispatchProposal(extractGridSignal(gridSignals[n]))
    BY <2>1, Zenon DEF BoundInv, OriginInv
  <2>3. \A signal : createDispatchProposal(signal).signal_id = signal.signal_id
    BY DEF createDispatchProposal
  <2>4. SignalId(n) = s
    BY <2>1, <2>2, <2>3, Zenon DEF SignalId
  <2> QED
    BY <2>2, <2>4, Zenon DEF CopiesOf
<1>4. f \in [ProposalsOf(s) -> CopiesOf(s)]
  BY <1>3
<1>5. ASSUME NEW n \in CopiesOf(s)
      PROVE  Cardinality({r \in ProposalsOf(s) : f[r] = n}) <= 1 + a
  <2>1. {r \in ProposalsOf(s) : f[r] = n} \in SUBSET RowsFor(n)
    BY <1>1 DEF RowsFor
  <2>2. n \in Nat
    BY LogFacts, SequenceFacts DEF CopiesOf
  <2>3. IsFiniteSet(RowsFor(n)) /\ Cardinality(RowsFor(n)) \in Nat /\ Cardinality(RowsFor(n)) <= 1 + a
    BY <2>2, CountsAreFinite DEF RowsBounded
  <2> HIDE DEF f
  <2> PICK part : part = {r \in ProposalsOf(s) : f[r] = n}
    OBVIOUS
  <2>4. IsFiniteSet(part) /\ Cardinality(part) <= Cardinality(RowsFor(n))
    BY <2>1, <2>3, FS_Subset
  <2>5. Cardinality(part) \in Nat
    BY <2>4, FS_CardinalityType
  <2> QED
    BY <2>3, <2>4, <2>5
<1>6. IsFiniteSet(CopiesOf(s)) /\ Cardinality(CopiesOf(s)) \in Nat
  BY CountsAreFinite
<1>7. Cardinality(ProposalsOf(s)) <= Cardinality(CopiesOf(s)) * (1 + a)
  <2>1. 1 + a \in Nat /\ ProposalsOf(s) \in SUBSET Int
    BY <1>1
  <2> HIDE DEF f
  <2> QED
    BY <1>2, <1>4, <1>5, <1>6, <2>1, PartsBound
<1>8. Cardinality(CopiesOf(s)) <= 1 + failures /\ failures \in Nat
  BY <1>6 DEF BoundInv, CopiesInv, IInv, OffsetInv
<1> PICK c : c = Cardinality(CopiesOf(s))
  OBVIOUS
<1>9. c * (1 + a) <= (1 + failures) * (1 + a) /\ c * (1 + a) \in Nat /\ (1 + failures) * (1 + a) \in Nat
  <2>1. 1 + failures \in Nat /\ 1 + a \in Nat
    BY <1>8
  <2> QED
    BY <1>6, <1>8, <2>1, Products
<1> QED
  BY <1>2, <1>7, <1>9

\* Before another row is added there is room for it.
LEMMA RoomForRow ==
  ASSUME IInv, BoundInv, NEW a \in 0..restarts, RowsBounded(a), pc["aggregator"] = "insert"
  PROVE  Len(rows) < MaxRows
<1> PICK p, q : p = position["aggregator"] /\ q = Len(rows) + 1
  OBVIOUS
<1> DEFINE valid == {s \in DOMAIN Bodies : validateGridSignal(Bodies[s])}
           signals == {n \in DOMAIN gridSignals : IsSignal(n)}
           all == DOMAIN rows \cup {q}
           f == [r \in all |-> IF r = q THEN p ELSE rows[r].message]
           g == [n \in signals |-> SignalId(n)]
<1>1. /\ DOMAIN rows = 1..Len(rows) /\ Len(rows) \in Nat /\ q \notin DOMAIN rows
      /\ all = 1..q /\ q \in Nat
  BY LogFacts, SequenceFacts
<1>2. a \in Nat /\ failures \in Nat /\ restarts \in Nat /\ a <= restarts
      /\ failures + restarts <= MaxDisturbances /\ MaxDisturbances \in Nat
  BY ChainAssumption DEF IInv, OffsetInv, BoundInv
<1>3. /\ p \in signals /\ ~Inserted(p) /\ p \in Nat
  BY InHand, TopicFacts, Moves DEF Consumers, BoundInv, OriginInv, Inserted
<1>4. \A r \in DOMAIN rows : rows[r].message \in signals
  BY DEF BoundInv, OriginInv
<1>5. f \in [all -> signals]
  BY <1>3, <1>4
<1>6. IsFiniteSet(signals) /\ signals \in SUBSET Nat
  <2>1. DOMAIN gridSignals = 1..Len(gridSignals) /\ Len(gridSignals) \in Nat
    BY LogFacts, SequenceFacts
  <2>2. IsFiniteSet(DOMAIN gridSignals)
    BY <2>1, FS_Interval
  <2>3. signals \in SUBSET DOMAIN gridSignals
    OBVIOUS
  <2> QED
    BY <2>1, <2>2, <2>3, FS_Subset
<1>7. ASSUME NEW n \in signals
      PROVE  Cardinality({r \in all : f[r] = n}) <= 1 + a
  <2>1. IsFiniteSet(RowsFor(n)) /\ Cardinality(RowsFor(n)) \in Nat /\ n \in Nat
    BY <1>6, CountsAreFinite
  <2>2. Cardinality(RowsFor(n)) <= a + (IF Inserted(n) THEN 1 ELSE 0)
    BY <2>1 DEF RowsBounded
  <2>3. CASE n = p
    <3>1. {r \in all : f[r] = n} = RowsFor(n) \cup {q}
      BY <1>1, <2>3 DEF RowsFor
    <3>2. Cardinality(RowsFor(n) \cup {q}) = IF q \in RowsFor(n) THEN Cardinality(RowsFor(n))
                                             ELSE Cardinality(RowsFor(n)) + 1
      BY <2>1, FS_AddElement
    <3> PICK part : part = {r \in all : f[r] = n}
      OBVIOUS
    <3>3. Cardinality(part) = IF q \in RowsFor(n) THEN Cardinality(RowsFor(n))
                              ELSE Cardinality(RowsFor(n)) + 1
      BY <3>1, <3>2
    <3>4. Cardinality(RowsFor(n)) <= a
      BY <1>3, <2>2, <2>3
    <3> QED
      BY <1>2, <2>1, <3>3, <3>4
  <2>4. CASE n # p
    <3>1. {r \in all : f[r] = n} = RowsFor(n)
      BY <1>1, <2>4 DEF RowsFor
    <3>2. Cardinality({r \in all : f[r] = n}) = Cardinality(RowsFor(n))
      BY <3>1
    <3> HIDE DEF f, all
    <3> QED
      BY <1>2, <2>1, <2>2, <3>2
  <2> QED
    BY <2>3, <2>4
<1>8. q <= Cardinality(signals) * (1 + a) /\ Cardinality(signals) \in Nat
  <2>1. IsFiniteSet(all) /\ Cardinality(all) = q /\ all \in SUBSET Int
    <3>1. IsFiniteSet(1..q) /\ Cardinality(1..q) = q
      BY <1>1, FS_Interval
    <3>2. 1..q \in SUBSET Int
      OBVIOUS
    <3>3. all = 1..q
      BY <1>1, Zenon
    <3> HIDE DEF all
    <3> QED
      BY <3>1, <3>2, <3>3, Zenon
  <2>2. 1 + a \in Nat
    BY <1>2
  <2> HIDE DEF f, all, signals
  <2> QED
    BY <1>5, <1>6, <1>7, <2>1, <2>2, PartsBound, FS_CardinalityType
<1>9. IsFiniteSet(valid) /\ Cardinality(valid) \in Nat
  <2>1. valid \in SUBSET DOMAIN Bodies
    OBVIOUS
  <2> HIDE DEF valid
  <2> QED
    BY <2>1, ChainAssumption, FS_Subset, FS_CardinalityType
<1>10. g \in [signals -> valid]
  <2> SUFFICES ASSUME NEW n \in signals
               PROVE  SignalId(n) \in valid
    OBVIOUS
  <2>1. PICK s \in DOMAIN Bodies : /\ validateGridSignal(Bodies[s])
                                   /\ gridSignals[n] = translateGridSignal(Bodies[s])
    BY DEF BoundInv, CopiesInv
  <2>2. SignalId(n) = s
    BY <2>1, SignalKeepsId DEF SignalId
  <2> QED
    BY <2>1, <2>2
<1>11. ASSUME NEW s \in valid
       PROVE  Cardinality({n \in signals : g[n] = s}) <= 1 + failures
  <2>1. {n \in signals : g[n] = s} = CopiesOf(s)
    BY DEF CopiesOf
  <2>2. Cardinality(CopiesOf(s)) <= 1 + failures
    <3>1. Cardinality(CopiesOf(s)) \in Nat
      BY CountsAreFinite
    <3>2. Cardinality(CopiesOf(s)) <= failures + (IF post[s] = "accepted" THEN 1 ELSE 0)
      BY DEF BoundInv, CopiesInv
    <3> QED
      BY <1>2, <3>1, <3>2
  <2> QED
    BY <2>1, <2>2
<1>12. Cardinality(signals) <= Cardinality(valid) * (1 + failures)
  <2>1. 1 + failures \in Nat /\ signals \in SUBSET Int
    BY <1>2, <1>6
  <2> HIDE DEF g, signals, valid
  <2> QED
    BY <1>6, <1>9, <1>10, <1>11, <2>1, PartsBound
<1> PICK v, m : v = Cardinality(valid) /\ m = Cardinality(signals)
  OBVIOUS
<1> DEFINE power == 2 ^ MaxDisturbances
<1>13. (1 + failures) * (1 + a) <= power /\ power \in Nat
  <2>1. PICK d \in Nat : MaxDisturbances = failures + (a + d)
    <3>1. MaxDisturbances - (failures + a) \in Nat
          /\ MaxDisturbances = failures + (a + (MaxDisturbances - (failures + a)))
      BY <1>2
    <3> QED
      BY <3>1
  <2>2. (1 + failures) * ((1 + a) * (1 + d)) <= power /\ power \in Nat
    BY <1>2, <2>1, ProductsStaySmall, Zenon
  <2> HIDE DEF power
  <2>3. (1 + a) * 1 <= (1 + a) * (1 + d) /\ (1 + a) * (1 + d) \in Nat
    <3>1. (1 + a) * (1 + d) = (1 + a) + (1 + a) * d /\ (1 + a) * d \in Nat
      BY <1>2
    <3> QED
      BY <1>2, <3>1
  <2>4. \A i, j, k \in Nat : i <= j => k * i <= k * j /\ k * i \in Nat /\ k * j \in Nat
    <3>1. \A i, j, k \in Nat : k * i = i * k
      OBVIOUS
    <3> QED
      BY <3>1, Products
  <2>5. /\ (1 + failures) * (1 + a) <= (1 + failures) * ((1 + a) * (1 + d))
        /\ (1 + failures) * (1 + a) \in Nat /\ (1 + failures) * ((1 + a) * (1 + d)) \in Nat
    <3> PICK x, y, z : x = 1 + a /\ y = (1 + a) * (1 + d) /\ z = 1 + failures
      OBVIOUS
    <3>1. x \in Nat /\ y \in Nat /\ z \in Nat /\ x <= y
      BY <1>2, <2>3
    <3> QED
      BY <2>4, <3>1
  <2> QED
    BY <2>2, <2>5
<1> HIDE DEF power
<1>14. m * (1 + a) <= v * power /\ m * (1 + a) \in Nat
  <2> PICK x, y : x = 1 + failures /\ y = 1 + a
    OBVIOUS
  <2>1. x \in Nat /\ y \in Nat /\ v \in Nat /\ m \in Nat /\ m <= v * x /\ x * y <= power
        /\ power \in Nat
    BY <1>2, <1>8, <1>9, <1>12, <1>13
  <2>2. v * x \in Nat /\ x * y \in Nat /\ v * power \in Nat
    <3>1. \A i, j \in Nat : i * j \in Nat
      OBVIOUS
    <3> QED
      BY <2>1, <3>1
  <2>3. m * y <= (v * x) * y /\ m * y \in Nat /\ (v * x) * y \in Nat
    BY <2>1, <2>2, Products
  <2>4. (x * y) * v <= power * v /\ (x * y) * v \in Nat /\ power * v \in Nat
    BY <2>1, <2>2, Products
  <2>5. (v * x) * y = (x * y) * v /\ power * v = v * power
    <3>1. v \in Nat /\ x \in Nat /\ y \in Nat /\ power \in Nat
      BY <2>1
    <3>2. (v * x) * y = (x * y) * v
      BY <3>1, Rearranged, Zenon
    <3>3. power * v = v * power
      BY <3>1, Rearranged, Zenon
    <3> QED
      BY <3>2, <3>3, Zenon
  <2>6. m * y <= v * power /\ m * y \in Nat
    <3> PICK j, k, n : j = m * y /\ k = (x * y) * v /\ n = v * power
      OBVIOUS
    <3>1. j \in Nat /\ k \in Nat /\ n \in Nat /\ j <= k /\ k <= n
      BY <2>2, <2>3, <2>4, <2>5
    <3>2. j <= n
      BY <3>1
    <3> QED
      BY <3>1, <3>2
  <2> QED
    BY <2>6
<1>15. MaxRows = v * power
  BY DEF MaxRows, power
<1>16. q <= v * power /\ v * power \in Nat
  <2>1. \A i, j \in Nat : i * j \in Nat
    OBVIOUS
  <2>2. v * power \in Nat
    BY <1>9, <1>13, <2>1
  <2> QED
    BY <1>1, <1>8, <1>14, <2>2
<1> QED
  BY <1>1, <1>15, <1>16

LEMMA AmplificationFollows == IInv /\ BoundInv => AmplificationIsBounded
<1> SUFFICES ASSUME IInv, BoundInv
             PROVE  AmplificationIsBounded
  OBVIOUS
<1>1. failures \in Nat /\ restarts \in Nat
  BY DEF IInv, OffsetInv
<1>2. PICK a \in 0..restarts : RowsBounded(a) /\ AttemptsBounded(restarts - a)
  BY DEF BoundInv
<1> PICK t : t = restarts - a
  OBVIOUS
<1>3. a \in Nat /\ t \in Nat /\ restarts = a + t /\ AttemptsBounded(t)
  BY <1>1, <1>2
<1>4. pc["aggregator"] = "insert" => Len(rows) < MaxRows
  BY <1>2, RoomForRow
<1>5. \A r \in RowIds : mockRows[r] <= 1 + restarts
  BY <1>1 DEF BoundInv, SimulationsBounded, IInv, MockInv, MockOrder
<1>6. ASSUME NEW r \in RowIds, NEW d \in DeviceIds
      PROVE  attempts[r][d] \in Nat /\ attempts[r][d] <= 1 + t
  <2>1. PICK i \in DOMAIN DEVICES : d = DeviceId(i)
    BY DEF DeviceIds, DeviceId
  <2>2. attempts[r][d] <= t + (IF Tried(r, i) THEN 1 ELSE 0)
    BY <1>3, <2>1 DEF AttemptsBounded
  <2>3. attempts[r][d] \in Nat
    BY DEF IInv, DeviceInv, DeviceOrder
  <2> QED
    BY <1>3, <2>2, <2>3
<1>7. \A r \in RowIds, d \in DeviceIds : attempts[r][d] <= 1 + restarts
  BY <1>1, <1>3, <1>6
<1>8. ASSUME NEW s \in DOMAIN Bodies, NEW d \in DeviceIds
      PROVE  AttemptsOf(ProposalsOf(s), d) <= 2 ^ (failures + restarts)
  <2>1. /\ IsFiniteSet(ProposalsOf(s)) /\ Cardinality(ProposalsOf(s)) \in Nat
        /\ Cardinality(ProposalsOf(s)) <= (1 + failures) * (1 + a)
    BY <1>2, <1>3, RowsOfSignal
  <2>2. \A r \in ProposalsOf(s) : r \in RowIds
    BY DEF ProposalsOf, IInv, AggregatorInv
  <2>3. PICK F, g :
          /\ F \in [ProposalsOf(s) -> Int]
          /\ \A r \in ProposalsOf(s) : F[r] = attempts[r][d]
          /\ IsSum(F, ProposalsOf(s), g)
          /\ AttemptsOf(ProposalsOf(s), d) = g[ProposalsOf(s)]
    <3>1. \A r \in ProposalsOf(s) : attempts[r][d] \in Int
      BY <1>6, <2>2
    <3>2. IsFiniteSet(ProposalsOf(s))
      BY <2>1
    <3> PICK S : S = ProposalsOf(s)
      OBVIOUS
    <3>3. \A r \in S : attempts[r][d] \in Int
      BY <3>1
    <3>4. IsFiniteSet(S)
      BY <3>2
    <3>5. \E F \in [S -> Int] : \E g :
           /\ \A r \in S : F[r] = attempts[r][d]
           /\ IsSum(F, S, g)
           /\ AttemptsOf(S, d) = g[S]
      BY <3>3, <3>4, SumOfAttempts
    <3> QED
      BY <3>5
  <2>4. \A r \in ProposalsOf(s) : F[r] <= 1 + t
    BY <1>6, <2>2, <2>3
  <2>5. g[ProposalsOf(s)] <= Cardinality(ProposalsOf(s)) * (1 + t)
    BY <1>3, <2>1, <2>3, <2>4, SumBound
  <2>6. g[ProposalsOf(s)] \in Int
    BY <2>1, <2>3, SumFacts
  <2> PICK sum, k : sum = g[ProposalsOf(s)] /\ k = Cardinality(ProposalsOf(s))
    OBVIOUS
  <2> DEFINE power == 2 ^ (failures + (a + t))
  <2>7. (1 + failures) * ((1 + a) * (1 + t)) <= power /\ power \in Nat
    BY <1>1, <1>3, ProductsStaySmall
  <2> HIDE DEF power
  <2>8. sum <= power
    <3> PICK x, y, z : x = 1 + failures /\ y = 1 + a /\ z = 1 + t
      OBVIOUS
    <3>1. /\ x \in Nat /\ y \in Nat /\ z \in Nat /\ k \in Nat /\ k <= x * y /\ sum <= k * z
          /\ x * (y * z) <= power /\ sum \in Int
      BY <1>1, <1>3, <2>1, <2>5, <2>6, <2>7
    <3>2. x * y \in Nat /\ k * z \in Nat
      BY <3>1
    <3>3. k * z <= (x * y) * z /\ (x * y) * z \in Nat
      BY <3>1, <3>2, Products
    <3>4. (x * y) * z = x * (y * z)
      BY <3>1
    <3> QED
      BY <2>7, <3>1, <3>2, <3>3, <3>4
  <2>9. power = 2 ^ (failures + restarts)
    BY <1>3 DEF power
  <2> QED
    BY <2>3, <2>8, <2>9
<1> QED
  BY <1>4, <1>5, <1>7, <1>8 DEF AmplificationIsBounded, AttemptsOf, ProposalsOf

-----------------------------------------------------------------------------
(* What an allocation adds up to                                           *)

\* A sum over some of three devices, written out.
LEMMA SumOfThree ==
  ASSUME NEW a, NEW b, NEW c, a # b, b # c, a # c,
         NEW S, \A x \in S : x = a \/ x = b \/ x = c, NEW F \in [S -> Int], NEW g, IsSum(F, S, g)
  PROVE  g[S] = (IF a \in S THEN F[a] ELSE 0) + ((IF b \in S THEN F[b] ELSE 0)
                + (IF c \in S THEN F[c] ELSE 0))
<1>1. IsFiniteSet(S)
  <2>1. IsFiniteSet({a} \cup {b} \cup {c})
    BY FS_Singleton, FS_Union
  <2>2. S \in SUBSET ({a} \cup {b} \cup {c})
    OBVIOUS
  <2> QED
    BY <2>1, <2>2, FS_Subset
<1>2. /\ g[{}] = 0 /\ \A T \in SUBSET S : g[T] \in Int
      /\ \A T \in SUBSET S : \A x \in T : g[T] = F[x] + g[T \ {x}]
  BY <1>1, SumFacts
<1>3. ASSUME NEW T \in SUBSET S, NEW x
      PROVE  g[T] = (IF x \in T THEN F[x] ELSE 0) + g[T \ {x}]
  <2>1. CASE x \in T
    <3>1. g[T] = F[x] + g[T \ {x}]
      BY <1>2, <2>1, Zenon
    <3> QED
      BY <2>1, <3>1, Zenon
  <2>2. CASE x \notin T
    <3>1. T \ {x} = T
      BY <2>2
    <3>2. g[T] \in Int
      BY <1>2
    <3>3. g[T] = 0 + g[T]
      BY <3>2
    <3> QED
      BY <2>2, <3>1, <3>3, Zenon
  <2> QED
    BY <2>1, <2>2, Zenon
<1> DEFINE A == S \ {a}
           B == A \ {b}
<1>4. A \in SUBSET S /\ B \in SUBSET S /\ B \ {c} = {} /\ (b \in A <=> b \in S) /\ (c \in B <=> c \in S)
  OBVIOUS
<1>5. g[S] = (IF a \in S THEN F[a] ELSE 0) + g[A]
  BY <1>3, Zenon
<1>6. g[A] = (IF b \in A THEN F[b] ELSE 0) + g[B]
  BY <1>3, <1>4, Zenon
<1>7. g[B] = (IF c \in B THEN F[c] ELSE 0) + g[B \ {c}]
  BY <1>3, <1>4, Zenon
<1> HIDE DEF A, B
<1>8. \A x \in S : F[x] \in Int
  OBVIOUS
<1>9. g[B] = (IF c \in S THEN F[c] ELSE 0)
  <2>1. (IF c \in S THEN F[c] ELSE 0) \in Int
    BY <1>8
  <2>2. g[B] = (IF c \in S THEN F[c] ELSE 0) + 0
    BY <1>2, <1>4, <1>7, Zenon
  <2> QED
    BY <2>1, <2>2
<1> QED
  BY <1>4, <1>5, <1>6, <1>9, Zenon

\* The folds of the allocation as the sums that the lemmas are about.
SharesOf(shares, S) == MapThenSumSet(LAMBDA i : shares[i], S)

Proportions(S, target, total) == MapThenSumSet(LAMBDA i : Proportional(i, target, total), S)

LEMMA SumOfLoads ==
  ASSUME NEW S, IsFiniteSet(S), \A i \in S : Load(i) \in Int
  PROVE  \E F \in [S -> Int] : \E g :
           /\ \A i \in S : F[i] = Load(i)
           /\ IsSum(F, S, g)
           /\ getTotalControllableLoadKw(S) = g[S]
<1> DEFINE F == [i \in S |-> Load(i)]
           lhs(g) == [T \in SUBSET S |->
                        IF T = {} THEN 0
                        ELSE F[CHOOSE x \in T : TRUE] + g[T \ {CHOOSE x \in T : TRUE}]]
           rhs(g) == [T \in SUBSET S |->
                        IF T = {} THEN 0
                        ELSE Load(CHOOSE x \in T : TRUE) + g[T \ {CHOOSE x \in T : TRUE}]]
           sum == CHOOSE g : g = rhs(g)
<1>1. F \in [S -> Int] /\ \A i \in S : F[i] = Load(i)
  OBVIOUS
<1>2. \A T \in SUBSET S : T # {} => (CHOOSE x \in T : TRUE) \in S
  OBVIOUS
<1>3. PICK h : IsSum(F, S, h)
  <2> HIDE DEF F
  <2> QED
    BY <1>1, SumExists
<1>4. getTotalControllableLoadKw(S) = sum[S]
  BY Zenon DEF getTotalControllableLoadKw, MapThenSumSet, MapThenFoldSet
<1>5. \A g : lhs(g) = rhs(g)
  <2> HIDE DEF F
  <2> SUFFICES ASSUME NEW g
               PROVE  lhs(g) = rhs(g)
    OBVIOUS
  <2>1. ASSUME NEW T \in SUBSET S
        PROVE  (IF T = {} THEN 0
                ELSE F[CHOOSE x \in T : TRUE] + g[T \ {CHOOSE x \in T : TRUE}])
               = (IF T = {} THEN 0
                  ELSE Load(CHOOSE x \in T : TRUE) + g[T \ {CHOOSE x \in T : TRUE}])
    <3>1. T # {} => F[CHOOSE x \in T : TRUE] = Load(CHOOSE x \in T : TRUE)
      BY <1>1, <1>2, Zenon
    <3> QED
      BY <3>1, Zenon
  <2> QED
    BY <2>1, Zenon
<1>6. \A g : IsSum(F, S, g) <=> g = rhs(g)
  <2>1. \A g : IsSum(F, S, g) <=> g = lhs(g)
    BY Zenon DEF IsSum
  <2> HIDE DEF lhs, rhs, F
  <2> QED
    BY <1>5, <2>1, Zenon
<1>7. IsSum(F, S, sum)
  <2> HIDE DEF F, rhs
  <2> QED
    BY <1>3, <1>6, Zenon
<1> HIDE DEF F, sum
<1> QED
  BY <1>1, <1>4, <1>7

LEMMA SumOfProportions ==
  ASSUME NEW S, IsFiniteSet(S), NEW target, NEW total,
         \A i \in S : Proportional(i, target, total) \in Int
  PROVE  \E F \in [S -> Int] : \E g :
           /\ \A i \in S : F[i] = Proportional(i, target, total)
           /\ IsSum(F, S, g)
           /\ Proportions(S, target, total) = g[S]
<1> DEFINE F == [i \in S |-> Proportional(i, target, total)]
           lhs(g) == [T \in SUBSET S |->
                        IF T = {} THEN 0
                        ELSE F[CHOOSE x \in T : TRUE] + g[T \ {CHOOSE x \in T : TRUE}]]
           rhs(g) == [T \in SUBSET S |->
                        IF T = {} THEN 0
                        ELSE Proportional(CHOOSE x \in T : TRUE, target, total) + g[T \ {CHOOSE x \in T : TRUE}]]
           sum == CHOOSE g : g = rhs(g)
<1>1. F \in [S -> Int] /\ \A i \in S : F[i] = Proportional(i, target, total)
  OBVIOUS
<1>2. \A T \in SUBSET S : T # {} => (CHOOSE x \in T : TRUE) \in S
  OBVIOUS
<1>3. PICK h : IsSum(F, S, h)
  <2> HIDE DEF F
  <2> QED
    BY <1>1, SumExists
<1>4. Proportions(S, target, total) = sum[S]
  BY Zenon DEF Proportions, MapThenSumSet, MapThenFoldSet
<1>5. \A g : lhs(g) = rhs(g)
  <2> HIDE DEF F
  <2> SUFFICES ASSUME NEW g
               PROVE  lhs(g) = rhs(g)
    OBVIOUS
  <2>1. ASSUME NEW T \in SUBSET S
        PROVE  (IF T = {} THEN 0
                ELSE F[CHOOSE x \in T : TRUE] + g[T \ {CHOOSE x \in T : TRUE}])
               = (IF T = {} THEN 0
                  ELSE Proportional(CHOOSE x \in T : TRUE, target, total) + g[T \ {CHOOSE x \in T : TRUE}])
    <3>1. T # {} => F[CHOOSE x \in T : TRUE] = Proportional(CHOOSE x \in T : TRUE, target, total)
      BY <1>1, <1>2, Zenon
    <3> QED
      BY <3>1, Zenon
  <2> QED
    BY <2>1, Zenon
<1>6. \A g : IsSum(F, S, g) <=> g = rhs(g)
  <2>1. \A g : IsSum(F, S, g) <=> g = lhs(g)
    BY Zenon DEF IsSum
  <2> HIDE DEF lhs, rhs, F
  <2> QED
    BY <1>5, <2>1, Zenon
<1>7. IsSum(F, S, sum)
  <2> HIDE DEF F, rhs
  <2> QED
    BY <1>3, <1>6, Zenon
<1> HIDE DEF F, sum
<1> QED
  BY <1>1, <1>4, <1>7

LEMMA SumOfShares ==
  ASSUME NEW S, IsFiniteSet(S), NEW shares, \A i \in S : shares[i] \in Int
  PROVE  \E F \in [S -> Int] : \E g :
           /\ \A i \in S : F[i] = shares[i]
           /\ IsSum(F, S, g)
           /\ SharesOf(shares, S) = g[S]
<1> DEFINE F == [i \in S |-> shares[i]]
           lhs(g) == [T \in SUBSET S |->
                        IF T = {} THEN 0
                        ELSE F[CHOOSE x \in T : TRUE] + g[T \ {CHOOSE x \in T : TRUE}]]
           rhs(g) == [T \in SUBSET S |->
                        IF T = {} THEN 0
                        ELSE shares[CHOOSE x \in T : TRUE] + g[T \ {CHOOSE x \in T : TRUE}]]
           sum == CHOOSE g : g = rhs(g)
<1>1. F \in [S -> Int] /\ \A i \in S : F[i] = shares[i]
  OBVIOUS
<1>2. \A T \in SUBSET S : T # {} => (CHOOSE x \in T : TRUE) \in S
  OBVIOUS
<1>3. PICK h : IsSum(F, S, h)
  <2> HIDE DEF F
  <2> QED
    BY <1>1, SumExists
<1>4. SharesOf(shares, S) = sum[S]
  BY Zenon DEF SharesOf, MapThenSumSet, MapThenFoldSet
<1>5. \A g : lhs(g) = rhs(g)
  <2> HIDE DEF F
  <2> SUFFICES ASSUME NEW g
               PROVE  lhs(g) = rhs(g)
    OBVIOUS
  <2>1. ASSUME NEW T \in SUBSET S
        PROVE  (IF T = {} THEN 0
                ELSE F[CHOOSE x \in T : TRUE] + g[T \ {CHOOSE x \in T : TRUE}])
               = (IF T = {} THEN 0
                  ELSE shares[CHOOSE x \in T : TRUE] + g[T \ {CHOOSE x \in T : TRUE}])
    <3>1. T # {} => F[CHOOSE x \in T : TRUE] = shares[CHOOSE x \in T : TRUE]
      BY <1>1, <1>2, Zenon
    <3> QED
      BY <3>1, Zenon
  <2> QED
    BY <2>1, Zenon
<1>6. \A g : IsSum(F, S, g) <=> g = rhs(g)
  <2>1. \A g : IsSum(F, S, g) <=> g = lhs(g)
    BY Zenon DEF IsSum
  <2> HIDE DEF lhs, rhs, F
  <2> QED
    BY <1>5, <2>1, Zenon
<1>7. IsSum(F, S, sum)
  <2> HIDE DEF F, rhs
  <2> QED
    BY <1>3, <1>6, Zenon
<1> HIDE DEF F, sum
<1> QED
  BY <1>1, <1>4, <1>7

LEMMA RegistryFacts ==
  /\ DOMAIN DEVICES = {1, 2, 3} /\ IsFiniteSet(DOMAIN DEVICES) /\ IsFiniteSet({1, 2})
  /\ Load(1) = 1500 /\ Load(2) = 7400 /\ Load(3) = 3200
  /\ getTotalControllableLoadKw(DOMAIN DEVICES) = 12100
  /\ Max(DOMAIN DEVICES) = 3
<1>1. DOMAIN DEVICES = {1, 2, 3}
  BY DEF DEVICES
<1>2. Load(1) = 1500 /\ Load(2) = 7400 /\ Load(3) = 3200
  BY DEF Load, DEVICES
<1>3. IsFiniteSet(DOMAIN DEVICES) /\ IsFiniteSet({1, 2})
  <2>1. /\ IsFiniteSet({1} \cup {2}) /\ IsFiniteSet({1} \cup {2} \cup {3})
    BY FS_Singleton, FS_Union
  <2>2. {1} \cup {2} = {1, 2} /\ {1} \cup {2} \cup {3} = DOMAIN DEVICES
    BY <1>1
  <2> QED
    BY <2>1, <2>2
<1>4. Max(DOMAIN DEVICES) = 3
  <2>1. \A x : (x \in DOMAIN DEVICES /\ \A y \in DOMAIN DEVICES : x >= y) <=> x = 3
    BY <1>1
  <2> QED
    BY <2>1 DEF Max
<1>5. getTotalControllableLoadKw(DOMAIN DEVICES) = 12100
  <2> DEFINE S == DOMAIN DEVICES
  <2> HIDE DEF S
  <2>1. IsFiniteSet(S) /\ \A i \in S : Load(i) \in Int
    BY <1>1, <1>2, <1>3 DEF S
  <2>2. PICK F \in [S -> Int] : \E g :
          /\ \A i \in S : F[i] = Load(i)
          /\ IsSum(F, S, g)
          /\ getTotalControllableLoadKw(S) = g[S]
    BY <2>1, SumOfLoads
  <2>3. PICK g : IsSum(F, S, g) /\ getTotalControllableLoadKw(S) = g[S]
    BY <2>2
  <2>4. g[S] = (IF 1 \in S THEN F[1] ELSE 0) + ((IF 2 \in S THEN F[2] ELSE 0)
               + (IF 3 \in S THEN F[3] ELSE 0))
    <3> PICK a : a = 1
      OBVIOUS
    <3> PICK b : b = 2
      OBVIOUS
    <3> PICK c : c = 3
      OBVIOUS
    <3>1. a # b /\ b # c /\ a # c /\ \A x \in S : x = a \/ x = b \/ x = c
      BY <1>1 DEF S
    <3>2. g[S] = (IF a \in S THEN F[a] ELSE 0) + ((IF b \in S THEN F[b] ELSE 0)
                 + (IF c \in S THEN F[c] ELSE 0))
      BY <2>2, <2>3, <3>1, SumOfThree
    <3> QED
      BY <3>2
  <2>5. F[1] = 1500 /\ F[2] = 7400 /\ F[3] = 3200
    BY <1>1, <1>2, <2>2 DEF S
  <2> QED
    BY <1>1, <2>3, <2>4, <2>5 DEF S
<1> QED
  BY <1>1, <1>2, <1>3, <1>4, <1>5

\* The two rounded shares leave the last device an amount that it has.
LEMMA Rounding ==
  ASSUME NEW t \in Nat, 0 < t, t <= 12100, NEW p, p = (3000 * t + 12100) \div 24200,
         NEW q, q = (14800 * t + 12100) \div 24200
  PROVE  /\ p \in Nat /\ p <= 1500 /\ q \in Nat /\ q <= 7400
         /\ t - (p + q) \in Nat /\ t - (p + q) <= 3200
         /\ t >= 1000 => p > 0 /\ q > 0 /\ t - (p + q) > 0
<1>1. p \in Int /\ 24200 * p <= 3000 * t + 12100 /\ 3000 * t + 12100 < 24200 * p + 24200
  OBVIOUS
<1>2. q \in Int /\ 24200 * q <= 14800 * t + 12100 /\ 14800 * t + 12100 < 24200 * q + 24200
  OBVIOUS
<1>3. p <= 1500 /\ 0 <= p
  BY <1>1
<1>4. q <= 7400 /\ 0 <= q
  BY <1>2
<1>5. t - (p + q) \in Int /\ 0 <= t - (p + q) /\ t - (p + q) <= 3200
  BY <1>1, <1>2
<1>6. t >= 1000 => p > 0 /\ q > 0 /\ t - (p + q) > 0
  BY <1>1, <1>2
<1> QED
  BY <1>1, <1>2, <1>3, <1>4, <1>5, <1>6

LEMMA ProportionFacts ==
  ASSUME NEW t \in Nat, 0 < t, t <= 12100
  PROVE  /\ Proportional(1, t, 12100) = (3000 * t + 12100) \div 24200
         /\ Proportional(2, t, 12100) = (14800 * t + 12100) \div 24200
         /\ Remaining(DOMAIN DEVICES, t, 12100)
            = t - (Proportional(1, t, 12100) + Proportional(2, t, 12100))
<1>1. Least(1500 * 12100, t * 1500) = t * 1500 /\ Least(7400 * 12100, t * 7400) = t * 7400
  BY DEF Least
<1>2. /\ roundKw(t * 1500, 12100) = (3000 * t + 12100) \div 24200
      /\ roundKw(t * 7400, 12100) = (14800 * t + 12100) \div 24200
  <2>1. 2 * (t * 1500) = 3000 * t /\ 2 * (t * 7400) = 14800 * t /\ 2 * 12100 = 24200
    OBVIOUS
  <2> QED
    BY <2>1 DEF roundKw
<1>3. /\ Proportional(1, t, 12100) = (3000 * t + 12100) \div 24200
      /\ Proportional(2, t, 12100) = (14800 * t + 12100) \div 24200
  BY <1>1, <1>2, RegistryFacts DEF Proportional
<1>4. Proportional(1, t, 12100) \in Int /\ Proportional(2, t, 12100) \in Int
  BY <1>3
<1> DEFINE S == {1, 2}
<1>5. Proportions(S, t, 12100) = Proportional(1, t, 12100) + Proportional(2, t, 12100)
  <2> HIDE DEF S
  <2> PICK total : total = 12100
    OBVIOUS
  <2>1. IsFiniteSet(S) /\ \A i \in S : Proportional(i, t, total) \in Int
    BY <1>4, RegistryFacts DEF S
  <2>2. PICK F \in [S -> Int] : \E g :
          /\ \A i \in S : F[i] = Proportional(i, t, total)
          /\ IsSum(F, S, g)
          /\ Proportions(S, t, total) = g[S]
    BY <2>1, SumOfProportions
  <2>3. PICK g : IsSum(F, S, g) /\ Proportions(S, t, total) = g[S]
    BY <2>2
  <2>4. g[S] = (IF 1 \in S THEN F[1] ELSE 0) + ((IF 2 \in S THEN F[2] ELSE 0)
               + (IF 3 \in S THEN F[3] ELSE 0))
    <3> PICK a : a = 1
      OBVIOUS
    <3> PICK b : b = 2
      OBVIOUS
    <3> PICK c : c = 3
      OBVIOUS
    <3>1. a # b /\ b # c /\ a # c /\ \A x \in S : x = a \/ x = b \/ x = c
      BY DEF S
    <3>2. g[S] = (IF a \in S THEN F[a] ELSE 0) + ((IF b \in S THEN F[b] ELSE 0)
                 + (IF c \in S THEN F[c] ELSE 0))
      BY <2>2, <2>3, <3>1, SumOfThree
    <3> QED
      BY <3>2
  <2>5. F[1] = Proportional(1, t, 12100) /\ F[2] = Proportional(2, t, 12100)
    BY <2>2 DEF S
  <2>6. 1 \in S /\ 2 \in S /\ 3 \notin S
    BY DEF S
  <2> QED
    BY <1>4, <2>3, <2>4, <2>5, <2>6
<1>6. DOMAIN DEVICES \ {Max(DOMAIN DEVICES)} = S
  BY RegistryFacts
<1>7. Remaining(DOMAIN DEVICES, t, 12100) = t - Proportions(S, t, 12100)
  <2> DEFINE D == DOMAIN DEVICES
  <2> HIDE DEF D, S
  <2>1. Remaining(D, t, 12100) = t - Proportions(D \ {Max(D)}, t, 12100)
    BY DEF Remaining, Proportions
  <2>2. D \ {Max(D)} = S
    BY <1>6 DEF D
  <2>3. Remaining(D, t, 12100) = t - Proportions(S, t, 12100)
    BY <2>1, <2>2

  <2> QED
    BY <2>3 DEF D
<1> QED
  BY <1>3, <1>5, <1>7

LEMMA TargetFacts ==
  ASSUME NEW t \in Nat, 0 < t, t <= 12100
  PROVE  /\ Proportional(1, t, 12100) \in Nat /\ Proportional(1, t, 12100) <= 1500
         /\ Proportional(2, t, 12100) \in Nat /\ Proportional(2, t, 12100) <= 7400
         /\ Remaining(DOMAIN DEVICES, t, 12100) \in Nat
         /\ Remaining(DOMAIN DEVICES, t, 12100) <= 3200
         /\ Remaining(DOMAIN DEVICES, t, 12100)
            = t - (Proportional(1, t, 12100) + Proportional(2, t, 12100))
         /\ t >= 1000 => /\ Proportional(1, t, 12100) > 0 /\ Proportional(2, t, 12100) > 0
                         /\ Remaining(DOMAIN DEVICES, t, 12100) > 0
<1> PICK p : p = (3000 * t + 12100) \div 24200
  OBVIOUS
<1> PICK q : q = (14800 * t + 12100) \div 24200
  OBVIOUS
<1>1. /\ p \in Nat /\ p <= 1500 /\ q \in Nat /\ q <= 7400
      /\ t - (p + q) \in Nat /\ t - (p + q) <= 3200
      /\ t >= 1000 => p > 0 /\ q > 0 /\ t - (p + q) > 0
  BY Rounding
<1>2. Proportional(1, t, 12100) = p /\ Proportional(2, t, 12100) = q
  BY ProportionFacts
<1>3. Remaining(DOMAIN DEVICES, t, 12100) = t - (p + q)
  BY <1>2, ProportionFacts
<1> QED
  BY <1>1, <1>2, <1>3

\* The allocation of any amount: what it asks of each device, and of all of them.
LEMMA AllocationFacts ==
  ASSUME NEW requested \in Nat \ {0}, NEW shares,
         shares = allocateReduction(DOMAIN DEVICES, requested)
  PROVE  /\ DOMAIN shares \subseteq DOMAIN DEVICES
         /\ \A i \in DOMAIN shares : shares[i] \in Nat /\ shares[i] <= Load(i)
         /\ SharesOf(shares, DOMAIN shares) = Least(requested, 12100)
         /\ requested >= 1000 => DOMAIN shares = DOMAIN DEVICES
<1> PICK t : t = Least(requested, 12100)
  OBVIOUS
<1>1. t \in Nat /\ 0 < t /\ t <= 12100 /\ (requested >= 1000 => t >= 1000)
  BY DEF Least
<1> PICK p : p = Proportional(1, t, 12100)
  OBVIOUS
<1> PICK q : q = Proportional(2, t, 12100)
  OBVIOUS
<1> PICK r : r = Remaining(DOMAIN DEVICES, t, 12100)
  OBVIOUS
<1>2. r = t - (p + q)
  BY <1>1, TargetFacts
<1>3. /\ p \in Nat /\ p <= 1500 /\ q \in Nat /\ q <= 7400 /\ r \in Nat /\ r <= 3200
      /\ requested >= 1000 => p > 0 /\ q > 0 /\ r > 0
  BY <1>1, TargetFacts
<1> DEFINE devices == DOMAIN DEVICES
           share(i) == IF i # Max(devices) THEN Proportional(i, t, 12100)
                       ELSE IF r < 0 THEN 0 ELSE Least(Load(i), r)
           given == {j \in devices : share(j) > 0}
<1>4. shares = [i \in given |-> share(i)]
  <2>1. getTotalControllableLoadKw(devices) = 12100
    BY RegistryFacts
  <2> DEFINE K == getTotalControllableLoadKw(devices)
             raw(i) == IF i # Max(devices) THEN Proportional(i, Least(requested, K), K)
                       ELSE IF Remaining(devices, Least(requested, K), K) < 0 THEN 0
                       ELSE Least(Load(i), Remaining(devices, Least(requested, K), K))
  <2>2. shares = [i \in {j \in devices : raw(j) > 0} |-> raw(i)]
    BY DEF allocateReduction
  <2>3. K = 12100 /\ Least(requested, K) = t /\ Remaining(devices, Least(requested, K), K) = r
    BY <2>1
  <2>4. ASSUME NEW i
        PROVE  raw(i) = share(i)
    <3> HIDE DEF K, devices
    <3> QED
      BY <2>3
  <2> HIDE DEF raw, share
  <2> QED
    BY <2>2, <2>4
<1>5. share(1) = p /\ share(2) = q /\ share(3) = r
  <2>1. Max(devices) = 3 /\ Load(3) = 3200
    BY RegistryFacts
  <2> HIDE DEF devices
  <2>2. share(1) = Proportional(1, t, 12100) /\ share(2) = Proportional(2, t, 12100)
    BY <2>1
  <2>3. share(3) = IF r < 0 THEN 0 ELSE Least(Load(3), r)
    BY <2>1
  <2>4. (IF r < 0 THEN 0 ELSE Least(Load(3), r)) = r
    <3>1. r \in Int /\ 0 <= r /\ r <= 3200
      BY <1>3
    <3>2. ~(r < 0) /\ (3200 < r => FALSE) /\ (~(3200 < r))
      BY <3>1
    <3>3. Least(Load(3), r) = IF 3200 < r THEN 3200 ELSE r
      BY <2>1 DEF Least
    <3> QED
      BY <3>1, <3>2, <3>3
  <2> HIDE DEF share
  <2> QED
    BY <2>2, <2>3, <2>4
<1>6. devices = {1, 2, 3}
  BY RegistryFacts
<1> HIDE DEF share, devices
<1>7. /\ (1 \in given <=> p > 0) /\ (2 \in given <=> q > 0) /\ (3 \in given <=> r > 0)
      /\ \A i \in given : i = 1 \/ i = 2 \/ i = 3
  BY <1>5, <1>6
<1>8. /\ DOMAIN shares = given
      /\ \A i \in given : \/ i = 1 /\ shares[i] = p
                          \/ i = 2 /\ shares[i] = q
                          \/ i = 3 /\ shares[i] = r
  BY <1>4, <1>5, <1>7
<1>9. given \subseteq devices
  OBVIOUS
<1> HIDE DEF given
<1>10. \A i \in given : shares[i] \in Nat /\ shares[i] <= Load(i)
  <2> SUFFICES ASSUME NEW i \in given
               PROVE  shares[i] \in Nat /\ shares[i] <= Load(i)
    OBVIOUS
  <2>1. /\ p \in Nat /\ p <= 1500 /\ q \in Nat /\ q <= 7400 /\ r \in Nat /\ r <= 3200
    BY <1>3
  <2>2. Load(1) = 1500 /\ Load(2) = 7400 /\ Load(3) = 3200
    BY RegistryFacts
  <2>3. \/ shares[i] = p /\ Load(i) = 1500
        \/ shares[i] = q /\ Load(i) = 7400
        \/ shares[i] = r /\ Load(i) = 3200
    BY <1>8, <2>2
  <2> QED
    BY <2>1, <2>3
<1>11. SharesOf(shares, given) = t
  <2>1. IsFiniteSet(given)
    BY <1>9, RegistryFacts, FS_Subset DEF devices
  <2>2. PICK F \in [given -> Int] : \E g :
          /\ \A i \in given : F[i] = shares[i]
          /\ IsSum(F, given, g)
          /\ SharesOf(shares, given) = g[given]
    BY <1>10, <2>1, SumOfShares
  <2>3. PICK g : IsSum(F, given, g) /\ SharesOf(shares, given) = g[given]
    BY <2>2
  <2> PICK a : a = 1
    OBVIOUS
  <2> PICK b : b = 2
    OBVIOUS
  <2> PICK c : c = 3
    OBVIOUS
  <2>4. a # b /\ b # c /\ a # c /\ \A x \in given : x = a \/ x = b \/ x = c
    BY <1>7
  <2>5. g[given] = (IF a \in given THEN F[a] ELSE 0) + ((IF b \in given THEN F[b] ELSE 0)
                   + (IF c \in given THEN F[c] ELSE 0))
    BY <2>2, <2>3, <2>4, SumOfThree
  <2>8. (p > 0 \/ p = 0) /\ (q > 0 \/ q = 0) /\ (r > 0 \/ r = 0)
    BY <1>3
  <2>9. /\ a \in given => F[a] = p
        /\ b \in given => F[b] = q
        /\ c \in given => F[c] = r
    BY <1>8, <2>2
  <2>6. /\ (IF a \in given THEN F[a] ELSE 0) = p
        /\ (IF b \in given THEN F[b] ELSE 0) = q
        /\ (IF c \in given THEN F[c] ELSE 0) = r
    BY <1>7, <2>8, <2>9
  <2>7. g[given] = p + (q + r)
    BY <2>5, <2>6
  <2> QED
    BY <1>1, <1>2, <1>3, <2>3, <2>7
<1>12. requested >= 1000 => given = devices
  BY <1>3, <1>6, <1>7
<1> QED
  BY <1>8, <1>9, <1>10, <1>11, <1>12 DEF devices

LEMMA AllocationFollows == AllocationMeetsRequest
<1> SUFFICES ASSUME NEW requested \in 1..(getTotalControllableLoadKw(DOMAIN DEVICES) + 10)
             PROVE  LET total == getTotalControllableLoadKw(DOMAIN DEVICES)
                        shares == allocateReduction(DOMAIN DEVICES, requested)
                    IN  /\ MapThenSumSet(LAMBDA i : shares[i], DOMAIN shares) = Least(requested, total)
                        /\ \A i \in DOMAIN shares : shares[i] <= Load(i)
  BY Zenon DEF AllocationMeetsRequest
<1> PICK total : total = getTotalControllableLoadKw(DOMAIN DEVICES)
  OBVIOUS
<1> DEFINE shares == allocateReduction(DOMAIN DEVICES, requested)
<1>1. total = 12100 /\ requested \in Nat \ {0}
  BY RegistryFacts
<1> HIDE DEF shares
<1>2. /\ SharesOf(shares, DOMAIN shares) = Least(requested, 12100)
      /\ \A i \in DOMAIN shares : shares[i] <= Load(i)
  BY <1>1, AllocationFacts DEF shares
<1>3. MapThenSumSet(LAMBDA i : shares[i], DOMAIN shares) = Least(requested, total)
  BY <1>1, <1>2 DEF SharesOf
<1> QED
  BY <1>2, <1>3 DEF shares

-----------------------------------------------------------------------------
(* What the stages make of a valid signal                                  *)

LEMMA FirstOfGiven ==
  ASSUME NEW a, a # Missing, NEW b
  PROVE  FirstOf(<<a, b>>) = a
<1> DEFINE given == {i \in DOMAIN <<a, b>> : <<a, b>>[i] # Missing}
           first == CHOOSE i \in given : \A j \in given : i <= j
<1>1. 1 \in given /\ \A i \in given : i = 1 \/ i = 2
  OBVIOUS
<1>2. first \in given /\ \A j \in given : first <= j
  <2> HIDE DEF given
  <2>1. \E i \in given : \A j \in given : i <= j
    BY <1>1
  <2> QED
    BY <2>1
<1>3. first = 1
  <2> HIDE DEF given, first
  <2> QED
    BY <1>1, <1>2
<1>4. FirstOf(<<a, b>>) = <<a, b>>[first]
  <2>1. given # {}
    BY <1>1
  <2> QED
    BY <2>1, Zenon DEF FirstOf
<1> HIDE DEF first
<1> QED
  BY <1>3, <1>4

LEMMA ProposalFacts ==
  ASSUME NEW body, validateGridSignal(body),
         NEW event, event = translateGridSignal(body),
         NEW proposal, proposal = createDispatchProposal(extractGridSignal(event))
  PROVE  /\ validateGridSignalEvent(event)
         /\ proposal.community_id = body.community_id
         /\ proposal.requested_action = body.requested_action
         /\ proposal.proposed_action = getActionRule(body.requested_action)
         /\ proposal.target_kw = SEVERITY_TARGET_KW[body.severity]
         /\ proposal.correlation_id = body.signal_id
         /\ buildRejectedAudit(event).correlation_id = body.signal_id
<1> PICK s : s = body.signal_id
  OBVIOUS
<1> PICK c : c = body.community_id
  OBVIOUS
<1>1. /\ s # Missing /\ c # Missing /\ body.severity # Missing
      /\ body.requested_action \in GRID_SIGNAL_ACTIONS /\ body.severity \in GRID_SIGNAL_SEVERITIES
      /\ body.start_time # NoTime /\ body.end_time # NoTime /\ body.end_time > body.start_time
  BY DEF validateGridSignal, RequiredStrings
<1>2. /\ event.correlation_id = s /\ event.community_id = c
      /\ event.ieee20305_payload.community = c
      /\ event.ieee20305_payload.signal.id = s
      /\ event.ieee20305_payload.signal.severity = body.severity
      /\ event.ieee20305_payload.signal.requested_action = body.requested_action
      /\ event.ieee20305_payload.signal.start_time = body.start_time
      /\ event.ieee20305_payload.signal.end_time = body.end_time
  BY DEF translateGridSignal
<1> PICK signal : signal = extractGridSignal(event)
  OBVIOUS
<1>3. /\ signal.signal_id = FirstOf(<<s, s>>) /\ signal.community_id = FirstOf(<<c, c>>)
      /\ signal.severity = body.severity /\ signal.requested_action = body.requested_action
      /\ signal.start_time = body.start_time /\ signal.end_time = body.end_time
      /\ signal.correlation_id = FirstOf(<<s, s>>)
  BY <1>2 DEF extractGridSignal
<1>4. FirstOf(<<s, s>>) = s /\ FirstOf(<<c, c>>) = c
  BY <1>1, FirstOfGiven
<1>5. validateGridSignalEvent(event)
  BY <1>1, <1>3, <1>4 DEF validateGridSignalEvent, GRID_SIGNAL_ACTIONS, VALID_REQUESTED_ACTIONS
<1>6. body.severity \in DOMAIN SEVERITY_TARGET_KW
  BY <1>1 DEF GRID_SIGNAL_SEVERITIES, SEVERITY_TARGET_KW
<1>7. /\ proposal.community_id = signal.community_id
      /\ proposal.requested_action = signal.requested_action
      /\ proposal.proposed_action = getActionRule(signal.requested_action)
      /\ proposal.target_kw = getTargetKwForSeverity(signal.severity)
      /\ proposal.correlation_id = FirstOf(<<signal.correlation_id, signal.signal_id>>)
  BY DEF createDispatchProposal
<1>8. getTargetKwForSeverity(body.severity) = SEVERITY_TARGET_KW[body.severity]
  BY <1>6, Zenon DEF getTargetKwForSeverity, normalizeSeverity
<1>9. buildRejectedAudit(event).correlation_id = FirstOf(<<s, FirstOf(<<s, s>>)>>)
  BY <1>2 DEF buildRejectedAudit
<1> QED
  BY <1>3, <1>4, <1>5, <1>7, <1>8, <1>9

LEMMA TargetsOfSeverities ==
  ASSUME NEW severity \in GRID_SIGNAL_SEVERITIES
  PROVE  SEVERITY_TARGET_KW[severity] \in Nat /\ SEVERITY_TARGET_KW[severity] >= 1000
BY DEF GRID_SIGNAL_SEVERITIES, SEVERITY_TARGET_KW

\* The devices of the one community of the registry.
LEMMA ScopeFacts ==
  ASSUME NEW c
  PROVE  /\ findDevicesForScope(c, DefaultArea) = {i \in DOMAIN DEVICES : DEVICES[i].community_id = c}
         /\ \/ findDevicesForScope(c, DefaultArea) = {}
            \/ findDevicesForScope(c, DefaultArea) = DOMAIN DEVICES
<1>1. \A i \in DOMAIN DEVICES : /\ DEVICES[i].community_id = "community-dublin-north"
                                /\ DEVICES[i].area_id = DefaultArea
  BY DEF DEVICES, DefaultArea
<1> QED
  BY <1>1 DEF findDevicesForScope

\* A device can be asked to do what an action is about exactly if that is load, and its
\* simulator knows how.
LEMMA ActionFacts ==
  ASSUME NEW i \in DOMAIN DEVICES, NEW event, NEW kw,
         event.requested_action \in GRID_SIGNAL_ACTIONS,
         event.proposed_action = getActionRule(event.requested_action)
  PROVE  LET action == getDeviceAction(DEVICES[i], event, kw) IN
         IF event.requested_action \in LoadActions
         THEN action \in DEVICES[i].supported_actions /\ action \in DOMAIN resolveSimulator(DEVICES[i])
         ELSE action \notin DEVICES[i].supported_actions
<1> PICK device : device = DEVICES[i]
  OBVIOUS
<1> PICK action : action = getDeviceAction(device, event, kw)
  OBVIOUS
<1>1. \/ /\ device.device_type = "shelly_plug" /\ device.provider = "shelly"
         /\ device.supported_actions = SHELLY_ACTIONS
      \/ /\ device.device_type = "ev_charger" /\ device.provider = "enode"
         /\ device.supported_actions = ENODE_ACTIONS
      \/ /\ device.device_type = "heat_pump" /\ device.provider = "heat_pump_simulator"
         /\ device.supported_actions = HEAT_PUMP_ACTIONS
  BY DEF DEVICES, SHELLY_ACTIONS, ENODE_ACTIONS, HEAT_PUMP_ACTIONS
<1>2. CASE event.requested_action \in LoadActions
  <2>1. CASE device.device_type = "shelly_plug"
    <3>1. action \in {"turn_off", "reduce_load"}
      BY <1>2, <2>1 DEF getDeviceAction, shellyAction
    <3>2. device.supported_actions = SHELLY_ACTIONS /\ device.provider = "shelly"
      BY <1>1, <2>1
    <3> QED
      BY <1>2, <3>1, <3>2 DEF SHELLY_ACTIONS, resolveSimulator, shellyApply
  <2>2. CASE device.device_type = "ev_charger"
    <3>1. action \in {"pause_charging", "reduce_charging_power"}
      BY <1>2, <2>2 DEF getDeviceAction, enodeAction
    <3>2. device.supported_actions = ENODE_ACTIONS /\ device.provider = "enode"
      BY <1>1, <2>2
    <3> QED
      BY <1>2, <3>1, <3>2 DEF ENODE_ACTIONS, resolveSimulator, enodeApply
  <2>3. CASE device.device_type = "heat_pump"
    <3>1. action = "reduce_load"
      BY <1>2, <2>3 DEF getDeviceAction, heatPumpAction
    <3>2. device.supported_actions = HEAT_PUMP_ACTIONS /\ device.provider = "heat_pump_simulator"
      BY <1>1, <2>3
    <3> QED
      BY <1>2, <3>1, <3>2 DEF HEAT_PUMP_ACTIONS, resolveSimulator, heatPumpApply
  <2> QED
    BY <1>1, <2>1, <2>2, <2>3
<1>3. CASE event.requested_action \notin LoadActions
  <2>1. event.proposed_action \in {"increase_pv_export_if_available", "reduce_export_limit"}
    BY <1>3 DEF GRID_SIGNAL_ACTIONS, LoadActions, getActionRule, ACTION_RULES
  <2>2. action = NoAction
    BY <1>1, <1>3, <2>1 DEF getDeviceAction, shellyAction, enodeAction, heatPumpAction
  <2>3. NoAction \notin device.supported_actions
    BY <1>1 DEF NoAction, SHELLY_ACTIONS, ENODE_ACTIONS, HEAT_PUMP_ACTIONS
  <2> QED
    BY <1>3, <2>2, <2>3
<1> QED
  BY <1>2, <1>3

LEMMA AskedFacts ==
  ASSUME NEW ready, validateReadyCommand(ready),
         ready.requested_action \in GRID_SIGNAL_ACTIONS,
         ready.proposed_action = getActionRule(ready.requested_action),
         ready.target_kw \in Nat, ready.target_kw >= 1000,
         NEW asked, asked = translateReadyCommand(ready)
  PROVE  /\ DOMAIN asked = IF ready.requested_action \in LoadActions
                           THEN {i \in DOMAIN DEVICES : DEVICES[i].community_id = ready.community_id}
                           ELSE {}
         /\ \A i \in DOMAIN asked :
              /\ asked[i].device_id = DEVICES[i].device_id
              /\ asked[i].action \in DOMAIN resolveSimulator(DEVICES[i])
              /\ asked[i].correlation_id = ready.correlation_id
<1> DEFINE devices == findDevicesForScope(ready.community_id, DefaultArea)
           shares == allocateReduction(devices, getRequestedReductionKw(ready, devices))
           action(i) == getDeviceAction(DEVICES[i], ready, shares[i])
           commands_ == [i \in DOMAIN shares |->
                           buildCommandPayload(ready, DEVICES[i], action(i), shares[i])]
<1>1. asked = IF devices = {} \/ \E i \in DOMAIN shares : action(i) \notin DEVICES[i].supported_actions
              THEN NoCommands ELSE commands_
  BY DEF translateReadyCommand
<1>2. /\ devices = {i \in DOMAIN DEVICES : DEVICES[i].community_id = ready.community_id}
      /\ devices = {} \/ devices = DOMAIN DEVICES
  BY ScopeFacts
<1>3. DOMAIN NoCommands = {}
  BY DEF NoCommands
<1>4. CASE devices = {}
  <2>1. asked = NoCommands
    BY <1>1, <1>4, Zenon
  <2> QED
    BY <1>2, <1>3, <1>4, <2>1
<1>5. CASE devices # {}
  <2>1. devices = DOMAIN DEVICES
    BY <1>2, <1>5
  <2>2. getRequestedReductionKw(ready, devices) = ready.target_kw
    BY DEF getRequestedReductionKw
  <2>3. shares = allocateReduction(DOMAIN DEVICES, ready.target_kw)
    BY <2>1, <2>2, Zenon
  <2>4. DOMAIN shares = DOMAIN DEVICES
    <3> PICK kw : kw = ready.target_kw
      OBVIOUS
    <3>1. kw \in Nat \ {0} /\ kw >= 1000
      OBVIOUS
    <3> HIDE DEF shares
    <3> QED
      BY <2>3, <3>1, AllocationFacts
  <2> HIDE DEF shares, devices
  <2>5. \A i \in DOMAIN DEVICES :
          IF ready.requested_action \in LoadActions
          THEN action(i) \in DEVICES[i].supported_actions
               /\ action(i) \in DOMAIN resolveSimulator(DEVICES[i])
          ELSE action(i) \notin DEVICES[i].supported_actions
    BY ActionFacts
  <2>6. DOMAIN commands_ = DOMAIN DEVICES /\ \A i \in DOMAIN DEVICES :
          /\ commands_[i].device_id = DEVICES[i].device_id
          /\ commands_[i].action = action(i)
          /\ commands_[i].correlation_id = ready.correlation_id
    BY <2>4 DEF buildCommandPayload
  <2> HIDE DEF action, commands_
  <2>7. CASE ready.requested_action \in LoadActions
    <3>1. asked = commands_
      BY <1>1, <1>5, <2>4, <2>5, <2>7
    <3> QED
      BY <1>2, <2>1, <2>5, <2>6, <2>7, <3>1
  <2>8. CASE ready.requested_action \notin LoadActions
    <3>1. 1 \in DOMAIN DEVICES
      BY RegistryFacts
    <3>2. asked = NoCommands
      BY <1>1, <2>4, <2>5, <2>8, <3>1
    <3> QED
      BY <1>3, <2>8, <3>2
  <2> QED
    BY <2>7, <2>8
<1> QED
  BY <1>4, <1>5

\* The audits of both branches say what they are about.
LEMMA CorrelationFacts ==
  ASSUME NEW proposal, NEW ready, ready.correlation_id = proposal.correlation_id
  PROVE  /\ buildAuditPayload(proposal, "proposed").correlation_id = proposal.correlation_id
         /\ LET mock == buildMockCommandPayload(ready) IN
            buildMockAuditRow(buildMockAudit(mock, buildMockResultPayload(mock)), mock.target).correlation_id
            = proposal.correlation_id
         /\ buildRejectedMockAuditRow(ready).correlation_id = proposal.correlation_id
         /\ buildRejectedDeviceAudit(ready).correlation_id = proposal.correlation_id
         /\ \A c : /\ buildDeviceAudit(buildResultPayload(c, TRUE)).correlation_id = c.correlation_id
                   /\ buildAuditRowFromResult(buildResultPayload(c, FALSE)).correlation_id
                      = c.correlation_id
BY DEF buildAuditPayload, buildMockAuditRow, buildMockAudit, buildMockCommandPayload,
       buildMockResultPayload, buildRejectedMockAuditRow, buildRejectedMockAudit,
       buildRejectedDeviceAudit, buildDeviceAudit, buildResultPayload, buildAuditRowFromResult

LEMMA StagesFollow == StagesAgree
<1> SUFFICES ASSUME NEW s \in DOMAIN Bodies, NEW action \in GRID_SIGNAL_ACTIONS,
                    NEW severity \in GRID_SIGNAL_SEVERITIES
             PROVE  LET body  == [Bodies[s] EXCEPT !.requested_action = action, !.severity = severity]
                        event == translateGridSignal(body)
                        proposal == createDispatchProposal(extractGridSignal(event))
                        ready == ReadyEventOf(1, proposal)
                        mock  == buildMockCommandPayload(ready)
                        asked == translateReadyCommand(ready)
                        community == {i \in DOMAIN DEVICES : DEVICES[i].community_id = body.community_id}
                        joinedBy ==
                          {buildAuditPayload(proposal, "proposed").correlation_id,
                           buildRejectedAudit(event).correlation_id,
                           buildMockAuditRow(buildMockAudit(mock, buildMockResultPayload(mock)),
                                             mock.target).correlation_id,
                           buildRejectedMockAuditRow(ready).correlation_id,
                           buildRejectedDeviceAudit(ready).correlation_id}
                          \cup {buildDeviceAudit(buildResultPayload(c, TRUE)).correlation_id :
                                  c \in Range(asked)}
                          \cup {buildAuditRowFromResult(buildResultPayload(c, FALSE)).correlation_id :
                                  c \in Range(asked)}
                    IN  validateGridSignal(body) =>
                          /\ validateGridSignalEvent(event)
                          /\ HasActionRule(proposal.proposed_action)
                          /\ {c.device_id : c \in Range(asked)} =
                               IF action \in LoadActions THEN {DEVICES[i].device_id : i \in community}
                               ELSE {}
                          /\ \A i \in DOMAIN asked : \E device \in Range(DEVICES) :
                               /\ device.device_id = asked[i].device_id
                               /\ asked[i].action \in DOMAIN resolveSimulator(device)
                          /\ joinedBy = {s}
  BY DEF StagesAgree
<1> DEFINE body  == [Bodies[s] EXCEPT !.requested_action = action, !.severity = severity]
           event == translateGridSignal(body)
           proposal == createDispatchProposal(extractGridSignal(event))
           ready == ReadyEventOf(1, proposal)
           mock  == buildMockCommandPayload(ready)
           asked == translateReadyCommand(ready)
           community == {i \in DOMAIN DEVICES : DEVICES[i].community_id = body.community_id}
           fixed == {buildAuditPayload(proposal, "proposed").correlation_id,
                     buildRejectedAudit(event).correlation_id,
                     buildMockAuditRow(buildMockAudit(mock, buildMockResultPayload(mock)),
                                       mock.target).correlation_id,
                     buildRejectedMockAuditRow(ready).correlation_id,
                     buildRejectedDeviceAudit(ready).correlation_id}
           accepted_ == {buildDeviceAudit(buildResultPayload(c, TRUE)).correlation_id :
                           c \in Range(asked)}
           refused == {buildAuditRowFromResult(buildResultPayload(c, FALSE)).correlation_id :
                         c \in Range(asked)}
<1> SUFFICES ASSUME validateGridSignal(body)
             PROVE  /\ validateGridSignalEvent(event)
                    /\ HasActionRule(proposal.proposed_action)
                    /\ {c.device_id : c \in Range(asked)} =
                         IF action \in LoadActions THEN {DEVICES[i].device_id : i \in community}
                         ELSE {}
                    /\ \A i \in DOMAIN asked : \E device \in Range(DEVICES) :
                         /\ device.device_id = asked[i].device_id
                         /\ asked[i].action \in DOMAIN resolveSimulator(device)
                    /\ fixed \cup accepted_ \cup refused = {s}
  OBVIOUS
<1>1. body.requested_action = action /\ body.severity = severity /\ body.signal_id = s
  <2>1. {"signal_id", "requested_action", "severity"} \subseteq DOMAIN Bodies[s]
        /\ Bodies[s].signal_id = s
    BY ChainAssumption DEF RequiredStrings
  <2> QED
    BY <2>1
<1>2. /\ validateGridSignalEvent(event)
      /\ proposal.community_id = body.community_id /\ proposal.requested_action = action
      /\ proposal.proposed_action = getActionRule(action)
      /\ proposal.target_kw = SEVERITY_TARGET_KW[severity]
      /\ proposal.correlation_id = s /\ buildRejectedAudit(event).correlation_id = s
  <2> PICK b, e, p : b = body /\ e = event /\ p = proposal
    OBVIOUS
  <2>1. /\ validateGridSignal(b) /\ e = translateGridSignal(b)
        /\ p = createDispatchProposal(extractGridSignal(e))
    OBVIOUS
  <2> HIDE DEF body, event, proposal
  <2>2. /\ validateGridSignalEvent(e)
        /\ p.community_id = b.community_id
        /\ p.requested_action = b.requested_action
        /\ p.proposed_action = getActionRule(b.requested_action)
        /\ p.target_kw = SEVERITY_TARGET_KW[b.severity]
        /\ p.correlation_id = b.signal_id
        /\ buildRejectedAudit(e).correlation_id = b.signal_id
    BY <2>1, ProposalFacts
  <2> QED
    BY <1>1, <2>2
<1> HIDE DEF body, event, proposal
<1>3. /\ ready.community_id = proposal.community_id
      /\ ready.requested_action = proposal.requested_action
      /\ ready.proposed_action = proposal.proposed_action
      /\ ready.target_kw = proposal.target_kw /\ ready.correlation_id = proposal.correlation_id
      /\ validateReadyCommand(ready)
  BY DEF ReadyEventOf, validateReadyCommand
<1> HIDE DEF ready
<1>4. HasActionRule(proposal.proposed_action)
  BY <1>2 DEF HasActionRule, ACTION_COMMANDS, getActionRule, ACTION_RULES, GRID_SIGNAL_ACTIONS
<1>5. /\ DOMAIN asked = IF action \in LoadActions THEN community ELSE {}
      /\ \A i \in DOMAIN asked :
           /\ asked[i].device_id = DEVICES[i].device_id
           /\ asked[i].action \in DOMAIN resolveSimulator(DEVICES[i])
           /\ asked[i].correlation_id = s
  <2>1. /\ validateReadyCommand(ready) /\ ready.requested_action = action
        /\ ready.proposed_action = getActionRule(ready.requested_action)
        /\ ready.target_kw \in Nat /\ ready.target_kw >= 1000
        /\ ready.community_id = body.community_id /\ ready.correlation_id = s
    BY <1>2, <1>3, TargetsOfSeverities
  <2>2. ready.requested_action \in GRID_SIGNAL_ACTIONS
    BY <2>1
  <2> HIDE DEF community
  <2>3. /\ DOMAIN asked = IF ready.requested_action \in LoadActions
                          THEN {i \in DOMAIN DEVICES : DEVICES[i].community_id = ready.community_id}
                          ELSE {}
        /\ \A i \in DOMAIN asked :
             /\ asked[i].device_id = DEVICES[i].device_id
             /\ asked[i].action \in DOMAIN resolveSimulator(DEVICES[i])
             /\ asked[i].correlation_id = ready.correlation_id
    BY <2>1, <2>2, AskedFacts
  <2> HIDE DEF asked
  <2>4. community = {i \in DOMAIN DEVICES : DEVICES[i].community_id = ready.community_id}
    BY <2>1 DEF community
  <2> QED
    BY <2>1, <2>3, <2>4
<1>6. \A i \in DOMAIN asked : DEVICES[i] \in Range(DEVICES)
  <2>1. DOMAIN asked \subseteq DOMAIN DEVICES
    BY <1>5
  <2> HIDE DEF asked
  <2> QED
    BY <2>1 DEF Range
<1> HIDE DEF asked, community
<1>7. \A c \in Range(asked) : c.correlation_id = s
  BY <1>5 DEF Range
<1>8. {c.device_id : c \in Range(asked)} =
        IF action \in LoadActions THEN {DEVICES[i].device_id : i \in community} ELSE {}
  <2>1. {c.device_id : c \in Range(asked)} = {DEVICES[i].device_id : i \in DOMAIN asked}
    BY <1>5 DEF Range
  <2> QED
    BY <1>5, <2>1
<1>9. fixed = {s}
  <2>1. /\ buildAuditPayload(proposal, "proposed").correlation_id = s
        /\ buildMockAuditRow(buildMockAudit(mock, buildMockResultPayload(mock)),
                             mock.target).correlation_id = s
        /\ buildRejectedMockAuditRow(ready).correlation_id = s
        /\ buildRejectedDeviceAudit(ready).correlation_id = s
    BY <1>2, <1>3, CorrelationFacts
  <2> HIDE DEF mock
  <2> QED
    BY <1>2, <2>1
<1>10. \A x \in accepted_ \cup refused : x = s
  <2>1. \A c : /\ buildDeviceAudit(buildResultPayload(c, TRUE)).correlation_id = c.correlation_id
               /\ buildAuditRowFromResult(buildResultPayload(c, FALSE)).correlation_id
                  = c.correlation_id
    BY <1>3, CorrelationFacts
  <2>2. \A c \in Range(asked) :
          /\ buildDeviceAudit(buildResultPayload(c, TRUE)).correlation_id = s
          /\ buildAuditRowFromResult(buildResultPayload(c, FALSE)).correlation_id = s
    BY <1>7, <2>1, Zenon
  <2>3. \A x \in accepted_ : x = s
    BY <2>2, Zenon
  <2>4. \A x \in refused : x = s
    BY <2>2, Zenon
  <2> HIDE DEF accepted_, refused
  <2> QED
    BY <2>3, <2>4
<1> HIDE DEF fixed, accepted_, refused
<1>11. fixed \cup accepted_ \cup refused = {s}
  BY <1>9, <1>10
<1>12. ASSUME NEW i \in DOMAIN asked
       PROVE  \E device \in Range(DEVICES) :
                /\ device.device_id = asked[i].device_id
                /\ asked[i].action \in DOMAIN resolveSimulator(device)
  BY <1>5, <1>6
<1> QED
  BY <1>2, <1>4, <1>8, <1>11, <1>12

-----------------------------------------------------------------------------
(* What the invariant says of the runs' properties                         *)

LEMMA TypeFollows == IInv => TypeOK
<1> SUFFICES ASSUME IInv
             PROVE  TypeOK
  OBVIOUS
<1>1. Cardinality(translation) = (IF pc["semantic"] = "idle" THEN 0 ELSE 1)
  <2>1. \/ translation = {} /\ pc["semantic"] = "idle"
        \/ pc["semantic"] # "idle" /\ \E e : translation = {e}
    BY DEF IInv, SemanticInv
  <2> QED
    BY <2>1, FS_EmptySet, FS_Singleton
<1>2. pc["translator"] \in {"send", "store", "result", "audit"} <=> cursor \in DOMAIN commands
  <2>1. CASE InLoop
    BY <2>1 DEF IInv, DeviceInv, LoopOK, InLoop
  <2>2. CASE ~InLoop
    BY <2>2 DEF IInv, DeviceInv, NoCommands, InLoop
  <2> QED
    BY <2>1, <2>2
<1>3. draft \in DOMAIN rows \cup {NoRow} /\ failedAudits \subseteq DOMAIN gridSignals
      /\ DOMAIN rows \subseteq RowIds
  BY DEF IInv, AggregatorInv
<1>4. {mockRows, mockSent, mockResults, mockAudits} \subseteq [RowIds \cup {NoRow} -> Nat]
  BY DEF IInv, MockInv, MockOrder
<1>5. /\ {attempts, accepted, results} \subseteq [RowIds -> [DeviceIds -> Nat]]
      /\ {deviceRows, deviceAudits} \subseteq
           [RowIds \cup {NoRow} -> [DeviceIds \cup {NoAction} -> Nat]]
  BY DEF IInv, DeviceInv, DeviceOrder
<1>6. /\ pc \in [Consumers -> Steps]
      /\ \A c \in Consumers : committed[c] <= position[c] /\ position[c] <= Len(Topic(c)) + 1
  BY DEF IInv, OffsetInv
<1> QED
  BY <1>1, <1>2, <1>3, <1>4, <1>5, <1>6 DEF TypeOK, IInv, PostInv, ReadyInv, Steps

LEMMA EvidenceFollows == IInv => EvidenceIsOrdered
<1> SUFFICES ASSUME IInv
             PROVE  EvidenceIsOrdered
  OBVIOUS
<1>1. translated \subseteq ieeeReadings
  BY DEF IInv, SemanticInv
<1>2. proposedAudits \subseteq proposed /\ proposed \subseteq DOMAIN rows
  BY DEF IInv, AggregatorInv
<1>3. \A r \in RowIds :
        /\ mockAudits[r] <= mockResults[r] /\ mockResults[r] <= mockSent[r]
        /\ mockSent[r] <= mockRows[r]
        /\ mockRows[r] > 0 => status[r] = "ready_to_dispatch" /\ announced[r] # {}
  BY DEF IInv, MockInv, MockOrder, IsReady
<1>4. \A r \in RowIds, d \in DeviceIds :
        /\ deviceAudits[r][d] <= results[r][d] /\ results[r][d] <= attempts[r][d]
        /\ accepted[r][d] <= attempts[r][d]
        /\ attempts[r][d] > 0 => status[r] = "ready_to_dispatch" /\ announced[r] # {}
  BY DEF IInv, DeviceInv, DeviceOrder, IsReady
<1>5. \A r \in DOMAIN rows : \A i, j \in Asked(ReadyEvent(r)) :
        i < j => results[r][DEVICES[j].device_id] <= results[r][DEVICES[i].device_id]
  BY DEF IInv, DeviceInv, DeviceOrder, DeviceId
<1> QED
  BY <1>1, <1>2, <1>3, <1>4, <1>5 DEF EvidenceIsOrdered

LEMMA SettledFollows == IInv => CommittedIsSettled
<1> SUFFICES ASSUME IInv, failures = 0
             PROVE  CommittedIsSettled
  BY DEF CommittedIsSettled
<1>1. \A c \in Consumers : 1..committed[c] - 1 \subseteq 1..position[c] - 1
  BY DEF IInv, OffsetInv
<1>2. \A n \in 1..committed["semantic"] - 1 :
        \E event \in translated : event.raw_semantic_payload = enriched[n]
  BY <1>1 DEF IInv, SemanticInv, Consumers
<1>3. \A o \in 1..committed["aggregator"] - 1 : ProposedOrRefused(o)
  BY <1>1 DEF IInv, AggregatorInv, Consumers
<1>4. \A n \in 1..committed["adapter"] - 1 : mockAudits[readyTopic[n].id] > 0
  BY <1>1 DEF IInv, MockInv, Consumers
<1>5. \A n \in 1..committed["translator"] - 1 : IsAudited(n)
  BY <1>1 DEF IInv, DeviceInv, Consumers
<1> QED
  BY <1>2, <1>3, <1>4, <1>5 DEF CommittedIsSettled, IsAudited, DeviceId

\* The inductive invariant of the four services, for any signals, backlogs, readings and
\* any number of failed calls and restarts.
THEOREM ChainInvariance == Spec => []IInv
BY InitInv, StepPreserves, PTL DEF Spec

\* The state of the chain is well-formed: offsets stay on their topics, and the translator
\* is at a command of the event in hand exactly while it is in its loop.
THEOREM ChainTypeCorrect == Spec => []TypeOK
BY ChainInvariance, TypeFollows, PTL

\* Each stage acts only on what the stage before it has announced, and leaves its traces in
\* the order of its awaits, over all failures, redeliveries and restarts.
THEOREM TrailLeadsBack == Spec => []EvidenceIsOrdered
BY ChainInvariance, EvidenceFollows, PTL

\* A restart alone loses nothing: what is committed is settled unless a call has failed.
THEOREM RestartsLoseNothing == Spec => []CommittedIsSettled
BY ChainInvariance, SettledFollows, PTL

\* How often a signal may be on its topic, a message have a row, and a row be tried, for
\* any number of failed calls and restarts: the inductive invariant of the amplification.
THEOREM BoundsInvariance == Spec => [](IInv /\ BoundInv)
BY InitInv, BoundInit, StepPreserves, BoundPreserved, PTL DEF Spec

\* What one accepted signal makes the devices do at most doubles with each failed call and
\* each restart, and the rows of the model never run out before the aggregator's insert.
THEOREM RepetitionsAreBounded == Spec => []AmplificationIsBounded
BY BoundsInvariance, AmplificationFollows, PTL

\* What is put to the devices adds up to the request, or to everything they can give, and
\* asks of none more than it has, however the shares are rounded.
THEOREM AllocationsAddUp == Spec => []AllocationMeetsRequest
BY AllocationFollows, PTL

\* Any valid signal is understood by every stage, reaches the devices of its community if
\* it is about load, with commands their simulators know, and no others, and every audit
\* of it has its correlation id.
THEOREM SignalsAreUnderstood == Spec => []StagesAgree
BY StagesFollow, PTL
=============================================================================
