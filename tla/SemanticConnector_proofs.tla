--------------------- MODULE SemanticConnector_proofs ---------------------
(***************************************************************************)
(* Proofs about SemanticConnector for any log, any batch limit, any set of *)
(* workers and any number of crashes, failures and rebalances.             *)
(*                                                                         *)
(* The argument.  While a worker handles a Kafka batch, each offset of it  *)
(* is waiting for the SLM, waiting to be persisted, or settled, and the    *)
(* offsets before the batch are settled (BatchInv, OffsetInv); no step     *)
(* unsettles an offset.  So what is committed is settled.  A worker that   *)
(* is about to publish a reading inserted its row itself: no other worker  *)
(* is about to publish it, and nobody has (EnrichInv, LetterInv).  Before  *)
(* the first disturbance one worker handles each offset once, so what it   *)
(* has still to persist is not audited yet, unless the log repeats it      *)
(* (CalmInv): that is why only a repetition sets the two tables at odds.   *)
(***************************************************************************)
EXTENDS SemanticConnector, WellFoundedInduction, TLAPS

Steps == {"idle", "invalid", "map", "persist", "enrich", "report", "metrics", "commit"}

\* What the batch of worker w has still to do, and what it has done.
HandlerOK(w) ==
  /\ pc[w] = "idle" => left[w] = {}
  /\ pc[w] # "idle" =>
       /\ position[w] <= upto[w]
       /\ left[w] \subseteq position[w]..upto[w]
       /\ \A o \in position[w]..upto[w] : o \in left[w] \cup DOMAIN outcomes[w] \/ IsSettled(o)
  /\ pc[w] = "invalid" => \E o \in left[w] : Log[o] = Invalid
  /\ pc[w] \in {"map", "persist", "enrich", "report", "metrics"} =>
       \A o \in left[w] : Log[o] # Invalid
  /\ pc[w] \in {"persist", "enrich", "report"} <=> DOMAIN outcomes[w] # {}
  /\ \A o \in DOMAIN outcomes[w] : Log[o] # Invalid
  /\ pc[w] = "commit" => left[w] = {}
  /\ pc[w] \in {"enrich", "report"} => audit[Reading(w)] # "none"

BatchInv == \A w \in Workers : HandlerOK(w)

OffsetInv ==
  /\ OffsetsAreDurable
  /\ \A w \in Workers : \A o \in 1..position[w] - 1 : IsSettled(o)

\* The reading a worker is about to publish, if any.
Enriching(w) == IF pc[w] = "enrich" THEN {Reading(w)} ELSE {}
Reporting(w) == IF pc[w] = "report" THEN {Reading(w)} ELSE {}

EnrichInv ==
  /\ \A r \in Readings : enriched[r] > 0 => r \in semantic
  /\ \A w \in Workers : \A r \in Enriching(w) : r \in semantic /\ enriched[r] = 0
  /\ \A w, v \in Workers : w # v => Enriching(w) \cap Enriching(v) = {}

Unmapped == {r \in Readings : audit[r] = "safely_unmapped"}

LetterInv ==
  /\ \A r \in Readings : letters[r] > 0 => r \in Unmapped
  /\ \A w \in Workers : \A r \in Reporting(w) : r \in Unmapped /\ letters[r] = 0
  /\ \A w, v \in Workers : w # v => Reporting(w) \cap Reporting(v) = {}

\* A mapping has some audit row; without a disturbance it is its own (CalmInv).
AuditInv ==
  /\ \A r \in semantic : audit[r] # "none"
  /\ \A r \in Readings : audit[r] = "mapped" => r \in semantic

IInv ==
  TypeOK /\ BatchInv /\ OffsetInv /\ AuditInv /\ EnrichInv /\ LetterInv

-----------------------------------------------------------------------------
(* The log, and the first of some offsets                                  *)

LEMMA LogFacts ==
  /\ Last \in Nat
  /\ \A o \in 1..Last : Log[o] \in Readings \/ Log[o] = Invalid
  /\ Invalid \notin Readings
BY LogAssumption DEF Last

LEMMA FirstFacts ==
  ASSUME NEW S, S \subseteq Nat, S # {}
  PROVE  First(S) \in S /\ \A p \in S : First(S) <= p
<1>1. PICK k \in S : \A j \in S : ~ (<<j, k>> \in OpToRel(<, Nat))
  BY WFMin, NatLessThanWellFounded
<1>2. \A j \in S : ~ (j < k)
  BY <1>1 DEF OpToRel
<1>3. k \in S /\ \A j \in S : j \in Nat /\ k <= j
  BY <1>2
<1> QED
  BY <1>3 DEF First

\* The outcome a worker is persisting belongs to a reading of its batch.
LEMMA CurrentFacts ==
  ASSUME TypeOK, NEW w \in Workers, HandlerOK(w), DOMAIN outcomes[w] # {}
  PROVE  /\ Current(w) \in DOMAIN outcomes[w] /\ Current(w) \in 1..Last
         /\ Reading(w) \in Readings /\ Verdict(w) \in Verdicts
<1>1. outcomes[w] \in UNION {[S -> Verdicts] : S \in SUBSET (1..Last)}
  BY DEF TypeOK
<1>2. PICK S \in SUBSET (1..Last) : outcomes[w] \in [S -> Verdicts]
  BY <1>1
<1>3. DOMAIN outcomes[w] \subseteq Nat /\ DOMAIN outcomes[w] \subseteq 1..Last
  <2>1. DOMAIN outcomes[w] = S /\ S \subseteq 1..Last
    BY <1>2
  <2>2. 1..Last \subseteq Nat
    BY LogFacts
  <2> QED
    BY <2>1, <2>2
<1>4. Current(w) \in DOMAIN outcomes[w] /\ Current(w) \in 1..Last
  <2>1. First(DOMAIN outcomes[w]) \in DOMAIN outcomes[w]
    BY <1>3, FirstFacts
  <2> QED
    BY <1>3, <2>1 DEF Current
<1>5. Log[Current(w)] # Invalid
  BY <1>4 DEF HandlerOK
<1> QED
  BY <1>2, <1>4, <1>5, LogFacts DEF Reading, Verdict

-----------------------------------------------------------------------------
(* What a step of one worker leaves to the others                          *)

\* No offset is unsettled.
Settles == \A o \in 1..Last : IsSettled(o) => IsSettled(o)'

\* Only worker w is somewhere else.
Only(w) ==
  \A v \in Workers : v # w =>
    /\ pc'[v] = pc[v] /\ upto'[v] = upto[v] /\ left'[v] = left[v]
    /\ outcomes'[v] = outcomes[v] /\ position'[v] = position[v]

WorkersTyped ==
  /\ pc \in [Workers -> Steps]
  /\ upto \in [Workers -> 0..Last]
  /\ left \in [Workers -> SUBSET (1..Last)]
  /\ outcomes \in [Workers -> UNION {[S -> Verdicts] : S \in SUBSET (1..Last)}]

TablesTyped ==
  /\ audit \in [Readings -> Verdicts \cup {"none"}] /\ semantic \subseteq Readings
  /\ enriched \in [Readings -> Nat] /\ letters \in [Readings -> Nat]
  /\ invalidLetters \subseteq 1..Last

LEMMA TypeParts == TypeOK <=> GroupTypeOK(Last) /\ WorkersTyped /\ TablesTyped
BY DEF TypeOK, WorkersTyped, TablesTyped, Steps

\* An audit row, once written, stays; so does a report.
AuditStays ==
  /\ \A r \in Readings : audit[r] # "none" => audit'[r] = audit[r]
  /\ invalidLetters \subseteq invalidLetters'

LEMMA AuditStaysSettles ==
  ASSUME AuditStays
  PROVE  Settles
BY DEF AuditStays, Settles, IsSettled

LEMMA OtherHandler ==
  ASSUME IInv, NEW w \in Workers, Only(w), AuditStays, NEW v \in Workers, v # w
  PROVE  /\ HandlerOK(v)'
         /\ Enriching(v)' = Enriching(v) /\ Reporting(v)' = Reporting(v)
<1>1. /\ pc'[v] = pc[v] /\ upto'[v] = upto[v] /\ left'[v] = left[v]
      /\ outcomes'[v] = outcomes[v] /\ position'[v] = position[v]
  BY DEF Only
<1>2. HandlerOK(v) /\ Settles
  BY AuditStaysSettles DEF IInv, BatchInv
<1>3. Reading(v)' = Reading(v) /\ Current(v)' = Current(v)
  BY <1>1 DEF Reading, Current
<1>4. position[v] \in Nat /\ position[v] >= 1 /\ upto[v] \in 0..Last
  BY LogFacts DEF IInv, TypeOK, GroupTypeOK
<1>5. ASSUME pc[v] # "idle" PROVE
        \A o \in position[v]..upto[v] : o \in left[v] \cup DOMAIN outcomes[v] \/ IsSettled(o)'
  BY <1>2, <1>4, <1>5, LogFacts DEF HandlerOK, Settles
<1>6. pc[v] \in {"enrich", "report"} => audit'[Reading(v)] # "none"
  <2> SUFFICES ASSUME pc[v] \in {"enrich", "report"} PROVE audit'[Reading(v)] # "none"
    OBVIOUS
  <2>1. DOMAIN outcomes[v] # {} /\ audit[Reading(v)] # "none"
    BY <1>2 DEF HandlerOK
  <2>2. Reading(v) \in Readings
    BY <1>2, <2>1, CurrentFacts DEF IInv
  <2> QED
    BY <2>1, <2>2 DEF AuditStays
<1>7. HandlerOK(v)'
  BY <1>1, <1>2, <1>3, <1>5, <1>6 DEF HandlerOK
<1> QED
  BY <1>1, <1>3, <1>7 DEF Enriching, Reporting

\* A step of one worker keeps every batch and every offset in order, if it
\* keeps its own.
LEMMA WorkerStep ==
  ASSUME IInv, NEW w \in Workers, Only(w), AuditStays,
         GroupTypeOK(Last)', WorkersTyped', TablesTyped', HandlerOK(w)',
         committed' = committed, position' = position
  PROVE  /\ TypeOK' /\ BatchInv' /\ OffsetInv'
         /\ \A v \in Workers : v # w =>
              Enriching(v)' = Enriching(v) /\ Reporting(v)' = Reporting(v)
<1>1. TypeOK'
  BY TypeParts, PTL
<1>2. BatchInv'
  BY OtherHandler DEF BatchInv
<1>3. OffsetInv'
  <2>1. Settles /\ committed \in 1..Last + 1 /\ position \in [Workers -> 1..Last + 1]
    BY AuditStaysSettles DEF IInv, TypeOK, GroupTypeOK
  <2> QED
    BY <2>1, LogFacts DEF Settles, IInv, OffsetInv, OffsetsAreDurable
<1> QED
  BY <1>1, <1>2, <1>3, OtherHandler

\* While nothing is sent and nobody gets ready to, the topics stay in order.
LEMMA EnrichQuiet ==
  ASSUME IInv, UNCHANGED enriched, semantic \subseteq semantic',
         \A v \in Workers : Enriching(v)' \subseteq Enriching(v)
  PROVE  EnrichInv'
BY DEF IInv, EnrichInv

LEMMA LetterQuiet ==
  ASSUME IInv, UNCHANGED letters, Unmapped \subseteq Unmapped',
         \A v \in Workers : Reporting(v)' \subseteq Reporting(v)
  PROVE  LetterInv'
BY DEF IInv, LetterInv

\* A handler that is left has nothing in hand.
LEMMA LeavesFacts ==
  ASSUME IInv, NEW w \in Workers, Leaves(w)
  PROVE  /\ WorkersTyped' /\ HandlerOK(w)' /\ pc'[w] = "idle"
         /\ Enriching(w)' = {} /\ Reporting(w)' = {}
         /\ \A v \in Workers : v # w =>
              /\ pc'[v] = pc[v] /\ upto'[v] = upto[v] /\ left'[v] = left[v]
              /\ outcomes'[v] = outcomes[v]
<1>1. WorkersTyped
  BY TypeParts DEF IInv
<1>2. /\ pc' = [pc EXCEPT ![w] = "idle"] /\ upto' = [upto EXCEPT ![w] = 0]
      /\ left' = [left EXCEPT ![w] = {}] /\ outcomes' = [outcomes EXCEPT ![w] = <<>>]
  BY DEF Leaves, GoTo
<1>3. <<>> \in [{} -> Verdicts]
  OBVIOUS
<1>4. <<>> \in UNION {[S -> Verdicts] : S \in SUBSET (1..Last)}
  BY <1>3
<1>5. outcomes' \in [Workers -> UNION {[S -> Verdicts] : S \in SUBSET (1..Last)}]
  BY <1>1, <1>2, <1>4 DEF WorkersTyped
<1>6. WorkersTyped'
  <2>1. pc' \in [Workers -> Steps] /\ upto' \in [Workers -> 0..Last]
    BY <1>1, <1>2, LogFacts DEF WorkersTyped, Steps
  <2>2. left' \in [Workers -> SUBSET (1..Last)]
    BY <1>1, <1>2 DEF WorkersTyped
  <2> QED
    BY <1>5, <2>1, <2>2 DEF WorkersTyped
<1>7. pc'[w] = "idle" /\ left'[w] = {} /\ DOMAIN outcomes'[w] = {}
  <2>1. pc'[w] = "idle" /\ left'[w] = {} /\ outcomes'[w] = <<>>
    BY <1>1, <1>2 DEF WorkersTyped
  <2> QED
    BY <1>3, <2>1
<1>8. HandlerOK(w)'
  BY <1>7 DEF HandlerOK
<1>9. \A v \in Workers : v # w =>
        /\ pc'[v] = pc[v] /\ upto'[v] = upto[v] /\ left'[v] = left[v]
        /\ outcomes'[v] = outcomes[v]
  BY <1>1, <1>2 DEF WorkersTyped
<1> QED
  BY <1>6, <1>7, <1>8, <1>9 DEF Enriching, Reporting

\* Batches and offsets stay in order, and nobody gets ready to publish.
Orderly ==
  /\ TypeOK' /\ BatchInv' /\ OffsetInv'
  /\ \A v \in Workers : /\ Enriching(v)' \subseteq Enriching(v)
                       /\ Reporting(v)' \subseteq Reporting(v)

\* An exception resolves nothing, so it keeps what the step before it left.
LEMMA ThrowStep ==
  ASSUME IInv, NEW w \in Workers, Throw(w), AuditStays, TablesTyped'
  PROVE  Orderly
<1>1. /\ Leaves(w) /\ disturbances' = disturbances + 1 /\ disturbances < MaxDisturbances
      /\ owner' = owner /\ committed' = committed /\ position' = position
  BY DEF Throw, Fails
<1>2. GroupTypeOK(Last)'
  BY <1>1, GroupAssumption DEF IInv, TypeOK, GroupTypeOK
<1>3. Only(w)
  BY <1>1, LeavesFacts DEF Only
<1> QED
  BY <1>1, <1>2, <1>3, LeavesFacts, WorkerStep DEF Orderly

\* Where a batch goes on after a step.
LEMMA StepForFacts ==
  ASSUME NEW S, S \subseteq 1..Last
  PROVE  /\ StepFor(S) \in {"invalid", "map", "commit"}
         /\ StepFor(S) = "invalid" => \E o \in S : Log[o] = Invalid
         /\ StepFor(S) = "map" => \A o \in S : Log[o] # Invalid
         /\ StepFor(S) = "commit" => S = {}
BY DEF StepFor

\* Then nothing is left to show if no table or topic of outcomes is touched.
LEMMA OrderlySuffices ==
  ASSUME IInv, Orderly, UNCHANGED <<audit, semantic, enriched, letters>>
  PROVE  IInv'
<1>1. AuditInv' /\ Unmapped' = Unmapped
  BY DEF IInv, AuditInv, Unmapped
<1> QED
  BY <1>1, EnrichQuiet, LetterQuiet DEF IInv, Orderly

-----------------------------------------------------------------------------
(* Initial states                                                          *)

LEMMA InitEstablishes == Init => IInv
<1> SUFFICES ASSUME Init PROVE IInv
  OBVIOUS
<1> USE LogFacts, GroupAssumption DEF Init, GroupInit
<1>1. <<>> \in UNION {[S -> Verdicts] : S \in SUBSET (1..Last)} /\ DOMAIN <<>> = {}
  <2>1. <<>> \in [{} -> Verdicts]
    OBVIOUS
  <2> QED
    BY <2>1
<1>2. TypeOK
  <2>1. WorkersTyped
    <3>1. outcomes \in [Workers -> UNION {[S -> Verdicts] : S \in SUBSET (1..Last)}]
      BY <1>1
    <3>2. pc \in [Workers -> Steps] /\ upto \in [Workers -> 0..Last]
      BY DEF Steps
    <3>3. left \in [Workers -> SUBSET (1..Last)]
      OBVIOUS
    <3> QED
      BY <3>1, <3>2, <3>3 DEF WorkersTyped
  <2>2. GroupTypeOK(Last) /\ TablesTyped
    BY DEF GroupTypeOK, TablesTyped
  <2> QED
    BY <2>1, <2>2, TypeParts
<1>3. BatchInv
  <2> SUFFICES ASSUME NEW w \in Workers PROVE HandlerOK(w)
    BY DEF BatchInv
  <2>1. pc[w] = "idle" /\ left[w] = {} /\ DOMAIN outcomes[w] = {}
    BY <1>1
  <2> QED
    BY <2>1 DEF HandlerOK
<1>4. OffsetInv
  BY DEF OffsetInv, OffsetsAreDurable
<1>5. AuditInv
  BY DEF AuditInv
<1>6. EnrichInv /\ LetterInv
  BY DEF EnrichInv, LetterInv, Enriching, Reporting
<1> QED
  BY <1>2, <1>3, <1>4, <1>5, <1>6 DEF IInv

-----------------------------------------------------------------------------
(* The steps of a worker                                                   *)

LEMMA FetchBatchStep ==
  ASSUME IInv, NEW w \in Workers, FetchBatch(w)
  PROVE  IInv'
<1> USE DEF IInv
<1>1. PICK last \in position[w]..Last :
        /\ upto' = [upto EXCEPT ![w] = last]
        /\ left' = [left EXCEPT ![w] = position[w]..last]
        /\ GoTo(w, StepFor(position[w]..last))
  BY DEF FetchBatch
<1>2. /\ pc[w] = "idle" /\ DOMAIN outcomes[w] = {}
      /\ UNCHANGED <<groupVars, storeVars, topicVars, outcomes>>
  BY DEF FetchBatch, BatchInv, HandlerOK
<1>3. WorkersTyped /\ TablesTyped /\ position[w] \in 1..Last + 1
  BY TypeParts DEF TypeOK, GroupTypeOK
<1>4. last \in 1..Last /\ position[w] \in 1..Last /\ position[w]..last \subseteq 1..Last
      /\ position[w] <= last
  BY <1>3, LogFacts
<1>5. /\ StepFor(position[w]..last) \in {"invalid", "map", "commit"}
      /\ StepFor(position[w]..last) = "invalid" => \E o \in position[w]..last : Log[o] = Invalid
      /\ StepFor(position[w]..last) = "map" => \A o \in position[w]..last : Log[o] # Invalid
      /\ StepFor(position[w]..last) = "commit" => position[w]..last = {}
  BY <1>4, StepForFacts
<1>6. /\ pc'[w] = StepFor(position[w]..last) /\ upto'[w] = last /\ left'[w] = position[w]..last
      /\ position'[w] = position[w] /\ outcomes'[w] = outcomes[w]
  BY <1>1, <1>2, <1>3 DEF WorkersTyped, GoTo, groupVars
<1>7. WorkersTyped' /\ TablesTyped' /\ Only(w) /\ AuditStays /\ GroupTypeOK(Last)'
  BY <1>1, <1>2, <1>3, <1>4, <1>5
     DEF WorkersTyped, TablesTyped, Only, AuditStays, GoTo, Steps, groupVars, storeVars,
         topicVars, TypeOK, GroupTypeOK
<1>8. HandlerOK(w)'
  BY <1>2, <1>4, <1>5, <1>6 DEF HandlerOK
<1>9. Orderly
  <2>1. Enriching(w)' = {} /\ Reporting(w)' = {}
    BY <1>5, <1>6 DEF Enriching, Reporting
  <2> QED
    BY <1>2, <1>7, <1>8, <2>1, WorkerStep DEF groupVars, Orderly
<1> QED
  BY <1>2, <1>9, OrderlySuffices DEF storeVars, topicVars

LEMMA SendInvalidStep ==
  ASSUME IInv, NEW w \in Workers, SendInvalid(w)
  PROVE  IInv'
<1> DEFINE bad == {p \in left[w] : Log[p] = Invalid}
<1> USE DEF IInv
<1>1. /\ pc[w] = "invalid" /\ DOMAIN outcomes[w] = {} /\ HandlerOK(w)
      /\ UNCHANGED <<storeVars, enriched, letters>>
  BY DEF SendInvalid, BatchInv, HandlerOK
<1>2. WorkersTyped /\ TablesTyped /\ left[w] \subseteq 1..Last /\ 1..Last \subseteq Nat
  BY TypeParts, LogFacts DEF WorkersTyped
<1>3. First(bad) \in bad
  <2>1. bad # {} /\ bad \subseteq Nat
    BY <1>1, <1>2 DEF HandlerOK
  <2> QED
    BY <2>1, FirstFacts
<1>4. PICK o \in left[w] : o = First(bad) /\ o \in 1..Last /\ Log[o] = Invalid
  BY <1>2, <1>3
<1>5. invalidLetters' \in {invalidLetters, invalidLetters \cup {o}}
  BY <1>4 DEF SendInvalid
<1>6. AuditStays /\ TablesTyped'
  BY <1>1, <1>2, <1>4, <1>5 DEF AuditStays, TablesTyped, storeVars
<1>7. CASE Throw(w)
  BY <1>1, <1>6, <1>7, ThrowStep, OrderlySuffices DEF storeVars
<1>8. CASE /\ invalidLetters' = invalidLetters \cup {o}
           /\ left' = [left EXCEPT ![w] = @ \ {o}]
           /\ GoTo(w, StepFor(left[w] \ {o}))
           /\ UNCHANGED <<groupVars, upto, outcomes>>
  <2> DEFINE rest == left[w] \ {o}
  <2>1. /\ pc'[w] = StepFor(rest) /\ left'[w] = rest /\ upto'[w] = upto[w]
        /\ outcomes'[w] = outcomes[w] /\ position'[w] = position[w]
        /\ rest \subseteq 1..Last
    BY <1>2, <1>8 DEF WorkersTyped, GoTo, groupVars
  <2>2. /\ StepFor(rest) \in {"invalid", "map", "commit"}
        /\ StepFor(rest) = "invalid" => \E p \in rest : Log[p] = Invalid
        /\ StepFor(rest) = "map" => \A p \in rest : Log[p] # Invalid
        /\ StepFor(rest) = "commit" => rest = {}
    BY <2>1, StepForFacts
  <2>3. WorkersTyped' /\ Only(w) /\ GroupTypeOK(Last)'
    BY <1>2, <1>8, <2>1, <2>2
       DEF WorkersTyped, Only, GoTo, Steps, groupVars, TypeOK, GroupTypeOK
  <2>4. IsSettled(o)' /\ \A p \in 1..Last : IsSettled(p) => IsSettled(p)'
    BY <1>4, <1>6, <1>8, AuditStaysSettles DEF IsSettled, Settles
  <2>5. \A p \in position[w]..upto[w] : p \in rest \/ IsSettled(p)'
    <3>1. \A p \in position[w]..upto[w] : p \in 1..Last
      BY <1>2, LogFacts DEF WorkersTyped, TypeOK, GroupTypeOK
    <3> QED
      BY <1>1, <2>4, <3>1 DEF HandlerOK
  <2>6. HandlerOK(w)'
    BY <1>1, <1>4, <2>1, <2>2, <2>5 DEF HandlerOK
  <2>7. Enriching(w)' = {} /\ Reporting(w)' = {}
    BY <2>1, <2>2 DEF Enriching, Reporting
  <2>8. Orderly
    BY <1>6, <1>8, <2>3, <2>6, <2>7, WorkerStep DEF groupVars, Orderly
  <2> QED
    BY <1>1, <2>8, OrderlySuffices DEF storeVars
<1> QED
  BY <1>4, <1>7, <1>8 DEF SendInvalid

LEMMA MapBatchStep ==
  ASSUME IInv, NEW w \in Workers, MapBatch(w)
  PROVE  IInv'
<1> USE DEF IInv
<1>1. /\ pc[w] = "map" /\ DOMAIN outcomes[w] = {} /\ HandlerOK(w)
      /\ UNCHANGED <<storeVars, topicVars>>
  BY DEF MapBatch, BatchInv, HandlerOK
<1>2. WorkersTyped /\ TablesTyped /\ left[w] \subseteq 1..Last
  BY TypeParts DEF WorkersTyped
<1>3. AuditStays /\ TablesTyped'
  BY <1>1, <1>2 DEF AuditStays, TablesTyped, storeVars, topicVars
<1>4. CASE Throw(w)
  BY <1>1, <1>3, <1>4, ThrowStep, OrderlySuffices DEF storeVars, topicVars
<1>5. ASSUME NEW last \in left[w],
             NEW verdict \in [{Log[o] : o \in {p \in left[w] : p <= last}} -> Verdicts],
             outcomes' = [outcomes EXCEPT ![w] =
                            [o \in {p \in left[w] : p <= last} |-> verdict[Log[o]]]],
             left' = [left EXCEPT ![w] = @ \ {p \in left[w] : p <= last}],
             GoTo(w, "persist"), UNCHANGED <<groupVars, upto>>
      PROVE  IInv'
  <2> DEFINE batch == {p \in left[w] : p <= last}
             given == [o \in batch |-> verdict[Log[o]]]
  <2>1. batch \subseteq 1..Last /\ last \in batch /\ given \in [batch -> Verdicts]
        /\ DOMAIN given = batch
    BY <1>2, LogFacts
  <2>2. given \in UNION {[S -> Verdicts] : S \in SUBSET (1..Last)}
    BY <2>1
  <2>3. /\ pc' = [pc EXCEPT ![w] = "persist"] /\ upto' = upto /\ position' = position
        /\ outcomes' = [outcomes EXCEPT ![w] = given]
        /\ left' = [left EXCEPT ![w] = left[w] \ batch]
    BY <1>5 DEF GoTo, groupVars
  <2> HIDE DEF batch, given
  <2>4. /\ pc'[w] = "persist" /\ upto'[w] = upto[w] /\ position'[w] = position[w]
        /\ left'[w] = left[w] \ batch /\ DOMAIN outcomes'[w] = batch
    BY <1>2, <2>1, <2>3 DEF WorkersTyped
  <2>5. WorkersTyped'
    <3>1. pc' \in [Workers -> Steps] /\ upto' \in [Workers -> 0..Last]
      BY <1>2, <2>3 DEF WorkersTyped, Steps
    <3>2. left' \in [Workers -> SUBSET (1..Last)]
      BY <1>2, <2>3 DEF WorkersTyped
    <3>3. outcomes' \in [Workers -> UNION {[S -> Verdicts] : S \in SUBSET (1..Last)}]
      BY <1>2, <2>2, <2>3 DEF WorkersTyped
    <3> QED
      BY <3>1, <3>2, <3>3 DEF WorkersTyped
  <2>6. Only(w) /\ GroupTypeOK(Last)'
    BY <1>2, <1>5, <2>3 DEF WorkersTyped, Only, groupVars, TypeOK, GroupTypeOK
  <2>7. batch \subseteq left[w] /\ \A o \in left[w] : Log[o] # Invalid
    BY <1>1 DEF HandlerOK, batch
  <2>8. \A p \in position[w]..upto[w] :
           p \in (left[w] \ batch) \cup batch \/ IsSettled(p)'
    <3>1. \A p \in position[w]..upto[w] : p \in 1..Last
      BY <1>2, LogFacts DEF WorkersTyped, TypeOK, GroupTypeOK
    <3> QED
      BY <1>1, <1>3, <3>1, AuditStaysSettles DEF HandlerOK, Settles
  <2>9. HandlerOK(w)'
    BY <1>1, <2>1, <2>4, <2>7, <2>8 DEF HandlerOK
  <2>10. Enriching(w)' = {} /\ Reporting(w)' = {}
    BY <2>4 DEF Enriching, Reporting
  <2>11. Orderly
    BY <1>3, <1>5, <2>5, <2>6, <2>9, <2>10, WorkerStep DEF groupVars, Orderly
  <2> QED
    BY <1>1, <2>11, OrderlySuffices DEF storeVars, topicVars
<1> QED
  BY <1>4, <1>5 DEF MapBatch

LEMMA RecordMetricsStep ==
  ASSUME IInv, NEW w \in Workers, RecordMetrics(w)
  PROVE  IInv'
<1> USE DEF IInv
<1>1. /\ pc[w] = "metrics" /\ DOMAIN outcomes[w] = {} /\ HandlerOK(w)
      /\ UNCHANGED <<storeVars, topicVars>>
  BY DEF RecordMetrics, BatchInv, HandlerOK
<1>2. WorkersTyped /\ TablesTyped /\ left[w] \subseteq 1..Last
  BY TypeParts DEF WorkersTyped
<1>3. AuditStays /\ TablesTyped'
  BY <1>1, <1>2 DEF AuditStays, TablesTyped, storeVars, topicVars
<1>4. CASE Throw(w)
  BY <1>1, <1>3, <1>4, ThrowStep, OrderlySuffices DEF storeVars, topicVars
<1>5. CASE GoTo(w, StepFor(left[w])) /\ UNCHANGED <<groupVars, upto, left, outcomes>>
  <2>1. /\ StepFor(left[w]) \in {"map", "commit"}
        /\ StepFor(left[w]) = "commit" => left[w] = {}
    BY <1>1, <1>2, StepForFacts DEF HandlerOK
  <2>2. /\ pc'[w] = StepFor(left[w]) /\ WorkersTyped' /\ Only(w) /\ GroupTypeOK(Last)'
    BY <1>2, <1>5, <2>1
       DEF WorkersTyped, Only, GoTo, Steps, groupVars, TypeOK, GroupTypeOK
  <2>3. \A p \in position[w]..upto[w] : p \in left[w] \/ IsSettled(p)'
    <3>1. \A p \in position[w]..upto[w] : p \in 1..Last
      BY <1>2, LogFacts DEF WorkersTyped, TypeOK, GroupTypeOK
    <3> QED
      BY <1>1, <1>3, <3>1, AuditStaysSettles DEF HandlerOK, Settles
  <2>4. HandlerOK(w)'
    BY <1>1, <1>5, <2>1, <2>2, <2>3 DEF HandlerOK, groupVars
  <2>5. Enriching(w)' = {} /\ Reporting(w)' = {}
    BY <2>1, <2>2 DEF Enriching, Reporting
  <2>6. Orderly
    BY <1>3, <1>5, <2>2, <2>4, <2>5, WorkerStep DEF groupVars, Orderly
  <2> QED
    BY <1>1, <2>6, OrderlySuffices DEF storeVars, topicVars
<1> QED
  BY <1>4, <1>5 DEF RecordMetrics

\* What the transaction of one outcome does to the tables.
LEMMA OutcomeFacts ==
  ASSUME IInv, NEW w \in Workers, pc[w] = "persist",
         CommitOutcome(w) \/ Rollback(w), UNCHANGED topicVars
  PROVE  /\ AuditStays /\ TablesTyped' /\ AuditInv'
         /\ semantic \subseteq semantic' /\ Unmapped \subseteq Unmapped'
         /\ Reading(w) \in Readings
         /\ CommitOutcome(w) =>
              /\ audit'[Reading(w)] # "none"
              /\ NewSemantic(w) => Reading(w) \in semantic'
              /\ MustReport(w) => Reading(w) \in Unmapped'
<1> USE DEF IInv
<1>1. Reading(w) \in Readings /\ Verdict(w) \in Verdicts
  BY CurrentFacts DEF BatchInv, HandlerOK
<1>2. TablesTyped
  BY TypeParts
<1>3. CASE Rollback(w) /\ ~CommitOutcome(w)
  BY <1>1, <1>2, <1>3 DEF Rollback, AuditStays, TablesTyped, topicVars, AuditInv, Unmapped
<1>4. CASE CommitOutcome(w)
  <2> DEFINE r == Reading(w)
  <2>1. /\ semantic' = IF NewSemantic(w) THEN semantic \cup {r} ELSE semantic
        /\ audit' = IF NewAudit(w) THEN [audit EXCEPT ![r] = Verdict(w)] ELSE audit
        /\ UNCHANGED <<enriched, letters, invalidLetters>>
    BY <1>4 DEF CommitOutcome, topicVars
  <2>2. /\ NewAudit(w) <=> audit[r] = "none"
        /\ NewSemantic(w) <=> Verdict(w) = "mapped" /\ r \notin semantic
    BY DEF NewAudit, NewSemantic
  <2>3. /\ audit' \in [Readings -> Verdicts \cup {"none"}]
        /\ audit'[r] = IF audit[r] = "none" THEN Verdict(w) ELSE audit[r]
        /\ \A s \in Readings : s # r => audit'[s] = audit[s]
    BY <1>1, <1>2, <2>1, <2>2 DEF TablesTyped
  <2>4. AuditStays
    BY <2>1, <2>3 DEF AuditStays
  <2>5. TablesTyped'
    BY <1>1, <1>2, <2>1, <2>3 DEF TablesTyped
  <2>6. audit'[r] # "none" /\ Unmapped \subseteq Unmapped'
    BY <1>1, <2>3 DEF Verdicts, Unmapped
  <2>7. semantic' \subseteq semantic \cup {r} /\ semantic \subseteq semantic'
    BY <2>1
  <2>8. AuditInv'
    <3>1. \A s \in semantic' : audit'[s] # "none"
      BY <1>2, <2>3, <2>6, <2>7 DEF AuditInv, TablesTyped
    <3>2. ASSUME NEW s \in Readings, audit'[s] = "mapped" PROVE s \in semantic'
      <4>1. CASE audit[s] = "mapped"
        BY <2>7, <4>1 DEF AuditInv
      <4>2. CASE audit[s] # "mapped"
        BY <2>1, <2>2, <2>3, <3>2, <4>2
      <4> QED
        BY <4>1, <4>2
    <3> QED
      BY <3>1, <3>2 DEF AuditInv
  <2>9. NewSemantic(w) => r \in semantic'
    BY <2>1
  <2>10. MustReport(w) => r \in Unmapped'
    BY <1>1, <2>2, <2>3 DEF MustReport, Unmapped
  <2> QED
    BY <1>1, <2>4, <2>5, <2>6, <2>7, <2>8, <2>9, <2>10
<1> QED
  BY <1>3, <1>4

\* An outcome that is persisted, and published if it must be, is done.
LEMMA NextOutcomeStep ==
  ASSUME IInv, NEW w \in Workers, pc[w] \in {"persist", "enrich", "report"},
         NextOutcome(w), UNCHANGED <<groupVars, upto, left>>,
         AuditStays, TablesTyped', audit'[Reading(w)] # "none"
  PROVE  Orderly /\ Enriching(w)' = {} /\ Reporting(w)' = {}
<1> USE DEF IInv
<1>1. HandlerOK(w) /\ DOMAIN outcomes[w] # {}
  BY DEF BatchInv, HandlerOK
<1>2. PICK cur \in DOMAIN outcomes[w] :
        /\ cur = Current(w) /\ cur \in 1..Last
        /\ Reading(w) \in Readings /\ Reading(w) = Log[cur]
  BY <1>1, CurrentFacts DEF Reading
<1> DEFINE rest == DOMAIN outcomes[w] \ {cur}
           kept == [o \in rest |-> outcomes[w][o]]
<1>3. WorkersTyped /\ left[w] \subseteq 1..Last
  BY TypeParts DEF WorkersTyped
<1>4. PICK S \in SUBSET (1..Last) : outcomes[w] \in [S -> Verdicts]
  BY <1>3 DEF WorkersTyped
<1>5. rest \subseteq S /\ kept \in [rest -> Verdicts] /\ DOMAIN kept = rest
  BY <1>4
<1>6. kept \in UNION {[T -> Verdicts] : T \in SUBSET (1..Last)}
  BY <1>4, <1>5
<1>7. /\ outcomes' = [outcomes EXCEPT ![w] = kept]
      /\ pc' = [pc EXCEPT ![w] = IF rest = {} THEN "metrics" ELSE "persist"]
      /\ upto' = upto /\ left' = left /\ position' = position
  BY <1>2 DEF NextOutcome, GoTo, groupVars
<1> HIDE DEF kept
<1>8. /\ pc'[w] = IF rest = {} THEN "metrics" ELSE "persist"
      /\ DOMAIN outcomes'[w] = rest
  BY <1>3, <1>5, <1>7 DEF WorkersTyped
<1>9. WorkersTyped'
  <2>1. pc' \in [Workers -> Steps]
    BY <1>3, <1>7 DEF WorkersTyped, Steps
  <2>2. outcomes' \in [Workers -> UNION {[T -> Verdicts] : T \in SUBSET (1..Last)}]
    BY <1>3, <1>6, <1>7 DEF WorkersTyped
  <2> QED
    BY <1>3, <1>7, <2>1, <2>2 DEF WorkersTyped
<1>10. Only(w) /\ GroupTypeOK(Last)'
  BY <1>3, <1>7 DEF WorkersTyped, Only, groupVars, TypeOK, GroupTypeOK
<1>11. IsSettled(cur)' /\ \A p \in 1..Last : IsSettled(p) => IsSettled(p)'
  BY <1>2, AuditStaysSettles DEF IsSettled, Settles
<1>12. \A p \in position[w]..upto[w] : p \in left[w] \cup rest \/ IsSettled(p)'
  <2>1. \A p \in position[w]..upto[w] : p \in 1..Last
    BY <1>3, LogFacts DEF WorkersTyped, TypeOK, GroupTypeOK
  <2> QED
    BY <1>1, <1>11, <2>1 DEF HandlerOK
<1>13. HandlerOK(w)'
  BY <1>1, <1>7, <1>8, <1>12 DEF HandlerOK
<1>14. Enriching(w)' = {} /\ Reporting(w)' = {}
  BY <1>8 DEF Enriching, Reporting
<1> QED
  BY <1>7, <1>9, <1>10, <1>13, <1>14, WorkerStep DEF groupVars, Orderly

\* A worker that has something to publish is about to publish that.
LEMMA ReadyStep ==
  ASSUME IInv, NEW w \in Workers, pc[w] = "persist",
         NEW step \in {"enrich", "report"}, GoTo(w, step),
         UNCHANGED <<groupVars, upto, left, outcomes>>,
         AuditStays, TablesTyped', audit'[Reading(w)] # "none"
  PROVE  /\ TypeOK' /\ BatchInv' /\ OffsetInv'
         /\ pc'[w] = step /\ Reading(w)' = Reading(w)
         /\ \A v \in Workers : v # w =>
              Enriching(v)' = Enriching(v) /\ Reporting(v)' = Reporting(v)
<1> USE DEF IInv
<1>1. HandlerOK(w) /\ DOMAIN outcomes[w] # {}
  BY DEF BatchInv, HandlerOK
<1>2. WorkersTyped /\ left[w] \subseteq 1..Last
  BY TypeParts DEF WorkersTyped
<1>3. pc'[w] = step /\ WorkersTyped' /\ Only(w) /\ GroupTypeOK(Last)'
  BY <1>2 DEF WorkersTyped, Only, GoTo, Steps, groupVars, TypeOK, GroupTypeOK
<1>4. Reading(w)' = Reading(w)
  BY DEF Reading, Current
<1>5. \A p \in position[w]..upto[w] : p \in left[w] \cup DOMAIN outcomes[w] \/ IsSettled(p)'
  <2>1. \A p \in position[w]..upto[w] : p \in 1..Last
    BY <1>2, LogFacts DEF WorkersTyped, TypeOK, GroupTypeOK
  <2> QED
    BY <1>1, <2>1, AuditStaysSettles DEF HandlerOK, Settles
<1>6. HandlerOK(w)'
  BY <1>1, <1>3, <1>4, <1>5 DEF HandlerOK, groupVars
<1> QED
  BY <1>3, <1>4, <1>6, WorkerStep DEF groupVars

LEMMA PersistOutcomeStep ==
  ASSUME IInv, NEW w \in Workers, PersistOutcome(w)
  PROVE  IInv'
<1> USE DEF IInv
<1>1. pc[w] = "persist" /\ UNCHANGED <<enriched, letters, invalidLetters>>
  BY DEF PersistOutcome, topicVars
<1>2. CommitOutcome(w) \/ Rollback(w)
  BY DEF PersistOutcome
<1>3. /\ AuditStays /\ TablesTyped' /\ AuditInv'
      /\ semantic \subseteq semantic' /\ Unmapped \subseteq Unmapped'
      /\ Reading(w) \in Readings
      /\ CommitOutcome(w) =>
           /\ audit'[Reading(w)] # "none"
           /\ NewSemantic(w) => Reading(w) \in semantic'
           /\ MustReport(w) => Reading(w) \in Unmapped'
  BY <1>1, <1>2, OutcomeFacts DEF topicVars
<1>4. Orderly => IInv'
  BY <1>1, <1>3, EnrichQuiet, LetterQuiet DEF Orderly
<1>5. CASE Throw(w)
  BY <1>3, <1>4, <1>5, ThrowStep
<1>6. CASE CommitOutcome(w) /\ NextOutcome(w) /\ UNCHANGED <<groupVars, upto, left>>
  BY <1>1, <1>3, <1>4, <1>6, NextOutcomeStep
<1>7. CASE /\ CommitOutcome(w) /\ MustEnrich(w) /\ GoTo(w, "enrich")
           /\ UNCHANGED <<groupVars, upto, left, outcomes>>
  <2>1. /\ TypeOK' /\ BatchInv' /\ OffsetInv'
        /\ pc'[w] = "enrich" /\ Reading(w)' = Reading(w)
        /\ \A v \in Workers : v # w =>
             Enriching(v)' = Enriching(v) /\ Reporting(v)' = Reporting(v)
    BY <1>1, <1>3, <1>7, ReadyStep
  <2>2. Enriching(w)' = {Reading(w)} /\ Reporting(w)' = {}
    BY <2>1 DEF Enriching, Reporting
  <2>3. Reading(w) \notin semantic /\ Reading(w) \in semantic' /\ enriched[Reading(w)] = 0
    BY <1>3, <1>7 DEF MustEnrich, NewSemantic, EnrichInv, TypeOK
  <2>4. EnrichInv'
    BY <1>1, <1>3, <2>1, <2>2, <2>3 DEF EnrichInv
  <2>5. LetterInv'
    BY <1>1, <1>3, <2>1, <2>2, LetterQuiet
  <2> QED
    BY <1>3, <2>1, <2>4, <2>5
<1>8. CASE /\ CommitOutcome(w) /\ MustReport(w) /\ GoTo(w, "report")
           /\ UNCHANGED <<groupVars, upto, left, outcomes>>
  <2>1. /\ TypeOK' /\ BatchInv' /\ OffsetInv'
        /\ pc'[w] = "report" /\ Reading(w)' = Reading(w)
        /\ \A v \in Workers : v # w =>
             Enriching(v)' = Enriching(v) /\ Reporting(v)' = Reporting(v)
    BY <1>1, <1>3, <1>8, ReadyStep
  <2>2. Reporting(w)' = {Reading(w)} /\ Enriching(w)' = {}
    BY <2>1 DEF Enriching, Reporting
  <2>3. Reading(w) \notin Unmapped /\ Reading(w) \in Unmapped' /\ letters[Reading(w)] = 0
    BY <1>3, <1>8 DEF MustReport, NewAudit, Unmapped, LetterInv, TypeOK
  <2>4. LetterInv'
    BY <1>1, <1>3, <2>1, <2>2, <2>3 DEF LetterInv
  <2>5. EnrichInv'
    BY <1>1, <1>3, <2>1, <2>2, EnrichQuiet
  <2> QED
    BY <1>3, <2>1, <2>4, <2>5
<1> QED
  BY <1>5, <1>6, <1>7, <1>8 DEF PersistOutcome

LEMMA PublishEnrichedStep ==
  ASSUME IInv, NEW w \in Workers, PublishEnriched(w)
  PROVE  IInv'
<1> USE DEF IInv
<1>1. /\ pc[w] = "enrich" /\ HandlerOK(w) /\ DOMAIN outcomes[w] # {}
      /\ audit[Reading(w)] # "none" /\ UNCHANGED <<audit, semantic, letters, invalidLetters>>
  BY DEF PublishEnriched, BatchInv, HandlerOK, storeVars
<1>2. PICK r \in Readings : r = Reading(w)
  BY <1>1, CurrentFacts
<1>3. Enriching(w) = {r} /\ r \in semantic /\ enriched[r] = 0
  BY <1>1, <1>2 DEF EnrichInv, Enriching
<1>4. enriched' \in {enriched, [enriched EXCEPT ![r] = @ + 1]}
  BY <1>2 DEF PublishEnriched, Send
<1>5. /\ enriched' \in [Readings -> Nat]
      /\ \A s \in Readings : s # r => enriched'[s] = enriched[s]
  <2>1. enriched \in [Readings -> Nat]
    BY DEF TypeOK
  <2> QED
    BY <1>4, <2>1
<1>6. AuditStays /\ TablesTyped' /\ AuditInv' /\ Unmapped' = Unmapped
  BY <1>1, <1>5, TypeParts DEF AuditStays, TablesTyped, AuditInv, Unmapped
<1>7. Orderly /\ Enriching(w)' = {}
  <2>1. CASE Throw(w)
    BY <1>6, <2>1, ThrowStep, LeavesFacts DEF Throw, Fails
  <2>2. CASE NextOutcome(w) /\ UNCHANGED <<groupVars, upto, left>>
    BY <1>1, <1>6, <2>2, NextOutcomeStep
  <2> QED
    BY <2>1, <2>2 DEF PublishEnriched
<1>8. EnrichInv'
  <2>1. \A s \in Readings : enriched'[s] > 0 => s \in semantic
    BY <1>3, <1>5 DEF EnrichInv
  <2>2. \A v \in Workers : \A s \in Enriching(v)' : s # r /\ s \in Enriching(v)
    BY <1>3, <1>7 DEF EnrichInv, Orderly
  <2>3. \A v \in Workers : \A s \in Enriching(v)' : s \in semantic /\ enriched'[s] = 0
    BY <1>5, <2>2 DEF EnrichInv, TypeOK, Unmapped
  <2> QED
    BY <1>1, <1>6, <1>7, <2>1, <2>3 DEF EnrichInv, Orderly
<1>9. LetterInv'
  BY <1>1, <1>6, <1>7, LetterQuiet DEF Orderly
<1> QED
  BY <1>6, <1>7, <1>8, <1>9 DEF Orderly

LEMMA PublishLetterStep ==
  ASSUME IInv, NEW w \in Workers, PublishLetter(w)
  PROVE  IInv'
<1> USE DEF IInv
<1>1. /\ pc[w] = "report" /\ HandlerOK(w) /\ DOMAIN outcomes[w] # {}
      /\ audit[Reading(w)] # "none" /\ UNCHANGED <<audit, semantic, enriched, invalidLetters>>
  BY DEF PublishLetter, BatchInv, HandlerOK, storeVars
<1>2. PICK r \in Readings : r = Reading(w)
  BY <1>1, CurrentFacts
<1>3. Reporting(w) = {r} /\ r \in Unmapped /\ letters[r] = 0
  BY <1>1, <1>2 DEF LetterInv, Reporting
<1>4. letters' \in {letters, [letters EXCEPT ![r] = @ + 1]}
  BY <1>2 DEF PublishLetter, Send
<1>5. /\ letters' \in [Readings -> Nat]
      /\ \A s \in Readings : s # r => letters'[s] = letters[s]
  BY <1>4 DEF TypeOK
<1>6. AuditStays /\ TablesTyped' /\ AuditInv' /\ Unmapped' = Unmapped
  BY <1>1, <1>5, TypeParts DEF AuditStays, TablesTyped, AuditInv, Unmapped
<1>7. Orderly /\ Reporting(w)' = {}
  <2>1. CASE Throw(w)
    BY <1>6, <2>1, ThrowStep, LeavesFacts DEF Throw, Fails
  <2>2. CASE NextOutcome(w) /\ UNCHANGED <<groupVars, upto, left>>
    BY <1>1, <1>6, <2>2, NextOutcomeStep
  <2> QED
    BY <2>1, <2>2 DEF PublishLetter
<1>8. LetterInv'
  <2>1. \A s \in Readings : letters'[s] > 0 => s \in Unmapped
    BY <1>3, <1>5 DEF LetterInv
  <2>2. \A v \in Workers : \A s \in Reporting(v)' : s # r /\ s \in Reporting(v)
    BY <1>3, <1>7 DEF LetterInv, Orderly
  <2>3. \A v \in Workers : \A s \in Reporting(v)' : s \in Unmapped /\ letters'[s] = 0
    BY <1>5, <2>2 DEF LetterInv, TypeOK, Unmapped
  <2> QED
    BY <1>1, <1>6, <1>7, <2>1, <2>3 DEF LetterInv, Orderly
<1>9. EnrichInv'
  BY <1>1, <1>6, <1>7, EnrichQuiet DEF Orderly
<1> QED
  BY <1>6, <1>7, <1>8, <1>9 DEF Orderly

-----------------------------------------------------------------------------
(* Offsets, rebalances and crashes                                         *)

\* A step that touches no table and no topic, and after which every worker is
\* where it was or idle, keeps everything if it keeps the offsets settled.
LEMMA GroupStep ==
  ASSUME IInv, UNCHANGED <<storeVars, topicVars>>, WorkersTyped', GroupTypeOK(Last)',
         \A v \in Workers :
           \/ pc'[v] = "idle" /\ HandlerOK(v)'
           \/ /\ pc'[v] = pc[v] /\ upto'[v] = upto[v] /\ left'[v] = left[v]
              /\ outcomes'[v] = outcomes[v] /\ position'[v] = position[v],
         \A o \in 1..committed' - 1 : IsSettled(o),
         \A v \in Workers : \A o \in 1..position'[v] - 1 : IsSettled(o)
  PROVE  IInv'
<1> USE DEF IInv
<1>1. TablesTyped' /\ \A o : IsSettled(o) => IsSettled(o)'
  BY TypeParts DEF TablesTyped, storeVars, topicVars, IsSettled
<1>2. TypeOK'
  BY <1>1, TypeParts, PTL
<1>3. ASSUME NEW v \in Workers
      PROVE  /\ HandlerOK(v)'
             /\ Enriching(v)' \subseteq Enriching(v) /\ Reporting(v)' \subseteq Reporting(v)
  <2>1. CASE pc'[v] = "idle" /\ HandlerOK(v)'
    BY <2>1 DEF Enriching, Reporting
  <2>2. CASE /\ pc'[v] = pc[v] /\ upto'[v] = upto[v] /\ left'[v] = left[v]
             /\ outcomes'[v] = outcomes[v] /\ position'[v] = position[v]
    <3>1. Reading(v)' = Reading(v) /\ HandlerOK(v) /\ audit' = audit
      BY <2>2 DEF Reading, Current, BatchInv, storeVars
    <3>2. HandlerOK(v)'
      BY <1>1, <2>2, <3>1 DEF HandlerOK
    <3> QED
      BY <2>2, <3>1, <3>2 DEF Enriching, Reporting
  <2> QED
    BY <2>1, <2>2
<1>4. BatchInv'
  BY <1>3 DEF BatchInv
<1>5. OffsetInv'
  BY <1>1 DEF OffsetInv, OffsetsAreDurable
<1> QED
  BY <1>2, <1>3, <1>4, <1>5, OrderlySuffices DEF Orderly, storeVars, topicVars

LEMMA CommitBatchStep ==
  ASSUME IInv, NEW w \in Workers, CommitBatch(w)
  PROVE  IInv'
<1> USE DEF IInv
<1>1. /\ HandlerOK(w) /\ pc[w] = "commit" /\ Leaves(w) /\ owner' = owner
      /\ UNCHANGED <<storeVars, topicVars>>
      /\ left[w] = {} /\ DOMAIN outcomes[w] = {}
  BY DEF CommitBatch, Fails, BatchInv, HandlerOK
<1>2. /\ position \in [Workers -> 1..Last + 1] /\ committed \in 1..Last + 1
      /\ upto[w] \in 0..Last
  BY DEF TypeOK, GroupTypeOK
<1>3. /\ committed' \in {committed, upto[w] + 1}
      /\ position' \in {position, [position EXCEPT ![w] = upto[w] + 1]}
      /\ disturbances' \in 0..MaxDisturbances
  BY GroupAssumption
     DEF CommitBatch, CommitOffset, Advance, NextOffset, Fails, TypeOK, GroupTypeOK
<1>4. \A o \in 1..upto[w] : IsSettled(o)
  <2>1. \A o \in position[w]..upto[w] : IsSettled(o)
    BY <1>1 DEF HandlerOK
  <2>2. \A o \in 1..position[w] - 1 : IsSettled(o)
    BY DEF OffsetInv
  <2>3. \A o \in 1..upto[w] : o \in position[w]..upto[w] \/ o \in 1..position[w] - 1
    BY <1>2, LogFacts
  <2> QED
    BY <2>1, <2>2, <2>3
<1>5. \A o \in 1..(upto[w] + 1) - 1 : IsSettled(o)
  BY <1>2, <1>4, LogFacts
<1>6. \A o \in 1..committed' - 1 : IsSettled(o)
  BY <1>3, <1>5 DEF OffsetInv, OffsetsAreDurable
<1>7. /\ position' \in [Workers -> 1..Last + 1]
      /\ position'[w] \in {position[w], upto[w] + 1}
      /\ \A v \in Workers : v # w => position'[v] = position[v]
  BY <1>2, <1>3, LogFacts
<1>8. \A v \in Workers : \A o \in 1..position'[v] - 1 : IsSettled(o)
  BY <1>5, <1>7 DEF OffsetInv
<1>9. GroupTypeOK(Last)'
  BY <1>1, <1>2, <1>3, <1>7, LogFacts DEF TypeOK, GroupTypeOK
<1>10. /\ WorkersTyped' /\ HandlerOK(w)' /\ pc'[w] = "idle"
       /\ \A v \in Workers : v # w =>
            /\ pc'[v] = pc[v] /\ upto'[v] = upto[v] /\ left'[v] = left[v]
            /\ outcomes'[v] = outcomes[v] /\ position'[v] = position[v]
  BY <1>1, <1>7, LeavesFacts
<1> QED
  BY <1>1, <1>6, <1>8, <1>9, <1>10, GroupStep

LEMMA JoinStep ==
  ASSUME IInv, NEW w \in Workers, Join(w)
  PROVE  IInv'
<1> USE DEF IInv
<1>1. /\ pc[w] = "idle" /\ HandlerOK(w) /\ owner' = w
      /\ position' = [position EXCEPT ![w] = committed]
      /\ UNCHANGED <<committed, disturbances, storeVars, topicVars>>
      /\ UNCHANGED <<pc, upto, left, outcomes>>
  BY DEF Join, Assign, BatchInv, workerVars
<1>2. /\ position' \in [Workers -> 1..Last + 1] /\ position'[w] = committed
      /\ \A v \in Workers : v # w => position'[v] = position[v]
  BY <1>1 DEF TypeOK, GroupTypeOK
<1>3. GroupTypeOK(Last)' /\ WorkersTyped'
  BY <1>1, <1>2, TypeParts DEF GroupTypeOK, WorkersTyped
<1>4. HandlerOK(w)'
  BY <1>1 DEF HandlerOK
<1>5. /\ \A o \in 1..committed' - 1 : IsSettled(o)
      /\ \A v \in Workers : \A o \in 1..position'[v] - 1 : IsSettled(o)
  BY <1>1, <1>2 DEF OffsetInv, OffsetsAreDurable
<1> QED
  BY <1>1, <1>2, <1>3, <1>4, <1>5, GroupStep

LEMMA LosePartitionStep ==
  ASSUME IInv, LosePartition
  PROVE  IInv'
<1> USE DEF IInv
<1>1. /\ owner' = NoWorker /\ disturbances' \in 0..MaxDisturbances
      /\ UNCHANGED <<committed, position, storeVars, topicVars>>
      /\ UNCHANGED <<pc, upto, left, outcomes>>
  BY GroupAssumption DEF TypeOK, GroupTypeOK, LosePartition, Revoke, workerVars
<1>2. GroupTypeOK(Last)' /\ WorkersTyped'
  BY <1>1, TypeParts DEF GroupTypeOK, WorkersTyped
<1> QED
  BY <1>1, <1>2, GroupStep DEF OffsetInv, OffsetsAreDurable

LEMMA CrashStep ==
  ASSUME IInv, NEW w \in Workers, Crash(w)
  PROVE  IInv'
<1> USE DEF IInv
<1>1. /\ owner' \in Workers \cup {NoWorker} /\ disturbances' \in 0..MaxDisturbances
      /\ Leaves(w) /\ UNCHANGED <<committed, position, storeVars, topicVars>>
  BY GroupAssumption DEF TypeOK, GroupTypeOK, Crash, Leave
<1>2. GroupTypeOK(Last)'
  BY <1>1 DEF TypeOK, GroupTypeOK
<1> QED
  BY <1>1, <1>2, LeavesFacts, GroupStep DEF OffsetInv, OffsetsAreDurable

-----------------------------------------------------------------------------
(* The theorems                                                            *)

LEMMA StepPreserves == IInv /\ [Next]_vars => IInv'
<1> SUFFICES ASSUME IInv, [Next]_vars PROVE IInv'
  OBVIOUS
<1>1. ASSUME NEW w \in Workers, Work(w) PROVE IInv'
  BY <1>1, FetchBatchStep, SendInvalidStep, MapBatchStep, PersistOutcomeStep,
     PublishEnrichedStep, PublishLetterStep, RecordMetricsStep, CommitBatchStep DEF Work
<1>2. CASE UNCHANGED vars
  <2>1. /\ UNCHANGED <<storeVars, topicVars, committed, position>>
        /\ GroupTypeOK(Last)' /\ WorkersTyped'
        /\ UNCHANGED <<pc, upto, left, outcomes>>
    BY <1>2, TypeParts DEF vars, groupVars, workerVars, IInv, GroupTypeOK, WorkersTyped
  <2> QED
    BY <2>1, GroupStep DEF IInv, OffsetInv, OffsetsAreDurable
<1> QED
  BY <1>1, <1>2, JoinStep, CrashStep, LosePartitionStep DEF Next

\* The invariant above, for any log, batch limit, workers and disturbances.
THEOREM ConnectorInvariance == Spec => []IInv
<1> QED
  BY InitEstablishes, StepPreserves, PTL DEF Spec

\* Variables stay in their types.
THEOREM ConnectorTypeCorrect == Spec => []TypeOK
<1>1. IInv => TypeOK
  BY DEF IInv
<1> QED
  BY <1>1, ConnectorInvariance, PTL

\* Offsets are committed only after every reading below them has a durable
\* terminal outcome: what docs/slm-scalability-architecture.md promises.
THEOREM CommittedIsDurable == Spec => []OffsetsAreDurable
<1>1. IInv => OffsetsAreDurable
  BY DEF IInv, OffsetInv
<1> QED
  BY <1>1, ConnectorInvariance, PTL

-----------------------------------------------------------------------------
(* Before the first disturbance                                            *)

\* The offset a worker goes on from when it is done with its batch.
NextUp(w) == IF pc[w] = "idle" THEN position[w] ELSE upto[w] + 1

\* The offsets a worker has still to persist an outcome of.
Waiting(w) ==
  {o \in 1..Last :
     \/ o \in left[w]
     \/ o \in DOMAIN outcomes[w] /\ ~ (pc[w] \in {"enrich", "report"} /\ o = Current(w))
     \/ o >= NextUp(w)}

CalmInv ==
  disturbances = 0 =>
    /\ \A w \in Workers : pc[w] # "idle" => owner = w
    /\ owner = NoWorker => \A r \in Readings : audit[r] = "none"
    /\ \A w \in Workers : owner = w =>
         /\ DOMAIN outcomes[w] \cap left[w] = {}
         /\ pc[w] # "idle" => \A o \in DOMAIN outcomes[w] : o <= upto[w]
         /\ \A o \in Waiting(w) : Log[o] \in Readings =>
              Repeated(Log[o]) \/ audit[Log[o]] = "none"

\* A step of the one worker that is about keeps that, if it takes on nothing
\* and audits only what it is done with.
LEMMA CalmStep ==
  ASSUME IInv, CalmInv, NEW w \in Workers, UNCHANGED <<owner, disturbances>>,
         disturbances = 0, owner = w,
         \A v \in Workers : v # w => pc'[v] = pc[v],
         DOMAIN outcomes'[w] \cap left'[w] = {},
         pc'[w] # "idle" => \A o \in DOMAIN outcomes'[w] : o <= upto'[w],
         Waiting(w)' \subseteq Waiting(w),
         \A r \in Readings : audit'[r] = audit[r] \/
           \E o \in (1..Last) \ Waiting(w)' : Log[o] = r
  PROVE  CalmInv'
<1>1. owner' = w /\ w # NoWorker /\ owner # NoWorker
  BY GroupAssumption
<1>2. \A v \in Workers : pc'[v] # "idle" => owner' = v
  BY <1>1 DEF CalmInv
<1>3. ASSUME NEW o \in Waiting(w)', Log[o] \in Readings
      PROVE  Repeated(Log[o]) \/ audit'[Log[o]] = "none"
  <2>1. o \in Waiting(w) /\ o \in 1..Last
    BY DEF Waiting
  <2>2. Repeated(Log[o]) \/ audit[Log[o]] = "none"
    BY <1>3, <2>1 DEF CalmInv
  <2>3. CASE audit'[Log[o]] = audit[Log[o]]
    BY <2>2, <2>3
  <2>4. CASE \E p \in (1..Last) \ Waiting(w)' : Log[p] = Log[o]
    BY <1>3, <2>1, <2>4 DEF Repeated
  <2> QED
    BY <1>3, <2>3, <2>4
<1>4. \A o \in Waiting(w)' : Log[o] \in Readings => Repeated(Log[o])' \/ audit'[Log[o]] = "none"
  BY <1>3 DEF Repeated
<1> QED
  BY <1>1, <1>2, <1>4 DEF CalmInv

\* What a worker of a calm group has in hand.
LEMMA CalmFacts ==
  ASSUME IInv, CalmInv, disturbances = 0, NEW w \in Workers, pc[w] # "idle"
  PROVE  /\ owner = w /\ HandlerOK(w) /\ DOMAIN outcomes[w] \cap left[w] = {}
         /\ \A o \in DOMAIN outcomes[w] : o <= upto[w]
         /\ left[w] \subseteq 1..Last /\ upto[w] \in 0..Last
         /\ \A o \in left[w] : o <= upto[w]
<1>1. owner = w /\ DOMAIN outcomes[w] \cap left[w] = {} /\ HandlerOK(w)
      /\ \A o \in DOMAIN outcomes[w] : o <= upto[w]
  BY DEF CalmInv, IInv, BatchInv
<1>2. left[w] \subseteq 1..Last /\ upto[w] \in 0..Last /\ position[w] \in 1..Last + 1
  BY DEF IInv, TypeOK, GroupTypeOK
<1>3. left[w] \subseteq position[w]..upto[w]
  BY <1>1 DEF HandlerOK
<1> QED
  BY <1>1, <1>2, <1>3, LogFacts

LEMMA CalmFetch ==
  ASSUME IInv, CalmInv, NEW w \in Workers, FetchBatch(w)
  PROVE  CalmInv'
<1>1. PICK last \in position[w]..Last :
        /\ upto' = [upto EXCEPT ![w] = last]
        /\ left' = [left EXCEPT ![w] = position[w]..last]
        /\ GoTo(w, StepFor(position[w]..last))
  BY DEF FetchBatch
<1>2. /\ pc[w] = "idle" /\ owner = w /\ HandlerOK(w)
      /\ UNCHANGED <<owner, disturbances, position, audit, outcomes>>
  BY DEF FetchBatch, groupVars, storeVars, IInv, BatchInv
<1>3. /\ DOMAIN outcomes[w] = {} /\ position[w] \in 1..Last + 1
  BY <1>2 DEF HandlerOK, IInv, TypeOK, GroupTypeOK
<1>4. /\ upto'[w] = last /\ left'[w] = position[w]..last /\ outcomes'[w] = outcomes[w]
      /\ position'[w] = position[w] /\ pc'[w] # "idle"
      /\ \A v \in Workers : v # w => pc'[v] = pc[v]
  BY <1>1, <1>2 DEF IInv, TypeOK, GoTo, StepFor
<1>5. Waiting(w)' \subseteq Waiting(w)
  BY <1>2, <1>3, <1>4, LogFacts DEF Waiting, NextUp
<1>6. CASE disturbances = 0
  BY <1>2, <1>3, <1>4, <1>5, <1>6, CalmStep
<1>7. CASE disturbances # 0
  BY <1>2, <1>7 DEF CalmInv
<1> QED
  BY <1>6, <1>7

\* Steps that audit nothing and have no outcome in hand.
LEMMA CalmBefore ==
  ASSUME IInv, CalmInv, NEW w \in Workers,
         SendInvalid(w) \/ MapBatch(w) \/ RecordMetrics(w), disturbances' = 0
  PROVE  CalmInv'
<1>1. /\ pc[w] \in {"invalid", "map", "metrics"} /\ UNCHANGED audit
      /\ ~ Throw(w) /\ disturbances = 0
      /\ UNCHANGED <<owner, position, upto, disturbances>>
  <2>1. ~ Throw(w)
    BY DEF Throw, Fails, IInv, TypeOK, GroupTypeOK
  <2> QED
    BY <2>1 DEF SendInvalid, MapBatch, RecordMetrics, storeVars, groupVars
<1>2. /\ owner = w /\ HandlerOK(w) /\ left[w] \subseteq 1..Last /\ upto[w] \in 0..Last
      /\ DOMAIN outcomes[w] = {} /\ \A o \in left[w] : o <= upto[w]
  BY <1>1, CalmFacts DEF HandlerOK
<1>3. /\ pc'[w] # "idle" /\ \A v \in Workers : v # w => pc'[v] = pc[v]
      /\ left'[w] \subseteq left[w] /\ DOMAIN outcomes'[w] \subseteq left[w]
      /\ DOMAIN outcomes'[w] \cap left'[w] = {}
  <2>1. CASE SendInvalid(w)
    <3>1. PICK o : /\ left' = [left EXCEPT ![w] = @ \ {o}]
                   /\ GoTo(w, StepFor(left[w] \ {o})) /\ UNCHANGED outcomes
      BY <1>1, <2>1 DEF SendInvalid
    <3>2. left'[w] = left[w] \ {o} /\ pc' = [pc EXCEPT ![w] = StepFor(left[w] \ {o})]
      BY <3>1 DEF IInv, TypeOK, GoTo
    <3>3. StepFor(left[w] \ {o}) # "idle"
      BY DEF StepFor
    <3>4. pc'[w] # "idle" /\ \A v \in Workers : v # w => pc'[v] = pc[v]
      BY <3>2, <3>3 DEF IInv, TypeOK
    <3> QED
      BY <1>2, <3>1, <3>2, <3>4
  <2>2. CASE RecordMetrics(w)
    BY <1>1, <1>2, <2>2 DEF RecordMetrics, IInv, TypeOK, GoTo, StepFor
  <2>3. CASE MapBatch(w)
    <3>1. PICK last \in left[w] :
            \E verdict \in [{Log[o] : o \in {p \in left[w] : p <= last}} -> Verdicts] :
              /\ outcomes' = [outcomes EXCEPT ![w] =
                                [o \in {p \in left[w] : p <= last} |-> verdict[Log[o]]]]
              /\ left' = [left EXCEPT ![w] = @ \ {p \in left[w] : p <= last}]
              /\ GoTo(w, "persist")
      BY <1>1, <2>3 DEF MapBatch
    <3>2. /\ DOMAIN outcomes'[w] = {p \in left[w] : p <= last}
          /\ left'[w] = left[w] \ {p \in left[w] : p <= last}
      BY <3>1 DEF IInv, TypeOK
    <3>3. pc'[w] = "persist" /\ \A v \in Workers : v # w => pc'[v] = pc[v]
      BY <3>1 DEF IInv, TypeOK, GoTo
    <3> QED
      BY <3>2, <3>3
  <2> QED
    BY <2>1, <2>2, <2>3
<1>4. Waiting(w)' \subseteq Waiting(w)
  BY <1>1, <1>2, <1>3 DEF Waiting, NextUp
<1>5. \A o \in DOMAIN outcomes'[w] : o <= upto'[w]
  BY <1>1, <1>2, <1>3
<1> QED
  BY <1>1, <1>2, <1>3, <1>4, <1>5, CalmStep

\* An outcome that is persisted, published or passed over is done with.
LEMMA CalmPersist ==
  ASSUME IInv, CalmInv, NEW w \in Workers,
         PersistOutcome(w) \/ PublishEnriched(w) \/ PublishLetter(w), disturbances' = 0
  PROVE  CalmInv'
<1>1. /\ pc[w] \in {"persist", "enrich", "report"} /\ ~ Throw(w)
      /\ UNCHANGED <<upto, left>> /\ UNCHANGED groupVars
  <2>1. ~ Throw(w)
    BY DEF Throw, Fails, IInv, TypeOK, GroupTypeOK
  <2> QED
    BY <2>1 DEF PersistOutcome, PublishEnriched, PublishLetter
<1>2. /\ disturbances = 0 /\ UNCHANGED <<owner, position, upto, left, disturbances>>
  BY <1>1 DEF groupVars
<1>3. /\ owner = w /\ HandlerOK(w) /\ DOMAIN outcomes[w] \cap left[w] = {}
      /\ \A o \in DOMAIN outcomes[w] : o <= upto[w]
      /\ upto[w] \in 0..Last /\ DOMAIN outcomes[w] # {}
  BY <1>1, <1>2, CalmFacts DEF HandlerOK
<1>4. PICK cur \in DOMAIN outcomes[w] :
        cur = Current(w) /\ cur \in 1..Last /\ Reading(w) = Log[cur]
  BY <1>3, CurrentFacts DEF IInv, Reading
<1>5. \/ NextOutcome(w)
      \/ \E step \in {"enrich", "report"} : GoTo(w, step) /\ UNCHANGED outcomes
  BY <1>1 DEF PersistOutcome, PublishEnriched, PublishLetter
<1>6. /\ pc'[w] # "idle" /\ \A v \in Workers : v # w => pc'[v] = pc[v]
      /\ DOMAIN outcomes'[w] \subseteq DOMAIN outcomes[w]
      /\ cur \in DOMAIN outcomes'[w] => pc'[w] \in {"enrich", "report"} /\ cur = Current(w)'
      /\ pc[w] \in {"enrich", "report"} => cur \notin DOMAIN outcomes'[w]
  <2>1. CASE NextOutcome(w)
    <3> DEFINE rest == DOMAIN outcomes[w] \ {cur}
    <3>1. /\ outcomes' = [outcomes EXCEPT ![w] = [o \in rest |-> outcomes[w][o]]]
          /\ GoTo(w, IF rest = {} THEN "metrics" ELSE "persist")
      BY <1>4, <2>1 DEF NextOutcome
    <3>2. DOMAIN outcomes'[w] = rest
      BY <3>1 DEF IInv, TypeOK
    <3>3. pc'[w] # "idle" /\ \A v \in Workers : v # w => pc'[v] = pc[v]
      BY <3>1 DEF IInv, TypeOK, GoTo
    <3> QED
      BY <3>2, <3>3
  <2>2. CASE \E step \in {"enrich", "report"} : GoTo(w, step) /\ UNCHANGED outcomes
    <3>1. pc'[w] \in {"enrich", "report"} /\ \A v \in Workers : v # w => pc'[v] = pc[v]
      BY <2>2 DEF IInv, TypeOK, GoTo
    <3>2. Current(w)' = Current(w) /\ outcomes' = outcomes
      BY <2>2 DEF Current
    <3>3. pc[w] = "persist" \/ NextOutcome(w)
      BY <1>1 DEF PersistOutcome, PublishEnriched, PublishLetter
    <3> QED
      BY <1>4, <2>1, <3>1, <3>2, <3>3
  <2> QED
    BY <1>5, <2>1, <2>2
<1>7. Waiting(w)' \subseteq Waiting(w)
  BY <1>1, <1>2, <1>4, <1>6 DEF Waiting, NextUp
<1>8. cur \notin Waiting(w)'
  <2>1. cur \notin left'[w] /\ ~ (cur >= NextUp(w)')
    BY <1>2, <1>3, <1>4, <1>6, LogFacts DEF NextUp
  <2> QED
    BY <1>6, <2>1 DEF Waiting
<1>9. \A r \in Readings : audit'[r] = audit[r] \/ r = Log[cur]
  <2>1. audit' \in {audit, [audit EXCEPT ![Log[cur]] = Verdict(w)]}
    BY <1>1, <1>4 DEF PersistOutcome, PublishEnriched, PublishLetter, CommitOutcome,
                      Rollback, storeVars
  <2> QED
    BY <2>1 DEF IInv, TypeOK
<1>10. \A o \in DOMAIN outcomes'[w] : o <= upto'[w]
  BY <1>2, <1>3, <1>6
<1> QED
  BY <1>2, <1>3, <1>4, <1>6, <1>7, <1>8, <1>9, <1>10, CalmStep

LEMMA CalmCommit ==
  ASSUME IInv, CalmInv, NEW w \in Workers, CommitBatch(w), disturbances' = 0
  PROVE  CalmInv'
<1>1. /\ pc[w] = "commit" /\ Leaves(w) /\ Advance(w, upto[w] + 1)
      /\ UNCHANGED <<owner, disturbances, audit>>
  BY DEF CommitBatch, NextOffset, Fails, storeVars, IInv, TypeOK, GroupTypeOK
<1>2. /\ owner = w /\ HandlerOK(w) /\ disturbances = 0
      /\ left[w] = {} /\ DOMAIN outcomes[w] = {}
  BY <1>1, CalmFacts DEF HandlerOK
<1>3. /\ pc'[w] = "idle" /\ HandlerOK(w)' /\ \A v \in Workers : v # w => pc'[v] = pc[v]
  BY <1>1, LeavesFacts
<1>4. position'[w] = upto[w] + 1 /\ left'[w] = {} /\ DOMAIN outcomes'[w] = {}
  BY <1>1, <1>3 DEF IInv, TypeOK, GroupTypeOK, Advance, HandlerOK
<1>5. Waiting(w)' \subseteq Waiting(w)
  BY <1>1, <1>3, <1>4 DEF Waiting, NextUp
<1> QED
  BY <1>1, <1>2, <1>3, <1>4, <1>5, CalmStep

\* The first worker to join finds nothing audited.
LEMMA CalmJoin ==
  ASSUME IInv, CalmInv, NEW w \in Workers, Join(w)
  PROVE  CalmInv'
<1>1. /\ pc[w] = "idle" /\ owner = NoWorker /\ owner' = w
      /\ UNCHANGED <<disturbances, audit, pc, upto, left, outcomes>>
  BY DEF Join, Assign, storeVars, workerVars
<1>2. HandlerOK(w) /\ GroupAssumption
  BY GroupAssumption DEF IInv, BatchInv
<1>3. CASE disturbances = 0
  <2>1. \A r \in Readings : audit[r] = "none"
    BY <1>1, <1>3 DEF CalmInv
  <2>2. \A v \in Workers : pc[v] = "idle"
    BY <1>1, <1>3, GroupAssumption DEF CalmInv
  <2>3. left[w] = {} /\ DOMAIN outcomes[w] = {}
    BY <1>1, <1>2 DEF HandlerOK
  <2>4. \A o \in Waiting(w)' : Log[o] \in Readings => audit'[Log[o]] = "none"
    BY <1>1, <2>1
  <2> QED
    BY <1>1, <2>2, <2>3, <2>4, GroupAssumption DEF CalmInv
<1>4. CASE disturbances # 0
  BY <1>1, <1>4 DEF CalmInv
<1> QED
  BY <1>3, <1>4

LEMMA CalmPreserved == IInv /\ CalmInv /\ [Next]_vars => CalmInv'
<1> SUFFICES ASSUME IInv, CalmInv, [Next]_vars PROVE CalmInv'
  OBVIOUS
<1>1. CASE disturbances' = 0
  <2>1. ASSUME NEW w \in Workers, Work(w) PROVE CalmInv'
    BY <1>1, <2>1, CalmFetch, CalmBefore, CalmPersist, CalmCommit DEF Work
  <2>2. ASSUME NEW w \in Workers, Crash(w) PROVE FALSE
    BY <1>1, <2>2 DEF Crash, Leave, IInv, TypeOK, GroupTypeOK
  <2>3. CASE LosePartition
    BY <1>1, <2>3 DEF LosePartition, Revoke, IInv, TypeOK, GroupTypeOK
  <2>4. CASE UNCHANGED vars
    BY <2>4 DEF vars, groupVars, storeVars, workerVars, CalmInv, Waiting, NextUp, Current,
                Repeated
  <2> QED
    BY <2>1, <2>2, <2>3, <2>4, CalmJoin DEF Next
<1>2. CASE disturbances' # 0
  BY <1>2 DEF CalmInv
<1> QED
  BY <1>1, <1>2

\* A mapping that is stored finds the audit of its own call, or an earlier one.
LEMMA AgreePreserved ==
  IInv /\ CalmInv /\ MappingsAreAudited /\ IInv' /\ [Next]_vars => MappingsAreAudited'
<1> SUFFICES ASSUME IInv, CalmInv, MappingsAreAudited, IInv', [Next]_vars,
                    NEW r \in Readings
             PROVE  /\ audit'[r] = "mapped" => r \in semantic'
                    /\ r \in semantic' =>
                         \/ audit'[r] = "mapped"
                         \/ audit'[r] = "safely_unmapped" /\ (disturbances' > 0 \/ Repeated(r))
  BY DEF MappingsAreAudited, Repeated
<1>1. /\ audit'[r] = "mapped" => r \in semantic'
      /\ r \in semantic' => audit'[r] \in {"mapped", "safely_unmapped"}
  BY DEF IInv, AuditInv, TypeOK, Verdicts
<1>2. disturbances > 0 => disturbances' > 0
  <2>1. disturbances' \in {disturbances, disturbances + 1}
    <3>1. ASSUME NEW w \in Workers, Work(w) PROVE disturbances' \in {disturbances, disturbances + 1}
      BY <3>1 DEF Work, FetchBatch, SendInvalid, MapBatch, PersistOutcome, PublishEnriched,
                  PublishLetter, RecordMetrics, CommitBatch, Throw, Fails, groupVars
    <3> QED
      BY <3>1 DEF Next, Join, Assign, Crash, Leave, LosePartition, Revoke, vars, groupVars
  <2> QED
    BY <2>1 DEF IInv, TypeOK, GroupTypeOK
<1>3. ASSUME r \in semantic', audit'[r] = "safely_unmapped", disturbances' = 0
      PROVE  Repeated(r)
  <2>0. disturbances = 0
    BY <1>2, <1>3 DEF IInv, TypeOK, GroupTypeOK
  <2>1. CASE \E w \in Workers : PersistOutcome(w) /\ CommitOutcome(w)
    <3>1. PICK w \in Workers : PersistOutcome(w) /\ CommitOutcome(w)
      BY <2>1
    <3>2. /\ pc[w] = "persist" /\ HandlerOK(w) /\ owner = w /\ DOMAIN outcomes[w] # {}
      BY <2>0, <3>1, CalmFacts DEF PersistOutcome, HandlerOK
    <3>3. PICK cur \in DOMAIN outcomes[w] :
            /\ cur = Current(w) /\ cur \in 1..Last
            /\ Reading(w) \in Readings /\ Reading(w) = Log[cur]
      BY <3>2, CurrentFacts DEF IInv, Reading
    <3>4. cur \in Waiting(w)
      BY <3>2, <3>3 DEF Waiting
    <3>5. Repeated(Log[cur]) \/ audit[Log[cur]] = "none"
      BY <2>0, <3>2, <3>3, <3>4 DEF CalmInv
    <3>6. /\ semantic' = IF NewSemantic(w) THEN semantic \cup {Log[cur]} ELSE semantic
          /\ audit' = IF NewAudit(w) THEN [audit EXCEPT ![Log[cur]] = Verdict(w)] ELSE audit
      BY <3>1, <3>3 DEF CommitOutcome
    <3>7. CASE r = Log[cur] /\ audit[r] = "none"
      <4>1. r \notin semantic
        BY <3>7 DEF IInv, AuditInv
      <4>2. NewSemantic(w) /\ Verdict(w) = "mapped"
        BY <1>3, <3>6, <4>1 DEF NewSemantic
      <4>3. NewAudit(w)
        BY <3>3, <3>7 DEF NewAudit
      <4>4. audit'[r] = "mapped"
        BY <3>6, <4>2, <4>3, <3>7 DEF IInv, TypeOK
      <4> QED
        BY <1>3, <4>4
    <3>8. CASE r # Log[cur]
      <4>1. r \in semantic /\ audit[r] = "safely_unmapped"
        BY <1>3, <3>6, <3>8 DEF IInv, TypeOK
      <4> QED
        BY <2>0, <4>1 DEF MappingsAreAudited
    <3> QED
      BY <3>5, <3>7, <3>8
  <2>2. CASE UNCHANGED <<audit, semantic>>
    BY <1>3, <2>0, <2>2 DEF MappingsAreAudited
  <2>3. \/ \E w \in Workers : PersistOutcome(w) /\ CommitOutcome(w)
        \/ UNCHANGED <<audit, semantic>>
    <3>1. ASSUME NEW w \in Workers, Work(w)
          PROVE  (PersistOutcome(w) /\ CommitOutcome(w)) \/ UNCHANGED <<audit, semantic>>
      BY <3>1 DEF Work, FetchBatch, SendInvalid, MapBatch, PersistOutcome, PublishEnriched,
                  PublishLetter, RecordMetrics, CommitBatch, Rollback, storeVars
    <3> QED
      BY <3>1 DEF Next, Join, Crash, LosePartition, vars, storeVars
  <2> QED
    BY <2>1, <2>2, <2>3
<1>4. disturbances' \in Nat
  BY GroupAssumption DEF IInv, TypeOK, GroupTypeOK
<1> QED
  BY <1>1, <1>3, <1>4

\* An audit row that says "mapped" has its semantic event; a semantic event whose
\* audit row says "safely_unmapped" belongs to a reading that was delivered again
\* after a failure, a crash or a rebalance, or that the log repeats.
THEOREM MappingAndAuditAgree == Spec => []MappingsAreAudited
<1>1. Init => CalmInv /\ MappingsAreAudited
  BY DEF Init, GroupInit, CalmInv, MappingsAreAudited
<1> QED
  BY <1>1, CalmPreserved, AgreePreserved, ConnectorInvariance, PTL DEF Spec

-----------------------------------------------------------------------------
(* The connector implements StoreThenPublish twice: with the semantic      *)
(* events and their topic, and with the unmapped readings and the          *)
(* dead-letter topic.                                                      *)

\* A topic after the first publication of r.
LEMMA SendOnce ==
  ASSUME NEW r \in Readings, NEW topic \in [Readings -> Nat], topic[r] = 0
  PROVE  Send(topic, r) = [x \in Readings |-> IF x \in {r} THEN 1 ELSE topic[x]]
<1>1. Send(topic, r) = [x \in Readings |-> IF x = r THEN topic[r] + 1 ELSE topic[x]]
  BY DEF Send
<1>2. topic[r] + 1 = 1
  OBVIOUS
<1> QED
  BY <1>1, <1>2

LEMMA PublishEnrichedRefines ==
  ASSUME IInv, NEW w \in Workers, PublishEnriched(w)
  PROVE  [EnrichedRelay!RelayNext]_(EnrichedRelay!relayVars)
<1>1. /\ pc[w] = "enrich" /\ HandlerOK(w) /\ DOMAIN outcomes[w] # {} /\ TypeOK
      /\ semantic' = semantic
  BY DEF IInv, PublishEnriched, BatchInv, HandlerOK, storeVars
<1>2. PICK r \in Readings : r = Reading(w)
  BY <1>1, CurrentFacts
<1>3. r \in semantic /\ enriched[r] = 0
  BY <1>1, <1>2 DEF IInv, EnrichInv, Enriching
<1>4. enriched' = enriched \/ enriched' = Send(enriched, r)
  BY <1>2 DEF PublishEnriched
<1>5. CASE enriched' = Send(enriched, r)
  <2>1. enriched' = [x \in Readings |-> IF x \in {r} THEN 1 ELSE enriched[x]]
    BY <1>1, <1>3, <1>5, SendOnce DEF TypeOK
  <2>2. {r} \in SUBSET semantic /\ \A x \in {r} : enriched[x] = 0
    BY <1>3
  <2>3. EnrichedRelay!Publish
    BY <1>1, <2>1, <2>2 DEF EnrichedRelay!Publish
  <2> QED
    BY <2>3 DEF EnrichedRelay!RelayNext
<1> QED
  BY <1>1, <1>4, <1>5 DEF EnrichedRelay!relayVars

LEMMA PublishLetterRefines ==
  ASSUME IInv, NEW w \in Workers, PublishLetter(w)
  PROVE  [LetterRelay!RelayNext]_(LetterRelay!relayVars)
<1>1. /\ pc[w] = "report" /\ HandlerOK(w) /\ DOMAIN outcomes[w] # {} /\ TypeOK
      /\ audit' = audit
  BY DEF IInv, PublishLetter, BatchInv, HandlerOK, storeVars
<1>2. PICK r \in Readings : r = Reading(w)
  BY <1>1, CurrentFacts
<1>3. r \in Unmapped /\ letters[r] = 0
  BY <1>1, <1>2 DEF IInv, LetterInv, Reporting
<1>4. letters' = letters \/ letters' = Send(letters, r)
  BY <1>2 DEF PublishLetter
<1>5. CASE letters' = Send(letters, r)
  <2>1. letters' = [x \in Readings |-> IF x \in {r} THEN 1 ELSE letters[x]]
    BY <1>1, <1>3, <1>5, SendOnce DEF TypeOK
  <2>2. {r} \in SUBSET Unmapped /\ \A x \in {r} : letters[x] = 0
    BY <1>3
  <2>3. LetterRelay!Publish
    BY <1>1, <2>1, <2>2 DEF LetterRelay!Publish, Unmapped
  <2> QED
    BY <2>3 DEF LetterRelay!RelayNext
<1> QED
  BY <1>1, <1>4, <1>5 DEF LetterRelay!relayVars

LEMMA PersistRefines ==
  ASSUME IInv, NEW w \in Workers, PersistOutcome(w)
  PROVE  /\ [EnrichedRelay!RelayNext]_(EnrichedRelay!relayVars)
         /\ [LetterRelay!RelayNext]_(LetterRelay!relayVars)
<1>1. /\ pc[w] = "persist" /\ UNCHANGED topicVars
      /\ CommitOutcome(w) \/ Rollback(w)
  BY DEF PersistOutcome
<1>2. /\ TablesTyped' /\ semantic \subseteq semantic' /\ Unmapped \subseteq Unmapped'
  BY <1>1, OutcomeFacts
<1>3. /\ semantic' \in SUBSET Readings /\ semantic' = semantic \cup semantic'
      /\ Unmapped' \in SUBSET Readings /\ Unmapped' = Unmapped \cup Unmapped'
  BY <1>2 DEF TablesTyped, Unmapped
<1>4. EnrichedRelay!Store
  BY <1>1, <1>3 DEF EnrichedRelay!Store, topicVars
<1>5. LetterRelay!Store
  BY <1>1, <1>3 DEF LetterRelay!Store, topicVars, Unmapped
<1> QED
  BY <1>4, <1>5 DEF EnrichedRelay!RelayNext, LetterRelay!RelayNext

LEMMA EnrichedStutters ==
  ASSUME UNCHANGED <<semantic, enriched>>
  PROVE  UNCHANGED EnrichedRelay!relayVars
BY DEF EnrichedRelay!relayVars

LEMMA LetterStutters ==
  ASSUME UNCHANGED <<audit, letters>>
  PROVE  UNCHANGED LetterRelay!relayVars
<1>1. Unmapped' = Unmapped
  BY DEF Unmapped
<1> QED
  BY <1>1 DEF LetterRelay!relayVars, Unmapped

\* Every other step changes neither tables nor topics of outcomes.
LEMMA OthersStutter ==
  ASSUME [Next]_vars
  PROVE  \/ \E w \in Workers : PersistOutcome(w) \/ PublishEnriched(w) \/ PublishLetter(w)
         \/ UNCHANGED <<audit, semantic, enriched, letters>>
<1>1. ASSUME NEW w \in Workers,
             \/ FetchBatch(w) \/ SendInvalid(w) \/ MapBatch(w) \/ RecordMetrics(w)
             \/ CommitBatch(w) \/ Join(w) \/ Crash(w)
      PROVE  UNCHANGED <<audit, semantic, enriched, letters>>
  BY <1>1 DEF FetchBatch, SendInvalid, MapBatch, RecordMetrics, CommitBatch, Join, Crash,
              storeVars, topicVars
<1>2. CASE LosePartition \/ UNCHANGED vars
  BY <1>2 DEF LosePartition, vars, storeVars, topicVars
<1> QED
  BY <1>1, <1>2 DEF Next, Work

LEMMA EnrichedStepRefines ==
  IInv /\ [Next]_vars => [EnrichedRelay!RelayNext]_(EnrichedRelay!relayVars)
<1> SUFFICES ASSUME IInv, [Next]_vars
             PROVE  [EnrichedRelay!RelayNext]_(EnrichedRelay!relayVars)
  OBVIOUS
<1>1. ASSUME NEW w \in Workers, PublishLetter(w) PROVE UNCHANGED <<semantic, enriched>>
  BY <1>1 DEF PublishLetter, storeVars
<1> QED
  BY <1>1, OthersStutter, PersistRefines, PublishEnrichedRefines, EnrichedStutters

LEMMA LetterStepRefines ==
  IInv /\ [Next]_vars => [LetterRelay!RelayNext]_(LetterRelay!relayVars)
<1> SUFFICES ASSUME IInv, [Next]_vars
             PROVE  [LetterRelay!RelayNext]_(LetterRelay!relayVars)
  OBVIOUS
<1>1. ASSUME NEW w \in Workers, PublishEnriched(w) PROVE UNCHANGED <<audit, letters>>
  BY <1>1 DEF PublishEnriched, storeVars
<1> QED
  BY <1>1, OthersStutter, PersistRefines, PublishLetterRefines, LetterStutters

\* A reading goes to semantic.enriched at most once, and only when stored,
\* although several workers may map it any number of times.
THEOREM ConnectorEnrichesOnce == Spec => EnrichesStoredOnce
<1>1. Init => EnrichedRelay!RelayInit
  BY DEF Init, EnrichedRelay!RelayInit
<1> QED
  BY <1>1, EnrichedStepRefines, ConnectorInvariance, PTL
     DEF Spec, EnrichesStoredOnce, EnrichedRelay!RelaySpec

\* A reading goes to the dead-letter topic at most once, and only when it is
\* audited as safely unmapped.
THEOREM ConnectorReportsOnce == Spec => ReportsUnmappedOnce
<1>1. Init => LetterRelay!RelayInit
  BY DEF Init, LetterRelay!RelayInit
<1> QED
  BY <1>1, LetterStepRefines, ConnectorInvariance, PTL
     DEF Spec, ReportsUnmappedOnce, LetterRelay!RelaySpec

=============================================================================
