---------------------- MODULE TelemetryEngine_proofs ----------------------
(***************************************************************************)
(* Proofs about TelemetryEngine for any log, any set of workers and any    *)
(* number of crashes and rebalances.                                       *)
(*                                                                         *)
(* The argument.  A worker moves past a message only when it is stored or  *)
(* in the error log, and what it starts from is what a worker has moved    *)
(* past (AccountedInv).  The readings a worker is about to publish were    *)
(* new to the database in its own transaction: their keys are stored, no   *)
(* other worker holds one of them, and nobody has published them           *)
(* (PublishInv).  Hence a reading is published once, by whoever stored it. *)
(* All of that is about keys.  What is stored under a key is the reading   *)
(* itself, or the one reading it was displaced by (KeysMeet, OneRowPerKey).*)
(***************************************************************************)
EXTENDS TelemetryEngine, WellFoundedInduction, TLAPS

Steps == {"idle", "insert", "publish", "error"}

\* Under the key of every reading of the message a reading is stored.
IsStored(o) == \A i \in Rows(o) : Key(o, i) \in StoredKeys

Accounted(o) == o \in errors \cup unlogged \/ (Log[o].valid /\ IsStored(o))

HandlerInv ==
  \A w \in Workers :
    /\ pc[w] # "idle" => position[w] \in Offsets
    /\ pc[w] \in {"insert", "publish"} => Log[position[w]].valid
    /\ pc[w] \in {"idle", "insert"} => fresh[w] = {}
    /\ pc[w] = "publish" => IsStored(position[w])

AccountedInv ==
  /\ \A o \in 1..committed - 1 : Accounted(o)
  /\ \A w \in Workers : \A o \in 1..position[w] - 1 : Accounted(o)

\* The keys a worker is about to publish.
FreshKeys(w) == IF pc[w] = "publish" THEN {Key(position[w], i) : i \in fresh[w]} ELSE {}

PublishInv ==
  /\ \A e \in Events : published[e] > 0 =>
       e.key \in StoredKeys /\ published[e] = 1 /\ StoredInMessage(e)
  /\ \A w \in Workers : \A e \in Events : e.key \in FreshKeys(w) => published[e] = 0
  /\ \A w, v \in Workers : w # v => FreshKeys(w) \cap FreshKeys(v) = {}

\* What is to be published is stored, or its like in the same message is.
FreshInv == \A w \in Workers : \A i \in fresh[w] : StoredInMessage(Event(position[w], i))

RegistryInv == \A d \in Devices : registry[d] # 0 => IsStored(registry[d])

IInv ==
  /\ TypeOK /\ HandlerInv /\ AccountedInv
  /\ PublishInv /\ FreshInv /\ RegistryInv /\ OneRowPerKey

-----------------------------------------------------------------------------
(* The log and its readings                                                *)

LEMMA LogFacts ==
  /\ Last \in Nat /\ Offsets = 1..Last
  /\ \A o \in Offsets : /\ Log[o].valid \in BOOLEAN /\ Log[o].simulated \in BOOLEAN
                        /\ Log[o].device \in Devices
                        /\ Rows(o) \subseteq Nat
                        /\ \A i \in Rows(o) : Event(o, i) \in Events /\ Event(o, i).key = Key(o, i)
<1>1. Last \in Nat /\ Offsets = 1..Last
  BY LogAssumption DEF Last, Offsets
<1>2. \A o \in Offsets : Log[o] \in Messages
  BY LogAssumption DEF Offsets
<1>3. \A o \in Offsets : \A i \in Rows(o) : Event(o, i) \in Events /\ Event(o, i).key = Key(o, i)
  BY DEF Events, Event, EventOf
<1>4. \A o \in Offsets : Rows(o) \subseteq Nat
  <2> SUFFICES ASSUME NEW o \in Offsets PROVE Rows(o) \subseteq Nat
    OBVIOUS
  <2>1. Log[o].readings \in Seq([name : STRING, value : Nat, id : {NoReadingId} \cup STRING])
    BY <1>2 DEF Messages
  <2> QED
    BY <2>1 DEF Rows
<1>5. \A o \in Offsets : /\ Log[o].valid \in BOOLEAN /\ Log[o].simulated \in BOOLEAN
                         /\ Log[o].device \in Devices
  BY <1>2 DEF Messages
<1> QED
  BY <1>1, <1>3, <1>4, <1>5

\* Among the rows of a message that share a key there is a first one.
LEMMA FirstRow ==
  ASSUME NEW o \in Offsets, NEW i \in Rows(o)
  PROVE  \E k \in Rows(o) : Key(o, k) = Key(o, i) /\ \A j \in Rows(o) : j < k => Key(o, j) # Key(o, i)
<1> DEFINE T == {k \in Rows(o) : Key(o, k) = Key(o, i)}
<1>1. T \subseteq Nat /\ T # {}
  BY LogFacts
<1>2. PICK k \in T : \A j \in T : ~ (<<j, k>> \in OpToRel(<, Nat))
  BY <1>1, WFMin, NatLessThanWellFounded
<1>3. \A j \in T : ~ (j < k)
  BY <1>1, <1>2 DEF OpToRel
<1> QED
  BY <1>3

\* The transaction stores one reading under each new key of its message.
LEMMA CommitStores ==
  ASSUME IInv, NEW o \in Offsets, Commit(o)
  PROVE  /\ StoredKeys' = StoredKeys \cup {Key(o, i) : i \in Rows(o)}
         /\ normalized \subseteq normalized' /\ normalized' \subseteq Events
         /\ \A i \in InsertedRows(o) : StoredInMessage(Event(o, i))'
         /\ OneRowPerKey'
<1>1. normalized' = normalized \cup {Event(o, i) : i \in StoredOf(o)}
  BY DEF Commit
<1>2. /\ StoredOf(o) \subseteq Rows(o) /\ \A i \in StoredOf(o) : Key(o, i) \notin StoredKeys
      /\ \A i \in Rows(o) : i \in Nat /\ Event(o, i) \in Events /\ Event(o, i).key = Key(o, i)
  BY LogFacts DEF StoredOf
<1>3. StoredKeys' = StoredKeys \cup {Key(o, i) : i \in StoredOf(o)}
  BY <1>1, <1>2 DEF StoredKeys
<1>4. ASSUME NEW i \in Rows(o), Key(o, i) \notin StoredKeys
      PROVE  \E k \in StoredOf(o) : Key(o, k) = Key(o, i)
  <2>1. PICK k \in Rows(o) : Key(o, k) = Key(o, i) /\ \A j \in Rows(o) : j < k => Key(o, j) # Key(o, i)
    BY FirstRow
  <2> QED
    BY <1>4, <2>1 DEF StoredOf
<1>5. ASSUME NEW i \in InsertedRows(o)
      PROVE  StoredInMessage(Event(o, i))'
  <2>1. i \in Rows(o) /\ Event(o, i).key = Key(o, i) /\ Key(o, i) \notin StoredKeys
    BY <1>2 DEF InsertedRows
  <2>2. PICK k \in StoredOf(o) : Key(o, k) = Key(o, i)
    BY <1>4, <2>1
  <2>3. k \in Rows(o) /\ Event(o, k) \in normalized'
    BY <1>1, <1>2
  <2> QED
    BY <2>1, <2>2, <2>3 DEF StoredInMessage
<1>6. OneRowPerKey'
  <2> SUFFICES ASSUME NEW e \in normalized', NEW f \in normalized', e.key = f.key
               PROVE  e = f
    BY DEF OneRowPerKey
  <2>1. ASSUME NEW i \in StoredOf(o), NEW k \in StoredOf(o), Key(o, i) = Key(o, k)
        PROVE  i = k
    <3>1. ~ (i < k) /\ ~ (k < i) /\ i \in Nat /\ k \in Nat
      BY <1>2, <2>1 DEF StoredOf
    <3> QED
      BY <3>1
  <2>2. \A g \in normalized : g.key \in StoredKeys
    BY DEF StoredKeys
  <2>3. CASE e \in normalized /\ f \in normalized
    BY <2>3 DEF IInv, OneRowPerKey
  <2>4. CASE e \in normalized /\ f \notin normalized
    BY <1>1, <1>2, <2>2, <2>4
  <2>5. CASE e \notin normalized /\ f \in normalized
    BY <1>1, <1>2, <2>2, <2>5
  <2>6. CASE e \notin normalized /\ f \notin normalized
    BY <1>1, <1>2, <2>1, <2>6
  <2> QED
    BY <2>3, <2>4, <2>5, <2>6
<1>7. normalized' \subseteq Events
  BY <1>1, <1>2 DEF IInv, TypeOK
<1> QED
  BY <1>1, <1>2, <1>3, <1>4, <1>5, <1>6, <1>7

-----------------------------------------------------------------------------
(* What a step leaves alone                                                *)

\* What has been accounted for stays so while tables only grow.
Grows ==
  /\ normalized \subseteq normalized'
  /\ StoredKeys \subseteq StoredKeys'
  /\ errors \subseteq errors'
  /\ unlogged \subseteq unlogged'

LEMMA AccountedStays ==
  ASSUME Grows, NEW o, Accounted(o)
  PROVE  Accounted(o)'
BY DEF Grows, Accounted, IsStored

LEMMA RegistryStays ==
  ASSUME RegistryInv, StoredKeys \subseteq StoredKeys', UNCHANGED registry
  PROVE  RegistryInv'
BY DEF RegistryInv, IsStored

LEMMA InMessageStays ==
  ASSUME normalized \subseteq normalized', NEW e, StoredInMessage(e)
  PROVE  StoredInMessage(e)'
BY DEF StoredInMessage

\* A handler that is done: its worker is idle behind the message.
LEMMA FinishStep ==
  ASSUME TypeOK, NEW w \in Workers, position[w] \in Offsets, Finish(w)
  PROVE  /\ GroupTypeOK(Last)'
         /\ pc' \in [Workers -> Steps]
         /\ fresh' \in [Workers -> SUBSET Nat]
         /\ pc'[w] = "idle" /\ fresh'[w] = {} /\ position'[w] = position[w] + 1
         /\ committed' = committed
         /\ \A v \in Workers : v # w => /\ pc'[v] = pc[v] /\ fresh'[v] = fresh[v]
                                       /\ position'[v] = position[v]
<1>1. /\ pc \in [Workers -> Steps] /\ GroupTypeOK(Last)
      /\ fresh \in [Workers -> SUBSET Nat]
  BY DEF TypeOK, Steps
<1>2. position[w] + 1 \in 1..Last + 1
  BY LogFacts
<1> QED
  BY <1>1, <1>2, LogFacts DEF Finish, GoTo, Advance, GroupTypeOK, Steps


-----------------------------------------------------------------------------
(* Initial states                                                          *)

LEMMA InitEstablishes == Init => IInv
<1> SUFFICES ASSUME Init PROVE IInv
  OBVIOUS
<1> USE LogFacts, GroupAssumption DEF Init, GroupInit
<1>1. TypeOK
  BY DEF TypeOK, GroupTypeOK
<1>2. HandlerInv
  BY DEF HandlerInv
<1>3. AccountedInv
  BY DEF AccountedInv
<1>4. PublishInv
  BY DEF PublishInv, FreshKeys
<1>5. RegistryInv
  BY DEF RegistryInv
<1>6. FreshInv /\ OneRowPerKey
  BY DEF FreshInv, OneRowPerKey
<1> QED
  BY <1>1, <1>2, <1>3, <1>4, <1>5, <1>6 DEF IInv

-----------------------------------------------------------------------------
(* The steps of a worker                                                   *)

LEMMA TakeMessageStep ==
  ASSUME IInv, NEW w \in Workers, TakeMessage(w)
  PROVE  IInv'
<1> USE DEF IInv, TakeMessage, GoTo, groupVars, storeVars
<1>0. /\ pc' \in [Workers -> Steps] /\ position[w] \in Offsets
      /\ pc'[w] = IF Log[position[w]].valid THEN "insert" ELSE "error"
      /\ \A v \in Workers : v # w => pc'[v] = pc[v]
      /\ StoredKeys' = StoredKeys
  BY LogFacts DEF TypeOK, GroupTypeOK, Steps, StoredKeys
<1>1. TypeOK'
  BY <1>0 DEF TypeOK, GroupTypeOK, Steps
<1>2. HandlerInv'
  BY <1>0 DEF HandlerInv, IsStored
<1>3. AccountedInv'
  BY <1>0 DEF AccountedInv, Accounted, IsStored
<1>4. PublishInv'
  <2>1. \A v \in Workers : FreshKeys(v)' \subseteq FreshKeys(v)
    BY <1>0 DEF FreshKeys
  <2> QED
    BY <2>1, <1>0 DEF PublishInv, StoredInMessage
<1>5. RegistryInv' /\ FreshInv' /\ OneRowPerKey'
  BY <1>0, RegistryStays DEF FreshInv, StoredInMessage, OneRowPerKey
<1> QED
  BY <1>1, <1>2, <1>3, <1>4, <1>5

\* What a worker is about to publish is stored already.
LEMMA FreshAreStored ==
  ASSUME IInv, NEW w \in Workers
  PROVE  FreshKeys(w) \subseteq StoredKeys
<1> SUFFICES ASSUME pc[w] = "publish", NEW i \in fresh[w]
             PROVE  Key(position[w], i) \in StoredKeys
  BY DEF FreshKeys
<1>1. IsStored(position[w]) /\ i \in Rows(position[w])
  BY DEF IInv, HandlerInv, TypeOK
<1> QED
  BY <1>1 DEF IsStored

\* Whether its transaction commits or not, the database stays consistent.
LEMMA TransactionKeeps ==
  ASSUME IInv, NEW o \in Offsets, Commit(o) \/ Rollback(o), UNCHANGED <<errors, unlogged>>
  PROVE  /\ Grows
         /\ normalized' \subseteq Events
         /\ registry' \in [Devices -> 0..Last]
         /\ RegistryInv' /\ OneRowPerKey'
<1> USE DEF IInv
<1>1. CASE Rollback(o)
  BY <1>1, RegistryStays DEF Rollback, Grows, TypeOK, StoredKeys, OneRowPerKey
<1>2. CASE Commit(o)
  <2>1. /\ StoredKeys' = StoredKeys \cup {Key(o, i) : i \in Rows(o)}
        /\ normalized \subseteq normalized' /\ normalized' \subseteq Events
        /\ OneRowPerKey'
    BY <1>2, CommitStores
  <2>2. registry' = IF Log[o].simulated THEN [registry EXCEPT ![Log[o].device] = o] ELSE registry
    BY <1>2 DEF Commit, UpsertDevice
  <2>3. registry' \in [Devices -> 0..Last]
    BY <2>2, LogFacts DEF TypeOK
  <2>4. RegistryInv'
    <3> SUFFICES ASSUME NEW d \in Devices, registry'[d] # 0, NEW i \in Rows(registry'[d])
                 PROVE  Key(registry'[d], i) \in StoredKeys'
      BY DEF RegistryInv, IsStored
    <3>1. registry'[d] = o \/ registry'[d] = registry[d]
      BY <2>2, LogFacts DEF TypeOK
    <3> QED
      BY <2>1, <3>1 DEF RegistryInv, IsStored
  <2> QED
    BY <2>1, <2>3, <2>4 DEF Grows
<1> QED
  BY <1>1, <1>2

\* A handler may end once its message is accounted for.
LEMMA FinishKeeps ==
  ASSUME IInv, NEW w \in Workers, NEW o \in Offsets, o = position[w], Finish(w),
         Grows, Accounted(o)'
  PROVE  /\ GroupTypeOK(Last)' /\ pc' \in [Workers -> Steps]
         /\ fresh' \in [Workers -> SUBSET Nat]
         /\ \A v \in Workers : fresh'[v] # {} =>
              position'[v] \in Offsets /\ fresh'[v] \subseteq Rows(position'[v])
         /\ HandlerInv' /\ AccountedInv' /\ FreshInv'
         /\ FreshKeys(w)' = {}
         /\ \A v \in Workers : FreshKeys(v)' \subseteq FreshKeys(v)
<1> USE DEF IInv
<1>1. /\ GroupTypeOK(Last)'
      /\ pc' \in [Workers -> Steps] /\ fresh' \in [Workers -> SUBSET Nat]
      /\ pc'[w] = "idle" /\ fresh'[w] = {} /\ position'[w] = o + 1
      /\ committed' = committed
      /\ \A v \in Workers : v # w => /\ pc'[v] = pc[v] /\ fresh'[v] = fresh[v]
                                    /\ position'[v] = position[v]
  BY FinishStep
<1>2. \A v \in Workers : fresh'[v] # {} =>
        position'[v] \in Offsets /\ fresh'[v] \subseteq Rows(position'[v])
  BY <1>1 DEF TypeOK
<1>3. HandlerInv'
  BY <1>1 DEF HandlerInv, IsStored, Grows
<1>4. AccountedInv'
  <2>1. \A p \in 1..position'[w] - 1 : p = o \/ p \in 1..position[w] - 1
    BY <1>1, LogFacts
  <2> QED
    BY <1>1, <2>1, AccountedStays DEF AccountedInv
<1>5. FreshKeys(w)' = {} /\ \A v \in Workers : FreshKeys(v)' \subseteq FreshKeys(v)
  BY <1>1 DEF FreshKeys
<1>6. FreshInv'
  BY <1>1, InMessageStays DEF FreshInv, Grows
<1> QED
  BY <1>1, <1>2, <1>3, <1>4, <1>5, <1>6

LEMMA InsertBatchStep ==
  ASSUME IInv, NEW w \in Workers, NEW o \in Offsets, o = position[w], InsertBatch(w)
  PROVE  IInv'
<1> USE DEF IInv
<1>1. /\ Log[o].valid /\ fresh[w] = {} /\ pc[w] = "insert"
      /\ UNCHANGED <<errors, published, unlogged>>
  BY DEF InsertBatch, HandlerInv
<1>2. Commit(o) \/ Rollback(o)
  BY DEF InsertBatch
<1>3. /\ Grows /\ normalized' \subseteq Events /\ registry' \in [Devices -> 0..Last]
      /\ RegistryInv' /\ OneRowPerKey'
  BY <1>1, <1>2, TransactionKeeps
<1>4. \A v \in Workers : FreshKeys(v) \subseteq StoredKeys /\ FreshKeys(v) \subseteq StoredKeys'
  BY <1>3, FreshAreStored DEF Grows
<1>5. Commit(o) => IsStored(o)'
  BY <1>1, CommitStores DEF IsStored
<1>6. CASE /\ Commit(o) /\ fresh' = [fresh EXCEPT ![w] = InsertedRows(o)]
           /\ GoTo(w, "publish") /\ UNCHANGED groupVars
  <2>1. /\ pc' \in [Workers -> Steps] /\ fresh' \in [Workers -> SUBSET Nat]
        /\ pc'[w] = "publish" /\ fresh'[w] = InsertedRows(o) /\ position' = position
        /\ \A v \in Workers : v # w => pc'[v] = pc[v] /\ fresh'[v] = fresh[v]
        /\ InsertedRows(o) \subseteq Rows(o)
        /\ \A i \in InsertedRows(o) : Key(o, i) \notin StoredKeys
    BY <1>1, <1>6, LogFacts DEF TypeOK, GoTo, Steps, groupVars, InsertedRows
  <2>2. TypeOK'
    BY <1>1, <1>3, <1>6, <2>1 DEF TypeOK, GroupTypeOK, groupVars, Steps
  <2>3. HandlerInv'
    BY <1>1, <1>3, <1>5, <1>6, <2>1 DEF HandlerInv, IsStored, Grows
  <2>4. AccountedInv'
    BY <1>3, <1>6, AccountedStays DEF AccountedInv, groupVars
  <2>5. \A v \in Workers : v # w => FreshKeys(v)' = FreshKeys(v)
    BY <2>1 DEF FreshKeys
  <2>6. FreshKeys(w)' \cap StoredKeys = {}
    BY <2>1 DEF FreshKeys
  <2>7. PublishInv'
    BY <1>1, <1>3, <1>4, <2>5, <2>6, InMessageStays DEF PublishInv, Grows, TypeOK
  <2>8. FreshInv'
    <3>1. \A i \in InsertedRows(o) : StoredInMessage(Event(o, i))'
      BY <1>6, CommitStores
    <3> QED
      BY <1>3, <2>1, <3>1, InMessageStays DEF FreshInv, Grows
  <2> QED
    BY <1>3, <2>2, <2>3, <2>4, <2>7, <2>8
<1>7. CASE Commit(o) /\ Finish(w)
  <2>1. Accounted(o)'
    BY <1>1, <1>5, <1>7 DEF Accounted
  <2>2. PublishInv'
    BY <1>1, <1>3, <1>7, <2>1, FinishKeeps, InMessageStays DEF PublishInv, Grows
  <2> QED
    BY <1>1, <1>3, <1>7, <2>1, <2>2, FinishKeeps DEF TypeOK, Steps
<1>8. CASE GoTo(w, "error") /\ UNCHANGED <<fresh, groupVars>>
  <2>1. /\ pc' \in [Workers -> Steps] /\ pc'[w] = "error"
        /\ \A v \in Workers : v # w => pc'[v] = pc[v]
    BY <1>8 DEF TypeOK, GoTo, Steps
  <2>2. TypeOK'
    BY <1>1, <1>3, <1>8, <2>1 DEF TypeOK, GroupTypeOK, groupVars, Steps
  <2>3. HandlerInv'
    BY <1>1, <1>3, <1>8, <2>1 DEF HandlerInv, IsStored, Grows, groupVars
  <2>4. AccountedInv'
    BY <1>3, <1>8, AccountedStays DEF AccountedInv, groupVars
  <2>5. \A v \in Workers : FreshKeys(v)' \subseteq FreshKeys(v)
    BY <1>8, <2>1 DEF FreshKeys, groupVars
  <2>6. PublishInv'
    BY <1>1, <1>3, <2>5, InMessageStays DEF PublishInv, Grows
  <2>7. FreshInv'
    BY <1>3, <1>8, InMessageStays DEF FreshInv, Grows, groupVars
  <2> QED
    BY <1>3, <2>2, <2>3, <2>4, <2>6, <2>7
<1> QED
  BY <1>6, <1>7, <1>8 DEF InsertBatch

\* The readings a worker sends are events, and their keys are its own.
LEMMA SendFacts ==
  ASSUME IInv, NEW w \in Workers, NEW o \in Offsets, o = position[w], pc[w] = "publish", Send(w)
  PROVE  \E sent \in SUBSET Events :
           /\ \A e \in sent : e.key \in FreshKeys(w) /\ StoredInMessage(e)
           /\ published' = [e \in Events |-> IF e \in sent THEN 1 ELSE published[e]]
<1> DEFINE sent == {Event(o, i) : i \in fresh[w]}
<1>1. fresh[w] \subseteq Rows(o)
  BY DEF IInv, TypeOK
<1>2. sent \subseteq Events
  BY <1>1, LogFacts
<1>3. \A e \in sent : e.key \in FreshKeys(w) /\ StoredInMessage(e)
  BY <1>1, LogFacts DEF FreshKeys, IInv, FreshInv
<1>4. \A e \in sent : published[e] = 0
  BY <1>2, <1>3 DEF IInv, PublishInv
<1>5. published' = [e \in Events |-> IF e \in sent THEN published[e] + 1 ELSE published[e]]
  BY DEF Send
<1>6. published' = [e \in Events |-> IF e \in sent THEN 1 ELSE published[e]]
  BY <1>4, <1>5
<1> QED
  BY <1>2, <1>3, <1>6

LEMMA PublishNewStep ==
  ASSUME IInv, NEW w \in Workers, NEW o \in Offsets, o = position[w], PublishNew(w)
  PROVE  IInv'
<1> USE DEF IInv
<1>1. /\ Log[o].valid /\ IsStored(o) /\ pc[w] = "publish"
      /\ UNCHANGED <<normalized, registry, errors, unlogged>>
      /\ Send(w) \/ UNCHANGED published
  BY DEF PublishNew, HandlerInv, storeVars
<1>2. /\ Grows /\ StoredKeys' = StoredKeys /\ Accounted(o)' /\ RegistryInv' /\ OneRowPerKey'
      /\ normalized' \subseteq Events /\ registry' \in [Devices -> 0..Last]
      /\ errors' \subseteq Offsets /\ unlogged' \subseteq Offsets
  BY <1>1, RegistryStays DEF Grows, StoredKeys, Accounted, IsStored, TypeOK, OneRowPerKey
<1>3. PICK sent \in SUBSET Events :
        /\ \A e \in sent : e.key \in FreshKeys(w) /\ StoredInMessage(e)
        /\ published' = [e \in Events |-> IF e \in sent THEN 1 ELSE published[e]]
  <2>1. CASE Send(w)
    BY <1>1, <2>1, SendFacts
  <2>2. CASE UNCHANGED published
    <3>1. published = [e \in Events |-> IF e \in {} THEN 1 ELSE published[e]]
      BY DEF TypeOK
    <3> WITNESS {} \in SUBSET Events
    <3> QED
      BY <2>2, <3>1
  <2> QED
    BY <1>1, <2>1, <2>2
<1>4. published' \in [Events -> Nat]
  BY <1>3 DEF TypeOK
<1>5. ASSUME FreshKeys(w)' = {}, \A v \in Workers : FreshKeys(v)' \subseteq FreshKeys(v)
      PROVE  PublishInv'
  <2>1. \A e \in Events : published'[e] > 0 =>
          e.key \in StoredKeys' /\ published'[e] = 1 /\ StoredInMessage(e)'
    <3>1. \A e \in Events : published'[e] > 0 =>
            \/ e \in sent /\ published'[e] = 1
            \/ published[e] > 0 /\ published'[e] = published[e]
      BY <1>3
    <3>2. \A e \in Events : StoredInMessage(e) => StoredInMessage(e)'
      BY <1>2, InMessageStays DEF Grows
    <3> QED
      BY <1>2, <1>3, <3>1, <3>2, FreshAreStored DEF PublishInv
  <2>2. ASSUME NEW v \in Workers, NEW e \in Events, e.key \in FreshKeys(v)'
        PROVE  published'[e] = 0
    <3>1. v # w /\ e.key \in FreshKeys(v)
      BY <1>5, <2>2
    <3>2. e \notin sent /\ published[e] = 0
      BY <1>3, <3>1 DEF PublishInv
    <3> QED
      BY <1>3, <3>2
  <2>3. \A u, v \in Workers : u # v => FreshKeys(u)' \cap FreshKeys(v)' = {}
    BY <1>5 DEF PublishInv
  <2> QED
    BY <2>1, <2>2, <2>3 DEF PublishInv
<1>6. CASE Finish(w)
  BY <1>2, <1>4, <1>5, <1>6, FinishKeeps DEF TypeOK, Steps
<1>7. CASE GoTo(w, "error") /\ UNCHANGED <<fresh, groupVars>>
  <2>1. /\ pc' \in [Workers -> Steps] /\ pc'[w] = "error"
        /\ \A v \in Workers : v # w => pc'[v] = pc[v]
    BY <1>7 DEF TypeOK, GoTo, Steps
  <2>2. TypeOK'
    BY <1>2, <1>4, <1>7, <2>1 DEF TypeOK, GroupTypeOK, groupVars, Steps
  <2>3. HandlerInv'
    BY <1>1, <1>2, <1>7, <2>1 DEF HandlerInv, IsStored, groupVars
  <2>4. AccountedInv'
    BY <1>2, <1>7, AccountedStays DEF AccountedInv, groupVars
  <2>5. PublishInv'
    BY <1>5, <1>7, <2>1 DEF FreshKeys, groupVars
  <2>6. FreshInv'
    BY <1>2, <1>7, InMessageStays DEF FreshInv, Grows, groupVars
  <2> QED
    BY <1>2, <2>2, <2>3, <2>4, <2>5, <2>6
<1> QED
  BY <1>6, <1>7 DEF PublishNew

LEMMA LogErrorStep ==
  ASSUME IInv, NEW w \in Workers, NEW o \in Offsets, o = position[w], LogError(w)
  PROVE  IInv'
<1> USE DEF IInv
<1>1. /\ errors' \subseteq Offsets /\ unlogged' \subseteq Offsets
      /\ errors \subseteq errors' /\ unlogged \subseteq unlogged'
      /\ o \in errors' \cup unlogged'
      /\ Finish(w) /\ UNCHANGED <<normalized, registry, published>>
  BY DEF LogError, TypeOK
<1>2. Grows /\ StoredKeys' = StoredKeys /\ Accounted(o)' /\ RegistryInv' /\ OneRowPerKey'
  BY <1>1, RegistryStays DEF Grows, StoredKeys, Accounted, OneRowPerKey
<1>3. PublishInv'
  BY <1>1, <1>2, FinishKeeps, InMessageStays DEF PublishInv, Grows
<1> QED
  BY <1>1, <1>2, <1>3, FinishKeeps DEF TypeOK, Steps

-----------------------------------------------------------------------------
(* Offsets, rebalances and crashes                                         *)

\* Steps of the group leave the tables, the topic and every handler but one
\* alone: what is left to show is about offsets.
LEMMA GroupStepKeeps ==
  ASSUME IInv, UNCHANGED <<storeVars, published, unlogged>>,
         pc' \in [Workers -> Steps], fresh' \in [Workers -> SUBSET Nat],
         GroupTypeOK(Last)',
         \A v \in Workers : \/ pc'[v] = "idle" /\ fresh'[v] = {}
                            \/ /\ pc'[v] = pc[v] /\ fresh'[v] = fresh[v]
                               /\ position'[v] = position[v],
         \A p \in 1..committed' - 1 : Accounted(p),
         \A v \in Workers : \A p \in 1..position'[v] - 1 : Accounted(p)
  PROVE  IInv'
<1> USE DEF IInv
<1>1. /\ Grows /\ StoredKeys' = StoredKeys /\ RegistryInv' /\ OneRowPerKey'
      /\ \A p : Accounted(p) => Accounted(p)'
  BY RegistryStays, AccountedStays DEF Grows, StoredKeys, storeVars, OneRowPerKey
<1>2. TypeOK'
  BY DEF TypeOK, storeVars, Steps
<1>3. HandlerInv'
  BY <1>1 DEF HandlerInv, IsStored
<1>4. AccountedInv'
  BY <1>1 DEF AccountedInv
<1>5. PublishInv'
  <2>1. \A v \in Workers : FreshKeys(v)' \subseteq FreshKeys(v)
    BY DEF FreshKeys
  <2> QED
    BY <1>1, <2>1, InMessageStays DEF PublishInv, Grows
<1>6. FreshInv'
  BY <1>1, InMessageStays DEF FreshInv, Grows
<1> QED
  BY <1>1, <1>2, <1>3, <1>4, <1>5, <1>6

LEMMA CommitResolvedStep ==
  ASSUME IInv, NEW w \in Workers, CommitResolved(w)
  PROVE  IInv'
<1>1. /\ committed' = position[w]
      /\ UNCHANGED <<owner, position, disturbances, storeVars, published, workerVars, unlogged>>
  BY DEF CommitResolved, CommitOffset
<1> QED
  BY <1>1, GroupStepKeeps DEF IInv, TypeOK, GroupTypeOK, AccountedInv, workerVars, Steps

LEMMA JoinStep ==
  ASSUME IInv, NEW w \in Workers, Join(w)
  PROVE  IInv'
<1>1. /\ pc[w] = "idle" /\ fresh[w] = {} /\ owner' = w
      /\ position' = [position EXCEPT ![w] = committed]
      /\ UNCHANGED <<committed, disturbances, storeVars, published, workerVars, unlogged>>
  BY DEF IInv, HandlerInv, Join, Assign
<1>2. /\ position' \in [Workers -> 1..Last + 1] /\ position'[w] = committed
      /\ \A v \in Workers : v # w => position'[v] = position[v]
  BY <1>1 DEF IInv, TypeOK, GroupTypeOK
<1> QED
  BY <1>1, <1>2, GroupStepKeeps DEF IInv, TypeOK, GroupTypeOK, AccountedInv, workerVars, Steps

LEMMA LosePartitionStep ==
  ASSUME IInv, LosePartition
  PROVE  IInv'
<1>1. /\ owner' = NoWorker /\ disturbances' \in 0..MaxDisturbances
      /\ UNCHANGED <<committed, position, storeVars, published, workerVars, unlogged>>
  BY GroupAssumption DEF IInv, TypeOK, GroupTypeOK, LosePartition, Revoke
<1> QED
  BY <1>1, GroupStepKeeps DEF IInv, TypeOK, GroupTypeOK, AccountedInv, workerVars, Steps

LEMMA CrashStep ==
  ASSUME IInv, NEW w \in Workers, Crash(w)
  PROVE  IInv'
<1>1. /\ owner' \in Workers \cup {NoWorker} /\ disturbances' \in 0..MaxDisturbances
      /\ UNCHANGED <<committed, position, storeVars, published, unlogged>>
  BY GroupAssumption DEF IInv, TypeOK, GroupTypeOK, Crash, Leave
<1>2. /\ pc' \in [Workers -> Steps] /\ fresh' \in [Workers -> SUBSET Nat]
      /\ pc'[w] = "idle" /\ fresh'[w] = {}
      /\ \A v \in Workers : v # w => pc'[v] = pc[v] /\ fresh'[v] = fresh[v]
  BY DEF IInv, TypeOK, Crash, GoTo, Steps
<1> QED
  BY <1>1, <1>2, GroupStepKeeps DEF IInv, TypeOK, GroupTypeOK, AccountedInv

-----------------------------------------------------------------------------
(* The theorems                                                            *)

LEMMA StepPreserves == IInv /\ [Next]_vars => IInv'
<1> SUFFICES ASSUME IInv, [Next]_vars PROVE IInv'
  OBVIOUS
<1>1. ASSUME NEW w \in Workers, Work(w) PROVE IInv'
  <2>1. CASE TakeMessage(w)
    BY <2>1, TakeMessageStep
  <2>2. CASE InsertBatch(w)
    BY <2>2, InsertBatchStep DEF IInv, HandlerInv, InsertBatch
  <2>3. CASE PublishNew(w)
    BY <2>3, PublishNewStep DEF IInv, HandlerInv, PublishNew
  <2>4. CASE LogError(w)
    BY <2>4, LogErrorStep DEF IInv, HandlerInv, LogError
  <2> QED
    BY <1>1, <2>1, <2>2, <2>3, <2>4 DEF Work
<1>2. CASE UNCHANGED vars
  BY <1>2, GroupStepKeeps
     DEF vars, groupVars, workerVars, IInv, TypeOK, GroupTypeOK, AccountedInv, Steps
<1> QED
  BY <1>1, <1>2, CommitResolvedStep, JoinStep, CrashStep, LosePartitionStep DEF Next

\* The invariant above, for any log and any number of workers and disturbances.
THEOREM EngineInvariance == Spec => []IInv
<1> QED
  BY InitEstablishes, StepPreserves, PTL DEF Spec

\* Variables stay in their types.
THEOREM EngineTypeCorrect == Spec => []TypeOK
<1>1. IInv => TypeOK
  BY DEF IInv
<1> QED
  BY <1>1, EngineInvariance, PTL

-----------------------------------------------------------------------------
(* Readings under one key                                                  *)

\* Two readings meet under one key only if the sender gave the id, or if they
\* are the same reading of the same device.
LEMMA KeysMeet ==
  ASSUME NEW o \in Offsets, NEW i \in Rows(o), NEW p \in Offsets, NEW j \in Rows(p),
         Key(o, i) = Key(p, j)
  PROVE  \/ Log[o].readings[i].id # NoReadingId
         \/ Event(p, j).device = Log[o].device /\ Event(p, j).name = Log[o].readings[i].name
<1> SUFFICES ASSUME Log[o].readings[i].id = NoReadingId
             PROVE  /\ Log[p].device = Log[o].device
                    /\ Log[p].readings[j].name = Log[o].readings[i].name
  BY DEF Event, EventOf
<1>1. ReadingId(o, i) = ReadingId(p, j)
  BY DEF Key, KeyOf
<1>2. ReadingId(o, i) =
        <<"hash", Correlation(o), Log[o].time, Log[o].device, Log[o].readings[i].name>>
  BY DEF ReadingId
<1>3. Log[p].readings[j].id = NoReadingId
  <2>1. \A x, c, t, d, n : <<"given", x>> # <<"hash", c, t, d, n>>
    OBVIOUS
  <2> QED
    BY <1>1, <1>2, <2>1 DEF ReadingId
<1>4. ReadingId(p, j) =
        <<"hash", Correlation(p), Log[p].time, Log[p].device, Log[p].readings[j].name>>
  BY <1>3 DEF ReadingId
<1>5. \A c, t, d, n, cc, tt, dd, nn :
        <<"hash", c, t, d, n>> = <<"hash", cc, tt, dd, nn>> => d = dd /\ n = nn
  OBVIOUS
<1> HIDE DEF ReadingId
<1>6. <<"hash", Correlation(o), Log[o].time, Log[o].device, Log[o].readings[i].name>> =
      <<"hash", Correlation(p), Log[p].time, Log[p].device, Log[p].readings[j].name>>
  BY <1>1, <1>2, <1>4
<1> QED
  BY <1>5, <1>6, Zenon

\* A key that is stored is stored for the reading itself, or for the one that
\* displaced it.
LEMMA StoredUnderKey ==
  ASSUME IInv, NEW o \in Offsets, NEW i \in Rows(o), Key(o, i) \in StoredKeys
  PROVE  StoredOrDisplaced(o, i)
<1>1. PICK e \in normalized : e.key = Key(o, i)
  BY DEF StoredKeys
<1>2. PICK p \in Offsets : \E j \in Rows(p) : e = Event(p, j)
  BY DEF IInv, TypeOK, Events
<1>3. PICK j \in Rows(p) : e = Event(p, j)
  BY <1>2
<1>4. Key(o, i) = Key(p, j)
  BY <1>1, <1>3, LogFacts
<1>5. \/ Log[o].readings[i].id # NoReadingId
      \/ e.device = Log[o].device /\ e.name = Log[o].readings[i].name
  BY <1>3, <1>4, KeysMeet
<1> QED
  BY <1>1, <1>5 DEF StoredOrDisplaced, Displaced

\* processRawTelemetryMessage swallows every error and the offset advances
\* regardless: still below the committed offset each message has an error row,
\* or was refused one, or each of its readings is stored itself or displaced by
\* the one reading stored under its id.
THEOREM NothingConsumedVanishes == Spec => []ConsumedIsAccounted
<1>1. ASSUME IInv PROVE ConsumedIsAccounted
  <2>1. ASSUME NEW o \in 1..committed - 1
        PROVE  \/ o \in errors \cup unlogged
               \/ Log[o].valid /\ \A i \in Rows(o) : StoredOrDisplaced(o, i)
    <3>1. o \in Offsets
      BY <1>1, LogFacts DEF IInv, TypeOK, GroupTypeOK
    <3>2. Accounted(o)
      BY <1>1 DEF IInv, AccountedInv
    <3> QED
      BY <1>1, <3>1, <3>2, StoredUnderKey DEF Accounted, IsStored
  <2> QED
    BY <1>1, <2>1 DEF IInv, ConsumedIsAccounted
<1> QED
  BY <1>1, EngineInvariance, PTL

\* The registry never shows a message whose readings are neither stored nor
\* displaced.
THEOREM RegistryFollowsReadings == Spec => []RegistryIsBacked
<1>1. ASSUME IInv PROVE RegistryIsBacked
  <2> SUFFICES ASSUME NEW d \in Devices, registry[d] # 0, NEW i \in Rows(registry[d])
               PROVE  StoredOrDisplaced(registry[d], i)
    BY DEF RegistryIsBacked
  <2>1. registry[d] \in Offsets /\ Key(registry[d], i) \in StoredKeys
    BY <1>1, LogFacts DEF IInv, TypeOK, RegistryInv, IsStored
  <2> QED
    BY <1>1, <2>1, StoredUnderKey
<1> QED
  BY <1>1, EngineInvariance, PTL

-----------------------------------------------------------------------------
(* The engine implements StoreThenPublish: insertTelemetryBatch stores,    *)
(* publishNormalizedTelemetry publishes, and every other step stutters.    *)

RelayStored == normalized \cap Unshared

RelaySent == [e \in Unshared |-> published[e]]

\* Under a key of its own a reading is stored itself.
LEMMA OwnKey ==
  ASSUME TypeOK, NEW e \in Unshared, e.key \in StoredKeys
  PROVE  e \in RelayStored
BY DEF TypeOK, Unshared, StoredKeys, RelayStored

LEMMA PublishRefines ==
  ASSUME IInv, NEW w \in Workers, NEW o \in Offsets, o = position[w], PublishNew(w)
  PROVE  [Relay!RelayNext]_(Relay!relayVars)
<1>1. /\ pc[w] = "publish"
      /\ Send(w) \/ UNCHANGED published
      /\ RelayStored' = RelayStored
  BY DEF PublishNew, storeVars, RelayStored
<1>2. CASE UNCHANGED published
  BY <1>1, <1>2 DEF Relay!relayVars, RelayStored
<1>3. CASE Send(w)
  <2>1. PICK sent \in SUBSET Events :
          /\ \A e \in sent : e.key \in FreshKeys(w)
          /\ published' = [e \in Events |-> IF e \in sent THEN 1 ELSE published[e]]
    BY <1>1, <1>3, SendFacts
  <2> DEFINE X == sent \cap Unshared
  <2>2. X \in SUBSET RelayStored /\ \A e \in X : RelaySent[e] = 0
    <3>1. ASSUME NEW e \in X
          PROVE  e \in RelayStored /\ RelaySent[e] = 0
      <4>1. e \in Unshared /\ e \in Events /\ e.key \in FreshKeys(w)
        BY <2>1 DEF Unshared
      <4>2. e.key \in StoredKeys /\ published[e] = 0
        BY <4>1, FreshAreStored DEF IInv, PublishInv
      <4> QED
        BY <4>1, <4>2, OwnKey DEF IInv, RelaySent
    <3> QED
      BY <3>1
  <2>3. RelaySent' = [e \in Unshared |-> IF e \in X THEN 1 ELSE RelaySent[e]]
    BY <2>1 DEF RelaySent, Unshared
  <2>4. Relay!Publish
    BY <1>1, <2>2, <2>3 DEF Relay!Publish, RelayStored, RelaySent
  <2> QED
    BY <2>4 DEF Relay!RelayNext
<1> QED
  BY <1>1, <1>2, <1>3

LEMMA InsertRefines ==
  ASSUME IInv, NEW w \in Workers, InsertBatch(w)
  PROVE  [Relay!RelayNext]_(Relay!relayVars)
<1>1. /\ Commit(position[w]) \/ Rollback(position[w])
      /\ position[w] \in Offsets /\ UNCHANGED <<errors, unlogged, published>>
  BY DEF InsertBatch, IInv, HandlerInv
<1>2. normalized \subseteq normalized'
  BY <1>1, TransactionKeeps DEF Grows
<1>3. RelayStored' \in SUBSET Unshared /\ RelayStored' = RelayStored \cup RelayStored'
  BY <1>2 DEF RelayStored
<1>4. Relay!Store
  BY <1>1, <1>3 DEF Relay!Store, RelayStored
<1> QED
  BY <1>4 DEF Relay!RelayNext

LEMMA OthersStutter ==
  ASSUME UNCHANGED <<normalized, published>>
  PROVE  UNCHANGED Relay!relayVars
BY DEF Relay!relayVars

LEMMA StepRefines == IInv /\ [Next]_vars => [Relay!RelayNext]_(Relay!relayVars)
<1> SUFFICES ASSUME IInv, [Next]_vars PROVE [Relay!RelayNext]_(Relay!relayVars)
  OBVIOUS
<1>1. ASSUME NEW w \in Workers, InsertBatch(w) PROVE [Relay!RelayNext]_(Relay!relayVars)
  BY <1>1, InsertRefines
<1>2. ASSUME NEW w \in Workers, PublishNew(w) PROVE [Relay!RelayNext]_(Relay!relayVars)
  BY <1>2, PublishRefines DEF IInv, HandlerInv, PublishNew
<1>3. ASSUME NEW w \in Workers,
             TakeMessage(w) \/ LogError(w) \/ CommitResolved(w) \/ Join(w) \/ Crash(w)
      PROVE  UNCHANGED <<normalized, published>>
  BY <1>3 DEF TakeMessage, LogError, CommitResolved, Join, Crash, storeVars
<1>4. CASE LosePartition \/ UNCHANGED vars
  BY <1>4, OthersStutter DEF LosePartition, vars, storeVars
<1> QED
  BY <1>1, <1>2, <1>3, <1>4, OthersStutter DEF Next, Work

\* No reading with a key of its own is published twice, nor before it is stored,
\* whatever is redelivered and however many workers handle one message; and none
\* under a shared key is published twice, or for a message that has nothing
\* stored under it.
THEOREM EngineImplementsRelay == Spec => PublishesStoredOnce
<1>1. Init => Relay!RelayInit
  BY DEF Init, Relay!RelayInit, Unshared
<1>2. IInv => SharedIsPublishedOnce
  BY DEF IInv, PublishInv, SharedIsPublishedOnce
<1> QED
  BY <1>1, <1>2, StepRefines, EngineInvariance, PTL
     DEF Spec, PublishesStoredOnce, Relay!RelaySpec

=============================================================================
