----------------------- MODULE SlmBatchMapper_proofs -----------------------
(***************************************************************************)
(* Proofs about SlmBatchMapper for any batch of readings, any number of    *)
(* retries and answers of any length.                                      *)
(*                                                                         *)
(* The argument.  What is pending has been in every call so far, so its    *)
(* number of calls is the number of the attempt (CallsInv); each retry     *)
(* event was about a set of readings that has only shrunk since, so it     *)
(* names everything that is pending now (RetriesInv).                      *)
(***************************************************************************)
EXTENDS SlmBatchMapper, FiniteSetTheorems, SequenceTheorems, TLAPS

\* The calls that have been made, by the step of the loop.
CallsMade == IF pc = "infer" THEN attempt - 1 ELSE attempt

\* The readings divide into the accepted and the pending.
PartitionInv == accepted \cup pending = Readings /\ accepted \cap pending = {}

CallsInv ==
  /\ \A r \in Readings : calls[r] <= CallsMade
  /\ \A r \in pending : calls[r] = CallsMade

\* One retry event for each attempt but the first, and all name what is pending.
RetriesInv ==
  /\ pc # "thrown" => Len(retried) = attempt - 1
  /\ \A i \in DOMAIN retried : pending \subseteq retried[i]

\* Another attempt is announced as long as there may be one, and the loop ends
\* early only with nothing pending.
LoopInv ==
  /\ pc = "retry" => attempt <= MaxRetries
  /\ pc = "done" => pending = {} \/ attempt = MaxRetries + 1

IInv == TypeOK /\ PartitionInv /\ CallsInv /\ RetriesInv /\ LoopInv

-----------------------------------------------------------------------------
LEMMA InitEstablishes == Init => IInv
<1> SUFFICES ASSUME Init PROVE IInv
  OBVIOUS
<1>1. MaxRetries \in Nat
  BY BatchAssumption
<1>2. TypeOK
  BY <1>1 DEF Init, TypeOK
<1>3. PartitionInv /\ CallsInv /\ LoopInv
  BY DEF Init, PartitionInv, CallsInv, CallsMade, LoopInv
<1>4. RetriesInv
  BY DEF Init, RetriesInv
<1> QED
  BY <1>2, <1>3, <1>4 DEF IInv

\* A call counts for what is pending, and divides it into what it accepts and
\* the rest.
LEMMA InferPreserves == IInv /\ Infer => IInv'
<1> SUFFICES ASSUME IInv, Infer PROVE IInv'
  OBVIOUS
<1> USE BatchAssumption
<1>1. /\ pc = "infer" /\ attempt \in 1..MaxRetries + 1 /\ MaxRetries \in Nat
      /\ pending \subseteq Readings /\ accepted \subseteq Readings
      /\ calls \in [Readings -> 0..MaxRetries + 1] /\ retried \in Seq(SUBSET Readings)
  BY DEF IInv, TypeOK, Infer
<1>2. PICK rest \in SUBSET pending :
        /\ accepted' = accepted \cup (pending \ rest)
        /\ AfterCall(rest)
  <2>1. CASE \E items \in Answers :
               /\ accepted' = accepted \cup Accepted(items, pending)
               /\ AfterCall(Rest(items))
    <3>1. PICK items \in Answers :
            /\ accepted' = accepted \cup Accepted(items, pending)
            /\ AfterCall(Rest(items))
      BY <2>1
    <3>2. Accepted(items, pending) \subseteq pending
      BY DEF Accepted
    <3>3. Accepted(items, pending) = pending \ Rest(items) /\ Rest(items) \in SUBSET pending
      BY <3>2 DEF Rest
    <3> QED
      BY <3>1, <3>3
  <2>2. CASE UNCHANGED accepted /\ AfterCall(pending)
    BY <2>2
  <2> QED
    BY <2>1, <2>2 DEF Infer
<1>3. /\ pending' = rest
      /\ pc' = IF rest = {} \/ ~(attempt <= MaxRetries) THEN "done" ELSE "retry"
      /\ attempt' = attempt /\ retried' = retried
  BY <1>2 DEF AfterCall, MayRetry
<1>4. calls' = [r \in Readings |-> IF r \in pending THEN calls[r] + 1 ELSE calls[r]]
  BY DEF Infer
<1>5. \A r \in Readings : calls[r] <= attempt - 1 /\ (r \in pending => calls[r] = attempt - 1)
  BY <1>1 DEF IInv, CallsInv, CallsMade
<1>6. TypeOK'
  <2>1. \A r \in Readings : calls'[r] \in 0..MaxRetries + 1
    BY <1>1, <1>4, <1>5
  <2> QED
    BY <1>1, <1>2, <1>3, <1>4, <2>1 DEF TypeOK
<1>7. PartitionInv'
  BY <1>1, <1>2, <1>3 DEF IInv, PartitionInv
<1>8. CallsInv'
  <2>1. CallsMade' = attempt
    BY <1>3 DEF CallsMade
  <2>2. \A r \in Readings : calls'[r] <= attempt /\ (r \in pending => calls'[r] = attempt)
    BY <1>1, <1>4, <1>5
  <2>3. rest \subseteq pending /\ pending \subseteq Readings
    BY <1>1, <1>2
  <2> QED
    BY <1>3, <2>1, <2>2, <2>3 DEF CallsInv
<1>9. RetriesInv'
  BY <1>1, <1>2, <1>3 DEF IInv, RetriesInv
<1>10. LoopInv'
  BY <1>1, <1>3 DEF LoopInv
<1> QED
  BY <1>6, <1>7, <1>8, <1>9, <1>10 DEF IInv

\* A retry event names what is pending; without it the batch ends.
LEMMA AnnounceRetryPreserves == IInv /\ AnnounceRetry => IInv'
<1> SUFFICES ASSUME IInv, AnnounceRetry PROVE IInv'
  OBVIOUS
<1>1. /\ pc = "retry" /\ attempt \in 1..MaxRetries + 1 /\ MaxRetries \in Nat
      /\ attempt <= MaxRetries /\ pending \in SUBSET Readings
      /\ retried \in Seq(SUBSET Readings)
      /\ UNCHANGED <<pending, accepted, calls>>
  BY BatchAssumption DEF IInv, TypeOK, LoopInv, AnnounceRetry
<1>2. /\ Append(retried, pending) \in Seq(SUBSET Readings)
      /\ Len(Append(retried, pending)) = Len(retried) + 1
      /\ \A i \in DOMAIN Append(retried, pending) : pending \subseteq Append(retried, pending)[i]
  <2>1. /\ Append(retried, pending) \in Seq(SUBSET Readings)
        /\ Len(Append(retried, pending)) = Len(retried) + 1 /\ Len(retried) \in Nat
        /\ \A i \in 1..Len(retried) : Append(retried, pending)[i] = retried[i]
        /\ Append(retried, pending)[Len(retried) + 1] = pending
    BY <1>1, AppendProperties
  <2>2. \A i \in DOMAIN Append(retried, pending) : i \in 1..Len(retried) \/ i = Len(retried) + 1
    BY <2>1
  <2>3. \A i \in 1..Len(retried) : pending \subseteq retried[i]
    BY <1>1 DEF IInv, RetriesInv
  <2> QED
    BY <2>1, <2>2, <2>3
<1>3. CASE retried' = Append(retried, pending) /\ attempt' = attempt + 1 /\ pc' = "infer"
  <2>1. TypeOK'
    BY <1>1, <1>2, <1>3 DEF IInv, TypeOK
  <2>2. CallsInv'
    <3>1. CallsMade' = CallsMade
      BY <1>1, <1>3 DEF CallsMade
    <3> QED
      BY <1>1, <3>1 DEF IInv, CallsInv
  <2>3. RetriesInv'
    BY <1>1, <1>2, <1>3 DEF IInv, RetriesInv
  <2> QED
    BY <1>1, <1>3, <2>1, <2>2, <2>3 DEF IInv, PartitionInv, LoopInv
<1>4. CASE /\ retried' \in {retried, Append(retried, pending)}
           /\ pc' = "thrown" /\ UNCHANGED attempt
  <2>1. TypeOK'
    BY <1>1, <1>2, <1>4 DEF IInv, TypeOK
  <2>2. CallsInv'
    <3>1. CallsMade' = CallsMade
      BY <1>1, <1>4 DEF CallsMade
    <3> QED
      BY <1>1, <3>1 DEF IInv, CallsInv
  <2>3. RetriesInv'
    BY <1>1, <1>2, <1>4 DEF IInv, RetriesInv
  <2> QED
    BY <1>1, <1>4, <2>1, <2>2, <2>3 DEF IInv, PartitionInv, LoopInv
<1> QED
  BY <1>3, <1>4 DEF AnnounceRetry

-----------------------------------------------------------------------------
\* The inductive invariant holds in every reachable state.
THEOREM MapperInvariance == Spec => []IInv
<1>1. IInv /\ [Next]_vars => IInv'
  <2>1. CASE UNCHANGED vars
    BY <2>1 DEF vars, IInv, TypeOK, PartitionInv, CallsInv, CallsMade, RetriesInv, LoopInv
  <2> QED
    BY <2>1, InferPreserves, AnnounceRetryPreserves DEF Next
<1> QED
  BY <1>1, InitEstablishes, PTL DEF Spec

\* Every variable keeps its type; no reading is in more than MaxRetries + 1 calls
\* (mapReadingBatch, batch-mapper.js:94).
THEOREM MapperTypeCorrect == Spec => []TypeOK
<1>1. IInv => TypeOK
  BY DEF IInv
<1> QED
  BY <1>1, MapperInvariance, PTL

\* However the answers fall, a reading ends mapped or safely unmapped, never both,
\* and is given up only after every attempt, each but the first announced
\* (mapReadingBatch, batch-mapper.js:94-170).
THEOREM OneOutcomeEach == Spec => []EveryReadingHasOneOutcome
<1>1. IInv => EveryReadingHasOneOutcome
  <2> SUFFICES ASSUME IInv PROVE EveryReadingHasOneOutcome
    OBVIOUS
  <2>1. ASSUME pc = "done", NEW r \in pending
        PROVE  /\ calls[r] = MaxRetries + 1
               /\ Cardinality({i \in DOMAIN retried : r \in retried[i]}) = MaxRetries
    <3>1. attempt = MaxRetries + 1 /\ MaxRetries \in Nat
      BY <2>1, BatchAssumption DEF IInv, LoopInv
    <3>2. calls[r] = MaxRetries + 1
      BY <2>1, <3>1 DEF IInv, CallsInv, CallsMade
    <3>3. {i \in DOMAIN retried : r \in retried[i]} = 1..MaxRetries
      <4>1. DOMAIN retried = 1..MaxRetries
        BY <2>1, <3>1 DEF IInv, TypeOK, RetriesInv
      <4> QED
        BY <2>1, <4>1 DEF IInv, RetriesInv
    <3>4. Cardinality(1..MaxRetries) = MaxRetries
      <4>1. 1 \in Int /\ MaxRetries \in Int
        BY <3>1
      <4>2. Cardinality(1..MaxRetries) = IF 1 > MaxRetries THEN 0 ELSE MaxRetries - 1 + 1
        BY <4>1, FS_Interval
      <4> QED
        BY <3>1, <4>2
    <3> QED
      BY <3>2, <3>3, <3>4
  <2> QED
    BY <2>1 DEF IInv, PartitionInv, EveryReadingHasOneOutcome
<1> QED
  BY <1>1, MapperInvariance, PTL

\* What is accepted stays accepted and is not asked again, whatever the later
\* attempts bring (mapReadingBatch, batch-mapper.js:140-160).
THEOREM AcceptedStays == Spec => AcceptedIsFinal
<1>1. IInv /\ [Next]_vars => [\A r \in accepted : r \in accepted' /\ calls'[r] = calls[r]]_vars
  <2> SUFFICES ASSUME IInv, Next
               PROVE  \A r \in accepted : r \in accepted' /\ calls'[r] = calls[r]
    OBVIOUS
  <2>1. accepted \subseteq Readings /\ accepted \cap pending = {}
    BY DEF IInv, TypeOK, PartitionInv
  <2>2. CASE Infer
    <3>1. accepted \subseteq accepted'
      BY <2>2 DEF Infer
    <3>2. calls' = [r \in Readings |-> IF r \in pending THEN calls[r] + 1 ELSE calls[r]]
      BY <2>2 DEF Infer
    <3> QED
      BY <2>1, <3>1, <3>2
  <2>3. CASE AnnounceRetry
    BY <2>3 DEF AnnounceRetry
  <2> QED
    BY <2>2, <2>3 DEF Next
<1> QED
  BY <1>1, MapperInvariance, PTL DEF Spec, AcceptedIsFinal
=============================================================================
