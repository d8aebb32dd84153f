--------------------------- MODULE SlmBatchMapper ---------------------------
(***************************************************************************)
(* mapReadingBatch of services/semantic-connector: one batch of readings   *)
(* is sent to the SLM, the answer is reconciled with the readings by id,   *)
(* and what was not accepted is sent again, for a bounded number of        *)
(* attempts; what remains is safely unmapped.                              *)
(***************************************************************************)
EXTENDS Naturals, Sequences, FiniteSets

CONSTANTS Readings,     \* reading_ids of the batch
          Unknown,      \* a reading_id the SLM invented
          Malformed,    \* an answer: not JSON, wrong top-level fields, no array
          NoAnswer,     \* the call failed or timed out
          MaxRetries,   \* SLM_BATCH_MAX_RETRIES
          MaxItems      \* bound of the model: items in an answer

ASSUME BatchAssumption ==
  /\ Unknown \notin Readings
  /\ Malformed # NoAnswer
  /\ Readings # {} /\ IsFiniteSet(Readings)
  /\ MaxRetries \in Nat /\ MaxItems \in Nat

VARIABLES
  pc,          \* "infer", "retry", "done", or "thrown"
  attempt,     \* the attempt the loop is in
  pending,     \* readings of the next call
  accepted,    \* acceptedOutcomes: readings mapped so far
  calls,       \* attemptCount: calls each reading has been in
  retried,     \* reading_ids of the retry events sent to Kafka, in order
  answer       \* the answer to the last call, Malformed or NoAnswer

vars == <<pc, attempt, pending, accepted, calls, retried, answer>>

-----------------------------------------------------------------------------
(* validateBatchResponse                                                   *)

\* An item names a reading, and passes or fails the checks of one mapping
\* (concept, property, unit, confidence, reason, content, guardrail).
Items   == [id : Readings \cup {Unknown}, passes : BOOLEAN]
Answers == UNION {[1..n -> Items] : n \in 0..MaxItems}

Occurrences(items, r) == {i \in DOMAIN items : items[i].id = r}

\* The first item of a reading decides, later ones are not looked at.
PassesFirst(items, r) ==
  \E i \in Occurrences(items, r) :
    /\ \A j \in Occurrences(items, r) : i <= j
    /\ items[i].passes

\* Mutant: items are accepted for readings the call was not about.
AcceptedUnchecked(items, asked) == {r \in Readings \cup {Unknown} : PassesFirst(items, r)}

\* validation.accepted
Accepted(items, asked) == {r \in asked : PassesFirst(items, r)}

-----------------------------------------------------------------------------
Init ==
  /\ pc = "infer"
  /\ attempt = 1
  /\ pending = Readings
  /\ accepted = {}
  /\ calls = [r \in Readings |-> 0]
  /\ retried = <<>>
  /\ answer = NoAnswer

\* Mutant: the last retry is left out.
MayRetryTooFew == attempt + 1 <= MaxRetries

MayRetry == attempt <= MaxRetries

\* Mutant: the whole batch is sent again, not only what was not accepted.
RestIsEverything(items) == IF Accepted(items, pending) = pending THEN {} ELSE pending

\* The readings of the next attempt.
Rest(items) == pending \ Accepted(items, pending)

\* After a call: the loop ends, or announces a retry first.
AfterCall(rest) ==
  /\ pending' = rest
  /\ pc' = IF rest = {} \/ ~MayRetry THEN "done" ELSE "retry"
  /\ UNCHANGED <<attempt, retried>>

\* provider.inferBatch for the pending readings, and its reconciliation.
Infer ==
  /\ pc = "infer"
  /\ calls' = [r \in Readings |-> IF r \in pending THEN calls[r] + 1 ELSE calls[r]]
  /\ \/ \E items \in Answers :
          /\ answer' = items
          /\ accepted' = accepted \cup Accepted(items, pending)
          /\ AfterCall(Rest(items))
     \/ /\ answer' \in {Malformed, NoAnswer}
        /\ UNCHANGED accepted
        /\ AfterCall(pending)

\* onRetry: the retry event is published, or its failure ends the batch.
AnnounceRetry ==
  /\ pc = "retry"
  /\ \/ /\ retried' = Append(retried, pending)
        /\ attempt' = attempt + 1
        /\ pc' = "infer"
     \/ /\ retried' \in {retried, Append(retried, pending)}
        /\ pc' = "thrown"
        /\ UNCHANGED attempt
  /\ UNCHANGED <<pending, accepted, calls, answer>>

Next == Infer \/ AnnounceRetry

Spec == Init /\ [][Next]_vars

-----------------------------------------------------------------------------
(* Properties                                                              *)

TypeOK ==
  /\ pc \in {"infer", "retry", "done", "thrown"}
  /\ attempt \in 1..MaxRetries + 1
  /\ pending \subseteq Readings
  /\ accepted \subseteq Readings
  /\ calls \in [Readings -> 0..MaxRetries + 1]
  /\ retried \in Seq(SUBSET Readings)

\* The readings divide into the accepted and the pending at every moment, so
\* that at the end each one is mapped or safely unmapped and none is both or
\* forgotten; and one is given up only after MaxRetries + 1 calls, all of
\* which but the first have been announced.
EveryReadingHasOneOutcome ==
  /\ accepted \cup pending = Readings /\ accepted \cap pending = {}
  /\ pc = "done" =>
       \A r \in pending :
         /\ calls[r] = MaxRetries + 1
         /\ Cardinality({i \in DOMAIN retried : r \in retried[i]}) = MaxRetries

\* docs/slm-batching-design.md: accepted items leave the retry set immediately,
\* and valid readings of a batch are not discarded by what fails later.
AcceptedIsFinal ==
  [][\A r \in accepted : r \in accepted' /\ calls'[r] = calls[r]]_vars

\* docs/slm-scalability-architecture.md: duplicate reading ids in an answer
\* cannot be accepted.
DuplicatesAreNotAccepted ==
  [][\A r \in accepted' \ accepted : Cardinality(Occurrences(answer', r)) = 1]_vars
=============================================================================
