---------------------------- MODULE SlmProvider ----------------------------
(***************************************************************************)
(* inferBatch of the SLM providers (vllm and ollama): the callers are the  *)
(* partitions a semantic worker consumes concurrently, a ConcurrencyLimiter*)
(* admits them to the model, and a CircuitBreaker makes the admitted ones  *)
(* sleep while the model is cooling down.                                  *)
(*                                                                         *)
(* A step is one macrotask of the event loop with its microtasks: the      *)
(* waiter that a finishing call resolves runs before the finished caller   *)
(* can call again, its continuation being the earlier microtask.           *)
(***************************************************************************)
EXTENDS Naturals, Sequences, FiniteSets

CONSTANTS Callers,            \* SEMANTIC_PARTITIONS_CONCURRENTLY
          MaxConcurrency,     \* SLM_PROVIDER_MAX_CONCURRENCY
          FailureThreshold,   \* failures in a row that open the breaker
          CooldownMs,         \* the cooldown, in ticks
          Closed              \* the age of a breaker that is not open

ASSUME ProviderAssumption ==
  /\ IsFiniteSet(Callers)
  /\ MaxConcurrency \in Nat \ {0}
  /\ FailureThreshold \in Nat \ {0}
  /\ CooldownMs \in Nat \ {0}
  /\ Closed \notin Nat

VARIABLES
  state,      \* where each caller is: out, waiting, sleeping, calling
  active,     \* ConcurrencyLimiter: operations admitted
  waiters,    \* ConcurrencyLimiter: callers that wait for a slot
  failures,   \* CircuitBreaker: failures since the last reset
  openFor,    \* CircuitBreaker: time since openedAt, at most the cooldown
  sleep       \* time left of each sleeping caller's timer

vars == <<state, active, waiters, failures, openFor, sleep>>

Admitted == {c \in Callers : state[c] \in {"sleeping", "calling"}}
Calling  == {c \in Callers : state[c] = "calling"}

-----------------------------------------------------------------------------
Init ==
  /\ state = [c \in Callers |-> "out"]
  /\ active = 0
  /\ waiters = <<>>
  /\ failures = 0
  /\ openFor = Closed
  /\ sleep = [c \in Callers |-> 0]

(* What the steps leave of the breaker: its failures, and how long it has  *)
(* been open.                                                              *)

\* Mutant: the failures are still counted.
ResetOpenOnly == [failures |-> failures, openFor |-> Closed]

\* breaker.success(), and the end of waitUntilAvailable() after the timer,
\* whatever has happened since it was set
Reset == [failures |-> 0, openFor |-> Closed]

\* breaker.failure(): each failure of an open breaker opens it anew
Failed ==
  [failures |-> failures + 1,
   openFor  |-> IF failures + 1 >= FailureThreshold THEN 0 ELSE openFor]

\* waitUntilAvailable() of a caller that is admitted with the breaker b: it
\* calls the model, or sleeps for what is left of the cooldown.
Admit(c, b, others) ==
  IF b.openFor = Closed \/ b.openFor >= CooldownMs
    THEN /\ state' = [others EXCEPT ![c] = "calling"]
         /\ failures' = (IF b.openFor = Closed THEN b ELSE Reset).failures
         /\ openFor' = Closed
         /\ UNCHANGED sleep
    ELSE /\ state' = [others EXCEPT ![c] = "sleeping"]
         /\ failures' = b.failures
         /\ openFor' = b.openFor
         /\ sleep' = [sleep EXCEPT ![c] = CooldownMs - b.openFor]

\* Mutant: one operation too many is admitted.
SlotFreeOffByOne == active <= MaxConcurrency

SlotFree == active < MaxConcurrency

\* limiter.run() when there is a slot
Enter(c) ==
  /\ state[c] = "out"
  /\ SlotFree
  /\ active' = active + 1
  /\ Admit(c, [failures |-> failures, openFor |-> openFor], state)
  /\ UNCHANGED waiters

\* limiter.run() when there is none
Wait(c) ==
  /\ state[c] = "out"
  /\ ~SlotFree
  /\ state' = [state EXCEPT ![c] = "waiting"]
  /\ waiters' = Append(waiters, c)
  /\ UNCHANGED <<active, failures, openFor, sleep>>

\* Mutant: the latest waiter is served first.
ReleaseLast(c, b) ==
  LET n == Len(waiters) IN
  IF waiters = <<>>
    THEN /\ state' = [state EXCEPT ![c] = "out"]
         /\ active' = active - 1
         /\ failures' = b.failures /\ openFor' = b.openFor
         /\ UNCHANGED <<waiters, sleep>>
    ELSE /\ Admit(waiters[n], b, [state EXCEPT ![c] = "out"])
         /\ waiters' = SubSeq(waiters, 1, n - 1)
         /\ UNCHANGED active

\* Mutant: a waiter takes the slot without counting itself.
ReleaseUncounted(c, b) ==
  /\ active' = active - 1
  /\ IF waiters = <<>>
       THEN /\ state' = [state EXCEPT ![c] = "out"]
            /\ failures' = b.failures /\ openFor' = b.openFor
            /\ UNCHANGED <<waiters, sleep>>
       ELSE /\ Admit(Head(waiters), b, [state EXCEPT ![c] = "out"])
            /\ waiters' = Tail(waiters)

\* Mutant: a call that ends wakes no waiter.
ReleaseOnly(c, b) ==
  /\ state' = [state EXCEPT ![c] = "out"]
  /\ active' = active - 1
  /\ failures' = b.failures /\ openFor' = b.openFor
  /\ UNCHANGED <<waiters, sleep>>

\* The finally of limiter.run(): the slot is given up, and the first waiter
\* takes it.
Release(c, b) ==
  IF waiters = <<>>
    THEN /\ state' = [state EXCEPT ![c] = "out"]
         /\ active' = active - 1
         /\ failures' = b.failures /\ openFor' = b.openFor
         /\ UNCHANGED <<waiters, sleep>>
    ELSE /\ Admit(Head(waiters), b, [state EXCEPT ![c] = "out"])
         /\ waiters' = Tail(waiters)
         /\ UNCHANGED active

\* The model answers with an output.
Succeed(c) == state[c] = "calling" /\ Release(c, Reset)

\* The call fails or times out.
Fail(c) == state[c] = "calling" /\ Release(c, Failed)

\* The timer of a sleeping caller fires.
WakeUp(c) ==
  /\ state[c] = "sleeping" /\ sleep[c] = 0
  /\ state' = [state EXCEPT ![c] = "calling"]
  /\ failures' = Reset.failures
  /\ openFor' = Reset.openFor
  /\ UNCHANGED <<active, waiters, sleep>>

\* Time passes; a timer that is due may still fire late.
Tick ==
  /\ openFor' = IF openFor # Closed /\ openFor < CooldownMs THEN openFor + 1 ELSE openFor
  /\ sleep' = [c \in Callers |-> IF sleep[c] > 0 THEN sleep[c] - 1 ELSE 0]
  /\ UNCHANGED <<state, active, waiters, failures>>

Settle(c) == Succeed(c) \/ Fail(c)

Next ==
  \/ \E c \in Callers : Enter(c) \/ Wait(c) \/ Succeed(c) \/ Fail(c) \/ WakeUp(c)
  \/ Tick

Spec == Init /\ [][Next]_vars

\* A call ends by its timeout, a due timer fires, and time goes on; nothing
\* makes a caller call.
FairSpec ==
  /\ Spec
  /\ WF_vars(Tick)
  /\ \A c \in Callers : WF_vars(Settle(c)) /\ WF_vars(WakeUp(c))

-----------------------------------------------------------------------------
(* Properties                                                              *)

TypeOK ==
  /\ state \in [Callers -> {"out", "waiting", "sleeping", "calling"}]
  /\ active \in 0..MaxConcurrency
  /\ waiters \in Seq(Callers)
  /\ failures \in Nat
  /\ openFor \in {Closed} \cup 0..CooldownMs
  /\ sleep \in [Callers -> 0..CooldownMs]

\* The limiter's counter is the number of callers it has admitted, asleep or
\* calling; its queue holds the waiting ones, each once; and nobody waits
\* while a slot is free.  A counter left behind by a call that fails, or a
\* lost wake-up, would leave the readings of a partition unprocessed although
\* the model is idle.
LimiterIsExact ==
  /\ active = Cardinality(Admitted)
  /\ \A c \in Callers :
       Cardinality({i \in DOMAIN waiters : waiters[i] = c})
         = IF state[c] = "waiting" THEN 1 ELSE 0
  /\ waiters # <<>> => active = MaxConcurrency

\* The breaker is open exactly when the failures have reached the threshold,
\* and what fails after that are only the calls already under way, so at most
\* MaxConcurrency - 1 more.
OpenMeansRepeatedFailures ==
  /\ openFor # Closed <=> failures >= FailureThreshold
  /\ openFor # Closed => failures + Cardinality(Calling) < FailureThreshold + MaxConcurrency

\* A caller that waits for a slot, or sleeps in it, calls the model in the end,
\* whatever fails before it: every reading is submitted.
EveryCallerIsServed ==
  \A c \in Callers : state[c] \in {"waiting", "sleeping"} ~> state[c] = "calling"
=============================================================================
