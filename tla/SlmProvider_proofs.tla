------------------------ MODULE SlmProvider_proofs ------------------------
(***************************************************************************)
(* Proofs about SlmProvider for any finite set of callers, any number of   *)
(* slots, any threshold and any cooldown.                                  *)
(*                                                                         *)
(* The argument.  A waiter is admitted in the step that frees its slot, so *)
(* the counter moves with the set of admitted callers (SlotsInv) and the   *)
(* queue is the waiting callers without repetition (QueueInv).  A caller   *)
(* enters the model only through a closed breaker, so while it is open the *)
(* calls under way only become fewer, and failures plus calls never grow   *)
(* past the sum they had when it opened (BreakerInv).                      *)
(***************************************************************************)
EXTENDS SlmProvider, FiniteSetTheorems, SequenceTheorems, TLAPS

States == {"out", "waiting", "sleeping", "calling"}

\* The callers in a slot, and those of them that call, in the states st.
InSlot(st) == {c \in Callers : st[c] \in {"sleeping", "calling"}}
InCall(st) == {c \in Callers : st[c] = "calling"}

Breakers == [failures : Nat, openFor : {Closed} \cup 0..CooldownMs]

\* What holds of a breaker while the callers in calls are calling.
BreakerOK(b, calls) ==
  /\ b.openFor # Closed <=> b.failures >= FailureThreshold
  /\ b.openFor # Closed =>
       b.failures + Cardinality(calls) < FailureThreshold + MaxConcurrency

Breaker == [failures |-> failures, openFor |-> openFor]

SlotsInv == active = Cardinality(InSlot(state)) /\ (waiters # <<>> => active = MaxConcurrency)

QueueInv ==
  /\ \A i, j \in DOMAIN waiters : waiters[i] = waiters[j] => i = j
  /\ \A c \in Callers : state[c] = "waiting" <=> \E i \in DOMAIN waiters : waiters[i] = c

BreakerInv == BreakerOK(Breaker, InCall(state))

IInv == TypeOK /\ SlotsInv /\ QueueInv /\ BreakerInv

-----------------------------------------------------------------------------
\* Callers in slots are finite in number, and those that call are among them.
LEMMA SlotsFinite ==
  ASSUME NEW st
  PROVE  /\ IsFiniteSet(InSlot(st)) /\ IsFiniteSet(InCall(st))
         /\ Cardinality(InSlot(st)) \in Nat /\ Cardinality(InCall(st)) \in Nat
         /\ Cardinality(InCall(st)) <= Cardinality(InSlot(st))
<1>1. InSlot(st) \in SUBSET Callers /\ InCall(st) \in SUBSET InSlot(st)
  BY DEF InSlot, InCall
<1>2. IsFiniteSet(InSlot(st))
  BY <1>1, FS_Subset, ProviderAssumption
<1>3. IsFiniteSet(InCall(st)) /\ Cardinality(InCall(st)) <= Cardinality(InSlot(st))
  BY <1>1, <1>2, FS_Subset
<1> QED
  BY <1>2, <1>3, FS_CardinalityType

\* Without one caller that is calling there is one fewer in the slots and one
\* fewer calling.
LEMMA LeaveSlot ==
  ASSUME NEW st \in [Callers -> States], NEW c \in Callers, st[c] = "calling"
  PROVE  /\ [st EXCEPT ![c] = "out"] \in [Callers -> States]
         /\ InSlot([st EXCEPT ![c] = "out"]) = InSlot(st) \ {c}
         /\ Cardinality(InSlot([st EXCEPT ![c] = "out"])) = Cardinality(InSlot(st)) - 1
         /\ Cardinality(InCall([st EXCEPT ![c] = "out"])) = Cardinality(InCall(st)) - 1
<1> DEFINE others == [st EXCEPT ![c] = "out"]
<1>1. others \in [Callers -> States]
  BY DEF States
<1>2. InSlot(others) = InSlot(st) \ {c} /\ InCall(others) = InCall(st) \ {c}
  BY DEF InSlot, InCall, States
<1>3. c \in InSlot(st) /\ c \in InCall(st)
  BY DEF InSlot, InCall
<1>4. Cardinality(InSlot(st) \ {c}) = Cardinality(InSlot(st)) - 1
  BY <1>3, SlotsFinite, FS_RemoveElement
<1>5. Cardinality(InCall(st) \ {c}) = Cardinality(InCall(st)) - 1
  BY <1>3, SlotsFinite, FS_RemoveElement
<1> QED
  BY <1>1, <1>2, <1>4, <1>5

\* Admit: the caller is in a slot afterwards, nobody else moves, and a breaker
\* that was right is right again, for a caller joins the calls only if it is closed.
LEMMA AdmitKeepsBreaker ==
  ASSUME NEW c \in Callers, NEW b \in Breakers, NEW others \in [Callers -> States],
         others[c] \notin {"sleeping", "calling"},
         sleep \in [Callers -> 0..CooldownMs],
         BreakerOK(b, InCall(others)),
         Admit(c, b, others)
  PROVE  /\ state' \in [Callers -> States]
         /\ state'[c] \in {"sleeping", "calling"}
         /\ \A d \in Callers \ {c} : state'[d] = others[d]
         /\ Cardinality(InSlot(state')) = Cardinality(InSlot(others)) + 1
         /\ Breaker' \in Breakers
         /\ sleep' \in [Callers -> 0..CooldownMs]
         /\ BreakerOK(Breaker', InCall(state'))
<1>1. b.failures \in Nat /\ b.openFor \in {Closed} \cup 0..CooldownMs
  BY DEF Breakers
<1>2. /\ state' \in [Callers -> States]
      /\ state'[c] \in {"sleeping", "calling"}
      /\ \A d \in Callers \ {c} : state'[d] = others[d]
  BY DEF Admit, States
<1>3. Cardinality(InSlot(state')) = Cardinality(InSlot(others)) + 1
  <2>1. InSlot(state') = InSlot(others) \cup {c} /\ c \notin InSlot(others)
    BY <1>2 DEF InSlot
  <2> QED
    BY <2>1, SlotsFinite, FS_AddElement
<1>4. CASE b.openFor = Closed \/ b.openFor >= CooldownMs
  <2>1. /\ openFor' = Closed /\ sleep' = sleep
        /\ failures' \in Nat /\ failures' < FailureThreshold
    BY <1>1, <1>4, ProviderAssumption DEF Admit, Reset, BreakerOK
  <2> QED
    BY <1>2, <1>3, <2>1, ProviderAssumption DEF Breaker, Breakers, BreakerOK
<1>5. CASE ~(b.openFor = Closed \/ b.openFor >= CooldownMs)
  <2>1. b.openFor \in 0..CooldownMs /\ CooldownMs - b.openFor \in 0..CooldownMs
    BY <1>1, <1>5, ProviderAssumption
  <2>2. failures' = b.failures /\ openFor' = b.openFor
        /\ sleep' = [sleep EXCEPT ![c] = CooldownMs - b.openFor]
        /\ state' = [others EXCEPT ![c] = "sleeping"]
    BY <1>5 DEF Admit
  <2>3. InCall(state') = InCall(others)
    BY <2>2 DEF InCall
  <2>4. Breaker' \in Breakers /\ sleep' \in [Callers -> 0..CooldownMs]
    BY <1>1, <2>1, <2>2 DEF Breaker, Breakers
  <2>5. BreakerOK(Breaker', InCall(state'))
    BY <2>2, <2>3 DEF Breaker, BreakerOK
  <2> QED
    BY <1>2, <1>3, <2>4, <2>5
<1> QED
  BY <1>4, <1>5

\* What a call leaves of the breaker when it ends is right for the calls that
\* are still under way: a success resets it, and a failure adds one to the
\* failures and takes one from the calls.
LEMMA EndKeepsBreaker ==
  ASSUME IInv, NEW c \in Callers, state[c] = "calling", NEW b \in {Reset, Failed}
  PROVE  b \in Breakers /\ BreakerOK(b, InCall([state EXCEPT ![c] = "out"]))
<1> DEFINE calls == InCall([state EXCEPT ![c] = "out"])
<1>1. /\ failures \in Nat /\ openFor \in {Closed} \cup 0..CooldownMs
      /\ active \in 0..MaxConcurrency /\ state \in [Callers -> States]
  BY DEF IInv, TypeOK, States
<1>2. CASE b = Reset
  BY <1>2, ProviderAssumption DEF Reset, Breakers, BreakerOK
<1>3. CASE b = Failed
  <2>1. /\ Cardinality(calls) = Cardinality(InCall(state)) - 1
        /\ Cardinality(calls) \in Nat /\ Cardinality(InCall(state)) \in Nat
    BY <1>1, LeaveSlot, SlotsFinite
  <2>2. Cardinality(InCall(state)) <= MaxConcurrency
    <3>1. active = Cardinality(InSlot(state))
      BY DEF IInv, SlotsInv
    <3> QED
      BY <1>1, <3>1, <2>1, SlotsFinite, ProviderAssumption
  <2>3. b.failures = failures + 1
        /\ b.openFor = IF failures + 1 >= FailureThreshold THEN 0 ELSE openFor
    BY <1>3 DEF Failed
  <2>4. b \in Breakers
    BY <1>1, <1>3, ProviderAssumption DEF Failed, Breakers
  <2>5. BreakerOK(b, calls)
    <3> DEFINE n == Cardinality(calls)
               m == Cardinality(InCall(state))
    <3>1. /\ openFor # Closed <=> failures >= FailureThreshold
          /\ openFor # Closed => failures + m < FailureThreshold + MaxConcurrency
      BY DEF IInv, BreakerInv, BreakerOK, Breaker
    <3>2. n = m - 1 /\ n \in Nat /\ m \in Nat /\ m <= MaxConcurrency
      BY <2>1, <2>2
    <3> HIDE DEF n, m
    <3>3. /\ b.openFor # Closed <=> b.failures >= FailureThreshold
          /\ b.openFor # Closed => b.failures + n < FailureThreshold + MaxConcurrency
      BY <1>1, <2>3, <3>1, <3>2, ProviderAssumption
    <3> QED
      BY <3>3 DEF BreakerOK, n
  <2> QED
    BY <2>4, <2>5
<1> QED
  BY <1>2, <1>3

-----------------------------------------------------------------------------
LEMMA InitEstablishes == Init => IInv
<1> SUFFICES ASSUME Init PROVE IInv
  OBVIOUS
<1>1. TypeOK
  BY ProviderAssumption DEF Init, TypeOK
<1>2. SlotsInv
  <2>1. InSlot(state) = {}
    BY DEF Init, InSlot
  <2> QED
    BY <2>1, FS_EmptySet DEF Init, SlotsInv
<1>3. QueueInv
  BY DEF Init, QueueInv
<1>4. BreakerInv
  BY ProviderAssumption DEF Init, BreakerInv, BreakerOK, Breaker
<1> QED
  BY <1>1, <1>2, <1>3, <1>4 DEF IInv

\* A caller that finds a slot free is counted in the same step; nobody waits then.
LEMMA EnterPreserves ==
  ASSUME IInv, NEW c \in Callers, Enter(c)
  PROVE  IInv'
<1>1. /\ state \in [Callers -> States] /\ active \in 0..MaxConcurrency
      /\ waiters \in Seq(Callers) /\ sleep \in [Callers -> 0..CooldownMs]
      /\ Breaker \in Breakers /\ BreakerOK(Breaker, InCall(state))
  BY DEF IInv, TypeOK, States, Breaker, Breakers, BreakerInv
<1>2. /\ state[c] = "out" /\ active < MaxConcurrency /\ active' = active + 1
      /\ Admit(c, Breaker, state) /\ waiters' = waiters
  BY DEF Enter, SlotFree, Breaker
<1>3. /\ state' \in [Callers -> States]
      /\ state'[c] \in {"sleeping", "calling"}
      /\ \A d \in Callers \ {c} : state'[d] = state[d]
      /\ Cardinality(InSlot(state')) = Cardinality(InSlot(state)) + 1
      /\ Breaker' \in Breakers /\ sleep' \in [Callers -> 0..CooldownMs]
      /\ BreakerOK(Breaker', InCall(state'))
  BY <1>1, <1>2, AdmitKeepsBreaker
<1>4. waiters = <<>>
  BY <1>1, <1>2 DEF IInv, SlotsInv
<1>5. TypeOK'
  BY <1>1, <1>2, <1>3, ProviderAssumption DEF TypeOK, States, Breaker, Breakers
<1>6. SlotsInv'
  BY <1>2, <1>3, <1>4 DEF IInv, SlotsInv
<1>7. QueueInv'
  BY <1>2, <1>3 DEF IInv, QueueInv
<1> QED
  BY <1>3, <1>5, <1>6, <1>7 DEF IInv, BreakerInv

\* A caller that finds none free is put at the end of the queue, once.
LEMMA WaitPreserves ==
  ASSUME IInv, NEW c \in Callers, Wait(c)
  PROVE  IInv'
<1>1. /\ state \in [Callers -> States] /\ active \in 0..MaxConcurrency
      /\ waiters \in Seq(Callers)
  BY DEF IInv, TypeOK, States
<1>2. /\ state[c] = "out" /\ active = MaxConcurrency
      /\ state' = [state EXCEPT ![c] = "waiting"] /\ waiters' = Append(waiters, c)
      /\ UNCHANGED <<active, failures, openFor, sleep>>
  BY <1>1, ProviderAssumption DEF Wait, SlotFree
<1>3. /\ waiters' \in Seq(Callers) /\ Len(waiters') = Len(waiters) + 1
      /\ \A i \in 1..Len(waiters) : waiters'[i] = waiters[i]
      /\ waiters'[Len(waiters) + 1] = c
      /\ Len(waiters) \in Nat
  BY <1>1, <1>2, AppendProperties
<1>4. DOMAIN waiters = 1..Len(waiters) /\ DOMAIN waiters' = 1..(Len(waiters) + 1)
  BY <1>1, <1>3
<1>5. TypeOK'
  BY <1>2, <1>3 DEF IInv, TypeOK
<1>6. InSlot(state') = InSlot(state) /\ InCall(state') = InCall(state)
  BY <1>1, <1>2 DEF InSlot, InCall
<1>7. SlotsInv'
  BY <1>2, <1>6 DEF IInv, SlotsInv
<1>8. QueueInv'
  <2>1. \A i \in 1..Len(waiters) : waiters[i] # c
    BY <1>1, <1>2, <1>4 DEF IInv, QueueInv
  <2>2. ASSUME NEW i \in DOMAIN waiters', NEW j \in DOMAIN waiters', waiters'[i] = waiters'[j]
        PROVE  i = j
    <3>1. \A k \in DOMAIN waiters' : k \in 1..Len(waiters) \/ k = Len(waiters) + 1
      BY <1>3, <1>4
    <3> QED
      BY <1>3, <1>4, <2>1, <2>2, <3>1 DEF IInv, QueueInv
  <2>3. ASSUME NEW d \in Callers
        PROVE  state'[d] = "waiting" <=> \E i \in DOMAIN waiters' : waiters'[i] = d
    <3>1. CASE d = c
      BY <1>1, <1>2, <1>3, <1>4, <3>1
    <3>2. CASE d # c
      <4>1. state'[d] = state[d]
        BY <1>1, <1>2, <3>2
      <4>2. (\E i \in DOMAIN waiters' : waiters'[i] = d)
              <=> (\E i \in DOMAIN waiters : waiters[i] = d)
        <5>1. \A k \in DOMAIN waiters' : k \in DOMAIN waiters \/ k = Len(waiters) + 1
          BY <1>3, <1>4
        <5>2. DOMAIN waiters \subseteq DOMAIN waiters'
          BY <1>3, <1>4
        <5> QED
          BY <1>3, <1>4, <3>2, <5>1, <5>2
      <4> QED
        BY <4>1, <4>2 DEF IInv, QueueInv
    <3> QED
      BY <3>1, <3>2
  <2> QED
    BY <2>2, <2>3 DEF QueueInv
<1>9. BreakerInv'
  BY <1>2, <1>6 DEF IInv, BreakerInv, BreakerOK, Breaker
<1> QED
  BY <1>5, <1>7, <1>8, <1>9 DEF IInv

\* A call that ends gives its slot to the first waiter, or gives it back.
LEMMA ReleasePreserves ==
  ASSUME IInv, NEW c \in Callers, state[c] = "calling", NEW b \in {Reset, Failed}, Release(c, b)
  PROVE  IInv'
<1> DEFINE others == [state EXCEPT ![c] = "out"]
<1>1. /\ state \in [Callers -> States] /\ active \in 0..MaxConcurrency
      /\ waiters \in Seq(Callers) /\ sleep \in [Callers -> 0..CooldownMs]
  BY DEF IInv, TypeOK, States
<1>2. /\ others \in [Callers -> States] /\ InSlot(others) = InSlot(state) \ {c}
      /\ Cardinality(InSlot(others)) = active - 1
      /\ Cardinality(InSlot(others)) \in Nat
  BY <1>1, LeaveSlot, SlotsFinite DEF IInv, SlotsInv
<1>3. b \in Breakers /\ BreakerOK(b, InCall(others))
  BY EndKeepsBreaker
<1>4. \A d \in Callers : state[d] = "waiting" <=> others[d] = "waiting"
  BY <1>1
<1>5. CASE waiters = <<>>
  <2>1. /\ state' = others /\ active' = active - 1 /\ waiters' = waiters /\ sleep' = sleep
        /\ failures' = b.failures /\ openFor' = b.openFor
    BY <1>5 DEF Release
  <2>2. active' \in 0..MaxConcurrency
    BY <1>1, <1>2, <2>1, ProviderAssumption
  <2>3. TypeOK'
    BY <1>1, <1>2, <1>3, <2>1, <2>2 DEF TypeOK, States, Breakers
  <2>4. SlotsInv'
    BY <1>2, <1>5, <2>1 DEF SlotsInv
  <2>5. QueueInv'
    BY <1>4, <2>1 DEF IInv, QueueInv
  <2>6. BreakerInv'
    BY <1>3, <2>1 DEF BreakerInv, BreakerOK, Breaker
  <2> QED
    BY <2>3, <2>4, <2>5, <2>6 DEF IInv
<1>6. CASE waiters # <<>>
  <2> DEFINE w == Head(waiters)
  <2>1. Admit(w, b, others) /\ waiters' = Tail(waiters) /\ active' = active
    BY <1>6 DEF Release
  <2>2. /\ w \in Callers /\ w = waiters[1] /\ Tail(waiters) \in Seq(Callers)
        /\ Len(waiters) \in Nat \ {0} /\ Len(Tail(waiters)) = Len(waiters) - 1
        /\ \A i \in 1..Len(Tail(waiters)) : Tail(waiters)[i] = waiters[i + 1]
    BY <1>1, <1>6, HeadTailProperties
  <2>3. DOMAIN waiters = 1..Len(waiters) /\ DOMAIN waiters' = 1..(Len(waiters) - 1)
    BY <1>1, <2>1, <2>2
  <2>4. state[w] = "waiting" /\ others[w] = "waiting"
    BY <1>4, <2>2, <2>3 DEF IInv, QueueInv
  <2>5. /\ state' \in [Callers -> States]
        /\ state'[w] \in {"sleeping", "calling"}
        /\ \A d \in Callers \ {w} : state'[d] = others[d]
        /\ Cardinality(InSlot(state')) = Cardinality(InSlot(others)) + 1
        /\ Breaker' \in Breakers /\ sleep' \in [Callers -> 0..CooldownMs]
        /\ BreakerOK(Breaker', InCall(state'))
    <3> HIDE DEF w, others
    <3>1. w \in Callers /\ others[w] \notin {"sleeping", "calling"}
      BY <2>2, <2>4
    <3> QED
      BY <1>1, <1>2, <1>3, <2>1, <3>1, AdmitKeepsBreaker
  <2>6. TypeOK'
    BY <1>1, <2>1, <2>2, <2>5 DEF TypeOK, States, Breaker, Breakers
  <2>7. SlotsInv'
    BY <1>1, <1>2, <1>6, <2>1, <2>5, ProviderAssumption DEF IInv, SlotsInv
  <2>8. QueueInv'
    <3>1. \A i \in DOMAIN waiters' : i + 1 \in DOMAIN waiters /\ waiters'[i] = waiters[i + 1]
      BY <2>1, <2>2, <2>3
    <3>2. \A i, j \in DOMAIN waiters' : waiters'[i] = waiters'[j] => i = j
      BY <2>2, <2>3, <3>1 DEF IInv, QueueInv
    <3>3. \A i \in DOMAIN waiters' : waiters'[i] # w
      BY <2>2, <2>3, <3>1 DEF IInv, QueueInv
    <3>4. ASSUME NEW d \in Callers
          PROVE  state'[d] = "waiting" <=> \E i \in DOMAIN waiters' : waiters'[i] = d
      <4>1. CASE d = w
        BY <2>5, <3>3, <4>1
      <4>2. CASE d # w
        <5>1. state'[d] = "waiting" <=> state[d] = "waiting"
          BY <1>4, <2>5, <4>2
        <5>2. (\E i \in DOMAIN waiters : waiters[i] = d)
                <=> (\E i \in DOMAIN waiters' : waiters'[i] = d)
          <6>1. \A i \in DOMAIN waiters : i = 1 \/ (i - 1 \in DOMAIN waiters' /\ (i - 1) + 1 = i)
            BY <2>2, <2>3
          <6> QED
            BY <2>2, <3>1, <4>2, <6>1
        <5> QED
          BY <5>1, <5>2 DEF IInv, QueueInv
      <4> QED
        BY <4>1, <4>2
    <3> QED
      BY <3>2, <3>4 DEF QueueInv
  <2> QED
    BY <2>5, <2>6, <2>7, <2>8 DEF IInv, BreakerInv
<1> QED
  BY <1>5, <1>6

\* A sleeper that wakes up resets the breaker, whatever it has become meanwhile.
LEMMA WakeUpPreserves ==
  ASSUME IInv, NEW c \in Callers, WakeUp(c)
  PROVE  IInv'
<1>1. state \in [Callers -> States]
  BY DEF IInv, TypeOK, States
<1>2. /\ state[c] = "sleeping" /\ state' = [state EXCEPT ![c] = "calling"]
      /\ failures' = 0 /\ openFor' = Closed /\ UNCHANGED <<active, waiters, sleep>>
  BY DEF WakeUp, Reset
<1>3. TypeOK'
  BY <1>2 DEF IInv, TypeOK
<1>4. InSlot(state') = InSlot(state)
  BY <1>1, <1>2 DEF InSlot
<1>5. SlotsInv'
  BY <1>2, <1>4 DEF IInv, SlotsInv
<1>6. QueueInv'
  BY <1>1, <1>2 DEF IInv, QueueInv
<1>7. BreakerInv'
  BY <1>2, ProviderAssumption DEF BreakerInv, BreakerOK, Breaker
<1> QED
  BY <1>3, <1>5, <1>6, <1>7 DEF IInv

\* Time opens and closes nothing: the next caller that is admitted does.
LEMMA TickPreserves ==
  ASSUME IInv, Tick
  PROVE  IInv'
<1>1. /\ openFor \in {Closed} \cup 0..CooldownMs /\ sleep \in [Callers -> 0..CooldownMs]
      /\ UNCHANGED <<state, active, waiters, failures>>
  BY DEF IInv, TypeOK, Tick
<1>2. /\ openFor' \in {Closed} \cup 0..CooldownMs
      /\ openFor' = Closed <=> openFor = Closed
  BY <1>1, ProviderAssumption DEF Tick
<1>3. sleep' \in [Callers -> 0..CooldownMs]
  <2>1. \A n \in 0..CooldownMs : (IF n > 0 THEN n - 1 ELSE 0) \in 0..CooldownMs
    BY ProviderAssumption
  <2> QED
    BY <1>1, <2>1 DEF Tick
<1>4. TypeOK'
  BY <1>1, <1>2, <1>3 DEF IInv, TypeOK
<1>5. SlotsInv' /\ QueueInv'
  BY <1>1 DEF IInv, SlotsInv, QueueInv, InSlot
<1>6. BreakerInv'
  BY <1>1, <1>2 DEF IInv, BreakerInv, BreakerOK, Breaker, InCall
<1> QED
  BY <1>4, <1>5, <1>6 DEF IInv

-----------------------------------------------------------------------------
\* The inductive invariant holds in every reachable state.
THEOREM ProviderInvariance == Spec => []IInv
<1>1. IInv /\ [Next]_vars => IInv'
  <2> SUFFICES ASSUME IInv, [Next]_vars PROVE IInv'
    OBVIOUS
  <2>1. ASSUME NEW c \in Callers, Enter(c) PROVE IInv'
    BY <2>1, EnterPreserves
  <2>2. ASSUME NEW c \in Callers, Wait(c) PROVE IInv'
    BY <2>2, WaitPreserves
  <2>3. ASSUME NEW c \in Callers, Succeed(c) PROVE IInv'
    BY <2>3, ReleasePreserves DEF Succeed
  <2>4. ASSUME NEW c \in Callers, Fail(c) PROVE IInv'
    BY <2>4, ReleasePreserves DEF Fail
  <2>5. ASSUME NEW c \in Callers, WakeUp(c) PROVE IInv'
    BY <2>5, WakeUpPreserves
  <2>6. CASE Tick
    BY <2>6, TickPreserves
  <2>7. CASE UNCHANGED vars
    BY <2>7 DEF vars, IInv, TypeOK, SlotsInv, QueueInv, BreakerInv, BreakerOK, Breaker,
                InSlot, InCall
  <2> QED
    BY <2>1, <2>2, <2>3, <2>4, <2>5, <2>6, <2>7 DEF Next
<1> QED
  BY <1>1, InitEstablishes, PTL DEF Spec

\* Every variable keeps its type; in particular never more than MaxConcurrency
\* operations are admitted (ConcurrencyLimiter.run, provider-interface.js:34).
THEOREM ProviderTypeCorrect == Spec => []TypeOK
<1>1. IInv => TypeOK
  BY DEF IInv
<1> QED
  BY <1>1, ProviderInvariance, PTL

\* The limiter counts right, keeps each waiter once, and leaves no slot idle while
\* a caller waits (ConcurrencyLimiter.run, provider-interface.js:34).
THEOREM LimiterCountsRight == Spec => []LimiterIsExact
<1>1. IInv => LimiterIsExact
  <2> SUFFICES ASSUME IInv PROVE LimiterIsExact
    OBVIOUS
  <2>1. active = Cardinality(Admitted) /\ (waiters # <<>> => active = MaxConcurrency)
    BY DEF IInv, SlotsInv, InSlot, Admitted
  <2>2. ASSUME NEW c \in Callers
        PROVE  Cardinality({i \in DOMAIN waiters : waiters[i] = c})
                 = IF state[c] = "waiting" THEN 1 ELSE 0
    <3>1. CASE state[c] = "waiting"
      <4>1. PICK i \in DOMAIN waiters : waiters[i] = c
        BY <3>1 DEF IInv, QueueInv
      <4>2. {j \in DOMAIN waiters : waiters[j] = c} = {i}
        BY <4>1 DEF IInv, QueueInv
      <4> QED
        BY <3>1, <4>2, FS_Singleton
    <3>2. CASE state[c] # "waiting"
      <4>1. {j \in DOMAIN waiters : waiters[j] = c} = {}
        BY <3>2 DEF IInv, QueueInv
      <4> QED
        BY <3>2, <4>1, FS_EmptySet
    <3> QED
      BY <3>1, <3>2
  <2> QED
    BY <2>1, <2>2 DEF LimiterIsExact
<1> QED
  BY <1>1, ProviderInvariance, PTL

\* The breaker is open exactly from the threshold on, and only calls that were
\* already under way add to its failures (CircuitBreaker, provider-interface.js:59).
THEOREM BreakerOpensOnFailures == Spec => []OpenMeansRepeatedFailures
<1>1. IInv => OpenMeansRepeatedFailures
  BY DEF IInv, BreakerInv, BreakerOK, Breaker, InCall, Calling, OpenMeansRepeatedFailures
<1> QED
  BY <1>1, ProviderInvariance, PTL
=============================================================================
