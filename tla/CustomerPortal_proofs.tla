----------------------- MODULE CustomerPortal_proofs -----------------------
(***************************************************************************)
(* Proofs about CustomerPortal for any history of the database, any        *)
(* requests and passes of the scheduler, whatever the model answers and    *)
(* any number of failed calls and restarts.                                *)
(*                                                                         *)
(* The argument.  A page changes only its own request: its answer is       *)
(* harmless to the rest (AnswerKeeps), and what it owes to the scope was   *)
(* settled in the world it arrived in (ScopeInv), which is behind the      *)
(* database but never changes.  The insights carry the proof:              *)
(*   Owned      who makes insights does so for a household that it may     *)
(*              see, and nobody answers the request meanwhile;             *)
(*   Collected  the facts in hand come from worlds between the start of    *)
(*              the generation and the question to the model;              *)
(*   Selected   what is left to store are keys of these facts, and with    *)
(*              what is stored already three at most;                      *)
(*   RowInv     each fact has one source, so that a row states what a      *)
(*              single world told (FactsHaveOneSource);                    *)
(*   AnswerInv  rows are never taken away, so that what an answer showed   *)
(*              stays.                                                     *)
(* What a page tells of devices and proposals is settled apart: each of    *)
(* its queries met a world between its arrival and now (PagesInv), and the *)
(* views take the household's rows of that world only.                     *)
(* What an answer puts side by side is compared on the same footing: what  *)
(* an inventory has lost in a later world has left the household           *)
(* (InventoryKept), and as telemetry is not taken back, a device seen then *)
(* was seen then or later (SeenLater); so that what is counted after a     *)
(* page is not less than what the page shows, but for what has left.  Sums *)
(* are unfolded by the equation that a fold over a finite set satisfies    *)
(* (SumFacts).                                                             *)
(*                                                                         *)
(* Ordered picks by rank: the first of a page and the households of a pass *)
(* exist because every rank of a finite order is taken (RankTaken).        *)
(***************************************************************************)
EXTENDS CustomerPortal, FiniteSetTheorems, WellFoundedInduction, TLAPS

-----------------------------------------------------------------------------
(* Orders and extremes of finite sets                                      *)

\* The elements of a set that a relation puts before one of them.
Before(S, R, x) == {y \in S : <<y, x>> \in R}

StrictOrder(S, R) ==
  /\ \A x \in S : <<x, x>> \notin R
  /\ \A x, y, z \in S : <<x, y>> \in R /\ <<y, z>> \in R => <<x, z>> \in R
  /\ \A x, y \in S : x = y \/ <<x, y>> \in R \/ <<y, x>> \in R

\* In a finite set under a strict order without ties every rank is taken: what Ordered
\* chooses by rank exists.
LEMMA RankTaken ==
  ASSUME NEW S, IsFiniteSet(S), NEW R, StrictOrder(S, R),
         NEW k \in 0..(Cardinality(S) - 1)
  PROVE  \E x \in S : Cardinality(Before(S, R, x)) = k
PROOF
<1> DEFINE n == Cardinality(S)
           rank == [x \in S |-> Cardinality(Before(S, R, x))]
<1>1. n \in Nat
  BY FS_CardinalityType
<1>2. \A x \in S : /\ IsFiniteSet(Before(S, R, x)) /\ Cardinality(Before(S, R, x)) \in Nat
                   /\ Cardinality(Before(S, R, x)) <= n - 1
  <2> SUFFICES ASSUME NEW x \in S
               PROVE  /\ IsFiniteSet(Before(S, R, x)) /\ Cardinality(Before(S, R, x)) \in Nat
                      /\ Cardinality(Before(S, R, x)) <= n - 1
    OBVIOUS
  <2>1. IsFiniteSet(S \ {x}) /\ Cardinality(S \ {x}) = n - 1
    BY FS_RemoveElement
  <2>2. Before(S, R, x) \in SUBSET (S \ {x})
    BY DEF Before, StrictOrder
  <2> QED BY <2>1, <2>2, FS_Subset, FS_CardinalityType
<1>3. rank \in [S -> 0..(n - 1)]
  BY <1>1, <1>2
<1>4. \A x, y \in S : <<x, y>> \in R => rank[x] < rank[y]
  <2> SUFFICES ASSUME NEW x \in S, NEW y \in S, <<x, y>> \in R
               PROVE  Cardinality(Before(S, R, x)) < Cardinality(Before(S, R, y))
    OBVIOUS
  <2>1. x \notin Before(S, R, x)
    BY DEF Before, StrictOrder
  <2>2. Before(S, R, x) \cup {x} \in SUBSET Before(S, R, y)
    BY DEF Before, StrictOrder
  <2>3. Cardinality(Before(S, R, x) \cup {x}) = Cardinality(Before(S, R, x)) + 1
    BY <1>2, <2>1, FS_AddElement
  <2>4. Cardinality(Before(S, R, x) \cup {x}) <= Cardinality(Before(S, R, y))
    BY <1>2, <2>2, FS_Subset
  <2> QED BY <1>2, <2>3, <2>4
<1>5. \A x, y \in S : rank[x] = rank[y] => x = y
  <2> SUFFICES ASSUME NEW x \in S, NEW y \in S, rank[x] = rank[y]
               PROVE  x = y
    OBVIOUS
  <2>1. rank[x] \in Int /\ rank[y] \in Int
    BY <1>2
  <2>2. <<x, y>> \notin R /\ <<y, x>> \notin R
    BY <1>4, <2>1
  <2> QED BY <2>2 DEF StrictOrder
<1>6. rank \in Injection(S, 0..(n - 1))
  BY <1>3, <1>5 DEF Injection, IsInjective
<1>7. IsFiniteSet(0..(n - 1)) /\ Cardinality(0..(n - 1)) = n
  BY <1>1, FS_Interval
<1>8. rank \in Surjection(S, 0..(n - 1))
  BY <1>6, <1>7, FS_Injection
<1> QED BY <1>8 DEF Surjection

\* A finite set of integers has a greatest element.
LEMMA LargestExists ==
  ASSUME NEW S \in SUBSET Int, IsFiniteSet(S), S # {}
  PROVE  \E x \in S : \A y \in S : y <= x
PROOF
<1> DEFINE R == {p \in S \X S : p[1] < p[2]}
           n == Cardinality(S)
<1>1. StrictOrder(S, R)
  BY DEF StrictOrder
<1>2. n \in Nat /\ n # 0
  BY FS_CardinalityType, FS_EmptySet
<1>3. PICK x \in S : Cardinality(Before(S, R, x)) = n - 1
  <2> HIDE DEF R
  <2>1. n - 1 \in 0..(Cardinality(S) - 1)
    BY <1>2
  <2> QED BY <1>1, <2>1, RankTaken
<1>4. Before(S, R, x) \in SUBSET (S \ {x})
  BY DEF Before
<1>5. IsFiniteSet(S \ {x}) /\ Cardinality(S \ {x}) = n - 1
  BY FS_RemoveElement
<1>6. Before(S, R, x) = S \ {x}
  BY <1>3, <1>4, <1>5, FS_Subset
<1>7. \A y \in S : y <= x
  <2> SUFFICES ASSUME NEW y \in S, y # x
               PROVE  y <= x
    OBVIOUS
  <2>1. y \in Before(S, R, x)
    BY <1>6
  <2> QED BY <2>1 DEF Before
<1> QED BY <1>7

\* Max of one is its greatest element.
LEMMA MaxIsMember ==
  ASSUME NEW S \in SUBSET Int, IsFiniteSet(S), S # {}
  PROVE  Max(S) \in S
PROOF
<1>1. PICK x \in S : \A z \in S : z <= x
  BY LargestExists
<1>2. \A z \in S : x >= z
  BY <1>1
<1> QED BY <1>2 DEF Max

\* ... and none of them is greater.
LEMMA MaxIsUpper ==
  ASSUME NEW S \in SUBSET Int, IsFiniteSet(S), NEW y \in S
  PROVE  y <= Max(S)
PROOF
<1>1. \E x \in S : \A z \in S : z <= x
  BY LargestExists
<1>2. \E x \in S : \A z \in S : x >= z
  BY <1>1
<1> QED BY <1>2 DEF Max

\* Min of two integers.
LEMMA MinOfTwo ==
  ASSUME NEW a \in Int, NEW b \in Int
  PROVE  Min({a, b}) \in {a, b} /\ Min({a, b}) <= a /\ Min({a, b}) <= b
PROOF
<1>1. \E x \in {a, b} : \A y \in {a, b} : x <= y
  OBVIOUS
<1> QED BY <1>1 DEF Min

\* Max of two integers.
LEMMA MaxOfTwo ==
  ASSUME NEW a \in Int, NEW b \in Int
  PROVE  Max({a, b}) \in {a, b} /\ Max({a, b}) >= a /\ Max({a, b}) >= b
PROOF
<1>1. \E x \in {a, b} : \A y \in {a, b} : x >= y
  OBVIOUS
<1> QED BY <1>1 DEF Max

-----------------------------------------------------------------------------
(* Constants                                                               *)

\* The worlds follow each other in time.
LEMMA HistoryFacts ==
  /\ Len(History) \in Nat \ {0} /\ DOMAIN History = 1..Len(History)
  /\ \A i \in DOMAIN History : History[i].now \in Nat
  /\ \A i, j \in DOMAIN History : i <= j => History[i].now <= History[j].now
PROOF
<1>1. Len(History) \in Nat \ {0} /\ DOMAIN History = 1..Len(History)
  BY HistoryAssumption
<1>2. \A i \in DOMAIN History : History[i] \in Range(History)
  BY DEF Range
<1>3. \A i \in DOMAIN History : History[i].now \in Nat
  BY <1>2, HistoryAssumption
<1> QED BY <1>1, <1>3, HistoryAssumption

\* What the tables of a world are made of.
LEMMA TableFacts ==
  ASSUME NEW m \in DOMAIN History
  PROVE  LET world == History[m] IN
         /\ IsFiniteSet(world.telemetry) /\ IsFiniteSet(world.registry)
         /\ IsFiniteSet(world.proposals) /\ IsFiniteSet(world.semantic)
         /\ IsFiniteSet(world.slm) /\ IsFiniteSet(world.audit)
         /\ \A r \in world.telemetry :
              /\ r.household \in Nat /\ r.device \in Nat /\ r.at \in Nat
              /\ r.processed \in Nat /\ r.value \in Int
         /\ \A d \in world.registry : d.device \in Nat /\ d.max_flexible \in Nat
         /\ \A p \in world.proposals : p.created \in Nat
         /\ \A a, b \in world.slm : /\ a.processed \in Nat /\ (a.reading = b.reading => a = b)
                                   /\ a.unmapped = (a.status # "mapped")
         /\ world.services \in [Range(SERVICES) -> {"ok", "error", "silent"}]
         /\ world.kafka.up \in BOOLEAN
PROOF
<1> DEFINE world == History[m]
<1>1. world \in Range(History)
  BY DEF Range
<1> HIDE DEF world
<1>2. /\ IsFiniteSet(world.telemetry) /\ IsFiniteSet(world.registry)
      /\ IsFiniteSet(world.proposals) /\ IsFiniteSet(world.semantic)
      /\ IsFiniteSet(world.slm) /\ IsFiniteSet(world.audit)
  BY <1>1, HistoryAssumption
<1>3. \A r \in world.telemetry : /\ r.household \in Nat /\ r.device \in Nat /\ r.at \in Nat
                                 /\ r.processed \in Nat /\ r.value \in Int
  BY <1>1, HistoryAssumption
<1>4. \A d \in world.registry : d.device \in Nat /\ d.max_flexible \in Nat
  BY <1>1, HistoryAssumption
<1>5. \A p \in world.proposals : p.created \in Nat
  BY <1>1, HistoryAssumption
<1>6. \A a, b \in world.slm : /\ a.processed \in Nat /\ (a.reading = b.reading => a = b)
                              /\ a.unmapped = (a.status # "mapped")
  BY <1>1, HistoryAssumption
<1>7. /\ world.services \in [Range(SERVICES) -> {"ok", "error", "silent"}]
      /\ world.kafka.up \in BOOLEAN
  BY <1>1, HistoryAssumption
<1> QED BY <1>2, <1>3, <1>4, <1>5, <1>6, <1>7 DEF world

\* Whoever is known in a world is a household, and these are numbers.
LEMMA KnownAreHouseholds ==
  /\ Households \subseteq Nat
  /\ \A i \in DOMAIN History : \A community :
       /\ KnownHouseholds(History[i], community) \subseteq Households
       /\ IsFiniteSet(KnownHouseholds(History[i], community))
PROOF
<1>1. \A i \in DOMAIN History : History[i] \in Range(History)
  BY DEF Range
<1>3. Households \subseteq Nat
  <2>1. ASSUME NEW world \in Range(History), NEW r \in world.telemetry \cup world.registry
        PROVE  r.household \in Nat
    BY <2>1, HistoryAssumption
  <2>2. \A c \in DOMAIN Requests : Context(c).household \subseteq Nat
    BY RequestAssumption DEF Context
  <2> DEFINE known(world) == {r.household : r \in world.telemetry \cup world.registry}
             rows == UNION {known(world) : world \in Range(History)}
             senders == UNION {Context(c).household : c \in DOMAIN Requests}
  <2>3. \A world \in Range(History) : known(world) \subseteq Nat
    BY <2>1
  <2>4. Households = rows \cup senders
    BY DEF Households
  <2> HIDE DEF known
  <2>5. rows \subseteq Nat
    BY <2>3
  <2>6. senders \subseteq Nat
    BY <2>2
  <2> HIDE DEF rows, senders
  <2> QED BY <2>4, <2>5, <2>6
<1>4. ASSUME NEW i \in DOMAIN History, NEW community
      PROVE  KnownHouseholds(History[i], community) \subseteq Households
  <2>1. History[i] \in Range(History)
    BY <1>1
  <2>2. {r.household : r \in History[i].telemetry \cup History[i].registry} \subseteq Households
    BY <2>1 DEF Households
  <2> QED BY <2>2 DEF KnownHouseholds, KnownRows
<1>5. ASSUME NEW i \in DOMAIN History, NEW community
      PROVE  IsFiniteSet(KnownHouseholds(History[i], community))
  <2>1. IsFiniteSet(History[i].telemetry \cup History[i].registry)
    BY <1>1, HistoryAssumption, FS_Union
  <2>2. KnownRows(History[i], community)
          \in SUBSET (History[i].telemetry \cup History[i].registry)
    BY DEF KnownRows
  <2>3. IsFiniteSet(KnownRows(History[i], community))
    BY <2>1, <2>2, FS_Subset
  <2> DEFINE K == KnownRows(History[i], community)
             H == KnownHouseholds(History[i], community)
             f == [r \in K |-> r.household]
  <2>4. f \in Surjection(K, H)
    BY DEF Surjection, KnownHouseholds
  <2> HIDE DEF f, K, H
  <2>5. IsFiniteSet(K)
    BY <2>3 DEF K
  <2>6. IsFiniteSet(H)
    BY <2>4, <2>5, FS_Surjection
  <2> QED BY <2>6 DEF H
<1> QED BY <1>3, <1>4, <1>5

\* The first of those whose telemetry is the newest is one of them.
LEMMA FirstIsKnown ==
  ASSUME NEW i \in DOMAIN History, NEW community,
         ByLastSeen(History[i], community) # <<>>
  PROVE  ByLastSeen(History[i], community)[1] \in KnownHouseholds(History[i], community)
PROOF
<1> DEFINE K == KnownHouseholds(History[i], community)
           T(h) == {r.at : r \in {t \in History[i].telemetry :
                                    t.community \in community /\ t.household = h}}
           seen(h) == Coalesce(Largest(T(h)), -1)
           R == {p \in K \X K : seen(p[1]) > seen(p[2])
                                   \/ (seen(p[1]) = seen(p[2]) /\ p[1] < p[2])}
<1>1. IsFiniteSet(K) /\ K \subseteq Nat
  BY KnownAreHouseholds
<1>2. ASSUME NEW h \in K PROVE seen(h) \in Int
  <2>1. History[i] \in Range(History)
    BY DEF Range
  <2> DEFINE Mine == {t \in History[i].telemetry : t.community \in community /\ t.household = h}
             f == [t \in Mine |-> t.at]
  <2>2. IsFiniteSet(Mine)
    BY <2>1, HistoryAssumption, FS_Subset
  <2>3. T(h) \subseteq Nat
    BY <2>1, HistoryAssumption
  <2>4. f \in Surjection(Mine, T(h))
    BY DEF Surjection
  <2>5. IsFiniteSet(T(h))
    <3> HIDE DEF f, Mine, T
    <3> QED BY <2>2, <2>4, FS_Surjection
  <2> HIDE DEF T
  <2>6. CASE T(h) = {}
    BY <2>6 DEF Largest, Coalesce
  <2>7. CASE T(h) # {}
    <3>1. Max(T(h)) \in Nat
      BY <2>3, <2>5, <2>7, MaxIsMember
    <3>2. seen(h) = Max(T(h))
      BY <2>7 DEF Largest, Coalesce
    <3> QED BY <3>1, <3>2
  <2> QED BY <2>6, <2>7
<1> HIDE DEF T
<1>3. StrictOrder(K, R)
  <2> HIDE DEF seen, K
  <2>1. \A x \in K : <<x, x>> \notin R
    BY <1>1, <1>2
  <2>2. \A x, y, z \in K : <<x, y>> \in R /\ <<y, z>> \in R => <<x, z>> \in R
    BY <1>1, <1>2
  <2>3. \A x, y \in K : x = y \/ <<x, y>> \in R \/ <<y, x>> \in R
    BY <1>1, <1>2
  <2> QED BY <2>1, <2>2, <2>3 DEF StrictOrder
<1> DEFINE above(x) == {y \in K : seen(y) > seen(x) \/ (seen(y) = seen(x) /\ y < x)}
<1>4. ByLastSeen(History[i], community)
        = [j \in 1..Cardinality(K) |-> CHOOSE x \in K : Cardinality(above(x)) = j - 1]
  BY DEF ByLastSeen, Ordered, T
<1>5. \A x \in K : Before(K, R, x) = above(x)
  BY DEF Before
<1> HIDE DEF K, R, above
<1>6. Cardinality(K) \in Nat /\ Cardinality(K) # 0
  <2>1. Cardinality(K) \in Nat
    BY <1>1, FS_CardinalityType
  <2> QED BY <1>4, <2>1
<1>7. \E x \in K : Cardinality(above(x)) = 0
  <2>1. 0 \in 0..(Cardinality(K) - 1)
    BY <1>6
  <2>2. \E x \in K : Cardinality(Before(K, R, x)) = 0
    BY <1>1, <1>3, <2>1, RankTaken
  <2> QED BY <1>5, <2>2
<1>8. ByLastSeen(History[i], community)[1]
        = CHOOSE x \in K : Cardinality(above(x)) = 1 - 1
  BY <1>4, <1>6
<1>9. ByLastSeen(History[i], community)[1] \in K
  BY <1>7, <1>8
<1> QED BY <1>9 DEF K

\* Whom a request is granted: its sender's household, or one that its community knows and
\* that it has named as it may.
Scoped(i, context, requested, h) ==
  IF context.role = "household_user" THEN {h} = context.household
  ELSE /\ h \in KnownHouseholds(History[i], context.community)
       /\ \A r \in requested : r.id = h /\ (r.pseudonym \/ context.role = "technical_admin")

\* resolveHouseholdScope grants one household within the scope, or refuses.
LEMMA ScopeIsResolved ==
  ASSUME NEW c \in DOMAIN Requests, NEW i \in DOMAIN History,
         ContextErrors(Context(c)) = {},
         NEW scope \in resolveHouseholdScope(History[i], Context(c), Requests[c].requested)
  PROVE  \/ \E h \in Households : /\ scope = Granted(h)
                                  /\ Scoped(i, Context(c), Requests[c].requested, h)
         \/ \E e \in {AccessDenied, CustomerAccessError("customer_household_data_not_found", 404)} :
              scope = Refused(e)
PROOF
<1> DEFINE context == Context(c)
           requested == Requests[c].requested
           denied == Refused(AccessDenied)
           checked(h) == IF h \in KnownHouseholds(History[i], context.community)
                         THEN Granted(h) ELSE denied
           named(r, candidates) ==
             IF r.pseudonym
             THEN IF r.id \in candidates THEN checked(r.id) ELSE denied
             ELSE IF context.role # "technical_admin" THEN denied ELSE checked(r.id)
           known == ByLastSeen(History[i], context.community)
<1>1. CASE context.role = "household_user"
  <2>1. context.household # {}
    BY <1>1 DEF ContextErrors
  <2>2. PICK h \in context.household : TRUE
    BY <2>1
  <2>6. context.household = {h}
    BY <2>2, RequestAssumption DEF Context
  <2>3. context.household = {h} /\ h \in Households
    <3> DEFINE rows == UNION {{r.household : r \in world.telemetry \cup world.registry} :
                                world \in Range(History)}
               senders == UNION {Context(d).household : d \in DOMAIN Requests}
    <3>1. h \in senders
      BY <2>2
    <3>2. Households = rows \cup senders
      BY DEF Households
    <3> HIDE DEF rows, senders
    <3> QED BY <2>6, <3>1, <3>2
  <2>4. Coalesce(context.household, 0) = h
    BY <2>3 DEF Coalesce
  <2>5. scope = Granted(h) \/ scope = denied
    BY <1>1, <2>4 DEF resolveHouseholdScope
  <2> QED BY <1>1, <2>3, <2>5 DEF Scoped
<1>2. CASE context.role # "household_user" /\ requested # {}
  <2>1. PICK r \in requested : \E candidates : scope = named(r, candidates)
    BY <1>2 DEF resolveHouseholdScope, householdExistsInCommunity
  <2>2. \/ scope = denied
        \/ /\ scope = Granted(r.id) /\ r.id \in KnownHouseholds(History[i], context.community)
           /\ r.pseudonym \/ context.role = "technical_admin"
    BY <2>1
  <2>3. \A q \in requested : q = r
    BY RequestAssumption
  <2> QED BY <1>2, <2>2, <2>3, KnownAreHouseholds, ZenonT(60) DEF Scoped
<1>3. CASE context.role # "household_user" /\ requested = {}
  <2>1. CASE known = <<>>
    BY <1>3, <2>1 DEF resolveHouseholdScope
  <2>2. CASE known # <<>>
    <3>1. scope = Granted(known[1])
      BY <1>3, <2>2 DEF resolveHouseholdScope
    <3>2. known[1] \in KnownHouseholds(History[i], context.community)
      BY <2>2, FirstIsKnown
    <3> QED BY <1>3, <3>1, <3>2, KnownAreHouseholds DEF Scoped
  <2> QED BY <2>1, <2>2
<1> QED BY <1>1, <1>2, <1>3

-----------------------------------------------------------------------------
(* Facts and their selection                                               *)

\* The reader that is the source of a fact.
SourceOf(key) ==
  IF key = "flexible_load" THEN 2
  ELSE IF key = "latest_event" THEN 3
  ELSE IF key = "community_percentile" THEN 4
  ELSE 1

\* A fact depends on what its source has met only: it is the one a collection in that
\* world alone would have found.
LEMMA FactsHaveOneSource ==
  ASSUME NEW h, NEW community, NEW started, NEW m, NEW key,
         key \in DOMAIN FactsOf(h, community, started, m)
  PROVE  LET n == m[SourceOf(key)]
             facts == FactsIn(h, community, started, n)
         IN  /\ key \in INSIGHT_KEYS /\ SourceOf(key) \in 1..4
             /\ key \in DOMAIN facts
             /\ facts[key] = FactsOf(h, community, started, m)[key]
PROOF
<1> DEFINE src(n) == Sources[<<h, community, started, n>>]
           built(a, b, d, e) ==
             buildInsightFacts(src(a).points, src(b).flexible, src(d).event, src(e).percentile)
           same == m[SourceOf(key)]
<1>1. FactsOf(h, community, started, m) = built(m[1], m[2], m[3], m[4])
  BY DEF FactsOf
<1>2. FactsIn(h, community, started, same) = built(same, same, same, same)
  BY DEF FactsIn, FactsOf
<1>3. key \in DOMAIN built(m[1], m[2], m[3], m[4])
  BY <1>1
<1> HIDE DEF src
<1>4. key \in INSIGHT_KEYS
  BY <1>3 DEF buildInsightFacts, INSIGHT_KEYS
<1>5. key \in DOMAIN built(same, same, same, same)
      /\ built(same, same, same, same)[key] = built(m[1], m[2], m[3], m[4])[key]
  <2>1. CASE key = "peak_period"
    <3>1. same = m[1]
      BY <2>1 DEF SourceOf
    <3> QED BY <1>3, <2>1, <3>1 DEF buildInsightFacts
  <2>5. CASE key = "peak_device_type"
    <3>1. same = m[1]
      BY <2>5 DEF SourceOf
    <3> QED BY <1>3, <2>5, <3>1 DEF buildInsightFacts
  <2>2. CASE key = "flexible_load"
    <3>1. same = m[2]
      BY <2>2 DEF SourceOf
    <3> QED BY <1>3, <2>2, <3>1 DEF buildInsightFacts
  <2>3. CASE key = "latest_event"
    <3>1. same = m[3]
      BY <2>3 DEF SourceOf
    <3> QED BY <1>3, <2>3, <3>1 DEF buildInsightFacts
  <2>4. CASE key = "community_percentile"
    <3>1. same = m[4]
      BY <2>4 DEF SourceOf
    <3> QED BY <1>3, <2>4, <3>1 DEF buildInsightFacts
  <2> QED BY <1>4, <2>1, <2>2, <2>3, <2>4, <2>5 DEF INSIGHT_KEYS
<1>6. SourceOf(key) \in 1..4
  BY <1>4 DEF SourceOf, INSIGHT_KEYS
<1> QED BY <1>1, <1>2, <1>4, <1>5, <1>6

\* Of the model's answer at most three keys are taken, all among those it was asked about.
LEMMA SelectionIsAllowed ==
  ASSUME NEW text \in ModelAnswers, NEW allowed,
         NEW keys \in parseInsightSelection(text, allowed)
  PROVE  keys \in Seq(allowed) /\ Len(keys) <= 3
PROOF
<1> DEFINE n == Min({3, Len(text.items)})
           items == SubSeq(text.items, 1, n)
<1>1. text.items \in Seq(Range(text.items)) /\ Len(text.items) \in Nat
  BY PortalAssumption
<1>2. n \in 0..3 /\ n <= Len(text.items)
  <2>1. n \in {3, Len(text.items)} /\ n <= 3 /\ n <= Len(text.items)
    BY <1>1, MinOfTwo
  <2> HIDE DEF n
  <2> QED BY <1>1, <2>1
<1>3. items \in Seq(Range(text.items)) /\ Len(items) = n /\ DOMAIN items = 1..n
  <2> HIDE DEF n
  <2> QED BY <1>1, <1>2
<1>4. /\ keys = [i \in DOMAIN items |-> items[i].key]
      /\ \A i \in DOMAIN items : items[i].key \in allowed
  BY DEF parseInsightSelection
<1>5. keys = [i \in 1..n |-> items[i].key] /\ \A i \in 1..n : items[i].key \in allowed
  BY <1>3, <1>4
<1> HIDE DEF n, items
<1> QED BY <1>2, <1>5

-----------------------------------------------------------------------------
(* The inductive invariant                                                 *)

TypeInv ==
  /\ at \in DOMAIN History
  /\ stage \in [DOMAIN Requests -> {"unsent", "open", "answered", "lost"}]
  /\ from \in [DOMAIN Requests -> 0..at]
  /\ granted \in [DOMAIN Requests -> SUBSET Households]
  /\ result = [c \in DOMAIN Requests |-> result[c]]
  /\ generation = [g \in Makers |-> generation[g]]
  /\ queue \in [Passes -> Seq(Households \X Communities)]
  /\ IsFiniteSet(insights)
  /\ failedUntil \in [Households -> 0..(Now + 5)]
  /\ load \in [requests : SUBSET DOMAIN Requests, passes : SUBSET Passes, disturbances : Nat]
  /\ disturbances \in 0..load.disturbances

\* A generation has the fields of a record.
Shape(new) ==
  /\ DOMAIN new = {"stage", "household", "community", "from", "to", "facts", "left", "made",
                   "generated"}
  /\ new.stage \in {"idle", "collecting", "asking", "storing"}
  /\ new.stage = "idle" => new = Idle
  /\ new.stage # "storing" => new.left = <<>> /\ new.made = {}

\* It belongs to an open request for a household that it may see, or to a pass under way.
Owned(g) ==
  LET new == generation[g] IN
  new # Idle =>
    /\ new.household \in Households /\ new.community \in Communities
    /\ new.from \in DOMAIN History /\ new.from <= at
    /\ g \in Passes => g \notin load.passes
    /\ g \notin Passes => stage[g] = "open" /\ granted[g] = {new.household}

\* What has been collected is what the readers have met in worlds between its start and
\* the question to the model.
Collected(new) ==
  new.stage \in {"asking", "storing"} =>
    /\ new.to \in DOMAIN History /\ new.from <= new.to /\ new.to <= at
    /\ \E m \in [1..4 -> new.from..new.to] :
         new.facts = FactsOf(new.household, new.community, new.from, m)

\* What is stored was selected of it, three rows at most, and by then the question had
\* been asked.
Selected(new) ==
  new.stage = "storing" =>
    /\ new.left \in Seq(DOMAIN new.facts) /\ new.left # <<>>
    /\ new.generated \in Nat /\ History[new.to].now <= new.generated
    /\ new.made \subseteq insights /\ IsFiniteSet(new.made)
    /\ Cardinality(new.made) + Len(new.left) <= 3
    /\ \A r \in new.made : r.household = new.household

GenerationInv ==
  \A g \in Makers : /\ Shape(generation[g]) /\ Owned(g)
                    /\ Collected(generation[g]) /\ Selected(generation[g])

\* What the worlds a row's generation went through tell of its household.
Grounded(r) ==
  \E m \in r.from..r.to :
    LET facts == FactsIn(r.household, r.community, r.from, m) IN
    r.key \in DOMAIN facts /\ facts[r.key] = r.fact

RowInv ==
  \A r \in insights :
    /\ r.household \in Households /\ r.community \in Communities /\ r.key \in INSIGHT_KEYS
    /\ r.to \in DOMAIN History /\ r.from \in Nat /\ r.from <= r.to /\ r.to <= at
    /\ r.generated \in Nat /\ History[r.to].now <= r.generated
    /\ Grounded(r)

\* A pass has households to refresh only once it has started.
QueueInv == \A p \in Passes : queue[p] # <<>> => p \notin load.passes

AuditInv ==
  \A a \in audit : /\ a.at \in Int /\ a.at <= at
                   /\ a.correlation \in DOMAIN Requests /\ stage[a.correlation] = "answered"

Successful(c) == stage[c] = "answered" /\ result[c].status \in {200, 202}

\* What has been answered to a request about insights.
Shown(c) ==
  LET shown == result[c].shown IN
  /\ shown \subseteq insights /\ Cardinality(shown) <= 6
  /\ (shown = {}) = (result[c].code \notin {"cached", "generated"})
  /\ \A r \in shown :
       /\ granted[c] = {r.household}
       /\ result[c].code = "cached" => History[result[c].clock].now < r.expires

AnswerInv ==
  \A c \in DOMAIN Requests :
    /\ (stage[c] = "answered") = (result[c].status # 0)
    /\ Successful(c) /\ Route(c) \in InsightRoutes => Shown(c)

\* One household, within the request's scope in the world it arrived in.
Entitled(c) ==
  /\ from[c] \in DOMAIN History
  /\ \E h \in Households : /\ granted[c] = {h}
                           /\ Scoped(from[c], Context(c), Requests[c].requested, h)

ScopeInv ==
  \A c \in DOMAIN Requests :
    /\ Cardinality(granted[c]) <= 1
    /\ Route(c) \in CustomerRoutes /\ (stage[c] = "open" \/ Successful(c)) => Entitled(c)

IInv ==
  TypeInv /\ GenerationInv /\ RowInv /\ QueueInv /\ AuditInv /\ AnswerInv /\ ScopeInv

-----------------------------------------------------------------------------
(* Answers                                                                 *)

\* What Respond changes.
Answers(c, answer) ==
  /\ stage' = [stage EXCEPT ![c] = "answered"]
  /\ result' = [result EXCEPT ![c] = answer]
  /\ \A a \in audit' : a \in audit \/ (a.at = at /\ a.correlation = c)
  /\ IsFiniteSet(audit) => IsFiniteSet(audit')
  /\ disturbances' \in 0..load.disturbances

\* Disturbances stay within the load.
LEMMA DisturbanceType ==
  ASSUME TypeInv, NEW times \in Nat, Disturb(times)
  PROVE  disturbances' \in 0..load.disturbances
BY DEF TypeInv, Disturb

\* Respond answers one request, and its row tells of it.
LEMMA RespondAnswers ==
  ASSUME TypeInv, NEW c, NEW answer, NEW reason, NEW failed \in Nat,
         Respond(c, answer, reason, failed)
  PROVE  Answers(c, answer)
PROOF
<1>1. /\ stage' = [stage EXCEPT ![c] = "answered"]
      /\ result' = [result EXCEPT ![c] = answer]
  BY DEF Respond
<1>2. disturbances' \in 0..load.disturbances
  BY DisturbanceType DEF Respond
<1>3. \A a \in audit' : a \in audit \/ (a.at = at /\ a.correlation = c)
  BY DEF Respond
<1>4. audit' = audit \/ \E row : audit' = audit \cup {row}
  BY DEF Respond
<1>5. IsFiniteSet(audit) => IsFiniteSet(audit')
  BY <1>4, FS_AddElement
<1> QED BY <1>1, <1>2, <1>3, <1>5 DEF Answers

\* So does a refusal, with the status of its error.
LEMMA RefusalAnswers ==
  ASSUME TypeInv, NEW c, NEW error, NEW failed \in Nat, Refuse(c, error, failed)
  PROVE  \E answer : Answers(c, answer) /\ answer.status = error.status
PROOF
<1> DEFINE answer == [NoResult EXCEPT !.status = error.status, !.code = error.code]
<1>1. Respond(c, answer, error.code, failed)
  BY DEF Refuse
<1>2. Answers(c, answer)
  BY <1>1, RespondAnswers
<1>3. answer.status = error.status
  BY DEF NoResult
<1> QED BY <1>2, <1>3

-----------------------------------------------------------------------------
(* Parts of the invariant that a step leaves alone                          *)

\* A generation that a step does not touch goes on, whatever else the step does.
LEMMA GenerationKept ==
  ASSUME TypeInv, GenerationInv, at' \in DOMAIN History, NEW g \in Makers,
         generation'[g] = generation[g], at <= at', insights \subseteq insights',
         load'.passes \subseteq load.passes,
         g \notin Passes /\ generation[g] # Idle =>
           stage'[g] = stage[g] /\ granted'[g] = granted[g]
  PROVE  Shape(generation[g])' /\ Owned(g)' /\ Collected(generation[g])'
           /\ Selected(generation[g])'
PROOF
<1>0. at \in Int /\ at' \in Int /\ DOMAIN History \subseteq Int
  BY HistoryFacts DEF TypeInv
<1>1. Shape(generation[g]) /\ Owned(g) /\ Collected(generation[g]) /\ Selected(generation[g])
  BY DEF GenerationInv
<1>2. Shape(generation[g])'
  BY <1>1 DEF Shape
<1>3. Owned(g)'
  BY <1>0, <1>1 DEF Owned
<1>4. Collected(generation[g])'
  <2> SUFFICES ASSUME generation[g].stage \in {"asking", "storing"}
               PROVE  generation[g].to <= at'
    BY <1>1 DEF Collected
  <2> QED BY <1>0, <1>1 DEF Collected
<1>5. Selected(generation[g])'
  BY <1>1 DEF Selected
<1> QED BY <1>2, <1>3, <1>4, <1>5

\* Rows stay what they are.
LEMMA RowsKept ==
  ASSUME TypeInv, RowInv, insights' = insights, at' \in DOMAIN History, at <= at'
  PROVE  RowInv'
PROOF
<1>0. at \in Int /\ at' \in Int /\ DOMAIN History \subseteq Int
  BY HistoryFacts DEF TypeInv
<1> QED BY <1>0 DEF RowInv, Grounded

\* A request that gets no answer in a step keeps the one it has.
LEMMA AnswerKept ==
  ASSUME AnswerInv, NEW c \in DOMAIN Requests, result'[c] = result[c],
         (stage'[c] = "answered") = (stage[c] = "answered"),
         stage[c] = "answered" => granted'[c] = granted[c], insights \subseteq insights'
  PROVE  /\ (stage'[c] = "answered") = (result'[c].status # 0)
         /\ Successful(c)' /\ Route(c) \in InsightRoutes => Shown(c)'
PROOF
<1>1. Successful(c)' => Successful(c)
  BY DEF Successful
<1>2. ASSUME Successful(c), Shown(c)
      PROVE  Shown(c)'
  BY <1>2 DEF Successful, Shown
<1> QED BY <1>1, <1>2 DEF AnswerInv

\* What an open request was granted is as much in scope once it is answered.
LEMMA ScopeKept ==
  ASSUME ScopeInv, NEW c \in DOMAIN Requests, from'[c] = from[c], granted'[c] = granted[c],
         \/ stage[c] = "open"
         \/ stage'[c] = stage[c] /\ result'[c] = result[c]
         \/ ~(stage'[c] = "open" \/ Successful(c)')
  PROVE  /\ Cardinality(granted'[c]) <= 1
         /\ Route(c) \in CustomerRoutes /\ (stage'[c] = "open" \/ Successful(c)') => Entitled(c)'
PROOF
<1>1. Entitled(c) => Entitled(c)'
  BY DEF Entitled
<1> QED BY <1>1 DEF ScopeInv, Successful

\* The audit of the gateway goes on with the answers.
LEMMA AuditKept ==
  ASSUME TypeInv, AuditInv, at' \in DOMAIN History, at <= at', NEW c \in DOMAIN Requests,
         \A a \in audit' : \/ a \in audit
                           \/ a.at = at /\ a.correlation = c /\ stage'[c] = "answered",
         \A d \in DOMAIN Requests : stage[d] = "answered" => stage'[d] = "answered"
  PROVE  AuditInv'
PROOF
<1>0. at \in Int /\ at' \in Int
  BY HistoryFacts DEF TypeInv
<1> SUFFICES ASSUME NEW a \in audit'
             PROVE  /\ a.at \in Int /\ a.at <= at'
                    /\ a.correlation \in DOMAIN Requests /\ stage'[a.correlation] = "answered"
  BY DEF AuditInv
<1>1. CASE a \in audit
  BY <1>0, <1>1 DEF AuditInv
<1>2. CASE a.at = at /\ a.correlation = c /\ stage'[c] = "answered"
  BY <1>0, <1>2
<1> QED BY <1>1, <1>2

-----------------------------------------------------------------------------
(* The steps                                                               *)

\* A request is answered, with success only if it is not about insights.
LEMMA AnswerKeeps ==
  ASSUME IInv, NEW c \in DOMAIN Requests, NEW answer, stage[c] = "open", Answers(c, answer),
         answer.status # 0,
         Route(c) \in InsightRoutes => answer.status \notin {200, 202} /\ generation[c] = Idle,
         UNCHANGED <<at, from, granted, generation, queue, insights, failedUntil, load>>
  PROVE  IInv'
PROOF
<1> USE DEF Answers
<1>0. TypeInv /\ at \in DOMAIN History /\ at \in Int
  BY HistoryFacts DEF IInv, TypeInv
<1>1. TypeInv'
  <2>1. /\ stage' \in [DOMAIN Requests -> {"unsent", "open", "answered", "lost"}]
        /\ result' = [d \in DOMAIN Requests |-> result'[d]]
    <3>1. /\ stage' = [stage EXCEPT ![c] = "answered"]
          /\ result' = [result EXCEPT ![c] = answer]
      OBVIOUS
    <3>2. /\ stage \in [DOMAIN Requests -> {"unsent", "open", "answered", "lost"}]
          /\ result = [d \in DOMAIN Requests |-> result[d]]
      BY <1>0 DEF TypeInv
    <3> HIDE DEF Answers
    <3> QED BY <3>1, <3>2
  <2>2. disturbances' \in 0..load'.disturbances
    BY <1>0 DEF TypeInv
  <2>3. failedUntil' \in [Households -> 0..(Now + 5)'] /\ from' \in [DOMAIN Requests -> 0..at']
    BY <1>0 DEF TypeInv, Now
  <2> QED BY <1>0, <2>1, <2>2, <2>3 DEF TypeInv
<1>2. \A d \in DOMAIN Requests :
        /\ stage'[d] = IF d = c THEN "answered" ELSE stage[d]
        /\ result'[d] = IF d = c THEN answer ELSE result[d]
  BY <1>0 DEF TypeInv
<1>3. GenerationInv'
  <2> SUFFICES ASSUME NEW g \in Makers
               PROVE  Shape(generation[g])' /\ Owned(g)' /\ Collected(generation[g])'
                        /\ Selected(generation[g])'
    BY DEF GenerationInv
  <2>1. g \notin Passes /\ generation[g] # Idle => g # c /\ g \in DOMAIN Requests
    BY DEF Makers
  <2> QED BY <1>0, <1>2, <2>1, GenerationKept DEF IInv
<1>4. RowInv'
  BY <1>0, RowsKept DEF IInv
<1>5. QueueInv'
  BY DEF IInv, QueueInv
<1>6. AuditInv'
  BY <1>0, <1>2, AuditKept DEF IInv
<1>7. AnswerInv'
  <2> SUFFICES ASSUME NEW d \in DOMAIN Requests
               PROVE  /\ (stage'[d] = "answered") = (result'[d].status # 0)
                      /\ Successful(d)' /\ Route(d) \in InsightRoutes => Shown(d)'
    BY DEF AnswerInv
  <2>1. CASE d = c
    BY <1>2, <2>1 DEF Successful
  <2>2. CASE d # c
    BY <1>2, <2>2, AnswerKept DEF IInv
  <2> QED BY <2>1, <2>2
<1>8. ScopeInv'
  <2> SUFFICES ASSUME NEW d \in DOMAIN Requests
               PROVE  /\ Cardinality(granted'[d]) <= 1
                      /\ Route(d) \in CustomerRoutes /\ (stage'[d] = "open" \/ Successful(d)')
                           => Entitled(d)'
    BY DEF ScopeInv
  <2> QED BY <1>2, ScopeKept DEF IInv
<1> QED BY <1>1, <1>3, <1>4, <1>5, <1>6, <1>7, <1>8 DEF IInv

\* A page is read, or refused because a query has failed.
LEMMA ReadKeeps ==
  ASSUME IInv, NEW c \in DOMAIN Requests, NEW route, NEW n, NEW reason,
         route \notin InsightRoutes, Read(c, route, n, reason)
  PROVE  IInv'
PROOF
<1>0. TypeInv
  BY DEF IInv
<1>1. /\ stage[c] = "open" /\ Route(c) \notin InsightRoutes
      /\ UNCHANGED <<at, from, granted, generation, queue, insights, failedUntil, load>>
  BY DEF Read, generationVars
<1>2. \E answer : Answers(c, answer) /\ answer.status # 0
  <2>1. CASE \E m \in Moments(c, n) :
               Respond(c, [NoResult EXCEPT !.status = 200, !.code = "ok", !.moments = m,
                                           !.clock = at], reason, 0)
    <3>1. PICK m : Respond(c, [NoResult EXCEPT !.status = 200, !.code = "ok", !.moments = m,
                                               !.clock = at], reason, 0)
      BY <2>1
    <3> DEFINE answer == [NoResult EXCEPT !.status = 200, !.code = "ok", !.moments = m,
                                          !.clock = at]
    <3>2. Answers(c, answer)
      BY <1>0, <3>1, RespondAnswers
    <3>3. answer.status = 200
      BY DEF NoResult
    <3> HIDE DEF answer
    <3> QED BY <3>2, <3>3
  <2>2. CASE Refuse(c, Unavailable, 1)
    BY <1>0, <2>2, RefusalAnswers DEF Unavailable, CustomerAccessError
  <2> QED BY <2>1, <2>2 DEF Read
<1> QED BY <1>1, <1>2, AnswerKeeps

\* A device page, and the device that is not found.
LEMMA ReadDeviceDetailKeeps ==
  ASSUME IInv, NEW c \in DOMAIN Requests, ReadDeviceDetail(c)
  PROVE  IInv'
PROOF
<1>0. TypeInv
  BY DEF IInv
<1>1. /\ stage[c] = "open" /\ Route(c) \notin InsightRoutes
      /\ UNCHANGED <<at, from, granted, generation, queue, insights, failedUntil, load>>
  BY DEF ReadDeviceDetail, generationVars, InsightRoutes
<1>2. \E answer : Answers(c, answer) /\ answer.status # 0
  <2> DEFINE success(m) == Respond(c, [NoResult EXCEPT !.status = 200, !.code = "ok",
                                                     !.moments = m, !.clock = at],
                                   "customer_device_detail_read", 0)
  <2>1. \/ \E m : success(m)
        \/ Refuse(c, DeviceNotFound, 0) \/ Refuse(c, Unavailable, 1)
    BY DEF ReadDeviceDetail
  <2>2. ASSUME NEW m, success(m)
        PROVE  \E answer : Answers(c, answer) /\ answer.status # 0
    <3> DEFINE answer == [NoResult EXCEPT !.status = 200, !.code = "ok", !.moments = m,
                                          !.clock = at]
    <3>1. Answers(c, answer)
      BY <1>0, <2>2, RespondAnswers
    <3>2. answer.status = 200
      BY DEF NoResult
    <3> HIDE DEF answer
    <3> QED BY <3>1, <3>2
  <2>3. CASE Refuse(c, DeviceNotFound, 0)
    BY <1>0, <2>3, RefusalAnswers DEF DeviceNotFound, CustomerAccessError
  <2>4. CASE Refuse(c, Unavailable, 1)
    BY <1>0, <2>4, RefusalAnswers DEF Unavailable, CustomerAccessError
  <2> QED BY <2>1, <2>2, <2>3, <2>4
<1> QED BY <1>1, <1>2, AnswerKeeps

\* The audit page, which is refused without a row.
LEMMA ReadAuditKeeps ==
  ASSUME IInv, NEW c \in DOMAIN Requests, ReadAudit(c)
  PROVE  IInv'
PROOF
<1>0. TypeInv
  BY DEF IInv
<1>1. /\ stage[c] = "open" /\ Route(c) \notin InsightRoutes
      /\ UNCHANGED <<at, from, granted, generation, queue, insights, failedUntil, load>>
  BY DEF ReadAudit, generationVars, InsightRoutes
<1>2. \E answer : Answers(c, answer) /\ answer.status # 0
  <2>1. ASSUME NEW m, Respond(c, [NoResult EXCEPT !.status = 200, !.code = "ok",
                                                  !.moments = m], "security_audit_read", 0)
        PROVE  \E answer : Answers(c, answer) /\ answer.status # 0
    <3> DEFINE answer == [NoResult EXCEPT !.status = 200, !.code = "ok", !.moments = m]
    <3>1. Answers(c, answer)
      BY <1>0, <2>1, RespondAnswers
    <3>2. answer.status = 200
      BY DEF NoResult
    <3> HIDE DEF answer
    <3> QED BY <3>1, <3>2
  <2> DEFINE unavailable == [NoResult EXCEPT !.status = 503,
                                             !.code = "security_gateway_audit_unavailable"]
  <2>2. ASSUME Disturb(1), stage' = [stage EXCEPT ![c] = "answered"],
               result' = [result EXCEPT ![c] = unavailable], UNCHANGED audit
        PROVE  \E answer : Answers(c, answer) /\ answer.status # 0
    <3>1. Answers(c, unavailable)
      BY <1>0, <2>2, DisturbanceType DEF Answers
    <3>2. unavailable.status = 503
      BY DEF NoResult
    <3> HIDE DEF unavailable
    <3> QED BY <3>1, <3>2
  <2> QED BY <2>1, <2>2 DEF ReadAudit
<1> QED BY <1>1, <1>2, AnswerKeeps

\* At most one query fails.
LEMMA FailingIsCounted ==
  ASSUME NEW readers, NEW failing \in Failing(readers)
  PROVE  Cardinality(failing) \in Nat
PROOF
<1>1. failing = {} \/ \E q : failing = {q}
  BY DEF Failing
<1>2. Cardinality(failing) \in {0, 1}
  BY <1>1, FS_EmptySet, FS_Singleton, Zenon
<1> QED BY <1>2

\* The status and the platform's devices, with their gaps.
LEMMA ReadStatusKeeps ==
  ASSUME IInv, NEW c \in DOMAIN Requests, ReadStatus(c) \/ ReadPlatformDevices(c)
  PROVE  IInv'
PROOF
<1>0. TypeInv
  BY DEF IInv
<1>1. /\ stage[c] = "open" /\ Route(c) \notin InsightRoutes
      /\ UNCHANGED <<at, from, granted, generation, queue, insights, failedUntil, load>>
  BY DEF ReadStatus, ReadPlatformDevices, generationVars, InsightRoutes
<1>2. \E readers, m, reason : \E failing \in Failing(readers) :
        Respond(c, [NoResult EXCEPT !.status = 200, !.code = "ok", !.moments = m,
                                    !.failing = failing], reason, Cardinality(failing))
  BY DEF ReadStatus, ReadPlatformDevices
<1>3. PICK readers, m, reason : \E failing \in Failing(readers) :
        Respond(c, [NoResult EXCEPT !.status = 200, !.code = "ok", !.moments = m,
                                    !.failing = failing], reason, Cardinality(failing))
  BY <1>2
<1>4. PICK failing \in Failing(readers) :
        Respond(c, [NoResult EXCEPT !.status = 200, !.code = "ok", !.moments = m,
                                    !.failing = failing], reason, Cardinality(failing))
  BY <1>3
<1> DEFINE answer == [NoResult EXCEPT !.status = 200, !.code = "ok", !.moments = m,
                                      !.failing = failing]
<1>5. Answers(c, answer)
  BY <1>0, <1>4, RespondAnswers, FailingIsCounted
<1>6. answer.status = 200
  BY DEF NoResult
<1> HIDE DEF answer
<1> QED BY <1>1, <1>5, <1>6, AnswerKeeps

\* Every refusal has a status of its own.
LEMMA ScopeOfRequest ==
  ASSUME TypeInv, NEW c \in DOMAIN Requests, NEW scope \in Scopes(c)
  PROVE  /\ \A e \in scope.error : e.status \in {401, 403, 404}
         /\ scope.household \in SUBSET Households /\ Cardinality(scope.household) <= 1
         /\ scope.error = {} /\ Route(c) \in CustomerRoutes =>
              \E h \in Households : /\ scope.household = {h}
                                    /\ Scoped(at, Context(c), Requests[c].requested, h)
PROOF
<1>1. Cardinality({}) = 0 /\ \A h : Cardinality({h}) = 1
  BY FS_EmptySet, FS_Singleton
<1>2. CASE scope = NoScope /\ Route(c) \in PlatformRoutes \cup {"households"}
  BY <1>1, <1>2 DEF NoScope, PlatformRoutes, CustomerRoutes, InsightRoutes
<1>3. CASE \E e \in ContextErrors(Context(c)) : scope = Refused(e)
  BY <1>1, <1>3 DEF Refused, ContextErrors, CustomerAccessError
<1>4. CASE /\ ContextErrors(Context(c)) = {}
           /\ scope \in resolveHouseholdScope(History[at], Context(c), Requests[c].requested)
  <2>1. at \in DOMAIN History
    BY DEF TypeInv
  <2>2. CASE \E h \in Households : /\ scope = Granted(h)
                                   /\ Scoped(at, Context(c), Requests[c].requested, h)
    <3>1. PICK h \in Households : /\ scope = Granted(h)
                                  /\ Scoped(at, Context(c), Requests[c].requested, h)
      BY <2>2
    <3>2. scope.household = {h} /\ scope.error = {}
      BY <3>1 DEF Granted
    <3>3. Cardinality(scope.household) = 1
      BY <1>1, <3>2
    <3> QED BY <3>1, <3>2, <3>3
  <2>3. CASE \E e \in {AccessDenied,
                       CustomerAccessError("customer_household_data_not_found", 404)} :
               scope = Refused(e)
    BY <1>1, <2>3 DEF Refused, AccessDenied, CustomerAccessError
  <2> QED BY <1>4, <2>1, <2>2, <2>3, ScopeIsResolved
<1> QED BY <1>2, <1>3, <1>4 DEF Scopes

\* A request that arrives is opened with a household in its scope, or refused.
LEMMA ArriveKeeps ==
  ASSUME IInv, NEW c \in DOMAIN Requests, Arrive(c)
  PROVE  IInv'
PROOF
<1>0. TypeInv /\ at \in DOMAIN History /\ at \in Int
  BY HistoryFacts DEF IInv, TypeInv
<1>1. /\ stage[c] = "unsent" /\ from' = [from EXCEPT ![c] = at]
      /\ UNCHANGED <<at, generation, queue, insights, failedUntil, load>>
  BY DEF Arrive, generationVars
<1>2. \/ \E scope \in Scopes(c) :
           /\ granted' = [granted EXCEPT ![c] = scope.household]
           /\ \/ \E e \in scope.error : Refuse(c, e, 0)
              \/ /\ scope.error = {} /\ stage' = [stage EXCEPT ![c] = "open"]
                 /\ UNCHANGED <<result, audit, disturbances>>
      \/ Refuse(c, Unavailable, 1) /\ UNCHANGED granted
  BY DEF Arrive
<1>3. \/ /\ \E answer : Answers(c, answer) /\ answer.status \in {401, 403, 404, 503}
         /\ \E H \in SUBSET Households : Cardinality(H) <= 1
                                          /\ granted' = [granted EXCEPT ![c] = H]
      \/ /\ stage' = [stage EXCEPT ![c] = "open"] /\ UNCHANGED <<result, audit, disturbances>>
         /\ \E H \in SUBSET Households :
              /\ Cardinality(H) <= 1 /\ granted' = [granted EXCEPT ![c] = H]
              /\ Route(c) \in CustomerRoutes =>
                   \E h \in Households : H = {h} /\ Scoped(at, Context(c), Requests[c].requested, h)
  <2>1. ASSUME NEW scope \in Scopes(c), granted' = [granted EXCEPT ![c] = scope.household],
               NEW e \in scope.error, Refuse(c, e, 0)
        PROVE  /\ \E answer : Answers(c, answer) /\ answer.status \in {401, 403, 404, 503}
               /\ \E H \in SUBSET Households : Cardinality(H) <= 1
                                                /\ granted' = [granted EXCEPT ![c] = H]
    <3>1. e.status \in {401, 403, 404} /\ scope.household \in SUBSET Households
          /\ Cardinality(scope.household) <= 1
      BY <1>0, ScopeOfRequest
    <3>2. PICK answer : Answers(c, answer) /\ answer.status = e.status
      BY <1>0, <2>1, RefusalAnswers
    <3>3. answer.status \in {401, 403, 404, 503}
      BY <3>1, <3>2
    <3> DEFINE H == scope.household
    <3>4. H \in SUBSET Households /\ Cardinality(H) <= 1 /\ granted' = [granted EXCEPT ![c] = H]
      BY <2>1, <3>1
    <3> HIDE DEF H
    <3> QED BY <3>2, <3>3, <3>4, ZenonT(60)
  <2>2. ASSUME Refuse(c, Unavailable, 1), UNCHANGED granted
        PROVE  /\ \E answer : Answers(c, answer) /\ answer.status \in {401, 403, 404, 503}
               /\ \E H \in SUBSET Households : Cardinality(H) <= 1
                                                /\ granted' = [granted EXCEPT ![c] = H]
    <3>1. \E answer : Answers(c, answer) /\ answer.status = 503
      BY <1>0, <2>2, RefusalAnswers DEF Unavailable, CustomerAccessError
    <3>2. granted' = [granted EXCEPT ![c] = granted[c]] /\ granted[c] \in SUBSET Households
          /\ Cardinality(granted[c]) <= 1
      BY <1>0, <2>2 DEF TypeInv, IInv, ScopeInv
    <3>3. \E H \in SUBSET Households : Cardinality(H) <= 1
                                        /\ granted' = [granted EXCEPT ![c] = H]
      BY <3>2
    <3> QED BY <3>1, <3>3, ZenonT(60)
  <2>3. ASSUME NEW scope \in Scopes(c), granted' = [granted EXCEPT ![c] = scope.household],
               scope.error = {}
        PROVE  \E H \in SUBSET Households :
                 /\ Cardinality(H) <= 1 /\ granted' = [granted EXCEPT ![c] = H]
                 /\ Route(c) \in CustomerRoutes =>
                      \E h \in Households : H = {h}
                                            /\ Scoped(at, Context(c), Requests[c].requested, h)
    <3>1. scope.household \in SUBSET Households /\ Cardinality(scope.household) <= 1
      BY <1>0, ScopeOfRequest
    <3>2. Route(c) \in CustomerRoutes =>
            \E h \in Households : /\ scope.household = {h}
                                  /\ Scoped(at, Context(c), Requests[c].requested, h)
      BY <1>0, <2>3, ScopeOfRequest
    <3> QED BY <2>3, <3>1, <3>2
  <2> QED BY <1>2, <2>1, <2>2, <2>3
<1> DEFINE refused == \E answer : Answers(c, answer) /\ answer.status \in {401, 403, 404, 503}
           admitted ==
             /\ stage' = [stage EXCEPT ![c] = "open"] /\ UNCHANGED <<result, audit, disturbances>>
             /\ \E H \in SUBSET Households :
                  /\ Cardinality(H) <= 1 /\ granted' = [granted EXCEPT ![c] = H]
                  /\ Route(c) \in CustomerRoutes =>
                       \E h \in Households :
                         H = {h} /\ Scoped(at, Context(c), Requests[c].requested, h)
<1>4. /\ \A d \in DOMAIN Requests \ {c} :
           /\ stage'[d] = stage[d] /\ result'[d] = result[d]
           /\ from'[d] = from[d] /\ granted'[d] = granted[d]
      /\ from'[c] = at /\ stage'[c] \in {"open", "answered"}
      /\ stage'[c] = "answered" <=> result'[c].status # 0
      /\ Cardinality(granted'[c]) <= 1 /\ ~Successful(c)'
      /\ stage'[c] = "open" /\ Route(c) \in CustomerRoutes =>
           \E h \in Households : /\ granted'[c] = {h}
                                 /\ Scoped(at, Context(c), Requests[c].requested, h)
      /\ disturbances' \in 0..load.disturbances
      /\ \A a \in audit' : a \in audit \/ (a.at = at /\ a.correlation = c /\ stage'[c] = "answered")
  <2>1. result[c].status = 0
    BY <1>1 DEF IInv, AnswerInv
  <2>2. /\ DOMAIN stage = DOMAIN Requests /\ DOMAIN result = DOMAIN Requests
        /\ DOMAIN from = DOMAIN Requests /\ DOMAIN granted = DOMAIN Requests
    BY <1>0 DEF TypeInv
  <2>3. /\ \A d \in DOMAIN Requests \ {c} : from'[d] = from[d] /\ granted'[d] = granted[d]
        /\ from'[c] = at /\ Cardinality(granted'[c]) <= 1
    BY <1>1, <1>3, <2>2
  <2>4. CASE refused
    <3>1. PICK answer : Answers(c, answer) /\ answer.status \in {401, 403, 404, 503}
      BY <2>4
    <3>2. stage'[c] = "answered" /\ result'[c] = answer
      BY <2>2, <3>1 DEF Answers
    <3>3. \A d \in DOMAIN Requests \ {c} : stage'[d] = stage[d] /\ result'[d] = result[d]
      BY <2>2, <3>1 DEF Answers
    <3>4. ~Successful(c)' /\ result'[c].status # 0
      BY <3>1, <3>2 DEF Successful
    <3> QED BY <2>3, <3>1, <3>2, <3>3, <3>4 DEF Answers
  <2>5. CASE admitted
    <3>1. stage'[c] = "open" /\ result'[c] = result[c]
      BY <2>2, <2>5
    <3>2. \A d \in DOMAIN Requests \ {c} : stage'[d] = stage[d] /\ result'[d] = result[d]
      BY <2>2, <2>5
    <3>3. Route(c) \in CustomerRoutes =>
            \E h \in Households : /\ granted'[c] = {h}
                                  /\ Scoped(at, Context(c), Requests[c].requested, h)
      BY <2>2, <2>5
    <3>4. ~Successful(c)'
      BY <3>1 DEF Successful
    <3>5. disturbances' \in 0..load.disturbances /\ audit' = audit
      BY <1>0, <2>5 DEF TypeInv
    <3> QED BY <2>1, <2>3, <3>1, <3>2, <3>3, <3>4, <3>5
  <2>6. refused \/ admitted
    BY <1>3
  <2> HIDE DEF refused, admitted
  <2> QED BY <2>4, <2>5, <2>6
<1>5. TypeInv'
  <2>1. granted' \in [DOMAIN Requests -> SUBSET Households]
    <3>1. granted \in [DOMAIN Requests -> SUBSET Households]
      BY <1>0 DEF TypeInv
    <3>2. PICK H \in SUBSET Households : granted' = [granted EXCEPT ![c] = H]
      <4> HIDE DEF refused
      <4> QED BY <1>3
    <3> QED BY <3>1, <3>2
  <2>2. \/ stage' = [stage EXCEPT ![c] = "open"] /\ result' = result
        \/ \E answer : /\ stage' = [stage EXCEPT ![c] = "answered"]
                       /\ result' = [result EXCEPT ![c] = answer]
    BY <1>3 DEF Answers
  <2>3. stage' \in [DOMAIN Requests -> {"unsent", "open", "answered", "lost"}]
    BY <1>0, <2>2 DEF TypeInv
  <2>4. result' = [d \in DOMAIN Requests |-> result'[d]]
    BY <1>0, <2>2 DEF TypeInv
  <2>5. from' \in [DOMAIN Requests -> 0..at]
    BY <1>0, <1>1, HistoryFacts DEF TypeInv
  <2> QED BY <1>0, <1>1, <1>4, <2>1, <2>3, <2>4, <2>5 DEF TypeInv, Now
<1>6. GenerationInv'
  <2> SUFFICES ASSUME NEW g \in Makers
               PROVE  Shape(generation[g])' /\ Owned(g)' /\ Collected(generation[g])'
                        /\ Selected(generation[g])'
    BY DEF GenerationInv
  <2>1. g \notin Passes /\ generation[g] # Idle => g # c /\ g \in DOMAIN Requests
    BY <1>1 DEF Makers, IInv, GenerationInv, Owned
  <2> QED BY <1>0, <1>1, <1>4, <2>1, GenerationKept DEF IInv
<1>7. RowInv'
  BY <1>0, <1>1, RowsKept DEF IInv
<1>8. QueueInv'
  BY <1>1 DEF IInv, QueueInv
<1>9. AuditInv'
  BY <1>0, <1>1, <1>4, AuditKept DEF IInv
<1>10. AnswerInv'
  <2> SUFFICES ASSUME NEW d \in DOMAIN Requests
               PROVE  /\ (stage'[d] = "answered") = (result'[d].status # 0)
                      /\ Successful(d)' /\ Route(d) \in InsightRoutes => Shown(d)'
    BY DEF AnswerInv
  <2>1. CASE d = c
    BY <1>4, <2>1
  <2>2. CASE d # c
    BY <1>1, <1>4, <2>2, AnswerKept DEF IInv
  <2> QED BY <2>1, <2>2
<1>11. ScopeInv'
  <2> SUFFICES ASSUME NEW d \in DOMAIN Requests
               PROVE  /\ Cardinality(granted'[d]) <= 1
                      /\ Route(d) \in CustomerRoutes /\ (stage'[d] = "open" \/ Successful(d)')
                           => Entitled(d)'
    BY DEF ScopeInv
  <2>1. CASE d = c
    BY <1>0, <1>4, <2>1 DEF Entitled
  <2>2. CASE d # c
    BY <1>4, <2>2, ScopeKept DEF IInv
  <2> QED BY <2>1, <2>2
<1> QED BY <1>5, <1>6, <1>7, <1>8, <1>9, <1>10, <1>11 DEF IInv

\* The end of a generation, or of a look-up: what Conclude changes.
Concluded(g, code, shown) ==
  /\ generation' = [generation EXCEPT ![g] = Idle]
  /\ disturbances' \in 0..load.disturbances
  /\ g \in Passes => UNCHANGED <<stage, result, audit>>
  /\ g \notin Passes =>
       \E answer : /\ Answers(g, answer) /\ answer.status \in {200, 202}
                   /\ answer.code = code /\ answer.clock = at /\ answer.shown = shown

\* Conclude ends a generation, with an answer if it was for a request.
LEMMA ConcludeConcludes ==
  ASSUME TypeInv, NEW g, NEW code, NEW shown, NEW failed \in Nat,
         Conclude(g, code, shown, failed)
  PROVE  Concluded(g, code, shown)
PROOF
<1>1. generation' = [generation EXCEPT ![g] = Idle]
  BY DEF Conclude
<1>2. CASE g \in Passes
  BY <1>1, <1>2, DisturbanceType DEF Conclude, Concluded
<1>3. CASE g \notin Passes
  <2> DEFINE status == IF Route(g) = "refresh" THEN 202 ELSE 200
             answer == [NoResult EXCEPT !.status = status, !.code = code, !.clock = at,
                                        !.shown = shown]
  <2>1. Respond(g, answer, IF Route(g) = "refresh" THEN "customer_insights_refreshed"
                           ELSE "customer_insights_read", failed)
    BY <1>3 DEF Conclude
  <2>2. /\ answer.status = status /\ answer.code = code /\ answer.clock = at
        /\ answer.shown = shown
    BY DEF NoResult
  <2>3. status \in {200, 202}
    OBVIOUS
  <2> HIDE DEF answer, status
  <2>4. Answers(g, answer)
    BY <2>1, RespondAnswers
  <2>5. disturbances' \in 0..load.disturbances
    BY <2>4 DEF Answers
  <2> QED BY <1>1, <1>3, <2>2, <2>3, <2>4, <2>5 DEF Concluded
<1> QED BY <1>2, <1>3

\* A generation ends: nothing of it is left, and what is shown of it is the household's.
LEMMA ConcludeKeeps ==
  ASSUME IInv, NEW g \in Makers, NEW code, NEW shown, Concluded(g, code, shown),
         g \notin Passes => /\ stage[g] = "open"
                            /\ \A r \in shown : granted[g] = {r.household},
         IsFiniteSet(insights'), insights \subseteq insights', RowInv',
         shown \subseteq insights', Cardinality(shown) <= 6,
         (shown = {}) = (code \notin {"cached", "generated"}),
         code = "cached" => \A r \in shown : Now < r.expires,
         failedUntil' \in [Households -> 0..(Now + 5)],
         UNCHANGED <<at, from, granted, queue, load>>
  PROVE  IInv'
PROOF
<1>0. /\ TypeInv /\ at \in DOMAIN History /\ at \in Int
      /\ DOMAIN stage = DOMAIN Requests /\ DOMAIN result = DOMAIN Requests
      /\ DOMAIN generation = Makers
  BY HistoryFacts DEF IInv, TypeInv
<1>1. generation' = [generation EXCEPT ![g] = Idle] /\ disturbances' \in 0..load.disturbances
  BY DEF Concluded
<1>2. CASE g \in Passes
  <2>1. UNCHANGED <<stage, result, audit>>
    BY <1>2 DEF Concluded
  <2>2. TypeInv'
    BY <1>0, <1>1, <2>1 DEF TypeInv, Now
  <2>3. GenerationInv'
    <3> SUFFICES ASSUME NEW f \in Makers
                 PROVE  Shape(generation[f])' /\ Owned(f)' /\ Collected(generation[f])'
                          /\ Selected(generation[f])'
      BY DEF GenerationInv
    <3>1. CASE f = g
      <4>1. generation'[f] = Idle
        BY <1>0, <1>1, <3>1
      <4> QED BY <4>1 DEF Shape, Owned, Collected, Selected, Idle
    <3>2. CASE f # g
      BY <1>0, <1>1, <2>1, <3>2, GenerationKept DEF IInv
    <3> QED BY <3>1, <3>2
  <2>4. QueueInv'
    BY DEF IInv, QueueInv
  <2>5. AuditInv'
    BY <2>1 DEF IInv, AuditInv
  <2>6. AnswerInv'
    <3> SUFFICES ASSUME NEW d \in DOMAIN Requests
                 PROVE  /\ (stage'[d] = "answered") = (result'[d].status # 0)
                        /\ Successful(d)' /\ Route(d) \in InsightRoutes => Shown(d)'
      BY DEF AnswerInv
    <3> QED BY <2>1, AnswerKept DEF IInv
  <2>7. ScopeInv'
    BY <2>1 DEF IInv, ScopeInv, Entitled, Successful
  <2> QED BY <2>2, <2>3, <2>4, <2>5, <2>6, <2>7 DEF IInv
<1>3. CASE g \notin Passes
  <2>1. g \in DOMAIN Requests /\ Route(g) \in InsightRoutes
    BY <1>3 DEF Makers
  <2>2. PICK answer : /\ Answers(g, answer) /\ answer.status \in {200, 202}
                      /\ answer.code = code /\ answer.clock = at /\ answer.shown = shown
    BY <1>3 DEF Concluded
  <2>3. \A d \in DOMAIN Requests :
          /\ stage'[d] = IF d = g THEN "answered" ELSE stage[d]
          /\ result'[d] = IF d = g THEN answer ELSE result[d]
    BY <1>0, <2>2 DEF Answers
  <2>4. TypeInv'
    <3>1. stage' \in [DOMAIN Requests -> {"unsent", "open", "answered", "lost"}]
      BY <1>0, <2>2 DEF TypeInv, Answers
    <3>2. result' = [c \in DOMAIN Requests |-> result'[c]]
      BY <1>0, <2>2 DEF TypeInv, Answers
    <3>3. generation' = [f \in Makers |-> generation'[f]]
      BY <1>0, <1>1
    <3> QED BY <1>0, <1>1, <3>1, <3>2, <3>3 DEF TypeInv, Now
  <2>5. GenerationInv'
    <3> SUFFICES ASSUME NEW f \in Makers
                 PROVE  Shape(generation[f])' /\ Owned(f)' /\ Collected(generation[f])'
                          /\ Selected(generation[f])'
      BY DEF GenerationInv
    <3>1. CASE f = g
      <4>1. generation'[f] = Idle
        BY <1>0, <1>1, <3>1
      <4> QED BY <4>1 DEF Shape, Owned, Collected, Selected, Idle
    <3>2. CASE f # g
      <4>1. f \notin Passes => f \in DOMAIN Requests
        BY DEF Makers
      <4>2. generation'[f] = generation[f]
        BY <1>0, <1>1, <3>2
      <4> QED BY <1>0, <2>3, <3>2, <4>1, <4>2, GenerationKept DEF IInv
    <3> QED BY <3>1, <3>2
  <2>6. QueueInv'
    BY DEF IInv, QueueInv
  <2>7. AuditInv'
    BY <1>0, <2>1, <2>2, <2>3, AuditKept DEF IInv, Answers
  <2>8. AnswerInv'
    <3> SUFFICES ASSUME NEW d \in DOMAIN Requests
                 PROVE  /\ (stage'[d] = "answered") = (result'[d].status # 0)
                        /\ Successful(d)' /\ Route(d) \in InsightRoutes => Shown(d)'
      BY DEF AnswerInv
    <3>1. CASE d = g
      <4>1. stage'[d] = "answered" /\ result'[d] = answer
        BY <2>3, <3>1
      <4>2. answer.status # 0
        BY <2>2
      <4>3. Shown(d)'
        BY <1>3, <2>2, <3>1, <4>1 DEF Shown, Now
      <4> QED BY <4>1, <4>2, <4>3
    <3>2. CASE d # g
      BY <2>3, <3>2, AnswerKept DEF IInv
    <3> QED BY <3>1, <3>2
  <2>9. ScopeInv'
    <3> SUFFICES ASSUME NEW d \in DOMAIN Requests
                 PROVE  /\ Cardinality(granted'[d]) <= 1
                        /\ Route(d) \in CustomerRoutes /\ (stage'[d] = "open" \/ Successful(d)')
                             => Entitled(d)'
      BY DEF ScopeInv
    <3> QED BY <1>3, <2>3, ScopeKept DEF IInv
  <2> QED BY <2>4, <2>5, <2>6, <2>7, <2>8, <2>9 DEF IInv
<1> QED BY <1>2, <1>3

\* A generation goes on, and nobody is answered.
LEMMA GenerationGoesOn ==
  ASSUME IInv, NEW g \in Makers, NEW new, generation' = [generation EXCEPT ![g] = new],
         Shape(generation[g])', Owned(g)', Collected(generation[g])', Selected(generation[g])',
         IsFiniteSet(insights'), insights \subseteq insights', RowInv',
         queue' \in [Passes -> Seq(Households \X Communities)], QueueInv',
         failedUntil' \in [Households -> 0..(Now + 5)],
         UNCHANGED <<at, stage, from, granted, result, audit, load, disturbances>>
  PROVE  IInv'
PROOF
<1>0. /\ TypeInv /\ at \in DOMAIN History /\ at \in Int /\ DOMAIN generation = Makers
  BY HistoryFacts DEF IInv, TypeInv
<1>1. TypeInv'
  <2>1. generation' = [f \in Makers |-> generation'[f]]
    BY <1>0
  <2> QED BY <1>0, <2>1 DEF TypeInv, Now
<1>2. GenerationInv'
  <2> SUFFICES ASSUME NEW f \in Makers, f # g
               PROVE  Shape(generation[f])' /\ Owned(f)' /\ Collected(generation[f])'
                        /\ Selected(generation[f])'
    BY DEF GenerationInv
  <2>1. generation'[f] = generation[f]
    BY <1>0
  <2> QED BY <1>0, <2>1, GenerationKept DEF IInv
<1>3. AuditInv'
  BY DEF IInv, AuditInv
<1>4. AnswerInv'
  <2> SUFFICES ASSUME NEW d \in DOMAIN Requests
               PROVE  /\ (stage'[d] = "answered") = (result'[d].status # 0)
                      /\ Successful(d)' /\ Route(d) \in InsightRoutes => Shown(d)'
    BY DEF AnswerInv
  <2> QED BY AnswerKept DEF IInv
<1>5. ScopeInv'
  BY DEF IInv, ScopeInv, Entitled, Successful
<1> QED BY <1>1, <1>2, <1>3, <1>4, <1>5 DEF IInv

\* The catch of a generation.
LEMMA GiveUpKeeps ==
  ASSUME IInv, NEW g \in Makers, generation[g] # Idle, NEW failed \in Nat, GiveUp(g, failed),
         IsFiniteSet(insights'), insights \subseteq insights', RowInv',
         UNCHANGED <<at, from, granted, queue, load>>
  PROVE  IInv'
PROOF
<1>1. generation[g].household \in Households /\ (g \notin Passes => stage[g] = "open")
  BY DEF IInv, GenerationInv, Owned
<1>2. TypeInv /\ Now \in Nat
  BY HistoryFacts DEF IInv, TypeInv, Now
<1>3. failedUntil' \in [Households -> 0..(Now + 5)]
  <2>1. failedUntil' = [failedUntil EXCEPT ![generation[g].household] = Now + 5]
    BY DEF GiveUp
  <2> QED BY <1>1, <1>2, <2>1 DEF TypeInv
<1>4. Concluded(g, "temporarily_unavailable", {})
  BY <1>2, ConcludeConcludes DEF GiveUp
<1>5. Cardinality({}) <= 6
  BY FS_EmptySet
<1> QED BY <1>1, <1>3, <1>4, <1>5, ConcludeKeeps

\* What is cached is the household's, has not expired, and is six rows at most.
LEMMA CachedInsights ==
  ASSUME IsFiniteSet(insights), NEW h, NEW shown \in getCachedInsights(h)
  PROVE  /\ shown \subseteq insights /\ Cardinality(shown) <= 6
         /\ \A r \in shown : r.household = h /\ Now < r.expires
PROOF
<1> DEFINE valid == {r \in insights : r.household = h /\ r.expires > Now}
           k == Min({6, Cardinality(valid)})
<1>1. IsFiniteSet(valid) /\ Cardinality(valid) \in Int
  BY FS_Subset, FS_CardinalityType
<1>2. k \in {6, Cardinality(valid)} /\ k <= 6
  BY <1>1, MinOfTwo
<1>3. shown \in SUBSET valid /\ Cardinality(shown) = k
  BY DEF getCachedInsights, kSubset
<1>4. shown \subseteq insights /\ Cardinality(shown) <= 6
  BY <1>2, <1>3
<1>5. \A r \in shown : r.household = h /\ r.expires > Now
  BY <1>3
<1> QED BY <1>4, <1>5

\* What is cached is shown; otherwise a generation begins for the granted household.
LEMMA LookUpKeeps ==
  ASSUME IInv, NEW c \in DOMAIN Requests, LookUp(c)
  PROVE  IInv'
PROOF
<1> DEFINE h == Household(c)
           code == "temporarily_unavailable"
<1>0. TypeInv /\ RowInv /\ at \in DOMAIN History /\ at \in Int
  BY HistoryFacts DEF IInv, TypeInv
<1>1. /\ Route(c) \in InsightRoutes /\ stage[c] = "open" /\ generation[c] = Idle
      /\ UNCHANGED <<at, from, granted, queue, insights, failedUntil, load>>
  BY DEF LookUp
<1>2. c \in Makers /\ c \notin Passes
  BY <1>1, PortalAssumption DEF Makers
<1>3. granted[c] = {h} /\ h \in Households
  <2>1. Entitled(c)
    BY <1>1 DEF IInv, ScopeInv, CustomerRoutes
  <2>2. PICK i \in Households : granted[c] = {i}
    BY <2>1 DEF Entitled
  <2>3. h \in granted[c]
    BY <2>2 DEF Household
  <2> QED BY <2>2, <2>3
<1>4. IsFiniteSet(insights') /\ RowInv' /\ failedUntil' \in [Households -> 0..(Now + 5)]
  BY <1>0, <1>1, RowsKept DEF TypeInv
<1>5. \/ \E shown \in getCachedInsights(h) : shown # {} /\ Conclude(c, "cached", shown, 0)
      \/ Conclude(c, code, {}, 0)
      \/ /\ Generate(c, h, Context(c).community)
         /\ UNCHANGED <<stage, result, audit, disturbances>>
      \/ Refuse(c, Unavailable, 1) /\ UNCHANGED generation
  BY DEF LookUp
<1>6. ASSUME NEW shown \in getCachedInsights(h), shown # {}, Conclude(c, "cached", shown, 0)
      PROVE  IInv'
  <2>1. /\ shown \subseteq insights /\ Cardinality(shown) <= 6
        /\ \A r \in shown : r.household = h /\ Now < r.expires
    BY <1>0, CachedInsights DEF TypeInv
  <2>2. Concluded(c, "cached", shown)
    BY <1>0, <1>6, ConcludeConcludes
  <2>3. \A r \in shown : granted[c] = {r.household}
    BY <1>3, <2>1
  <2>4. (shown = {}) = ("cached" \notin {"cached", "generated"})
    BY <1>6
  <2> HIDE DEF h
  <2> QED BY <1>1, <1>2, <1>4, <2>1, <2>2, <2>3, <2>4, ConcludeKeeps
<1>7. CASE Conclude(c, code, {}, 0)
  <2>1. Concluded(c, code, {})
    BY <1>0, <1>7, ConcludeConcludes
  <2>2. Cardinality({}) <= 6
    BY FS_EmptySet
  <2> QED BY <1>1, <1>2, <1>4, <2>1, <2>2, ConcludeKeeps
<1>8. CASE /\ Generate(c, h, Context(c).community)
           /\ UNCHANGED <<stage, result, audit, disturbances>>
  <2> DEFINE new == [Idle EXCEPT !.stage = "collecting", !.household = h,
                                 !.community = Context(c).community, !.from = at]
  <2>1. generation' = [generation EXCEPT ![c] = new]
    BY <1>8 DEF Generate
  <2>2. generation'[c] = new
    BY <1>0, <1>2, <2>1 DEF TypeInv
  <2>3. /\ new.stage = "collecting" /\ new.household = h /\ new.from = at
        /\ new.community = Context(c).community /\ Shape(new)
    BY DEF Shape, Idle
  <2> HIDE DEF new, h
  <2>4. Context(c).community \in Communities
    BY <1>1 DEF Communities
  <2>5. Shape(generation[c])' /\ Collected(generation[c])' /\ Selected(generation[c])'
    BY <2>2, <2>3 DEF Shape, Collected, Selected
  <2>6. Owned(c)'
    BY <1>0, <1>1, <1>2, <1>3, <1>8, <2>2, <2>3, <2>4 DEF Owned
  <2>7. queue' \in [Passes -> Seq(Households \X Communities)] /\ QueueInv'
    BY <1>0, <1>1 DEF TypeInv, IInv, QueueInv
  <2> QED BY <1>1, <1>2, <1>4, <1>8, <2>1, <2>5, <2>6, <2>7, GenerationGoesOn
<1>9. CASE Refuse(c, Unavailable, 1) /\ UNCHANGED generation
  <2>1. \E answer : Answers(c, answer) /\ answer.status = 503
    BY <1>0, <1>9, RefusalAnswers DEF Unavailable, CustomerAccessError
  <2> QED BY <1>1, <1>9, <2>1, AnswerKeeps
<1> QED BY <1>5, <1>6, <1>7, <1>8, <1>9

\* The facts come from worlds that the generation has gone through.
LEMMA CollectFactsKeeps ==
  ASSUME IInv, NEW g \in Makers, CollectFacts(g)
  PROVE  IInv'
PROOF
<1> DEFINE new == generation[g]
<1>0. TypeInv /\ RowInv /\ at \in DOMAIN History /\ at \in Int
  BY HistoryFacts DEF IInv, TypeInv
<1>1. /\ new.stage = "collecting"
      /\ UNCHANGED <<at, from, granted, queue, insights, load>>
  BY DEF CollectFacts
<1>2. /\ new # Idle /\ Shape(new) /\ Owned(g) /\ (g \notin Passes => stage[g] = "open")
      /\ new.left = <<>> /\ new.made = {}
  BY <1>1 DEF IInv, GenerationInv, Idle, Owned, Shape
<1>3. IsFiniteSet(insights') /\ RowInv'
  BY <1>0, <1>1, RowsKept DEF TypeInv
<1>4. \/ \E m \in [1..4 -> new.from..at] :
           /\ \/ Conclude(g, "not_enough_data", {}, 0)
              \/ /\ generation' = [generation EXCEPT ![g] =
                      [new EXCEPT !.stage = "asking", !.to = at,
                                  !.facts = FactsOf(new.household, new.community, new.from, m)]]
                 /\ UNCHANGED <<stage, result, audit, disturbances>>
           /\ UNCHANGED failedUntil
      \/ GiveUp(g, 1)
  BY DEF CollectFacts
<1>5. CASE GiveUp(g, 1)
  BY <1>1, <1>2, <1>3, <1>5, GiveUpKeeps
<1>6. CASE Conclude(g, "not_enough_data", {}, 0) /\ UNCHANGED failedUntil
  <2>1. Concluded(g, "not_enough_data", {})
    BY <1>0, <1>6, ConcludeConcludes
  <2>2. Cardinality({}) <= 6
    BY FS_EmptySet
  <2>3. failedUntil' \in [Households -> 0..(Now + 5)]
    BY <1>0, <1>6 DEF TypeInv
  <2> QED BY <1>1, <1>2, <1>3, <2>1, <2>2, <2>3, ConcludeKeeps
<1>7. ASSUME NEW m \in [1..4 -> new.from..at], UNCHANGED failedUntil,
             generation' = [generation EXCEPT ![g] =
               [new EXCEPT !.stage = "asking", !.to = at,
                           !.facts = FactsOf(new.household, new.community, new.from, m)]],
             UNCHANGED <<stage, result, audit, disturbances>>
      PROVE  IInv'
  <2> DEFINE facts == FactsOf(new.household, new.community, new.from, m)
             next == [new EXCEPT !.stage = "asking", !.to = at, !.facts = facts]
  <2> HIDE DEF facts
  <2>1. generation' = [generation EXCEPT ![g] = next]
    BY <1>7 DEF facts
  <2>2. generation'[g] = next
    BY <1>0, <2>1 DEF TypeInv
  <2>3. /\ next.stage = "asking" /\ next.household = new.household /\ next.from = new.from
        /\ next.community = new.community /\ next.to = at /\ next.facts = facts
        /\ next.left = <<>> /\ next.made = {} /\ Shape(next)
    BY <1>2 DEF Shape
  <2> HIDE DEF next
  <2>4. Shape(generation[g])' /\ Selected(generation[g])'
    BY <2>2, <2>3 DEF Shape, Selected
  <2>5. Owned(g)'
    BY <1>0, <1>1, <1>2, <1>7, <2>2, <2>3 DEF Owned
  <2>6. Collected(generation[g])'
    BY <1>0, <1>1, <1>2, <1>7, <2>2, <2>3 DEF Collected, Owned, facts
  <2>7. queue' \in [Passes -> Seq(Households \X Communities)] /\ QueueInv'
        /\ failedUntil' \in [Households -> 0..(Now + 5)]
    BY <1>0, <1>1, <1>7 DEF TypeInv, IInv, QueueInv
  <2> QED BY <1>1, <1>3, <1>7, <2>1, <2>4, <2>5, <2>6, <2>7, GenerationGoesOn
<1> QED BY <1>4, <1>5, <1>6, <1>7

\* The keys that are to be stored are those of facts in hand.
LEMMA AskModelKeeps ==
  ASSUME IInv, NEW g \in Makers, AskModel(g)
  PROVE  IInv'
PROOF
<1> DEFINE new == generation[g]
<1>0. TypeInv /\ RowInv /\ at \in DOMAIN History /\ at \in Int /\ Now \in Nat
  BY HistoryFacts DEF IInv, TypeInv, Now
<1>1. /\ new.stage = "asking"
      /\ UNCHANGED <<at, from, granted, queue, insights, load>>
  BY DEF AskModel
<1>2. /\ new # Idle /\ Shape(new) /\ Owned(g) /\ Collected(new)
      /\ new.made = {} /\ new.household \in Households
      /\ g \notin Passes => stage[g] = "open"
  BY <1>1 DEF IInv, GenerationInv, Idle, Owned, Shape
<1>3. IsFiniteSet(insights') /\ RowInv'
  BY <1>0, <1>1, RowsKept DEF TypeInv
<1>4. \/ \E text \in ModelAnswers :
           \/ GiveUp(g, 0)
           \/ /\ failedUntil' = [failedUntil EXCEPT ![new.household] = 0]
              /\ Conclude(g, "not_enough_data", {}, 0)
           \/ \E keys \in parseInsightSelection(text, DOMAIN new.facts) \ {<<>>} :
                /\ generation' = [generation EXCEPT ![g] =
                     [new EXCEPT !.stage = "storing", !.left = keys, !.generated = Now]]
                /\ UNCHANGED <<stage, result, audit, disturbances, failedUntil>>
      \/ GiveUp(g, 1)
  BY DEF AskModel
<1>5. CASE GiveUp(g, 0) \/ GiveUp(g, 1)
  BY <1>1, <1>2, <1>3, <1>5, GiveUpKeeps
<1>6. CASE /\ failedUntil' = [failedUntil EXCEPT ![new.household] = 0]
           /\ Conclude(g, "not_enough_data", {}, 0)
  <2>1. Concluded(g, "not_enough_data", {})
    BY <1>0, <1>6, ConcludeConcludes
  <2>2. Cardinality({}) <= 6
    BY FS_EmptySet
  <2>3. failedUntil' \in [Households -> 0..(Now + 5)]
    BY <1>0, <1>2, <1>6 DEF TypeInv
  <2> QED BY <1>1, <1>2, <1>3, <2>1, <2>2, <2>3, ConcludeKeeps
<1>7. ASSUME NEW text \in ModelAnswers,
             NEW keys \in parseInsightSelection(text, DOMAIN new.facts) \ {<<>>},
             generation' = [generation EXCEPT ![g] =
               [new EXCEPT !.stage = "storing", !.left = keys, !.generated = Now]],
             UNCHANGED <<stage, result, audit, disturbances, failedUntil>>
      PROVE  IInv'
  <2> DEFINE next == [new EXCEPT !.stage = "storing", !.left = keys, !.generated = Now]
  <2>1. generation' = [generation EXCEPT ![g] = next]
    BY <1>7
  <2>2. generation'[g] = next
    BY <1>0, <2>1 DEF TypeInv
  <2>3. /\ next.stage = "storing" /\ next.household = new.household /\ next.from = new.from
        /\ next.community = new.community /\ next.to = new.to /\ next.facts = new.facts
        /\ next.left = keys /\ next.made = {} /\ next.generated = Now /\ Shape(next)
    BY <1>2 DEF Shape
  <2> HIDE DEF next
  <2>4. keys \in Seq(DOMAIN new.facts) /\ Len(keys) <= 3 /\ keys # <<>>
    BY SelectionIsAllowed
  <2>5. Shape(generation[g])'
    BY <2>2, <2>3 DEF Shape
  <2>6. Owned(g)'
    BY <1>0, <1>1, <1>2, <1>7, <2>2, <2>3 DEF Owned
  <2>7. Collected(generation[g])'
    BY <1>1, <1>2, <2>2, <2>3 DEF Collected
  <2>8. Selected(generation[g])'
    <3>1. History[new.to].now <= Now
      BY <1>0, <1>1, <1>2, HistoryFacts DEF Collected, Now
    <3>2. IsFiniteSet({}) /\ Cardinality({}) = 0
      BY FS_EmptySet
    <3>3. Len(keys) \in Nat
      BY <2>4
    <3> QED BY <1>0, <2>2, <2>3, <2>4, <3>1, <3>2, <3>3 DEF Selected
  <2>9. queue' \in [Passes -> Seq(Households \X Communities)] /\ QueueInv'
        /\ failedUntil' \in [Households -> 0..(Now + 5)]
    BY <1>0, <1>1, <1>7 DEF TypeInv, IInv, QueueInv
  <2> QED BY <1>1, <1>3, <1>7, <2>1, <2>5, <2>6, <2>7, <2>8, <2>9, GenerationGoesOn
<1> QED BY <1>4, <1>5, <1>6, <1>7

\* The row that an INSERT of persistInsights adds.
RowOf(g) ==
  LET new == generation[g] IN
  [household |-> new.household, community |-> new.community, key |-> new.left[1],
   fact |-> new.facts[new.left[1]], generated |-> new.generated,
   expires |-> new.generated + RefreshMinutes, from |-> new.from, to |-> new.to, by |-> g]

\* It states a fact that held in one world of its generation, for each fact has one source.
LEMMA RowIsGrounded ==
  ASSUME IInv, NEW g \in Makers, generation[g].stage = "storing"
  PROVE  LET r == RowOf(g) IN
         /\ r.household \in Households /\ r.community \in Communities /\ r.key \in INSIGHT_KEYS
         /\ r.to \in DOMAIN History /\ r.from \in Nat /\ r.from <= r.to /\ r.to <= at
         /\ r.generated \in Nat /\ History[r.to].now <= r.generated
         /\ Grounded(r)
PROOF
<1> DEFINE new == generation[g]
           key == new.left[1]
<1>1. /\ new # Idle /\ Shape(new) /\ Owned(g) /\ Collected(new) /\ Selected(new)
  BY DEF IInv, GenerationInv, Idle
<1>2. key \in DOMAIN new.facts
  BY <1>1 DEF Selected
<1>3. PICK m \in [1..4 -> new.from..new.to] :
        new.facts = FactsOf(new.household, new.community, new.from, m)
  BY <1>1 DEF Collected
<1> DEFINE n == m[SourceOf(key)]
           facts == FactsIn(new.household, new.community, new.from, n)
<1>4. /\ key \in INSIGHT_KEYS /\ SourceOf(key) \in 1..4
      /\ key \in DOMAIN facts /\ facts[key] = new.facts[key]
  <2>1. key \in DOMAIN FactsOf(new.household, new.community, new.from, m)
    BY <1>2, <1>3
  <2> HIDE DEF key
  <2>2. /\ key \in INSIGHT_KEYS /\ SourceOf(key) \in 1..4
        /\ key \in DOMAIN facts
        /\ facts[key] = FactsOf(new.household, new.community, new.from, m)[key]
    BY <2>1, FactsHaveOneSource
  <2> QED BY <1>3, <2>2
<1>5. n \in new.from..new.to
  BY <1>3, <1>4
<1>6. /\ new.from \in DOMAIN History /\ new.to \in DOMAIN History /\ new.from <= new.to
      /\ new.to <= at /\ new.household \in Households /\ new.community \in Communities
      /\ new.generated \in Nat /\ History[new.to].now <= new.generated
  BY <1>1 DEF Owned, Collected, Selected
<1>7. DOMAIN History \subseteq Nat
  BY HistoryFacts
<1> HIDE DEF n
<1>8. Grounded(RowOf(g))
  BY <1>4, <1>5 DEF Grounded, RowOf
<1> QED BY <1>4, <1>6, <1>7, <1>8 DEF RowOf

\* One row more, and one key less to store.
LEMMA PersistInsightKeeps ==
  ASSUME IInv, NEW g \in Makers, PersistInsight(g)
  PROVE  IInv'
PROOF
<1> DEFINE new == generation[g]
           row == RowOf(g)
           made == new.made \cup {row}
<1>0. TypeInv /\ RowInv /\ at \in DOMAIN History /\ at \in Int /\ Now \in Nat
  BY HistoryFacts DEF IInv, TypeInv, Now
<1>1. /\ new.stage = "storing"
      /\ UNCHANGED <<at, from, granted, queue, load>>
  BY DEF PersistInsight
<1>2. /\ new # Idle /\ Shape(new) /\ Owned(g) /\ Collected(new) /\ Selected(new)
      /\ new.household \in Households
      /\ g \notin Passes => stage[g] = "open" /\ granted[g] = {new.household}
  BY <1>1 DEF IInv, GenerationInv, Idle, Owned
<1>3. /\ row.household \in Households /\ row.community \in Communities /\ row.key \in INSIGHT_KEYS
      /\ row.to \in DOMAIN History /\ row.from \in Nat /\ row.from <= row.to /\ row.to <= at
      /\ row.generated \in Nat /\ History[row.to].now <= row.generated
      /\ Grounded(row) /\ row.household = new.household
  <2>1. row.household = new.household
    BY DEF RowOf
  <2> HIDE DEF row
  <2> QED BY <1>1, <2>1, RowIsGrounded DEF row
<1>4. \/ /\ insights' = insights \cup {row}
         /\ \/ /\ Len(new.left) > 1
               /\ generation' = [generation EXCEPT ![g].left = Tail(@), ![g].made = made]
               /\ UNCHANGED <<stage, result, audit, disturbances, failedUntil>>
            \/ /\ Len(new.left) = 1
               /\ failedUntil' = [failedUntil EXCEPT ![new.household] = 0]
               /\ Conclude(g, "generated", made, 0)
      \/ insights' \in {insights, insights \cup {row}} /\ GiveUp(g, 1)
  BY DEF PersistInsight, RowOf
<1> HIDE DEF row
<1>5. IsFiniteSet(insights') /\ insights \subseteq insights' /\ RowInv'
  <2>1. insights' = insights \/ insights' = insights \cup {row}
    BY <1>4
  <2>2. IsFiniteSet(insights) /\ IsFiniteSet(insights \cup {row})
    BY <1>0, FS_AddElement DEF TypeInv
  <2>3. CASE insights' = insights
    BY <1>0, <1>1, <2>2, <2>3, RowsKept
  <2>4. CASE insights' = insights \cup {row}
    <3>1. IsFiniteSet(insights') /\ insights \subseteq insights'
      BY <2>2, <2>4
    <3> SUFFICES ASSUME NEW r \in insights'
                 PROVE  /\ r.household \in Households /\ r.community \in Communities
                        /\ r.key \in INSIGHT_KEYS /\ r.to \in DOMAIN History /\ r.from \in Nat
                        /\ r.from <= r.to /\ r.to <= at' /\ r.generated \in Nat
                        /\ History[r.to].now <= r.generated /\ Grounded(r)
      BY <3>1 DEF RowInv, Grounded
    <3> QED BY <1>0, <1>1, <1>3, <2>4 DEF RowInv
  <2> QED BY <2>1, <2>3, <2>4
<1>6. /\ IsFiniteSet(made) /\ Cardinality(made) \in Nat
      /\ Cardinality(made) <= Cardinality(new.made) + 1
      /\ Cardinality(new.made) \in Nat
      /\ \A r \in made : r.household = new.household
  <2>1. IsFiniteSet(new.made) /\ \A r \in new.made : r.household = new.household
    BY <1>1, <1>2 DEF Selected
  <2>2. IsFiniteSet(made) /\ Cardinality(made) =
          IF row \in new.made THEN Cardinality(new.made) ELSE Cardinality(new.made) + 1
    BY <2>1, FS_AddElement
  <2>3. Cardinality(new.made) \in Nat
    BY <2>1, FS_CardinalityType
  <2> QED BY <1>3, <2>1, <2>2, <2>3
<1>7. /\ new.left \in Seq(DOMAIN new.facts) /\ Len(new.left) \in Nat
      /\ Cardinality(new.made) + Len(new.left) <= 3
      /\ new.made \subseteq insights /\ new.generated \in Nat
      /\ History[new.to].now <= new.generated
  BY <1>1, <1>2 DEF Selected
<1>8. CASE GiveUp(g, 1)
  BY <1>1, <1>2, <1>5, <1>8, GiveUpKeeps
<1>9. CASE /\ insights' = insights \cup {row} /\ Len(new.left) = 1
           /\ failedUntil' = [failedUntil EXCEPT ![new.household] = 0]
           /\ Conclude(g, "generated", made, 0)
  <2>1. made \subseteq insights' /\ Cardinality(made) <= 6
    BY <1>6, <1>7, <1>9
  <2>2. (made = {}) = ("generated" \notin {"cached", "generated"})
    OBVIOUS
  <2>3. g \notin Passes => stage[g] = "open" /\ \A r \in made : granted[g] = {r.household}
    BY <1>2, <1>6
  <2>4. failedUntil' \in [Households -> 0..(Now + 5)]
    BY <1>0, <1>2, <1>9 DEF TypeInv
  <2> HIDE DEF made
  <2>5. Concluded(g, "generated", made)
    BY <1>0, <1>9, ConcludeConcludes
  <2> QED BY <1>1, <1>5, <2>1, <2>2, <2>3, <2>4, <2>5, ConcludeKeeps
<1>10. CASE /\ insights' = insights \cup {row} /\ Len(new.left) > 1
            /\ generation' = [generation EXCEPT ![g].left = Tail(@), ![g].made = made]
            /\ UNCHANGED <<stage, result, audit, disturbances, failedUntil>>
  <2> DEFINE next == [new EXCEPT !.left = Tail(@), !.made = made]
  <2> HIDE DEF made
  <2>1. generation' = [generation EXCEPT ![g] = next]
    BY <1>0, <1>10 DEF TypeInv
  <2>2. generation'[g] = next
    BY <1>0, <2>1 DEF TypeInv
  <2>3. /\ next.stage = "storing" /\ next.household = new.household /\ next.from = new.from
        /\ next.community = new.community /\ next.to = new.to /\ next.facts = new.facts
        /\ next.left = Tail(new.left) /\ next.made = made /\ next.generated = new.generated
        /\ Shape(next)
    BY <1>1, <1>2 DEF Shape
  <2> HIDE DEF next
  <2>4. /\ Tail(new.left) \in Seq(DOMAIN new.facts) /\ Tail(new.left) # <<>>
        /\ Len(Tail(new.left)) = Len(new.left) - 1
    <3> DEFINE left == new.left
               S == DOMAIN new.facts
    <3>1. left \in Seq(S) /\ Len(left) \in Nat /\ Len(left) > 1
      BY <1>7, <1>10
    <3> HIDE DEF left, S
    <3>2. Tail(left) \in Seq(S) /\ Len(Tail(left)) = Len(left) - 1
      BY <3>1
    <3>3. Tail(left) # <<>>
      <4>1. Len(<<>>) = 0
        OBVIOUS
      <4>2. Len(Tail(left)) # 0
        <5> DEFINE n == Len(left)
                   rest == Len(Tail(left))
        <5>1. n > 1 /\ n \in Nat /\ rest = n - 1
          BY <3>1, <3>2
        <5> HIDE DEF n, rest
        <5>2. rest # 0
          BY <5>1
        <5> QED BY <5>2 DEF rest
      <4> QED BY <4>1, <4>2, Zenon
    <3> QED BY <3>2, <3>3 DEF left, S
  <2>5. Shape(generation[g])'
    BY <2>2, <2>3 DEF Shape
  <2>6. Owned(g)'
    BY <1>0, <1>1, <1>2, <1>10, <2>2, <2>3 DEF Owned
  <2>7. Collected(generation[g])'
    BY <1>1, <1>2, <2>2, <2>3 DEF Collected
  <2>8. Selected(generation[g])'
    <3>1. made \subseteq insights'
      BY <1>7, <1>10 DEF made
    <3>2. Cardinality(made) + Len(Tail(new.left)) <= 3
      BY <1>6, <1>7, <2>4
    <3> QED BY <1>6, <1>7, <2>2, <2>3, <2>4, <3>1, <3>2 DEF Selected
  <2>9. queue' \in [Passes -> Seq(Households \X Communities)] /\ QueueInv'
        /\ failedUntil' \in [Households -> 0..(Now + 5)]
    BY <1>0, <1>1, <1>10 DEF TypeInv, IInv, QueueInv
  <2> QED BY <1>1, <1>5, <1>10, <2>1, <2>5, <2>6, <2>7, <2>8, <2>9, GenerationGoesOn
<1> QED BY <1>4, <1>8, <1>9, <1>10

\* A finite set of pairs with a number each is ordered by it: what the scheduler goes
\* through are pairs of the set.
LEMMA OrderedByNumber ==
  ASSUME NEW H \in SUBSET Nat, IsFiniteSet(H), NEW C, NEW f \in [H -> C]
  PROVE  LET rows == {<<h, f[h]>> : h \in H}
             ordered == Ordered(rows, LAMBDA a, b : a[1] < b[1])
         IN  /\ Len(ordered) \in Nat
             /\ ordered \in Seq(H \X C)
PROOF
<1> DEFINE rows == {<<h, f[h]>> : h \in H}
           R == {p \in rows \X rows : p[1][1] < p[2][1]}
           below(x) == {y \in rows : y[1] < x[1]}
           ordered == Ordered(rows, LAMBDA a, b : a[1] < b[1])
           n == Cardinality(rows)
<1>1. rows \subseteq H \X C
  OBVIOUS
<1>2. IsFiniteSet(rows)
  <2> DEFINE pair == [h \in H |-> <<h, f[h]>>]
  <2>1. pair \in Surjection(H, rows)
    BY DEF Surjection
  <2> HIDE DEF pair, rows
  <2> QED BY <2>1, FS_Surjection
<1>3. StrictOrder(rows, R)
  <2>1. \A x, y \in rows : x[1] \in Nat /\ (x[1] = y[1] => x = y)
    <3> SUFFICES ASSUME NEW x \in rows, NEW y \in rows
                 PROVE  x[1] \in Nat /\ (x[1] = y[1] => x = y)
      OBVIOUS
    <3>1. PICK h \in H : x = <<h, f[h]>>
      OBVIOUS
    <3>2. PICK i \in H : y = <<i, f[i]>>
      OBVIOUS
    <3> HIDE DEF rows
    <3> QED BY <3>1, <3>2
  <2> HIDE DEF rows
  <2>2. \A x, y \in rows : <<x, y>> \in R <=> x[1] < y[1]
    OBVIOUS
  <2> HIDE DEF R
  <2> QED BY <2>1, <2>2 DEF StrictOrder
<1>4. \A x \in rows : Before(rows, R, x) = below(x)
  BY DEF Before
<1>5. ordered = [i \in 1..n |-> CHOOSE x \in rows : Cardinality(below(x)) = i - 1]
  BY DEF Ordered
<1> HIDE DEF rows, R, below, ordered
<1>6. n \in Nat
  BY <1>2, FS_CardinalityType
<1>7. ASSUME NEW i \in 1..n
      PROVE  ordered[i] \in H \X C
  <2>1. i - 1 \in 0..(Cardinality(rows) - 1)
    BY <1>6
  <2>2. \E x \in rows : Cardinality(Before(rows, R, x)) = i - 1
    BY <1>2, <1>3, <2>1, RankTaken
  <2>3. \E x \in rows : Cardinality(below(x)) = i - 1
    BY <1>4, <2>2
  <2>4. ordered[i] = CHOOSE x \in rows : Cardinality(below(x)) = i - 1
    BY <1>5
  <2> QED BY <1>1, <2>3, <2>4
<1>8. DOMAIN ordered = 1..n /\ ordered = [i \in 1..n |-> ordered[i]]
  BY <1>5
<1>9. ordered \in [1..n -> H \X C]
  BY <1>7, <1>8
<1>10. ordered \in Seq(H \X C) /\ Len(ordered) \in Nat
  BY <1>6, <1>9
<1> QED BY <1>10 DEF ordered, rows

\* A pass goes through households of rows, each with a community.
LEMMA StartPassKeeps ==
  ASSUME IInv, NEW p \in Passes, StartPass(p)
  PROVE  IInv'
PROOF
<1> DEFINE due == {r \in insights : r.expires <= Now + 15}
           newest == {r \in due : \A s \in due : s.household = r.household
                                                   => s.generated <= r.generated}
           H == {r.household : r \in newest}
           communityOf(h) ==
             CHOOSE community \in {r.community : r \in {s \in newest : s.household = h}} : TRUE
           rows == {<<h, communityOf(h)>> : h \in H}
           ordered == Ordered(rows, LAMBDA a, b : a[1] < b[1])
           first == SubSeq(ordered, 1, Min({50, Len(ordered)}))
<1>0. TypeInv /\ RowInv /\ at \in DOMAIN History /\ at \in Int
  BY HistoryFacts DEF IInv, TypeInv
<1>1. /\ p \in load.passes /\ load' = [load EXCEPT !.passes = @ \ {p}]
      /\ queue' = [queue EXCEPT ![p] = first]
      /\ UNCHANGED <<at, stage, from, granted, result, generation, insights, failedUntil, audit>>
      /\ UNCHANGED disturbances
  BY DEF StartPass
<1>2. first \in Seq(Households \X Communities)
  <2>1. newest \subseteq insights /\ IsFiniteSet(newest)
    BY <1>0, FS_Subset DEF TypeInv
  <2>2. H \subseteq Households
    BY <1>0, <2>1 DEF RowInv
  <2>3. H \in SUBSET Nat
    BY <2>2, KnownAreHouseholds
  <2>4. IsFiniteSet(H)
    <3> DEFINE f == [r \in newest |-> r.household]
    <3>1. f \in Surjection(newest, H)
      BY DEF Surjection
    <3> HIDE DEF f, H, newest
    <3> QED BY <2>1, <3>1, FS_Surjection
  <2>5. \A h \in H : communityOf(h) \in Communities
    BY <1>0, <2>1 DEF RowInv
  <2> DEFINE g == [h \in H |-> communityOf(h)]
  <2>6. g \in [H -> Communities]
    BY <2>5
  <2>7. rows = {<<h, g[h]>> : h \in H}
    OBVIOUS
  <2> HIDE DEF g, H, rows
  <2>8. Len(ordered) \in Nat /\ ordered \in Seq(H \X Communities)
    BY <2>3, <2>4, <2>6, <2>7, OrderedByNumber
  <2> HIDE DEF ordered
  <2> DEFINE n == Min({50, Len(ordered)})
  <2>9. n \in {50, Len(ordered)} /\ n <= Len(ordered)
    BY <2>8, MinOfTwo
  <2> HIDE DEF n
  <2>10. n \in Nat
    BY <2>8, <2>9
  <2>11. SubSeq(ordered, 1, n) \in Seq(H \X Communities)
    BY <2>8, <2>9, <2>10
  <2>12. H \X Communities \subseteq Households \X Communities
    BY <2>2
  <2>13. first = SubSeq(ordered, 1, n)
    BY DEF n
  <2> HIDE DEF first
  <2> QED BY <2>11, <2>12, <2>13
<1> HIDE DEF first
<1>3. /\ load' \in [requests : SUBSET DOMAIN Requests, passes : SUBSET Passes, disturbances : Nat]
      /\ load'.passes = load.passes \ {p} /\ load'.disturbances = load.disturbances
  BY <1>0, <1>1 DEF TypeInv
<1>4. TypeInv'
  BY <1>0, <1>1, <1>2, <1>3 DEF TypeInv, Now
<1>5. GenerationInv'
  <2> SUFFICES ASSUME NEW g \in Makers
               PROVE  Shape(generation[g])' /\ Owned(g)' /\ Collected(generation[g])'
                        /\ Selected(generation[g])'
    BY DEF GenerationInv
  <2>1. insights \subseteq insights' /\ load'.passes \subseteq load.passes
    BY <1>1, <1>3
  <2> QED BY <1>0, <1>1, <2>1, GenerationKept DEF IInv
<1>6. RowInv'
  BY <1>0, <1>1, RowsKept
<1>7. QueueInv'
  BY <1>0, <1>1, <1>3 DEF IInv, QueueInv, TypeInv
<1>8. AuditInv' /\ ScopeInv'
  BY <1>1 DEF IInv, AuditInv, ScopeInv, Entitled, Successful
<1>9. AnswerInv'
  BY <1>1, AnswerKept DEF IInv, AnswerInv
<1> QED BY <1>4, <1>5, <1>6, <1>7, <1>8, <1>9 DEF IInv

\* A pass makes insights for the household that is next in its queue.
LEMMA TakeNextKeeps ==
  ASSUME IInv, NEW p \in Passes, TakeNext(p)
  PROVE  IInv'
PROOF
<1>0. /\ TypeInv /\ RowInv /\ at \in DOMAIN History /\ at \in Int
      /\ queue[p] \in Seq(Households \X Communities) /\ DOMAIN queue = Passes
      /\ DOMAIN generation = Makers
  BY HistoryFacts DEF IInv, TypeInv
<1>1. /\ queue[p] # <<>> /\ generation[p] = Idle /\ p \in Makers /\ p \notin load.passes
      /\ UNCHANGED <<at, stage, from, granted, result, insights, failedUntil, audit, load>>
  BY DEF TakeNext, Makers, IInv, QueueInv
<1>2. IsFiniteSet(insights') /\ RowInv' /\ failedUntil' \in [Households -> 0..(Now + 5)]
  BY <1>0, <1>1, RowsKept DEF TypeInv
<1>3. CASE /\ Generate(p, queue[p][1][1], queue[p][1][2])
           /\ queue' = [queue EXCEPT ![p] = Tail(@)] /\ UNCHANGED disturbances
  <2> DEFINE h == queue[p][1][1]
             community == queue[p][1][2]
             new == [Idle EXCEPT !.stage = "collecting", !.household = h,
                                 !.community = community, !.from = at]
  <2>1. h \in Households /\ community \in Communities
        /\ Tail(queue[p]) \in Seq(Households \X Communities)
    <3> DEFINE q == queue[p]
               S == Households \X Communities
    <3>1. q \in Seq(S) /\ q # <<>>
      BY <1>0, <1>1
    <3> HIDE DEF q, S
    <3>2. q[1] \in S /\ Tail(q) \in Seq(S)
      BY <3>1
    <3> QED BY <3>2 DEF q, S
  <2>2. generation' = [generation EXCEPT ![p] = new]
    BY <1>3 DEF Generate
  <2>3. generation'[p] = new
    BY <1>0, <1>1, <2>2
  <2>4. /\ new.stage = "collecting" /\ new.household = h /\ new.from = at
        /\ new.community = community /\ Shape(new)
    BY DEF Shape, Idle
  <2> HIDE DEF new, h, community
  <2>5. Shape(generation[p])' /\ Collected(generation[p])' /\ Selected(generation[p])'
    BY <2>3, <2>4 DEF Shape, Collected, Selected
  <2>6. Owned(p)'
    BY <1>0, <1>1, <2>1, <2>3, <2>4 DEF Owned
  <2>7. queue' \in [Passes -> Seq(Households \X Communities)]
    BY <1>0, <1>3, <2>1 DEF TypeInv
  <2>8. QueueInv'
    BY <1>0, <1>1, <1>3 DEF IInv, QueueInv
  <2> QED BY <1>1, <1>2, <1>3, <2>2, <2>5, <2>6, <2>7, <2>8, GenerationGoesOn
<1>4. CASE Disturb(1) /\ queue' = [queue EXCEPT ![p] = <<>>] /\ UNCHANGED generation
  <2>1. disturbances' \in 0..load.disturbances
    BY <1>0, <1>4, DisturbanceType
  <2>2. TypeInv'
    <3>1. queue' \in [Passes -> Seq(Households \X Communities)]
      BY <1>0, <1>4 DEF TypeInv
    <3> QED BY <1>0, <1>1, <1>4, <2>1, <3>1 DEF TypeInv, Now
  <2>3. GenerationInv'
    BY <1>0, <1>1, <1>4, GenerationKept DEF IInv, GenerationInv
  <2>4. QueueInv'
    BY <1>0, <1>1, <1>4 DEF IInv, QueueInv
  <2>5. AuditInv' /\ ScopeInv'
    BY <1>1 DEF IInv, AuditInv, ScopeInv, Entitled, Successful
  <2>6. AnswerInv'
    BY <1>1, AnswerKept DEF IInv, AnswerInv
  <2> QED BY <1>2, <2>2, <2>3, <2>4, <2>5, <2>6 DEF IInv
<1> QED BY <1>3, <1>4 DEF TakeNext

\* The database goes on: a later world is as good for every bound.
LEMMA AdvanceKeeps ==
  ASSUME IInv, Advance
  PROVE  IInv'
PROOF
<1>0. TypeInv /\ RowInv /\ at \in DOMAIN History /\ at \in Int
  BY HistoryFacts DEF IInv, TypeInv
<1>1. /\ at' = at + 1 /\ at' \in DOMAIN History
      /\ UNCHANGED <<stage, from, granted, result, generation, queue, insights, failedUntil,
                     audit, load, disturbances>>
  BY <1>0, HistoryFacts DEF Advance, generationVars
<1>2. Now \in Nat /\ Now' \in Nat /\ Now <= Now'
  BY <1>0, <1>1, HistoryFacts DEF Now
<1>3. TypeInv'
  <2>1. from' \in [DOMAIN Requests -> 0..at']
    BY <1>0, <1>1 DEF TypeInv
  <2>2. failedUntil' \in [Households -> 0..(Now' + 5)]
    BY <1>0, <1>1, <1>2 DEF TypeInv
  <2> QED BY <1>0, <1>1, <2>1, <2>2 DEF TypeInv
<1>4. GenerationInv'
  <2> SUFFICES ASSUME NEW g \in Makers
               PROVE  Shape(generation[g])' /\ Owned(g)' /\ Collected(generation[g])'
                        /\ Selected(generation[g])'
    BY DEF GenerationInv
  <2> QED BY <1>0, <1>1, GenerationKept DEF IInv
<1>5. RowInv'
  BY <1>0, <1>1, RowsKept
<1>6. QueueInv'
  BY <1>1 DEF IInv, QueueInv
<1>7. AuditInv'
  BY <1>0, <1>1 DEF IInv, AuditInv
<1>8. AnswerInv'
  BY <1>1, AnswerKept DEF IInv, AnswerInv
<1>9. ScopeInv'
  BY <1>1 DEF IInv, ScopeInv, Entitled, Successful
<1> QED BY <1>3, <1>4, <1>5, <1>6, <1>7, <1>8, <1>9 DEF IInv

\* Idle is a generation that owns nothing.
LEMMA IdleIsSound ==
  Shape(Idle) /\ Collected(Idle) /\ Idle.stage = "idle"
    /\ Idle.left = <<>> /\ Idle.made = {}
BY DEF Shape, Collected, Idle

\* A restart drops the map, the open requests and the passes.
LEMMA RestartKeeps ==
  ASSUME IInv, Restart
  PROVE  IInv'
PROOF
<1>0. TypeInv /\ RowInv /\ at \in DOMAIN History /\ at \in Int /\ Now \in Nat
  BY HistoryFacts DEF IInv, TypeInv, Now
<1>1. /\ stage' = [c \in DOMAIN Requests |-> IF stage[c] = "open" THEN "lost" ELSE stage[c]]
      /\ generation' = [g \in Makers |-> Idle] /\ queue' = [p \in Passes |-> <<>>]
      /\ failedUntil' = [h \in Households |-> 0]
      /\ UNCHANGED <<at, from, granted, result, insights, audit, load>>
  BY DEF Restart
<1>2. disturbances' \in 0..load.disturbances
  BY <1>0, DisturbanceType DEF Restart
<1>3. \A c \in DOMAIN Requests :
        /\ stage'[c] # "open"
        /\ (stage'[c] = "answered") = (stage[c] = "answered")
        /\ stage[c] # "open" => stage'[c] = stage[c]
  BY <1>1
<1>4. TypeInv'
  <2>1. stage' \in [DOMAIN Requests -> {"unsent", "open", "answered", "lost"}]
    BY <1>0, <1>1 DEF TypeInv
  <2>2. queue' \in [Passes -> Seq(Households \X Communities)]
    BY <1>1
  <2>3. failedUntil' \in [Households -> 0..(Now + 5)]
    BY <1>0, <1>1
  <2>4. generation' = [g \in Makers |-> generation'[g]]
    BY <1>1
  <2> QED BY <1>0, <1>1, <1>2, <2>1, <2>2, <2>3, <2>4 DEF TypeInv, Now
<1>5. GenerationInv'
  <2> SUFFICES ASSUME NEW g \in Makers
               PROVE  Shape(generation[g])' /\ Owned(g)' /\ Collected(generation[g])'
                        /\ Selected(generation[g])'
    BY DEF GenerationInv
  <2>1. generation'[g] = Idle
    BY <1>1
  <2> QED BY <2>1, IdleIsSound DEF Shape, Owned, Collected, Selected
<1>6. RowInv'
  BY <1>0, <1>1, RowsKept
<1>7. QueueInv'
  BY <1>1 DEF QueueInv
<1>8. AuditInv'
  BY <1>1, <1>3 DEF IInv, AuditInv
<1>9. AnswerInv'
  BY <1>1, <1>3, AnswerKept DEF IInv, AnswerInv
<1>10. ScopeInv'
  <2> SUFFICES ASSUME NEW d \in DOMAIN Requests
               PROVE  /\ Cardinality(granted'[d]) <= 1
                      /\ Route(d) \in CustomerRoutes /\ (stage'[d] = "open" \/ Successful(d)')
                           => Entitled(d)'
    BY DEF ScopeInv
  <2>1. Successful(d)' => Successful(d)
    BY <1>1, <1>3 DEF Successful
  <2> QED BY <1>1, <1>3, <2>1 DEF IInv, ScopeInv, Entitled
<1> QED BY <1>4, <1>5, <1>6, <1>7, <1>8, <1>9, <1>10 DEF IInv

\* The initial state: no request has been sent and no insight made.
LEMMA InitSatisfies ==
  Init => IInv
PROOF
<1> SUFFICES ASSUME Init PROVE IInv
  OBVIOUS
<1>0. 1 \in DOMAIN History /\ History[1].now \in Nat /\ at = 1
  BY HistoryFacts DEF Init
<1>1. /\ stage = [c \in DOMAIN Requests |-> "unsent"]
      /\ from = [c \in DOMAIN Requests |-> 0]
      /\ granted = [c \in DOMAIN Requests |-> {}]
      /\ result = [c \in DOMAIN Requests |-> NoResult]
      /\ generation = [g \in Makers |-> Idle] /\ queue = [p \in Passes |-> <<>>]
      /\ insights = {} /\ failedUntil = [h \in Households |-> 0] /\ audit = {}
      /\ load \in Loads /\ disturbances = 0
  BY DEF Init
<1>2. IsFiniteSet({}) /\ Cardinality({}) = 0
  BY FS_EmptySet
<1>3. TypeInv
  <2>1. load \in [requests : SUBSET DOMAIN Requests, passes : SUBSET Passes, disturbances : Nat]
    BY <1>1, PortalAssumption
  <2>2. disturbances \in 0..load.disturbances
    BY <1>1, <2>1
  <2>3. failedUntil \in [Households -> 0..(Now + 5)]
    BY <1>0, <1>1 DEF Now
  <2>4. queue \in [Passes -> Seq(Households \X Communities)]
    BY <1>1
  <2>5. from \in [DOMAIN Requests -> 0..at]
    BY <1>0, <1>1
  <2> QED BY <1>0, <1>1, <1>2, <2>1, <2>2, <2>3, <2>4, <2>5 DEF TypeInv
<1>4. GenerationInv
  <2> SUFFICES ASSUME NEW g \in Makers
               PROVE  Shape(generation[g]) /\ Owned(g) /\ Collected(generation[g])
                        /\ Selected(generation[g])
    BY DEF GenerationInv
  <2>1. generation[g] = Idle
    BY <1>1
  <2> QED BY <2>1, IdleIsSound DEF Shape, Owned, Collected, Selected
<1>5. RowInv /\ AuditInv
  BY <1>1 DEF RowInv, AuditInv
<1>6. QueueInv
  BY <1>1 DEF QueueInv
<1>7. AnswerInv
  BY <1>1 DEF AnswerInv, Successful, NoResult
<1>8. ScopeInv
  BY <1>1, <1>2 DEF ScopeInv, Successful
<1> QED BY <1>3, <1>4, <1>5, <1>6, <1>7, <1>8 DEF IInv

\* Every step of the specification is one of the steps above.
LEMMA StepPreserves == IInv /\ [Next]_vars => IInv'
PROOF
<1> SUFFICES ASSUME IInv, [Next]_vars
             PROVE  IInv'
  OBVIOUS
<1>1. CASE Advance
  BY <1>1, AdvanceKeeps
<1>2. CASE Restart
  BY <1>2, RestartKeeps
<1>3. ASSUME NEW c \in DOMAIN Requests,
             \/ ReadHouseholds(c) \/ ReadSummary(c) \/ ReadAnalytics(c) \/ ReadDevices(c)
             \/ ReadFlexibility(c) \/ ReadCommunity(c) \/ ReadReports(c) \/ ExportReports(c)
      PROVE  IInv'
  <2>1. PICK route \in {"households", "summary", "analytics", "devices", "flexibility",
                        "community", "reports", "reports.csv"} :
          \E n, reason : Read(c, route, n, reason)
    BY <1>3 DEF ReadHouseholds, ReadSummary, ReadAnalytics, ReadDevices, ReadFlexibility,
                ReadCommunity, ReadReports, ExportReports
  <2>2. route \notin InsightRoutes
    BY DEF InsightRoutes
  <2> QED BY <2>1, <2>2, ReadKeeps
<1>4. ASSUME NEW c \in DOMAIN Requests,
             \/ Arrive(c) \/ ReadDeviceDetail(c) \/ ReadAudit(c) \/ ReadStatus(c)
             \/ ReadPlatformDevices(c) \/ LookUp(c)
      PROVE  IInv'
  BY <1>4, ArriveKeeps, ReadDeviceDetailKeeps, ReadAuditKeeps, ReadStatusKeeps, LookUpKeeps
<1>5. ASSUME NEW g \in Makers, CollectFacts(g) \/ AskModel(g) \/ PersistInsight(g)
      PROVE  IInv'
  BY <1>5, CollectFactsKeeps, AskModelKeeps, PersistInsightKeeps
<1>6. ASSUME NEW p \in Passes, StartPass(p) \/ TakeNext(p)
      PROVE  IInv'
  BY <1>6, StartPassKeeps, TakeNextKeeps
<1>7. CASE UNCHANGED vars
  <2>1. UNCHANGED <<at, stage, from, granted, result, generation, queue, insights, failedUntil,
                    audit, load, disturbances>>
    BY <1>7 DEF vars
  <2>2. TypeInv' /\ QueueInv' /\ AuditInv'
    BY <2>1 DEF IInv, TypeInv, QueueInv, AuditInv, Now
  <2>3. GenerationInv' /\ RowInv'
    BY <2>1 DEF IInv, GenerationInv, Shape, Owned, Collected, Selected, RowInv, Grounded
  <2>4. AnswerInv' /\ ScopeInv'
    BY <2>1 DEF IInv, AnswerInv, Successful, Shown, ScopeInv, Entitled
  <2> QED BY <2>2, <2>3, <2>4 DEF IInv
<1> QED BY <1>1, <1>2, <1>3, <1>4, <1>5, <1>6, <1>7 DEF Next

-----------------------------------------------------------------------------
(* What the invariant says of the run's properties                         *)

\* The types are conjuncts of the invariant.
LEMMA TypeFollows == IInv => TypeOK
PROOF
<1> SUFFICES ASSUME IInv
             PROVE  TypeOK
  OBVIOUS
<1>1. \A c \in DOMAIN Requests :
        /\ granted[c] \subseteq Households /\ Cardinality(granted[c]) <= 1
        /\ (stage[c] = "answered") = (result[c].status # 0)
  BY DEF IInv, TypeInv, ScopeInv, AnswerInv
<1>2. \A g \in Makers :
        /\ generation[g].stage \in {"idle", "collecting", "asking", "storing"}
        /\ (generation[g].stage = "storing") = (generation[g].left # <<>>)
        /\ g \notin Passes /\ generation[g] # Idle => stage[g] = "open"
        /\ g \in Passes /\ generation[g] # Idle => g \notin load.passes
  BY DEF IInv, GenerationInv, Shape, Owned, Selected
<1>3. \A r \in insights : r.key \in INSIGHT_KEYS /\ r.from <= r.to /\ r.to <= at
  BY DEF IInv, RowInv
<1>4. \A a \in audit : a.at <= at /\ stage[a.correlation] = "answered"
  BY DEF IInv, AuditInv
<1> QED BY <1>1, <1>2, <1>3, <1>4 DEF TypeOK, IInv, TypeInv

\* RowInv is about the stored insights, AnswerInv about the shown ones.
LEMMA GroundingFollows == IInv => InsightsAreGrounded
PROOF
<1> SUFFICES ASSUME IInv
             PROVE  InsightsAreGrounded
  OBVIOUS
<1>1. \A r \in insights : History[r.to].now <= r.generated /\ Grounded(r)
  BY DEF IInv, RowInv
<1>2. \A c \in Answered(InsightRoutes) : Shown(c)
  BY DEF IInv, AnswerInv, Answered, Successful
<1> QED BY <1>1, <1>2 DEF InsightsAreGrounded, Grounded, Shown

\* The one household granted is the one in scope.
LEMMA ScopeFollows == IInv => \A c \in Answered(CustomerRoutes) : GrantedInScope(c)
PROOF
<1> SUFFICES ASSUME IInv, NEW c \in Answered(CustomerRoutes)
             PROVE  GrantedInScope(c)
  OBVIOUS
<1>1. Entitled(c)
  BY DEF IInv, ScopeInv, Answered, Successful
<1>2. PICK h \in Households : /\ granted[c] = {h}
                              /\ Scoped(from[c], Context(c), Requests[c].requested, h)
  BY <1>1 DEF Entitled
<1>3. Household(c) = h
  BY <1>2 DEF Household
<1> QED BY <1>2, <1>3 DEF GrantedInScope, Scoped

-----------------------------------------------------------------------------
(* What the pages have read                                                *)

\* How many worlds a page is made of; the gateway's audit shows its own rows.
QueriesOf(route) ==
  IF route = "platform_status" THEN 12
  ELSE IF route = "community" THEN 8
  ELSE IF route \in {"summary", "device"} THEN 5
  ELSE IF route \in {"devices", "flexibility"} THEN 4
  ELSE IF route \in {"reports", "reports.csv"} THEN 3
  ELSE IF route = "analytics" THEN 2
  ELSE IF route \in {"households", "platform_devices"} THEN 1
  ELSE 0

\* Each of them was a world of the past, not before that of the query before it; what goes
\* by the clock does so when its queries are done.
Met(c, answer) ==
  LET m == answer.moments IN
  \A k \in 1..QueriesOf(Route(c)) :
    /\ DOMAIN m = 1..QueriesOf(Route(c))
    /\ m[k] \in DOMAIN History /\ m[k] <= at
    /\ \A l \in 1..k : m[l] <= m[k]
    /\ Route(c) \in {"summary", "devices"} =>
         answer.clock \in DOMAIN History /\ m[k] <= answer.clock

PageInv(c) ==
  /\ stage[c] = "open" => from[c] \in DOMAIN History
  /\ Successful(c) => Met(c, result[c])
  /\ Route(c) = "households" /\ (stage[c] = "open" \/ Successful(c)) =>
       ContextErrors(Context(c)) = {}

PagesInv == IsFiniteSet(audit) /\ \A c \in DOMAIN Requests : PageInv(c)

\* The number of queries is one, and insights are not made of them.
LEMMA QueriesAreCounted ==
  \A route : /\ QueriesOf(route) \in Nat
             /\ route \in InsightRoutes => QueriesOf(route) = 0
BY DEF QueriesOf, InsightRoutes

\* A query meets a world between the arrival of its request and now, and none goes back.
LEMMA MomentsAreMet ==
  ASSUME TypeInv, NEW c \in DOMAIN Requests, from[c] \in DOMAIN History,
         NEW m \in Moments(c, QueriesOf(Route(c))), NEW answer, answer.moments = m,
         Route(c) \in {"summary", "devices"} => answer.clock = at
  PROVE  Met(c, answer)
PROOF
<1> DEFINE n == QueriesOf(Route(c))
<1>1. /\ DOMAIN History = 1..Len(History) /\ Len(History) \in Nat
      /\ at \in DOMAIN History /\ at \in Nat /\ from[c] \in Nat /\ 1 <= from[c] /\ from[c] <= at
      /\ n \in Nat
  BY HistoryFacts, QueriesAreCounted DEF TypeInv
<1> DEFINE I == from[c]..(at - 1)
<1>2. PICK broken \in [I -> 0..n] :
        m = [k \in 1..n |-> from[c] + Cardinality({i \in I : broken[i] < k})]
  BY DEF Moments
<1>3. IsFiniteSet(I) /\ Cardinality(I) <= at - from[c]
  <2>1. from[c] \in Int /\ at - 1 \in Int
    BY <1>1
  <2>2. /\ IsFiniteSet(from[c]..(at - 1))
        /\ Cardinality(from[c]..(at - 1))
             = IF from[c] > at - 1 THEN 0 ELSE at - 1 - from[c] + 1
    BY <2>1, FS_Interval
  <2> QED BY <1>1, <2>2
<1> DEFINE gone(k) == {i \in I : broken[i] < k}
<1>4. ASSUME NEW k \in 1..n
      PROVE  /\ m[k] = from[c] + Cardinality(gone(k))
             /\ m[k] \in DOMAIN History /\ m[k] <= at
             /\ IsFiniteSet(gone(k)) /\ Cardinality(gone(k)) \in Nat
  <2>1. gone(k) \in SUBSET I
    OBVIOUS
  <2>2. m[k] = from[c] + Cardinality(gone(k))
    BY <1>2
  <2> HIDE DEF gone, I
  <2>3. /\ IsFiniteSet(gone(k)) /\ Cardinality(gone(k)) \in Nat
        /\ Cardinality(gone(k)) <= Cardinality(I) /\ Cardinality(I) \in Nat
    BY <1>3, <2>1, FS_Subset, FS_CardinalityType
  <2> QED BY <1>1, <1>3, <2>2, <2>3
<1>5. ASSUME NEW k \in 1..n, NEW l \in 1..k
      PROVE  m[l] <= m[k]
  <2>1. l \in 1..n
    BY <1>1
  <2>2. gone(l) \in SUBSET gone(k)
    <3>1. \A i \in I : broken[i] \in Int
      BY <1>1
    <3> QED BY <1>1, <3>1
  <2> HIDE DEF gone
  <2>3. Cardinality(gone(l)) <= Cardinality(gone(k))
    BY <1>4, <2>2, FS_Subset
  <2> QED BY <1>1, <1>4, <2>1, <2>3
<1>6. DOMAIN m = 1..n
  BY <1>2
<1> QED BY <1>1, <1>4, <1>5, <1>6 DEF Met

\* What an answer was made of remains.
LEMMA MetKept ==
  ASSUME IInv, IInv', at <= at', NEW c \in DOMAIN Requests, NEW answer, Met(c, answer),
         NEW k \in 1..QueriesOf(Route(c))
  PROVE  answer.moments[k] <= at'
PROOF
<1>1. at \in Int /\ at' \in Int /\ DOMAIN History \subseteq Int
  BY HistoryFacts DEF IInv, TypeInv
<1> QED BY <1>1 DEF Met

\* What does not answer leaves the pages as they are.
LEMMA PagesRest ==
  ASSUME IInv, PagesInv, IInv', at <= at', from' = from, audit' = audit,
         \A c \in DOMAIN Requests :
           /\ result'[c] = result[c]
           /\ stage'[c] = "answered" => stage[c] = "answered"
           /\ stage'[c] = "open" => stage[c] = "open"
  PROVE  PagesInv'
PROOF
<1> SUFFICES ASSUME NEW c \in DOMAIN Requests
             PROVE  PageInv(c)'
  BY DEF PagesInv
<1>1. PageInv(c)
  BY DEF PagesInv
<1>2. Successful(c)' => Successful(c)
  BY DEF Successful
<1>3. Met(c, result[c]) => Met(c, result[c])'
  BY MetKept DEF Met
<1> QED BY <1>1, <1>2, <1>3 DEF PageInv

\* An answer has met its worlds, or tells nothing.
LEMMA PagesAnswered ==
  ASSUME IInv, PagesInv, NEW c \in DOMAIN Requests, NEW answer, Answers(c, answer), at' = at,
         \A d \in DOMAIN Requests \ {c} : from'[d] = from[d],
         answer.status \in {200, 202} => stage[c] = "open" /\ Met(c, answer)
  PROVE  PagesInv'
PROOF
<1>0. IsFiniteSet(audit')
  BY DEF PagesInv, Answers
<1> SUFFICES ASSUME NEW d \in DOMAIN Requests
             PROVE  PageInv(d)'
  BY <1>0 DEF PagesInv
<1>1. /\ DOMAIN stage = DOMAIN Requests /\ DOMAIN result = DOMAIN Requests
      /\ stage' = [stage EXCEPT ![c] = "answered"] /\ result' = [result EXCEPT ![c] = answer]
  BY DEF IInv, TypeInv, Answers
<1>2. CASE d = c
  <2>1. stage'[d] = "answered" /\ result'[d] = answer
    BY <1>1, <1>2
  <2>2. Met(c, answer) => Met(c, result[c])'
    BY <1>2, <2>1 DEF Met
  <2> QED BY <1>2, <2>1, <2>2 DEF Successful, PagesInv, PageInv
<1>3. CASE d # c
  <2>1. stage'[d] = stage[d] /\ result'[d] = result[d] /\ from'[d] = from[d]
    BY <1>1, <1>3
  <2>2. Met(d, result[d]) => Met(d, result[d])'
    BY <2>1 DEF Met
  <2> QED BY <2>1, <2>2 DEF Successful, PagesInv, PageInv
<1> QED BY <1>2, <1>3

\* The pages of queries that are done one after another.
LEMMA PagesRead ==
  ASSUME IInv, PagesInv, NEW c \in DOMAIN Requests, stage[c] = "open",
         NEW m \in Moments(c, QueriesOf(Route(c))), NEW answer, answer.moments = m,
         Route(c) \in {"summary", "devices"} => answer.clock = at,
         Answers(c, answer), at' = at, from' = from
  PROVE  PagesInv'
PROOF
<1>1. from[c] \in DOMAIN History
  BY DEF PagesInv, PageInv
<1>2. Met(c, answer)
  BY <1>1, MomentsAreMet DEF IInv
<1> QED BY <1>2, PagesAnswered

\* So are the customer pages, with the time when they are done.
LEMMA PageMade ==
  ASSUME IInv, PagesInv, NEW c \in DOMAIN Requests, stage[c] = "open",
         NEW m \in Moments(c, QueriesOf(Route(c))), NEW reason,
         Respond(c, [NoResult EXCEPT !.status = 200, !.code = "ok", !.moments = m,
                                     !.clock = at], reason, 0),
         at' = at, from' = from
  PROVE  PagesInv'
PROOF
<1> DEFINE answer == [NoResult EXCEPT !.status = 200, !.code = "ok", !.moments = m,
                                      !.clock = at]
<1>1. Answers(c, answer)
  BY RespondAnswers DEF IInv
<1>2. answer.moments = m /\ answer.clock = at
  BY DEF NoResult
<1> HIDE DEF answer
<1> QED BY <1>1, <1>2, PagesRead

\* A refusal tells nothing.
LEMMA PagesRefused ==
  ASSUME IInv, PagesInv, NEW c \in DOMAIN Requests, NEW error, NEW failed \in Nat,
         error.status \notin {200, 202}, Refuse(c, error, failed), at' = at,
         \A d \in DOMAIN Requests \ {c} : from'[d] = from[d]
  PROVE  PagesInv'
PROOF
<1>1. PICK answer : Answers(c, answer) /\ answer.status = error.status
  BY RefusalAnswers DEF IInv
<1> QED BY <1>1, PagesAnswered

\* Where nothing is looked at, any answer will do.
LEMMA PagesElsewhere ==
  ASSUME IInv, PagesInv, NEW c \in DOMAIN Requests, QueriesOf(Route(c)) = 0, stage[c] = "open",
         NEW answer, Answers(c, answer), at' = at, from' = from
  PROVE  PagesInv'
PROOF
<1>1. Met(c, answer)
  BY DEF Met
<1> QED BY <1>1, PagesAnswered

\* Who makes insights answers with them, gives up, or says nothing yet.
LEMMA PagesGenerate ==
  ASSUME IInv, PagesInv, IInv',
         \/ \E c \in DOMAIN Requests : LookUp(c)
         \/ \E g \in Makers : CollectFacts(g) \/ AskModel(g) \/ PersistInsight(g)
  PROVE  PagesInv'
PROOF
<1>0. TypeInv /\ at \in Int
  BY HistoryFacts DEF IInv, TypeInv
<1>1. PICK g \in Makers :
        /\ at' = at /\ from' = from
        /\ g \notin Passes => stage[g] = "open"
        /\ \/ UNCHANGED <<stage, result, audit>>
           \/ \E code, shown : \E failed \in Nat : Conclude(g, code, shown, failed)
           \/ g \notin Passes /\ Refuse(g, Unavailable, 1)
  <2>1. ASSUME NEW c \in DOMAIN Requests, LookUp(c)
        PROVE  /\ c \in Makers /\ at' = at /\ from' = from /\ stage[c] = "open" /\ c \notin Passes
               /\ \/ UNCHANGED <<stage, result, audit>>
                  \/ \E code, shown : \E failed \in Nat : Conclude(c, code, shown, failed)
                  \/ Refuse(c, Unavailable, 1)
    BY <2>1, PortalAssumption DEF LookUp, Makers
  <2>2. ASSUME NEW g \in Makers, CollectFacts(g) \/ AskModel(g) \/ PersistInsight(g)
        PROVE  /\ at' = at /\ from' = from /\ (g \notin Passes => stage[g] = "open")
               /\ \/ UNCHANGED <<stage, result, audit>>
                  \/ \E code, shown : \E failed \in Nat : Conclude(g, code, shown, failed)
    <3>1. at' = at /\ from' = from /\ generation[g].stage \in {"collecting", "asking", "storing"}
      BY <2>2 DEF CollectFacts, AskModel, PersistInsight
    <3>2. g \notin Passes => stage[g] = "open"
      BY <3>1 DEF IInv, GenerationInv, Owned, Idle
    <3>3. \/ UNCHANGED <<stage, result, audit>>
          \/ \E code, shown : \E failed \in Nat : Conclude(g, code, shown, failed)
      <4>1. CASE CollectFacts(g)
        BY <4>1 DEF CollectFacts, GiveUp
      <4>2. CASE AskModel(g)
        BY <4>2 DEF AskModel, GiveUp
      <4>3. CASE PersistInsight(g)
        BY <4>3 DEF PersistInsight, GiveUp
      <4> QED BY <2>2, <4>1, <4>2, <4>3
    <3> QED BY <3>1, <3>2, <3>3
  <2> QED BY <2>1, <2>2
<1>2. g \notin Passes => g \in DOMAIN Requests /\ Route(g) \in InsightRoutes
  BY DEF Makers
<1>3. CASE UNCHANGED <<stage, result, audit>>
  BY <1>0, <1>1, <1>3, PagesRest
<1>4. ASSUME NEW code, NEW shown, NEW failed \in Nat, Conclude(g, code, shown, failed)
      PROVE  PagesInv'
  <2>1. Concluded(g, code, shown)
    BY <1>0, <1>4, ConcludeConcludes
  <2>2. CASE g \in Passes
    <3>1. UNCHANGED <<stage, result, audit>>
      BY <2>1, <2>2 DEF Concluded
    <3> QED BY <1>0, <1>1, <3>1, PagesRest
  <2>3. CASE g \notin Passes
    <3>1. PICK answer : Answers(g, answer)
      BY <2>1, <2>3 DEF Concluded
    <3> QED BY <1>1, <1>2, <2>3, <3>1, QueriesAreCounted, PagesElsewhere
  <2> QED BY <2>2, <2>3
<1>5. CASE g \notin Passes /\ Refuse(g, Unavailable, 1)
  BY <1>1, <1>2, <1>5, PagesRefused DEF Unavailable, CustomerAccessError
<1> QED BY <1>1, <1>3, <1>4, <1>5

\* A request for the list of households has been told who asks.
LEMMA PagesArrive ==
  ASSUME IInv, PagesInv, NEW c \in DOMAIN Requests, Arrive(c)
  PROVE  PagesInv'
PROOF
<1>1. at' = at /\ stage[c] = "unsent" /\ from' = [from EXCEPT ![c] = at]
  BY DEF Arrive
<1>5. \A d \in DOMAIN Requests \ {c} : from'[d] = from[d]
  BY <1>1 DEF IInv, TypeInv
<1>2. ASSUME NEW scope \in Scopes(c), NEW e \in scope.error, Refuse(c, e, 0)
      PROVE  PagesInv'
  <2>1. e.status \in {401, 403, 404}
    BY ScopeOfRequest DEF IInv
  <2> QED BY <1>1, <1>2, <1>5, <2>1, PagesRefused
<1>3. CASE Refuse(c, Unavailable, 1)
  BY <1>1, <1>3, <1>5, PagesRefused DEF Unavailable, CustomerAccessError
<1>4. ASSUME NEW scope \in Scopes(c), scope.error = {}, stage' = [stage EXCEPT ![c] = "open"],
             UNCHANGED <<result, audit>>
      PROVE  PagesInv'
  <2> SUFFICES ASSUME NEW d \in DOMAIN Requests
               PROVE  PageInv(d)'
    BY <1>4 DEF PagesInv
  <2>1. /\ DOMAIN stage = DOMAIN Requests /\ DOMAIN from = DOMAIN Requests
        /\ at \in DOMAIN History
    BY DEF IInv, TypeInv
  <2>2. Met(d, result[d]) => Met(d, result[d])'
    BY <1>1, <1>4 DEF Met
  <2>3. CASE d = c
    <3>1. ~Successful(d)' /\ from'[d] = at
      BY <1>1, <1>4, <2>1, <2>3 DEF Successful
    <3>2. Route(c) = "households" => ContextErrors(Context(c)) = {}
      BY <1>4 DEF Scopes, PlatformRoutes, Refused
    <3> QED BY <2>1, <2>3, <3>1, <3>2 DEF PageInv
  <2>4. CASE d # c
    <3>1. stage'[d] = stage[d] /\ result'[d] = result[d] /\ from'[d] = from[d]
      BY <1>4, <1>5, <2>1, <2>4
    <3> QED BY <2>2, <3>1 DEF Successful, PagesInv, PageInv
  <2> QED BY <2>3, <2>4
<1> QED BY <1>2, <1>3, <1>4 DEF Arrive

\* No step makes a page of worlds that it has not met.
LEMMA PagesStep == IInv /\ PagesInv /\ [Next]_vars => PagesInv'
PROOF
<1> SUFFICES ASSUME IInv, PagesInv, [Next]_vars
             PROVE  PagesInv'
  OBVIOUS
<1>0. IInv' /\ at \in Int
  BY StepPreserves, HistoryFacts DEF IInv, TypeInv
<1>1. CASE \/ Advance \/ Restart \/ (\E p \in Passes : StartPass(p) \/ TakeNext(p))
           \/ UNCHANGED vars
  <2>1. result' = result /\ at <= at' /\ from' = from /\ audit' = audit
    <3>1. CASE Advance
      BY <1>0, <3>1 DEF Advance
    <3>2. CASE Restart
      BY <1>0, <3>2 DEF Restart
    <3>3. CASE \E p \in Passes : StartPass(p) \/ TakeNext(p)
      <4>1. UNCHANGED <<at, result, from, audit>>
        BY <3>3 DEF StartPass, TakeNext
      <4> QED BY <1>0, <4>1
    <3>4. CASE UNCHANGED vars
      BY <1>0, <3>4 DEF vars
    <3> QED BY <1>1, <3>1, <3>2, <3>3, <3>4
  <2>2. \A c \in DOMAIN Requests : /\ stage'[c] = "answered" => stage[c] = "answered"
                                   /\ stage'[c] = "open" => stage[c] = "open"
    <3>1. CASE Restart
      BY <3>1 DEF Restart
    <3>2. CASE ~Restart
      BY <1>1, <3>2 DEF Advance, StartPass, TakeNext, vars
    <3> QED BY <3>1, <3>2
  <2> QED BY <1>0, <2>1, <2>2, PagesRest
<1>2. ASSUME NEW c \in DOMAIN Requests, Arrive(c)
      PROVE  PagesInv'
  BY <1>2, PagesArrive
<1>3. ASSUME NEW c \in DOMAIN Requests,
             \/ ReadHouseholds(c) \/ ReadSummary(c) \/ ReadAnalytics(c) \/ ReadDevices(c)
             \/ ReadFlexibility(c) \/ ReadCommunity(c) \/ ReadReports(c) \/ ExportReports(c)
      PROVE  PagesInv'
  <2>1. \E route, reason : Read(c, route, QueriesOf(route), reason)
    <3>1. /\ QueriesOf("households") = 1 /\ QueriesOf("summary") = 5
          /\ QueriesOf("analytics") = 2 /\ QueriesOf("devices") = 4
          /\ QueriesOf("flexibility") = 4 /\ QueriesOf("community") = 8
          /\ QueriesOf("reports") = 3 /\ QueriesOf("reports.csv") = 3
      BY DEF QueriesOf
    <3> QED BY <1>3, <3>1 DEF ReadHouseholds, ReadSummary, ReadAnalytics, ReadDevices,
                              ReadFlexibility, ReadCommunity, ReadReports, ExportReports
  <2>0. PICK route, reason : Read(c, route, QueriesOf(route), reason)
    BY <2>1
  <2>2. stage[c] = "open" /\ Route(c) = route /\ at' = at /\ from' = from
    BY <2>0 DEF Read
  <2>3. ASSUME NEW m \in Moments(c, QueriesOf(route)),
               Respond(c, [NoResult EXCEPT !.status = 200, !.code = "ok", !.moments = m,
                                           !.clock = at], reason, 0)
        PROVE  PagesInv'
    BY <2>2, <2>3, PageMade
  <2>4. CASE Refuse(c, Unavailable, 1)
    BY <2>2, <2>4, PagesRefused DEF Unavailable, CustomerAccessError
  <2> QED BY <2>0, <2>3, <2>4 DEF Read
<1>4. ASSUME NEW c \in DOMAIN Requests, ReadDeviceDetail(c)
      PROVE  PagesInv'
  <2>1. stage[c] = "open" /\ QueriesOf(Route(c)) = 5 /\ at' = at /\ from' = from
    <3>1. stage[c] = "open" /\ Route(c) = "device" /\ at' = at /\ from' = from
      BY <1>4 DEF ReadDeviceDetail
    <3>2. QueriesOf("device") = 5
      BY DEF QueriesOf
    <3> QED BY <3>1, <3>2
  <2>2. ASSUME NEW m \in Moments(c, 5),
               Respond(c, [NoResult EXCEPT !.status = 200, !.code = "ok", !.moments = m,
                                           !.clock = at], "customer_device_detail_read", 0)
        PROVE  PagesInv'
    BY <2>1, <2>2, PageMade
  <2>3. CASE Refuse(c, DeviceNotFound, 0)
    BY <2>1, <2>3, PagesRefused DEF DeviceNotFound, CustomerAccessError
  <2>4. CASE Refuse(c, Unavailable, 1)
    BY <2>1, <2>4, PagesRefused DEF Unavailable, CustomerAccessError
  <2> QED BY <1>4, <2>2, <2>3, <2>4 DEF ReadDeviceDetail
<1>5. ASSUME NEW c \in DOMAIN Requests, ReadAudit(c)
      PROVE  PagesInv'
  <2>1. stage[c] = "open" /\ QueriesOf(Route(c)) = 0 /\ at' = at /\ from' = from
    BY <1>5 DEF ReadAudit, QueriesOf
  <2>2. \E answer : Answers(c, answer)
    <3>1. CASE \E m : Respond(c, [NoResult EXCEPT !.status = 200, !.code = "ok",
                                                  !.moments = m], "security_audit_read", 0)
      BY <3>1, RespondAnswers DEF IInv
    <3>2. CASE ~\E m : Respond(c, [NoResult EXCEPT !.status = 200, !.code = "ok",
                                                   !.moments = m], "security_audit_read", 0)
      <4> DEFINE unavailable == [NoResult EXCEPT !.status = 503,
                                   !.code = "security_gateway_audit_unavailable"]
      <4>1. /\ Disturb(1) /\ stage' = [stage EXCEPT ![c] = "answered"]
            /\ result' = [result EXCEPT ![c] = unavailable] /\ UNCHANGED audit
        BY <1>5, <3>2 DEF ReadAudit
      <4> HIDE DEF unavailable
      <4>2. Answers(c, unavailable)
        BY <4>1, DisturbanceType DEF IInv, Answers
      <4> QED BY <4>2
    <3> QED BY <3>1, <3>2
  <2> QED BY <2>1, <2>2, PagesElsewhere
<1>7. ASSUME NEW c \in DOMAIN Requests, ReadStatus(c) \/ ReadPlatformDevices(c)
      PROVE  PagesInv'
  <2>1. /\ stage[c] = "open" /\ at' = at /\ from' = from
        /\ Route(c) \notin {"summary", "devices"}
    BY <1>7 DEF ReadStatus, ReadPlatformDevices
  <2>2. \E m \in Moments(c, QueriesOf(Route(c))) : \E readers, reason :
          \E failing \in Failing(readers) :
            Respond(c, [NoResult EXCEPT !.status = 200, !.code = "ok", !.moments = m,
                                        !.failing = failing], reason, Cardinality(failing))
    <3>1. CASE ReadStatus(c)
      <4>1. 5 + Len(SERVICES) = QueriesOf(Route(c))
        BY <3>1 DEF ReadStatus, QueriesOf, SERVICES
      <4> QED BY <3>1, <4>1 DEF ReadStatus
    <3>2. CASE ReadPlatformDevices(c)
      <4>1. QueriesOf(Route(c)) = 1
        BY <3>2 DEF ReadPlatformDevices, QueriesOf
      <4> QED BY <3>2, <4>1 DEF ReadPlatformDevices
    <3> QED BY <1>7, <3>1, <3>2
  <2>3. PICK m \in Moments(c, QueriesOf(Route(c))) : \E readers, reason :
          \E failing \in Failing(readers) :
            Respond(c, [NoResult EXCEPT !.status = 200, !.code = "ok", !.moments = m,
                                        !.failing = failing], reason, Cardinality(failing))
    BY <2>2
  <2>4. PICK readers, reason : \E failing \in Failing(readers) :
          Respond(c, [NoResult EXCEPT !.status = 200, !.code = "ok", !.moments = m,
                                      !.failing = failing], reason, Cardinality(failing))
    BY <2>3
  <2>7. PICK failing \in Failing(readers) :
          Respond(c, [NoResult EXCEPT !.status = 200, !.code = "ok", !.moments = m,
                                      !.failing = failing], reason, Cardinality(failing))
    BY <2>4
  <2> DEFINE answer == [NoResult EXCEPT !.status = 200, !.code = "ok", !.moments = m,
                                        !.failing = failing]
  <2>5. Answers(c, answer)
    BY <2>7, FailingIsCounted, RespondAnswers DEF IInv
  <2>6. answer.moments = m
    BY DEF NoResult
  <2> HIDE DEF answer
  <2> QED BY <2>1, <2>5, <2>6, PagesRead
<1>6. CASE \/ \E c \in DOMAIN Requests : LookUp(c)
           \/ \E g \in Makers : CollectFacts(g) \/ AskModel(g) \/ PersistInsight(g)
  BY <1>0, <1>6, PagesGenerate
<1> QED BY <1>1, <1>2, <1>3, <1>4, <1>5, <1>6, <1>7 DEF Next

\* Before anything is sent nothing is shown.
LEMMA PagesInit == Init => PagesInv
BY FS_EmptySet DEF Init, PagesInv, PageInv, Successful

-----------------------------------------------------------------------------
(* What the pages tell of                                                  *)

\* A proposal that an event tells of, as a world knows it.
TellsOf(world, context, h, e) ==
  \E p \in world.proposals : /\ p.id = e.proposal
                             /\ p.community \in context.community /\ p.household \subseteq {h}

\* A device of a household, as a world knows it.
OwnedIn(world, h, d) ==
  \E x \in world.telemetry \cup world.registry : x.device = d /\ x.household = h

\* What a query meets are the tables of its world.
LEMMA WorldsAreHistory ==
  ASSUME NEW m \in DOMAIN History
  PROVE  /\ World(m).now = History[m].now /\ World(m).telemetry = History[m].telemetry
         /\ World(m).registry = History[m].registry /\ World(m).proposals = History[m].proposals
         /\ World(m).semantic = History[m].semantic /\ World(m).slm = History[m].slm
         /\ World(m).services = History[m].services /\ World(m).kafka = History[m].kafka
         /\ World(m).audit = History[m].audit \cup {a \in audit : a.at < m}
PROOF
<1>1. {"now", "telemetry", "registry", "proposals", "semantic", "slm", "audit", "services",
         "kafka"}
        \subseteq DOMAIN History[m]
  BY HistoryAssumption DEF Range
<1> QED BY <1>1 DEF World

\* A finite set can be numbered.
LEMMA RowsAreNumbered ==
  ASSUME NEW S, IsFiniteSet(S)
  PROVE  \E f \in [S -> 1..Cardinality(S)] : IsInjective(f)
PROOF
<1> DEFINE n == Cardinality(S)
<1>1. n \in Nat
  BY FS_CardinalityType
<1>2. ExistsBijection(1..n, S)
  BY FS_CardinalityType
<1>3. ExistsInjection(S, 1..n)
  <2>1. PICK f : f \in Bijection(1..n, S)
    BY <1>2 DEF ExistsBijection
  <2>2. \A x \in S : \E i \in 1..n : f[i] = x
    BY <2>1 DEF Bijection, Surjection
  <2> DEFINE g == [x \in S |-> CHOOSE i \in 1..n : f[i] = x]
  <2>3. \A x \in S : g[x] \in 1..n /\ f[g[x]] = x
    BY <2>2
  <2>4. g \in [S -> 1..n]
    BY <2>3
  <2>5. \A x, y \in S : g[x] = g[y] => x = y
    <3> HIDE DEF g
    <3> QED BY <2>3
  <2> HIDE DEF g
  <2>6. g \in Injection(S, 1..n)
    BY <2>4, <2>5 DEF Injection, IsInjective
  <2> QED BY <2>6 DEF ExistsInjection
<1> QED BY <1>3 DEF ExistsInjection, Injection

\* The newest of some proposals are some of them, also when several have the same time.
LEMMA NewestAreSome ==
  ASSUME NEW m \in DOMAIN History, NEW P \in SUBSET History[m].proposals, NEW limit \in Nat
  PROVE  Highest(P, LAMBDA p : p.created, limit) \in Seq(P)
PROOF
<1> DEFINE n == Cardinality(P)
           number == CHOOSE f \in [P -> 1..n] : IsInjective(f)
           newer(a, b) == \/ -a.created < -b.created
                          \/ -a.created = -b.created /\ a # b /\ number[a] < number[b]
           R == {p \in P \X P : newer(p[1], p[2])}
           above(x) == {y \in P : newer(y, x)}
           ordered == Ordered(P, newer)
           k == Min({limit, n})
<1>1. /\ IsFiniteSet(History[m].proposals)
      /\ \A p \in History[m].proposals : p.created \in Nat
  BY TableFacts
<1>2. IsFiniteSet(P) /\ n \in Nat
  BY <1>1, FS_Subset, FS_CardinalityType
<1>13. number \in [P -> 1..n] /\ IsInjective(number)
  BY <1>2, RowsAreNumbered
<1>14. /\ \A x \in P : number[x] \in Nat
       /\ \A x, y \in P : number[x] = number[y] => x = y
  <2> HIDE DEF number
  <2> QED BY <1>2, <1>13 DEF IsInjective
<1>6. Highest(P, LAMBDA p : p.created, limit) = SubSeq(ordered, 1, k)
  BY DEF Highest, SortedBy, Ordered
<1>5. ordered = [i \in 1..n |-> CHOOSE x \in P : Cardinality(above(x)) = i - 1]
  BY DEF Ordered
<1> HIDE DEF number, ordered
<1>3. StrictOrder(P, R)
  <2>1. \A p, q \in P : <<p, q>> \in R <=> newer(p, q)
    OBVIOUS
  <2>2. \A p \in P : p.created \in Int
    BY <1>1
  <2> HIDE DEF R
  <2>3. \A p \in P : ~newer(p, p)
    BY <2>2
  <2>4. \A p, q, r \in P : newer(p, q) /\ newer(q, r) => newer(p, r)
    BY <1>14, <2>2
  <2>5. \A p, q \in P : p = q \/ newer(p, q) \/ newer(q, p)
    BY <1>14, <2>2
  <2> HIDE DEF newer
  <2> QED BY <2>1, <2>3, <2>4, <2>5 DEF StrictOrder
<1>4. \A x \in P : Before(P, R, x) = above(x)
  BY DEF Before
<1> HIDE DEF R, above, k
<1>7. ASSUME NEW i \in 1..n
      PROVE  ordered[i] \in P
  <2>1. i - 1 \in 0..(Cardinality(P) - 1)
    BY <1>2
  <2>2. \E x \in P : Cardinality(Before(P, R, x)) = i - 1
    BY <1>2, <1>3, <2>1, RankTaken
  <2>3. \E x \in P : Cardinality(above(x)) = i - 1
    BY <1>4, <2>2
  <2>4. ordered[i] = CHOOSE x \in P : Cardinality(above(x)) = i - 1
    BY <1>5
  <2> QED BY <2>3, <2>4
<1>8. DOMAIN ordered = 1..n /\ ordered = [i \in 1..n |-> ordered[i]]
  BY <1>5
<1>9. ordered \in [1..n -> P]
  BY <1>7, <1>8
<1>10. ordered \in Seq(P) /\ Len(ordered) = n
  BY <1>2, <1>9
<1>11. k \in Nat /\ k <= n
  <2>1. k \in {limit, n} /\ k <= n
    BY <1>2, MinOfTwo DEF k
  <2> QED BY <1>2, <2>1
<1>12. SubSeq(ordered, 1, k) \in Seq(P)
  <2> HIDE DEF n
  <2> QED BY <1>10, <1>11
<1> QED BY <1>6, <1>12

\* The proposals of a household tell of themselves.
LEMMA EventsTellOfThem ==
  ASSUME NEW world, NEW context, NEW h, NEW p \in ProposalsOf(world, context, h)
  PROVE  TellsOf(world, context, h, EventOf(p))
BY DEF TellsOf, ProposalsOf, EventOf

\* The events of the summary, the analytics, the flexibility page and the report.
LEMMA EventsAreOwn ==
  ASSUME NEW context, NEW h, NEW dbs, NEW m, NEW clock
  PROVE  /\ m \in DOMAIN History /\ dbs[3].proposals = History[m].proposals =>
              \A e \in getCustomerSummary(context, h, dbs, clock).current_grid_event :
                TellsOf(History[m], context, h, e)
         /\ dbs[2].proposals = History[m].proposals =>
              \A options :
                \A e \in getCustomerAnalytics(context, h, options, dbs, clock).flexibility_events :
                  TellsOf(History[m], context, h, e)
         /\ m \in DOMAIN History /\ dbs[1].proposals = History[m].proposals =>
              \A e \in Range(getCustomerFlexibility(context, h, dbs).events) :
                TellsOf(History[m], context, h, e.event)
         /\ dbs[3].proposals = History[m].proposals =>
              \A period : \A e \in getCustomerReports(context, h, period, dbs).history :
                TellsOf(History[m], context, h, e)
PROOF
<1>0. \A db : db.proposals = History[m].proposals =>
        /\ ProposalsOf(db, context, h) = ProposalsOf(History[m], context, h)
        /\ ProposalsOf(db, context, h) \in SUBSET History[m].proposals
  BY DEF ProposalsOf
<1>1. ASSUME m \in DOMAIN History, dbs[3].proposals = History[m].proposals,
             NEW e \in getCustomerSummary(context, h, dbs, clock).current_grid_event
      PROVE  TellsOf(History[m], context, h, e)
  <2> DEFINE P == {p \in ProposalsOf(dbs[3], context, h) : p.end >= dbs[3].now - Day}
             shown == Highest(P, LAMBDA p : p.created, 1)
  <2>1. e \in {EventOf(p) : p \in Range(shown)}
    BY <1>1 DEF getCustomerSummary
  <2>2. P \in SUBSET History[m].proposals
    BY <1>0, <1>1
  <2>3. shown \in Seq(P)
    <3> HIDE DEF P
    <3> QED BY <1>1, <2>2, NewestAreSome
  <2> HIDE DEF shown
  <2>4. Range(shown) \subseteq ProposalsOf(History[m], context, h)
    <3>1. P \subseteq ProposalsOf(History[m], context, h)
      BY <1>0, <1>1
    <3> HIDE DEF P
    <3> QED BY <2>3, <3>1 DEF Range
  <2> QED BY <2>1, <2>4, EventsTellOfThem
<1>2. ASSUME dbs[2].proposals = History[m].proposals, NEW options,
             NEW e \in getCustomerAnalytics(context, h, options, dbs, clock).flexibility_events
      PROVE  TellsOf(History[m], context, h, e)
  <2>1. PICK p \in ProposalsOf(dbs[2], context, h) : e = EventOf(p)
    BY <1>2 DEF getCustomerAnalytics
  <2> QED BY <1>0, <1>2, <2>1, EventsTellOfThem
<1>3. ASSUME m \in DOMAIN History, dbs[1].proposals = History[m].proposals,
             NEW e \in Range(getCustomerFlexibility(context, h, dbs).events)
      PROVE  TellsOf(History[m], context, h, e.event)
  <2> DEFINE P == ProposalsOf(dbs[1], context, h)
             shown == Highest(P, LAMBDA p : p.created, 20)
  <2> DEFINE events == getCustomerFlexibility(context, h, dbs).events
  <2>1. PICK i \in DOMAIN shown : e.event = EventOf(shown[i])
    <3>1. DOMAIN events = DOMAIN shown
      BY DEF getCustomerFlexibility
    <3>2. \A i \in DOMAIN shown : events[i].event = EventOf(shown[i])
      BY DEF getCustomerFlexibility
    <3>3. PICK i \in DOMAIN events : e = events[i]
      BY <1>3 DEF Range
    <3> HIDE DEF events, shown
    <3> QED BY <3>1, <3>2, <3>3
  <2>2. P \in SUBSET History[m].proposals
    BY <1>0, <1>3
  <2>3. shown \in Seq(P)
    <3> HIDE DEF P
    <3> QED BY <1>3, <2>2, NewestAreSome
  <2> HIDE DEF shown
  <2>4. shown[i] \in P
    <3> HIDE DEF P
    <3> QED BY <2>1, <2>3
  <2> QED BY <1>0, <1>3, <2>1, <2>4, EventsTellOfThem
<1>4. ASSUME dbs[3].proposals = History[m].proposals, NEW period,
             NEW e \in getCustomerReports(context, h, period, dbs).history
      PROVE  TellsOf(History[m], context, h, e)
  <2>1. PICK p \in ProposalsOf(dbs[3], context, h) : e = EventOf(p)
    BY <1>4 DEF getCustomerReports
  <2> QED BY <1>0, <1>4, <2>1, EventsTellOfThem
<1> QED BY <1>1, <1>2, <1>3, <1>4

\* A device with energy has reported it.
LEMMA EnergyIsOwn ==
  ASSUME NEW world, NEW h, NEW e \in DeviceDailyEnergy(world, h)
  PROVE  OwnedIn(world, h, e.device)
PROOF
<1> DEFINE readings == {r \in world.telemetry :
                          r.household = h /\ (r.name \in EnergyNames \/ EstimatedBy(r))}
           of(key) == {r \in readings : <<Bucket(r.at, Day), r.device>> = key}
           keys == {<<Bucket(r.at, Day), r.device>> : r \in readings}
<1>1. PICK key \in keys : e = EnergyOf(key[1], key[2], of(key))
  BY DEF DeviceDailyEnergy
<1>2. PICK r \in readings : key = <<Bucket(r.at, Day), r.device>>
  BY <1>1
<1> HIDE DEF of, keys
<1>3. e.device = key[2]
  BY <1>1 DEF EnergyOf
<1> QED BY <1>2, <1>3 DEF OwnedIn

\* The latest state of a device is that of one that has reported, and when it has.
LEMMA StatesAreOwn ==
  ASSUME NEW world, IsFiniteSet(world.telemetry), \A r \in world.telemetry : r.at \in Nat,
         NEW s \in LatestState(world)
  PROVE  s.last_seen \in Int /\ OwnedIn(world, s.household, s.device)
PROOF
<1> DEFINE latest == LatestReadings(world)
           mine(one) == {r \in latest : <<r.household, r.device>> = <<one.household, one.device>>}
           times(one) == {r.at : r \in mine(one)}
<1>1. PICK one \in latest : s = StateOf(one, mine(one))
  BY DEF LatestState
<1>0. s.household = one.household /\ s.device = one.device /\ s.last_seen = Max(times(one))
  <2> HIDE DEF mine, latest
  <2> QED BY <1>1 DEF StateOf
<1>2. latest \subseteq world.telemetry
  BY DEF LatestReadings
<1> HIDE DEF latest
<1>3. mine(one) \in SUBSET world.telemetry /\ one \in mine(one)
  BY <1>1, <1>2
<1> DEFINE at_ == [r \in mine(one) |-> r.at]
<1>4. at_ \in Surjection(mine(one), times(one))
  BY DEF Surjection
<1>5. IsFiniteSet(mine(one))
  BY <1>3, FS_Subset
<1>6. times(one) \in SUBSET Int /\ times(one) # {}
  BY <1>3
<1> HIDE DEF at_, mine, times
<1>7. IsFiniteSet(times(one))
  BY <1>4, <1>5, FS_Surjection
<1>8. Max(times(one)) \in Int
  BY <1>6, <1>7, MaxIsMember
<1> QED BY <1>0, <1>2, <1>8 DEF OwnedIn

\* The inventory of a household: its devices, each once.
LEMMA InventoryIsOwn ==
  ASSUME NEW m \in DOMAIN History, NEW world, NEW h, world.telemetry = History[m].telemetry,
         world.registry = History[m].registry
  PROVE  /\ IsFiniteSet(Inventory(world, h))
         /\ \A r \in Inventory(world, h) :
              /\ r.device \in Nat /\ OwnedIn(History[m], h, r.device)
              /\ Coalesce(r.last_seen, -1) \in Int
         /\ \A r, s \in Inventory(world, h) : r.device = s.device => r = s
PROOF
<1> DEFINE registered == {d \in world.registry : d.household = h}
           states == {s \in LatestState(world) : s.household = h}
           D == {x.device : x \in registered} \cup {x.device : x \in states}
           of(d, rows) == {x \in rows : x.device = d}
           rowOf(d) == InventoryRow(h, d, of(d, registered), of(d, states))
           I == Inventory(world, h)
<1>0. /\ IsFiniteSet(world.telemetry) /\ IsFiniteSet(world.registry)
      /\ \A r \in world.telemetry : r.device \in Nat /\ r.at \in Nat
      /\ \A d \in world.registry : d.device \in Nat
  BY TableFacts
<1>1. \A s \in states : s.last_seen \in Int /\ OwnedIn(world, h, s.device)
  BY <1>0, StatesAreOwn
<1>8. I = {rowOf(d) : d \in D}
  BY DEF Inventory
<1>9. \A d : rowOf(d).device = d /\ rowOf(d).last_seen = {s.last_seen : s \in of(d, states)}
  <2> HIDE DEF of, registered, states
  <2> QED BY DEF InventoryRow
<1>2. \A r \in I : r.device \in D /\ \A t \in r.last_seen : \E s \in states : t = s.last_seen
  <2>1. \A d : \A t \in rowOf(d).last_seen : \E s \in states : t = s.last_seen
    <3> HIDE DEF rowOf, states
    <3> QED BY <1>9
  <2> HIDE DEF rowOf, states, D, I
  <2> QED BY <1>8, <1>9, <2>1
<1>3. \A r, s \in I : r.device = s.device => r = s
  <2> HIDE DEF rowOf, states, D, I
  <2> QED BY <1>8, <1>9
<1>4. \A d \in D : OwnedIn(world, h, d)
  <2> HIDE DEF states
  <2>1. \A x \in registered : OwnedIn(world, h, x.device)
    BY DEF OwnedIn
  <2> QED BY <1>1, <2>1
<1>5. \A d : OwnedIn(world, h, d) => d \in Nat /\ OwnedIn(History[m], h, d)
  BY <1>0 DEF OwnedIn
<1>6. \A r \in I : Coalesce(r.last_seen, -1) \in Int
  <2> HIDE DEF states, I
  <2> QED BY <1>1, <1>2 DEF Coalesce
<1>7. IsFiniteSet(I)
  <2> DEFINE K == {x.device : x \in world.telemetry} \cup {x.device : x \in world.registry}
             tel == [x \in world.telemetry |-> x.device]
             reg == [x \in world.registry |-> x.device]
             J == {r.device : r \in I}
             row == [d \in J |-> CHOOSE r \in I : r.device = d]
  <2>1. IsFiniteSet({x.device : x \in world.telemetry})
    <3>1. tel \in Surjection(world.telemetry, {x.device : x \in world.telemetry})
      BY DEF Surjection
    <3> HIDE DEF tel
    <3> QED BY <1>0, <3>1, FS_Surjection
  <2>2. IsFiniteSet({x.device : x \in world.registry})
    <3>1. reg \in Surjection(world.registry, {x.device : x \in world.registry})
      BY DEF Surjection
    <3> HIDE DEF reg
    <3> QED BY <1>0, <3>1, FS_Surjection
  <2>3. IsFiniteSet(K)
    BY <2>1, <2>2, FS_Union
  <2>4. J \in SUBSET K
    <3>1. \A d : OwnedIn(world, h, d) => d \in K
      BY DEF OwnedIn
    <3> HIDE DEF I, D, K
    <3> QED BY <1>2, <1>4, <3>1
  <2>5. IsFiniteSet(J)
    BY <2>3, <2>4, FS_Subset
  <2>6. row \in Surjection(J, I)
    <3> HIDE DEF I
    <3>1. \A r \in I : row[r.device] = r
      BY <1>3
    <3>2. row \in [J -> I]
      OBVIOUS
    <3>3. \A r \in I : r.device \in J
      OBVIOUS
    <3> HIDE DEF row, J
    <3> QED BY <3>1, <3>2, <3>3 DEF Surjection
  <2> HIDE DEF row, I, J
  <2> QED BY <2>5, <2>6, FS_Surjection
<1> QED BY <1>2, <1>3, <1>4, <1>5, <1>6, <1>7

\* The page asked for is one of numbers, whatever is asked.
LEMMA PagesAreNumbers ==
  ASSUME NEW limit \in SUBSET Int, NEW offset \in SUBSET Int
  PROVE  /\ normalizePagination(limit, offset).limit \in Nat
         /\ normalizePagination(limit, offset).offset \in Nat
PROOF
<1> DEFINE l == Coalesce(limit, 20)
           o == Coalesce(offset, 0)
<1>1. \A S \in SUBSET Int : \A i \in Int : Coalesce(S, i) \in Int
  <2> SUFFICES ASSUME NEW S \in SUBSET Int, NEW i \in Int
               PROVE  Coalesce(S, i) \in Int
    OBVIOUS
  <2>1. CASE S = {}
    BY <2>1 DEF Coalesce
  <2>2. CASE S # {}
    <3>1. (CHOOSE v \in S : TRUE) \in S
      BY <2>2
    <3> QED BY <2>2, <3>1 DEF Coalesce
  <2> QED BY <2>1, <2>2
<1>5. l \in Int /\ o \in Int
  BY <1>1
<1> HIDE DEF l, o
<1>2. Min({50, l}) \in Int
  <2>1. Min({50, l}) \in {50, l}
    BY <1>5, MinOfTwo
  <2> QED BY <1>5, <2>1
<1>3. Max({1, Min({50, l})}) \in Nat
  BY <1>2, MaxOfTwo
<1>4. Max({o, 0}) \in Nat
  BY <1>5, MaxOfTwo
<1> QED BY <1>3, <1>4 DEF normalizePagination, Positive, l, o

\* What is left of a sequence after the first o elements and before the k-th is over.
IsCut(cut, s, o, k) == cut = SubSeq(s, o + 1, k)

\* What is cut from a sequence, and where it was.
LEMMA CutOfSequence ==
  ASSUME NEW R, NEW s \in Seq(R), NEW o \in Nat, NEW k \in Int, k <= Len(s),
         NEW cut, IsCut(cut, s, o, k)
  PROVE  /\ cut \in Seq(R) /\ Len(cut) \in Nat /\ DOMAIN cut = 1..Len(cut)
         /\ cut # <<>> => o + Len(cut) <= Len(s)
         /\ \A i \in DOMAIN cut : o + i \in DOMAIN s /\ cut[i] = s[o + i]
PROOF
<1>1. cut \in Seq(R)
  BY DEF IsCut
<1>2. Len(cut) \in Nat /\ DOMAIN cut = 1..Len(cut)
  BY <1>1
<1>3. Len(cut) = IF o + 1 <= k THEN k - o ELSE 0
  BY DEF IsCut
<1>4. \A i \in 1..Len(cut) : cut[i] = s[o + i]
  BY <1>3 DEF IsCut
<1>5. DOMAIN s = 1..Len(s) /\ Len(s) \in Nat
  OBVIOUS
<1>6. cut # <<>> => Len(cut) # 0
  BY <1>1
<1>7. cut # <<>> => o + Len(cut) <= Len(s)
  BY <1>3, <1>6
<1>8. \A i \in DOMAIN cut : o + i \in DOMAIN s
  BY <1>2, <1>3, <1>5
<1> QED BY <1>1, <1>2, <1>4, <1>7, <1>8

\* A page shows some of the rows, each once, and none beyond the last.
LEMMA PageShowsRows ==
  ASSUME NEW rows, IsFiniteSet(rows),
         \A r \in rows : r.device \in Nat /\ Coalesce(r.last_seen, -1) \in Int,
         \A r, s \in rows : r.device = s.device => r = s,
         NEW page, page.limit \in Nat, page.offset \in Nat
  PROVE  LET shown == PageOf(rows, page) IN
         /\ shown \in Seq(rows)
         /\ shown # <<>> => page.offset + Len(shown) <= Cardinality(rows)
         /\ \A i, j \in DOMAIN shown : shown[i] = shown[j] => i = j
PROOF
<1> DEFINE seen(r) == Coalesce(r.last_seen, -1)
           earlier(a, b) == seen(a) > seen(b) \/ (seen(a) = seen(b) /\ a.device < b.device)
           R == {p \in rows \X rows : earlier(p[1], p[2])}
           above(x) == {y \in rows : earlier(y, x)}
           n == Cardinality(rows)
           ordered == [i \in 1..n |-> CHOOSE x \in rows : Cardinality(above(x)) = i - 1]
           k == Min({page.offset + page.limit, Len(ordered)})
<1>1. n \in Nat
  BY FS_CardinalityType
<1>2. PageOf(rows, page) = SubSeq(ordered, page.offset + 1, k)
  BY DEF PageOf, Ordered
<1>3. StrictOrder(rows, R)
  <2>1. \A p, q \in rows : <<p, q>> \in R <=> earlier(p, q)
    OBVIOUS
  <2> HIDE DEF R
  <2>2. \A r \in rows : seen(r) \in Int /\ r.device \in Int
    OBVIOUS
  <2> HIDE DEF seen
  <2>3. \A x \in rows : <<x, x>> \notin R
    BY <2>1, <2>2
  <2>4. \A x, y, z \in rows : <<x, y>> \in R /\ <<y, z>> \in R => <<x, z>> \in R
    BY <2>1, <2>2
  <2>5. ASSUME NEW x \in rows, NEW y \in rows, x # y
        PROVE  <<x, y>> \in R \/ <<y, x>> \in R
    <3>1. x.device # y.device
      BY <2>5
    <3>2. earlier(x, y) \/ earlier(y, x)
      BY <2>2, <3>1
    <3> HIDE DEF earlier
    <3> QED BY <2>1, <3>2
  <2> QED BY <2>3, <2>4, <2>5 DEF StrictOrder
<1>4. \A x \in rows : Before(rows, R, x) = above(x)
  BY DEF Before
<1> HIDE DEF R, above, k
<1>5. ASSUME NEW i \in 1..n
      PROVE  LET x == CHOOSE x \in rows : Cardinality(above(x)) = i - 1 IN
             x \in rows /\ Cardinality(above(x)) = i - 1
  <2>1. i - 1 \in 0..(Cardinality(rows) - 1)
    BY <1>1
  <2>2. \E x \in rows : Cardinality(Before(rows, R, x)) = i - 1
    BY <1>3, <2>1, RankTaken
  <2>3. \E x \in rows : Cardinality(above(x)) = i - 1
    BY <1>4, <2>2
  <2> QED BY <2>3
<1>6. /\ ordered \in [1..n -> rows]
      /\ \A i \in 1..n : Cardinality(above(ordered[i])) = i - 1
  BY <1>5
<1> HIDE DEF ordered
<1>7. ordered \in Seq(rows) /\ Len(ordered) = n
  <2> HIDE DEF n
  <2> QED BY <1>1, <1>6
<1>8. k \in Int /\ k <= n
  <2>1. k \in {page.offset + page.limit, n} /\ k <= n
    <3>1. page.offset + page.limit \in Int /\ n \in Int
      BY <1>1
    <3> HIDE DEF n
    <3>2. k = Min({page.offset + page.limit, n})
      BY <1>7 DEF k
    <3> QED BY <3>1, <3>2, MinOfTwo
  <2> QED BY <1>1, <2>1
<1> DEFINE shown == SubSeq(ordered, page.offset + 1, k)
<1>9. /\ shown \in Seq(rows)
      /\ shown # <<>> => page.offset + Len(shown) <= n
      /\ \A i \in DOMAIN shown : /\ i \in Nat /\ page.offset + i \in 1..n
                               /\ shown[i] = ordered[page.offset + i]
  <2> HIDE DEF n
  <2>1. DOMAIN ordered = 1..n
    BY <1>6
  <2>2. /\ shown \in Seq(rows) /\ Len(shown) \in Nat /\ DOMAIN shown = 1..Len(shown)
        /\ shown # <<>> => page.offset + Len(shown) <= Len(ordered)
        /\ \A i \in DOMAIN shown : /\ page.offset + i \in DOMAIN ordered
                                 /\ shown[i] = ordered[page.offset + i]
    <3> DEFINE o == page.offset
    <3>1. o \in Nat /\ ordered \in Seq(rows)
      BY <1>7
    <3>2. IsCut(shown, ordered, o, k) /\ k \in Int /\ k <= Len(ordered)
      BY <1>7, <1>8 DEF IsCut
    <3> HIDE DEF shown, o
    <3>3. /\ shown \in Seq(rows) /\ Len(shown) \in Nat /\ DOMAIN shown = 1..Len(shown)
          /\ shown # <<>> => o + Len(shown) <= Len(ordered)
          /\ \A i \in DOMAIN shown : o + i \in DOMAIN ordered /\ shown[i] = ordered[o + i]
      BY <3>1, <3>2, CutOfSequence
    <3> QED BY Zenon, <3>3 DEF o
  <2> HIDE DEF shown
  <2> QED BY <1>7, <2>1, <2>2
<1> HIDE DEF shown, n
<1>10. ASSUME NEW i \in DOMAIN shown, NEW j \in DOMAIN shown, shown[i] = shown[j]
       PROVE  i = j
  <2>1. ordered[page.offset + i] = ordered[page.offset + j]
    BY <1>9, <1>10
  <2>2. (page.offset + i) - 1 = (page.offset + j) - 1
    BY <1>6, <1>9, <2>1
  <2>3. i \in Nat /\ j \in Nat
    BY <1>9
  <2> QED BY <2>2, <2>3
<1>11. PageOf(rows, page) = shown
  BY <1>2 DEF shown
<1> QED BY <1>9, <1>10, <1>11 DEF n

\* A page of devices shows the household's own.
LEMMA DevicesAreOwn ==
  ASSUME NEW m \in DOMAIN History, NEW context, NEW h, NEW options, NEW dbs, NEW clock,
         dbs[1].telemetry = History[m].telemetry, dbs[1].registry = History[m].registry,
         options.limit \in SUBSET Int, options.offset \in SUBSET Int,
         NEW d \in Range(getCustomerDevices(context, h, options, dbs, clock).devices)
  PROVE  OwnedIn(History[m], h, d.device)
PROOF
<1> DEFINE I == Inventory(dbs[1], h)
           rows == {r \in I : MeetsFilters(r, options, dbs[1].now)}
           page == normalizePagination(options.limit, options.offset)
           shown == PageOf(rows, page)
<1>1. getCustomerDevices(context, h, options, dbs, clock).devices
        = [i \in DOMAIN shown |-> DeviceView(dbs[1], h, shown[i], clock)]
  BY DEF getCustomerDevices
<1>2. /\ IsFiniteSet(I)
      /\ \A r \in I : /\ r.device \in Nat /\ OwnedIn(History[m], h, r.device)
                      /\ Coalesce(r.last_seen, -1) \in Int
      /\ \A r, s \in I : r.device = s.device => r = s
  BY InventoryIsOwn
<1> HIDE DEF I
<1>3. rows \in SUBSET I
  OBVIOUS
<1>4. page.limit \in Nat /\ page.offset \in Nat
  BY PagesAreNumbers
<1> HIDE DEF rows, page
<1>5. shown \in Seq(rows)
  <2>1. IsFiniteSet(rows)
    BY <1>2, <1>3, FS_Subset
  <2> QED BY <1>2, <1>3, <1>4, <2>1, PageShowsRows
<1>6. PICK i \in DOMAIN shown : d = DeviceView(dbs[1], h, shown[i], clock)
  BY <1>1 DEF Range
<1> HIDE DEF shown
<1>7. shown[i] \in I
  BY <1>3, <1>5, <1>6
<1>8. d.device = shown[i].device
  BY <1>6 DEF DeviceView
<1> QED BY <1>2, <1>7, <1>8

\* The page of one device shows none but the household's own.
LEMMA DetailIsOwn ==
  ASSUME NEW m \in DOMAIN History, NEW context, NEW h, NEW device, NEW dbs, NEW clock,
         dbs[1].telemetry = History[m].telemetry, dbs[1].registry = History[m].registry,
         NEW d \in getCustomerDeviceDetail(context, h, device, dbs, clock)
  PROVE  OwnedIn(History[m], h, d.device.device)
PROOF
<1> DEFINE options == [NoFilter EXCEPT !.limit = {1}, !.offset = {0}, !.deviceId = {device}]
           page == getCustomerDevices(context, h, options, dbs, clock)
<1>1. d.device \in Range(page.devices)
  <2> DEFINE readings == {r \in dbs[5].telemetry :
                            /\ r.household = h /\ r.device = device
                            /\ r.name \in PowerNames /\ r.at >= dbs[5].now - Day}
             powerOf(r) == IF r.name = "pv_generation_kw" THEN r.value ELSE PowerByUnit(r)
             usage == {[start |-> b, power |-> round(Average(powerOf,
                          {r \in readings : Bucket(r.at, 15) = b}))] :
                         b \in {Bucket(r.at, 15) : r \in readings}}
  <2>2. getCustomerDeviceDetail(context, h, device, dbs, clock)
          = {[device |-> e, recent_usage |-> usage] : e \in Range(page.devices)}
    BY DEF getCustomerDeviceDetail
  <2> HIDE DEF usage, page
  <2>1. \E e \in Range(page.devices) : d.device = e
    BY <2>2
  <2> QED BY <2>1
<1>2. options.limit = {1} /\ options.offset = {0}
  BY DEF NoFilter
<1> HIDE DEF options
<1> QED BY <1>1, <1>2, DevicesAreOwn

\* The devices of a report, and of its file, are the household's own.
LEMMA ReportIsOwn ==
  ASSUME NEW m \in DOMAIN History, NEW context, NEW h, NEW period, NEW dbs,
         dbs[2].telemetry = History[m].telemetry
  PROVE  LET report == getCustomerReports(context, h, period, dbs) IN
         /\ \A d \in report.devices : OwnedIn(History[m], h, d.device)
         /\ \A d \in buildCustomerReportCsv(report).device_energy : OwnedIn(History[m], h, d[1])
PROOF
<1> DEFINE report == getCustomerReports(context, h, period, dbs)
<1>1. ASSUME NEW d \in report.devices
      PROVE  OwnedIn(History[m], h, d.device)
  <2> DEFINE devices == {e \in DeviceDailyEnergy(dbs[2], h) :
                           e.day >= StartOfDay(dbs[2]) - (reportRange(period) - 1) * Day}
             of(i) == {e \in devices : e.device = i}
             used(i) == round(Total(LAMBDA e : Coalesce(e.used, 0), of(i)))
             row(i) == [device |-> i, used |-> used(i),
                        contains_estimate |-> \E e \in of(i) : e.quality = "estimated"]
  <2>3. report.devices = {row(i) : i \in {e.device : e \in devices}}
    BY DEF getCustomerReports
  <2> HIDE DEF of, used, report
  <2>1. PICK e \in DeviceDailyEnergy(dbs[2], h) : d.device = e.device
    BY <1>1, <2>3
  <2>2. DeviceDailyEnergy(dbs[2], h) = DeviceDailyEnergy(History[m], h)
    BY DEF DeviceDailyEnergy
  <2> QED BY <2>1, <2>2, EnergyIsOwn
<1> HIDE DEF report
<1>2. \A d \in buildCustomerReportCsv(report).device_energy :
        \E e \in report.devices : d[1] = e.device
  BY DEF buildCustomerReportCsv
<1> QED BY <1>1, <1>2 DEF report

\* A page names its household as its reader may: by its identifier to its own user only.
LEMMA NamesAreOwn ==
  ASSUME IInv, PagesInv, NEW c \in Answered(CustomerRoutes \cup {"households"}),
         NEW name \in NamesShown(c)
  PROVE  \/ name.pseudonym = TRUE
         \/ Context(c).role = "household_user" /\ {name.id} = Context(c).household
PROOF
<1> DEFINE context == Context(c)
<1>1. c \in DOMAIN Requests /\ Successful(c)
  BY DEF Answered, Successful
<1>2. \A h : /\ stableHouseholdPseudonym(h).pseudonym = TRUE
             /\ Plain(h).id = h
  BY DEF stableHouseholdPseudonym, Plain
<1>3. CASE Route(c) = "summary"
  <2>1. Entitled(c)
    BY <1>1, <1>3 DEF IInv, ScopeInv, CustomerRoutes
  <2>2. PICK h \in Households : /\ granted[c] = {h}
                                /\ Scoped(from[c], context, Requests[c].requested, h)
    BY <2>1 DEF Entitled
  <2>3. Household(c) = h
    BY <2>2 DEF Household
  <2>4. SummaryOf(c).household = HouseholdOf(context, h)
    BY <2>3 DEF SummaryOf, getCustomerSummary
  <2>5. name \in {HouseholdOf(context, h).display_name, HouseholdOf(context, h).pseudonym}
                   \cup HouseholdOf(context, h).id
    <3>1. name \in UNION {{i.display_name, i.pseudonym} \cup i.id : i \in {SummaryOf(c).household}}
      BY <1>3 DEF NamesShown
    <3> QED BY <2>4, <3>1
  <2>6. \/ name = stableHouseholdPseudonym(h)
        \/ context.role = "household_user" /\ name = Plain(h)
    BY <2>5 DEF HouseholdOf, householdDisplay
  <2>7. context.role = "household_user" => context.household = {h}
    BY <2>2 DEF Scoped
  <2> QED BY <1>2, <2>6, <2>7
<1>4. CASE Route(c) = "community"
  <2>1. CommunityOf(c).selected = stableHouseholdPseudonym(Household(c))
    BY DEF CommunityOf, getCustomerCommunity
  <2>2. name = CommunityOf(c).selected
    BY <1>4 DEF NamesShown
  <2> QED BY <1>2, <2>1, <2>2
<1>5. CASE Route(c) = "households"
  <2> DEFINE listed == ListedBy(c)
  <2>1. PICK entry \in Range(listed) : name \in {entry.selector, entry.pseudonym}
    BY <1>5 DEF NamesShown
  <2>2. PICK i \in DOMAIN listed : entry = listed[i]
    BY <2>1 DEF Range
  <2>3. CASE context.role = "household_user"
    <3>1. ContextErrors(context) = {}
      BY <1>1, <1>5 DEF PagesInv, PageInv
    <3>2. context.household # {}
      BY <2>3, <3>1 DEF ContextErrors
    <3>3. PICK h \in context.household : TRUE
      BY <3>2
    <3>4. context.household = {h}
      BY <1>1, <3>3, RequestAssumption DEF Context
    <3>5. Coalesce(context.household, 0) = h
      BY <3>4 DEF Coalesce
    <3>6. entry.selector = Plain(h) /\ entry.pseudonym = stableHouseholdPseudonym(h)
      BY <2>2, <2>3, <3>5 DEF ListedBy, listAuthorizedHouseholds
    <3> QED BY <1>2, <2>1, <2>3, <3>4, <3>6
  <2>4. CASE context.role # "household_user"
    <3>1. \E h : entry.selector = stableHouseholdPseudonym(h)
                   /\ entry.pseudonym = stableHouseholdPseudonym(h)
      BY <2>2, <2>4 DEF ListedBy, listAuthorizedHouseholds
    <3> QED BY <1>2, <2>1, <3>1
  <2> QED BY <2>3, <2>4
<1>6. Route(c) \in {"summary", "community", "households"}
  BY DEF NamesShown
<1> QED BY <1>3, <1>4, <1>5, <1>6

\* What a page has read is one of the worlds.
LEMMA PagesMeetWorlds ==
  ASSUME IInv, PagesInv, NEW c \in DOMAIN Requests, Successful(c),
         NEW k \in 1..QueriesOf(Route(c))
  PROVE  /\ result[c].moments[k] \in DOMAIN History
         /\ result[c].moments[k] \in Range(result[c].moments)
         /\ Worlds(c)[k] = World(result[c].moments[k])
PROOF
<1>1. k \in DOMAIN result[c].moments /\ result[c].moments[k] \in DOMAIN History
  BY DEF PagesInv, PageInv, Met
<1> QED BY <1>1 DEF Worlds, Range

\* The devices of every page are the household's own, in a world that the page has met.
LEMMA DevicesShownAreOwn ==
  ASSUME IInv, PagesInv, NEW c \in Answered(CustomerRoutes), NEW d \in DevicesShown(c)
  PROVE  \E i \in Range(result[c].moments) : OwnedIn(History[i], Household(c), d)
PROOF
<1> DEFINE h == Household(c)
           m(k) == result[c].moments[k]
           clock == History[result[c].clock].now
<1>1. c \in DOMAIN Requests /\ Successful(c)
  BY DEF Answered, Successful
<1>2. \A k \in 1..QueriesOf(Route(c)) :
        /\ m(k) \in DOMAIN History
        /\ Worlds(c)[k].telemetry = History[m(k)].telemetry
        /\ Worlds(c)[k].registry = History[m(k)].registry
        /\ m(k) \in Range(result[c].moments)
  BY <1>1, PagesMeetWorlds, WorldsAreHistory
<1>3. CASE Route(c) = "devices"
  <2>1. 1 \in 1..QueriesOf(Route(c))
    BY <1>3 DEF QueriesOf
  <2> DEFINE options == FiltersOf(Requests[c].options)
  <2>2. options.limit \in SUBSET Int /\ options.offset \in SUBSET Int
    <3>1. /\ {"limit", "offset"} \subseteq DOMAIN Requests[c].options
          /\ Requests[c].options.limit \subseteq Int /\ Requests[c].options.offset \subseteq Int
      BY <1>1, <1>3, RequestAssumption DEF Route
    <3> QED BY <3>1 DEF FiltersOf
  <2>3. PICK x \in Range(getCustomerDevices(Context(c), h, options, Worlds(c), clock).devices) :
          d = x.device
    BY <1>3 DEF DevicesShown, DevicesOf
  <2> HIDE DEF options, clock, m, h
  <2>4. OwnedIn(History[m(1)], h, d)
    BY <1>2, <2>1, <2>2, <2>3, DevicesAreOwn
  <2> QED BY <1>2, <2>1, <2>4 DEF h
<1>4. CASE Route(c) = "device"
  <2>1. 1 \in 1..QueriesOf(Route(c))
    BY <1>4 DEF QueriesOf
  <2>2. PICK x \in DetailOf(c) : d = x.device.device
    BY <1>4 DEF DevicesShown
  <2>3. PICK device \in Requests[c].options :
          x \in getCustomerDeviceDetail(Context(c), h, device, Worlds(c), clock)
    BY <2>2 DEF DetailOf, DetailAt, Worlds
  <2> HIDE DEF clock, m, h
  <2>4. OwnedIn(History[m(1)], h, d)
    BY <1>2, <2>1, <2>2, <2>3, DetailIsOwn
  <2> QED BY <1>2, <2>1, <2>4 DEF h
<1>5. CASE Route(c) \in {"reports", "reports.csv"}
  <2>1. 2 \in 1..QueriesOf(Route(c))
    BY <1>5 DEF QueriesOf
  <2> DEFINE period == Requests[c].options.period
             report == getCustomerReports(Context(c), h, period, Worlds(c))
  <2>2. \/ \E x \in report.devices : d = x.device
        \/ \E x \in buildCustomerReportCsv(report).device_energy : d = x[1]
    <3>1. CASE Route(c) = "reports"
      BY <3>1 DEF DevicesShown, ReportOf
    <3>2. CASE Route(c) = "reports.csv"
      BY <3>2 DEF DevicesShown, FileOf, ReportOf
    <3> QED BY <1>5, <3>1, <3>2
  <2> HIDE DEF m, h, period
  <2>3. OwnedIn(History[m(2)], h, d)
    BY <1>2, <2>1, <2>2, ReportIsOwn
  <2> QED BY <1>2, <2>1, <2>3 DEF h
<1>6. Route(c) \in {"devices", "device", "reports", "reports.csv"}
  BY DEF DevicesShown
<1> QED BY <1>3, <1>4, <1>5, <1>6

\* The proposals of every page are for the household or its community as a whole, in a world
\* that the page has met.
LEMMA EventsShownAreOwn ==
  ASSUME IInv, PagesInv, NEW c \in Answered(CustomerRoutes), NEW e \in EventsShown(c)
  PROVE  \E i \in Range(result[c].moments) : TellsOf(History[i], Context(c), Household(c), e)
PROOF
<1> DEFINE h == Household(c)
           m(k) == result[c].moments[k]
<1>1. c \in DOMAIN Requests /\ Successful(c)
  BY DEF Answered, Successful
<1>2. \A k \in 1..QueriesOf(Route(c)) :
        /\ m(k) \in DOMAIN History
        /\ Worlds(c)[k].proposals = History[m(k)].proposals
        /\ m(k) \in Range(result[c].moments)
  BY <1>1, PagesMeetWorlds, WorldsAreHistory
<1>3. CASE Route(c) = "summary"
  <2>1. 3 \in 1..QueriesOf(Route(c))
    BY <1>3 DEF QueriesOf
  <2>2. e \in SummaryOf(c).current_grid_event
    BY <1>3 DEF EventsShown
  <2> HIDE DEF m, h
  <2>3. TellsOf(History[m(3)], Context(c), h, e)
    BY <1>2, <2>1, <2>2, EventsAreOwn DEF SummaryOf, h
  <2> QED BY <1>2, <2>1, <2>3 DEF h
<1>4. CASE Route(c) = "analytics"
  <2>1. 2 \in 1..QueriesOf(Route(c))
    BY <1>4 DEF QueriesOf
  <2>2. e \in AnalyticsOf(c).flexibility_events
    BY <1>4 DEF EventsShown
  <2> HIDE DEF m, h
  <2>3. TellsOf(History[m(2)], Context(c), h, e)
    BY <1>2, <2>1, <2>2, EventsAreOwn DEF AnalyticsOf, h
  <2> QED BY <1>2, <2>1, <2>3 DEF h
<1>5. CASE Route(c) = "flexibility"
  <2>1. 1 \in 1..QueriesOf(Route(c))
    BY <1>5 DEF QueriesOf
  <2>2. PICK x \in Range(FlexibilityOf(c).events) : e = x.event
    BY <1>5 DEF EventsShown
  <2> HIDE DEF m, h
  <2>3. TellsOf(History[m(1)], Context(c), h, e)
    BY <1>2, <2>1, <2>2, EventsAreOwn DEF FlexibilityOf, h
  <2> QED BY <1>2, <2>1, <2>3 DEF h
<1>6. CASE Route(c) = "reports"
  <2>1. 3 \in 1..QueriesOf(Route(c))
    BY <1>6 DEF QueriesOf
  <2>2. e \in ReportOf(c).history
    BY <1>6 DEF EventsShown
  <2> HIDE DEF m, h
  <2>3. TellsOf(History[m(3)], Context(c), h, e)
    BY <1>2, <2>1, <2>2, EventsAreOwn DEF ReportOf, h
  <2> QED BY <1>2, <2>1, <2>3 DEF h
<1>7. Route(c) \in {"summary", "analytics", "flexibility", "reports"}
  BY DEF EventsShown
<1> QED BY <1>3, <1>4, <1>5, <1>6, <1>7

\* With the grant of each request that is the scope of its answer.
LEMMA AnswersFollow == IInv /\ PagesInv => AnswersStayInScope
PROOF
<1> SUFFICES ASSUME IInv, PagesInv
             PROVE  AnswersStayInScope
  OBVIOUS
<1>1. \A c \in Answered(CustomerRoutes) : GrantedInScope(c)
  BY ScopeFollows
<1>2. ASSUME NEW c \in Answered(CustomerRoutes), NEW d \in DevicesShown(c)
      PROVE  \E m \in Range(result[c].moments) : d \in DevicesIn(m, Household(c))
  BY DevicesShownAreOwn DEF OwnedIn, DevicesIn
<1>3. ASSUME NEW c \in Answered(CustomerRoutes), NEW e \in EventsShown(c)
      PROVE  \E m \in Range(result[c].moments) : \E p \in History[m].proposals :
               /\ p.id = e.proposal
               /\ p.community \in Context(c).community /\ p.household \subseteq {Household(c)}
  BY EventsShownAreOwn DEF TellsOf
<1>4. ASSUME NEW c \in Answered(CustomerRoutes \cup {"households"}), NEW name \in NamesShown(c)
      PROVE  name.pseudonym
               \/ (Context(c).role = "household_user" /\ {name.id} = Context(c).household)
  BY <1>4, NamesAreOwn
<1> QED BY <1>1, <1>2, <1>3, <1>4 DEF AnswersStayInScope

-----------------------------------------------------------------------------
(* Shares                                                                  *)

\* The quotient of numbers.
LEMMA Quotient ==
  ASSUME NEW x \in Nat, NEW d \in Nat, d > 0
  PROVE  /\ x \div d \in Nat
         /\ (x \div d) * d <= x /\ x < (x \div d) * d + d
OBVIOUS

\* A share of a whole is at most the whole, and two shares of what does not overlap are, but
\* for the rounding.
LEMMA ShareOfWhole ==
  ASSUME NEW parts \in Nat, NEW d \in Nat, d > 0, NEW n \in Nat, n <= d
  PROVE  /\ Share(n, d, parts) \in 0..parts
         /\ \A k \in Nat : n + k <= d => Share(n, d, parts) + Share(k, d, parts) <= parts + 1
PROOF
<1> DEFINE x(i) == 2 * parts * i + d
           q(i) == x(i) \div (2 * d)
<1>1. \A i : Share(i, d, parts) = q(i)
  BY DEF Share
<1>2. \A i \in Nat : x(i) \in Nat
  <2> SUFFICES ASSUME NEW i \in Nat PROVE x(i) \in Nat
    OBVIOUS
  <2>1. parts * i \in Nat
    OBVIOUS
  <2> QED BY <2>1
<1>3. 2 * d \in Nat /\ 2 * d > 0
  OBVIOUS
<1>4. \A i \in Nat : q(i) \in Nat /\ q(i) * (2 * d) <= x(i)
  <2> SUFFICES ASSUME NEW i \in Nat PROVE q(i) \in Nat /\ q(i) * (2 * d) <= x(i)
    OBVIOUS
  <2>1. x(i) \in Nat
    BY <1>2
  <2> HIDE DEF x
  <2> QED BY <1>3, <2>1, Quotient
<1>5. /\ \A i \in Nat : i <= d => parts * i <= parts * d
      /\ \A u, v \in Nat : u <= v => u * d <= v * d
  OBVIOUS
<1> HIDE DEF q
<1>6. q(n) <= parts
  <2> DEFINE a == parts * n
             b == parts * d
             c == q(n) * d
  <2>1. a \in Nat /\ b \in Nat /\ a <= b /\ c \in Nat
    BY <1>4, <1>5
  <2>2. 2 * c <= 2 * a + d
    BY <1>4
  <2>3. ASSUME q(n) >= parts + 1
        PROVE  FALSE
    <3>1. (parts + 1) * d <= c
      <4>1. parts + 1 \in Nat /\ q(n) \in Nat /\ parts + 1 <= q(n)
        BY <1>4, <2>3
      <4> QED BY <1>5, <4>1
    <3>2. (parts + 1) * d = b + d
      OBVIOUS
    <3> HIDE DEF a, b, c
    <3> QED BY <2>1, <2>2, <3>1, <3>2
  <2> QED BY <1>4, <2>3
<1>7. ASSUME NEW k \in Nat, n + k <= d
      PROVE  q(n) + q(k) <= parts + 1
  <2> DEFINE a == parts * n
             e == parts * k
             b == parts * d
             c == q(n) * d
             f == q(k) * d
  <2>1. a \in Nat /\ b \in Nat /\ e \in Nat /\ c \in Nat /\ f \in Nat
    BY <1>4
  <2>2. a + e <= b
    <3>1. parts * (n + k) <= parts * d
      BY <1>5, <1>7
    <3>2. parts * (n + k) = a + e
      OBVIOUS
    <3> QED BY <3>1, <3>2
  <2>3. 2 * c <= 2 * a + d /\ 2 * f <= 2 * e + d
    BY <1>4
  <2>4. ASSUME q(n) + q(k) >= parts + 2
        PROVE  FALSE
    <3>1. (parts + 2) * d <= (q(n) + q(k)) * d
      <4>1. parts + 2 \in Nat /\ q(n) + q(k) \in Nat /\ parts + 2 <= q(n) + q(k)
        BY <1>4, <2>4
      <4> QED BY <1>5, <4>1
    <3>2. (parts + 2) * d = b + 2 * d /\ (q(n) + q(k)) * d = c + f
      BY <1>4
    <3> HIDE DEF a, b, c, e, f
    <3> QED BY <2>1, <2>2, <2>3, <3>1, <3>2
  <2> QED BY <1>4, <2>4
<1> QED BY <1>1, <1>4, <1>6, <1>7

\* What a condition tells apart in a finite set.
LEMMA Counted ==
  ASSUME NEW S, IsFiniteSet(S), NEW T \in SUBSET S
  PROVE  /\ IsFiniteSet(T) /\ Cardinality(T) \in Nat /\ Cardinality(S) \in Nat
         /\ Cardinality(T) <= Cardinality(S)
         /\ \A U \in SUBSET S : T \cap U = {} => Cardinality(T) + Cardinality(U) <= Cardinality(S)
PROOF
<1>1. \A U \in SUBSET S : /\ IsFiniteSet(U) /\ Cardinality(U) \in Nat
                          /\ Cardinality(U) <= Cardinality(S)
  BY FS_Subset, FS_CardinalityType
<1>2. ASSUME NEW U \in SUBSET S, T \cap U = {}
      PROVE  Cardinality(T) + Cardinality(U) <= Cardinality(S)
  <2>1. Cardinality(T \cup U) = Cardinality(T) + Cardinality(U) - Cardinality(T \cap U)
    BY <1>1, FS_Union
  <2>2. Cardinality(T \cap U) = 0
    BY <1>2, FS_EmptySet
  <2>3. T \cup U \in SUBSET S
    OBVIOUS
  <2> QED BY <1>1, <2>1, <2>2, <2>3
<1> QED BY <1>1, <1>2, FS_CardinalityType

\* The image of a finite set is finite, and not larger.
LEMMA ImageCounted ==
  ASSUME NEW S, IsFiniteSet(S), NEW f
  PROVE  LET T == {f[x] : x \in S} IN
         IsFiniteSet(T) /\ Cardinality(T) \in Nat /\ Cardinality(T) <= Cardinality(S)
PROOF
<1> DEFINE T == {f[x] : x \in S}
           g == [x \in S |-> f[x]]
<1>1. g \in Surjection(S, T)
  BY DEF Surjection
<1> HIDE DEF g, T
<1> QED BY <1>1, FS_Surjection, FS_CardinalityType DEF T

-----------------------------------------------------------------------------
(* The status of the platform                                              *)

\* What a status says of the services, when it says that the platform is operational.
LEMMA OperationalServices ==
  ASSUME NEW dbs, NEW later, NEW failing,
         \A i \in DOMAIN SERVICES :
           later[i].services \in [Range(SERVICES) -> {"ok", "error", "silent"}],
         dbs[1].kafka.up \in BOOLEAN,
         buildPlatformStatus(dbs, later, failing).pipeline_status = "operational"
  PROVE  /\ \A i \in DOMAIN SERVICES : later[i].services[SERVICES[i]] = "ok"
         /\ dbs[1].kafka.up
         /\ \A id \in DOMAIN PIPELINE_BLOCKS :
              buildPlatformStatus(dbs, later, failing).pipeline_blocks[id].status = "ok"
PROOF
<1> DEFINE downstream == readDownstreamHealth(later)
           semantic == getSemanticSummary(dbs, failing)
           latest == getStorageLatest(dbs, failing)
           kafka == getKafkaTopics(dbs[1])
           status == buildPlatformStatus(dbs, later, failing)
           blocks == buildPipelineBlocks(downstream, latest, kafka, semantic)
<1>1. /\ status.pipeline_status = IF /\ \A service \in Range(downstream) : service.status = "ok"
                                     /\ kafka.status = "ok"
                                  THEN "operational" ELSE "degraded"
      /\ status.pipeline_blocks = blocks
  BY DEF buildPlatformStatus
<1>2. (\A service \in Range(downstream) : service.status = "ok") /\ kafka.status = "ok"
  BY <1>1
<1>3. dbs[1].kafka.up
  BY <1>2 DEF getKafkaTopics
<1>4. ASSUME NEW i \in DOMAIN SERVICES
      PROVE  later[i].services[SERVICES[i]] = "ok"
  <2> DEFINE asked == later[i].services[SERVICES[i]]
  <2>1. asked \in {"ok", "error", "silent"}
    BY DEF Range
  <2>2. downstream[i] \in Range(downstream)
    BY DEF readDownstreamHealth, Range
  <2>3. downstream[i].status = CASE asked = "ok" -> "ok" [] asked = "error" -> "degraded"
                                 [] asked = "silent" -> "unavailable"
    <3> HIDE DEF SERVICES
    <3> QED BY DEF readDownstreamHealth
  <2> HIDE DEF asked, downstream
  <2>4. asked # "error"
    BY <1>2, <2>2, <2>3
  <2>5. asked # "silent"
    BY <1>2, <2>2, <2>3
  <2> QED BY <2>1, <2>4, <2>5 DEF asked
<1>5. ASSUME NEW id \in DOMAIN PIPELINE_BLOCKS
      PROVE  blocks[id].status = "ok"
  <2> DEFINE health == {d.status : d \in {x \in Range(downstream) :
                                            x.service = PIPELINE_BLOCKS[id]}}
  <2>1. blocks[id].status = IF id = "kafka" THEN kafka.status ELSE Coalesce(health, "ok")
    <3> HIDE DEF downstream, kafka
    <3> QED BY DEF buildPipelineBlocks
  <2>2. health \subseteq {"ok"}
    BY <1>2
  <2> HIDE DEF health, blocks, downstream, kafka
  <2>3. Coalesce(health, "ok") = "ok"
    BY <2>2 DEF Coalesce
  <2> QED BY <1>2, <2>1, <2>3
<1> QED BY <1>1, <1>3, <1>4, <1>5

\* What the status counts of the semantic connector and of the gateway.
LEMMA StatusCounts ==
  ASSUME NEW dbs, NEW later, NEW failing,
         \A k \in {1, 2, 3} : /\ IsFiniteSet(dbs[k].slm) /\ IsFiniteSet(dbs[k].audit)
                              /\ \A a \in dbs[k].slm : a.unmapped = (a.status # "mapped")
  PROVE  LET status == buildPlatformStatus(dbs, later, failing) IN
         /\ status.scalability.acceptance + status.scalability.unmapped <= 101
         /\ status.semantic.mapped + status.semantic.unmapped <= status.semantic.total
         /\ status.security.blocked + status.security.rate_limited <= status.security.rejected
PROOF
<1> DEFINE status == buildPlatformStatus(dbs, later, failing)
<1>1. /\ status.scalability = getScalabilitySummary(dbs, failing, {})
      /\ status.semantic = getSemanticSummary(dbs, failing)
      /\ status.security = getSecuritySummary(dbs, failing)
  BY DEF buildPlatformStatus
<1> DEFINE mapped(A) == {a \in A : a.status = "mapped"}
           unmapped(A) == {a \in A : a.unmapped}
<1>2. ASSUME NEW A, \/ A = {} \/ \E k \in {2, 3} : A \subseteq dbs[k].slm
      PROVE  /\ IsFiniteSet(A) /\ mapped(A) \in SUBSET A /\ unmapped(A) \in SUBSET A
             /\ mapped(A) \cap unmapped(A) = {}
             /\ Cardinality(A) \in Nat
             /\ Cardinality(mapped(A)) \in Nat /\ Cardinality(unmapped(A)) \in Nat
             /\ Cardinality(mapped(A)) + Cardinality(unmapped(A)) <= Cardinality(A)
  <2>1. IsFiniteSet(A)
    BY <1>2, FS_Subset, FS_EmptySet
  <2>2. \A a \in A : a.unmapped = (a.status # "mapped")
    BY <1>2
  <2>3. mapped(A) \in SUBSET A /\ unmapped(A) \in SUBSET A /\ mapped(A) \cap unmapped(A) = {}
    BY <2>2
  <2> HIDE DEF mapped, unmapped
  <2> QED BY <2>1, <2>3, Counted
<1>3. status.scalability.acceptance + status.scalability.unmapped <= 101
  <2> DEFINE A == safeQuery(failing, <<"scalability", 3>>,
                    {r \in dbs[3].slm : r.at >= dbs[3].now
                                           - Max({1, Min({1440, Coalesce({} \ {0}, 60)})})}, {})
  <2>1. /\ status.scalability.acceptance = PercentOf(mapped(A), A)
        /\ status.scalability.unmapped = PercentOf(unmapped(A), A)
    <3>1. /\ getScalabilitySummary(dbs, failing, {}).acceptance = PercentOf(mapped(A), A)
          /\ getScalabilitySummary(dbs, failing, {}).unmapped = PercentOf(unmapped(A), A)
      BY ZenonT(60) DEF getScalabilitySummary
    <3> HIDE DEF A, mapped, unmapped, status
    <3> QED BY <1>1, <3>1
  <2>2. \/ A = {} \/ \E k \in {2, 3} : A \subseteq dbs[k].slm
    BY DEF safeQuery
  <2> HIDE DEF A, mapped, unmapped
  <2>3. CASE A = {}
    BY <2>1, <2>3 DEF PercentOf
  <2>4. CASE A # {}
    <3> DEFINE n == Cardinality(mapped(A))
               k == Cardinality(unmapped(A))
               d == Cardinality(A)
    <3>1. n \in Nat /\ k \in Nat /\ d \in Nat /\ n + k <= d /\ d # 0
      BY <1>2, <2>2, <2>4, FS_EmptySet
    <3>2. /\ status.scalability.acceptance = Share(n, d, 100)
          /\ status.scalability.unmapped = Share(k, d, 100)
      BY <2>1, <2>4 DEF PercentOf
    <3> HIDE DEF n, k, d
    <3>3. d > 0 /\ n <= d
      BY <3>1
    <3>4. Share(n, d, 100) + Share(k, d, 100) <= 100 + 1
      BY <3>1, <3>3, ShareOfWhole
    <3> QED BY <3>2, <3>4
  <2> QED BY <2>3, <2>4
<1>4. status.semantic.mapped + status.semantic.unmapped <= status.semantic.total
  <2> DEFINE A == safeQuery(failing, <<"semantic", 2>>, dbs[2].slm, {})
  <2>1. /\ status.semantic.mapped = Cardinality(mapped(A))
        /\ status.semantic.unmapped = Cardinality(unmapped(A))
        /\ status.semantic.total = Cardinality(A)
    BY <1>1 DEF getSemanticSummary
  <2>2. \/ A = {} \/ \E k \in {2, 3} : A \subseteq dbs[k].slm
    BY DEF safeQuery
  <2> HIDE DEF A, mapped, unmapped
  <2> QED BY <1>2, <2>1, <2>2
<1>5. status.security.blocked + status.security.rate_limited <= status.security.rejected
  <2> DEFINE A == safeQuery(failing, <<"security", 1>>, dbs[1].audit, {})
             deciding(decisions) == {a \in A : a.decision \in decisions}
  <2>1. /\ status.security.blocked = Cardinality(deciding({"blocked"}))
        /\ status.security.rate_limited = Cardinality(deciding({"rate_limited"}))
        /\ status.security.rejected = Cardinality(deciding(Rejections))
    BY <1>1 DEF getSecuritySummary
  <2>2. IsFiniteSet(A)
    BY FS_EmptySet DEF safeQuery
  <2>3. /\ deciding(Rejections) \in SUBSET A
        /\ deciding({"blocked"}) \in SUBSET deciding(Rejections)
        /\ deciding({"rate_limited"}) \in SUBSET deciding(Rejections)
        /\ deciding({"blocked"}) \cap deciding({"rate_limited"}) = {}
    BY DEF Rejections
  <2> HIDE DEF A, deciding
  <2>4. IsFiniteSet(deciding(Rejections))
    BY <2>2, <2>3, FS_Subset
  <2> QED BY <2>1, <2>3, <2>4, Counted
<1> QED BY <1>3, <1>4, <1>5

\* A function on the first numbers is a sequence.
LEMMA ListLength ==
  ASSUME NEW n \in Nat, NEW W, NEW f \in [1..n -> W]
  PROVE  f \in Seq(W) /\ Len(f) = n
OBVIOUS

\* What the platform's status says is so.
LEMMA StatusFollows ==
  ASSUME IInv, PagesInv
  PROVE  OperationalIsHealthy
PROOF
<1> SUFFICES ASSUME NEW c \in Answered({"platform_status"})
             PROVE  LET status == StatusOf(c)
                        askedAt(i) == History[result[c].moments[5 + i]]
                    IN  /\ status.pipeline_status = "operational" =>
                             /\ \A i \in DOMAIN SERVICES : askedAt(i).services[SERVICES[i]] = "ok"
                             /\ History[result[c].moments[1]].kafka.up
                             /\ \A id \in DOMAIN PIPELINE_BLOCKS :
                                  status.pipeline_blocks[id].status = "ok"
                        /\ status.scalability.acceptance + status.scalability.unmapped <= 101
                        /\ status.semantic.mapped + status.semantic.unmapped
                             <= status.semantic.total
                        /\ status.security.blocked + status.security.rate_limited
                             <= status.security.rejected
  BY DEF OperationalIsHealthy
<1> DEFINE m(k) == result[c].moments[k]
           worlds == Worlds(c)
           dbs == SubSeq(worlds, 1, 5)
           later == SubSeq(worlds, 6, Len(worlds))
<1>1. c \in DOMAIN Requests /\ Successful(c) /\ Route(c) = "platform_status"
  BY DEF Answered, Successful
<1>2. QueriesOf(Route(c)) = 12
  BY <1>1 DEF QueriesOf
<1>3. DOMAIN worlds = 1..12
  <2>1. 1 \in 1..QueriesOf(Route(c))
    BY <1>2
  <2>2. DOMAIN result[c].moments = 1..12
    BY <1>1, <1>2, <2>1 DEF PagesInv, PageInv, Met
  <2> QED BY <2>2 DEF Worlds
<1>4. \A k \in 1..12 :
        /\ m(k) \in DOMAIN History /\ worlds[k] = World(m(k))
        /\ IsFiniteSet(worlds[k].slm) /\ IsFiniteSet(worlds[k].audit)
        /\ \A a \in worlds[k].slm : a.unmapped = (a.status # "mapped")
        /\ worlds[k].services = History[m(k)].services
        /\ worlds[k].services \in [Range(SERVICES) -> {"ok", "error", "silent"}]
        /\ worlds[k].kafka = History[m(k)].kafka /\ worlds[k].kafka.up \in BOOLEAN
  <2> SUFFICES ASSUME NEW k \in 1..12
               PROVE  /\ m(k) \in DOMAIN History /\ worlds[k] = World(m(k))
                      /\ IsFiniteSet(worlds[k].slm) /\ IsFiniteSet(worlds[k].audit)
                      /\ \A a \in worlds[k].slm : a.unmapped = (a.status # "mapped")
                      /\ worlds[k].services = History[m(k)].services
                      /\ worlds[k].services \in [Range(SERVICES) -> {"ok", "error", "silent"}]
                      /\ worlds[k].kafka = History[m(k)].kafka /\ worlds[k].kafka.up \in BOOLEAN
    BY Zenon
  <2>1. m(k) \in DOMAIN History /\ worlds[k] = World(m(k))
    BY <1>1, <1>2, PagesMeetWorlds
  <2> HIDE DEF m, worlds
  <2>2. /\ worlds[k].slm = History[m(k)].slm /\ worlds[k].services = History[m(k)].services
        /\ worlds[k].kafka = History[m(k)].kafka
        /\ worlds[k].audit = History[m(k)].audit \cup {a \in audit : a.at < m(k)}
    BY <2>1, WorldsAreHistory
  <2>3. /\ IsFiniteSet(History[m(k)].slm) /\ IsFiniteSet(History[m(k)].audit)
        /\ \A a \in History[m(k)].slm : a.unmapped = (a.status # "mapped")
        /\ History[m(k)].services \in [Range(SERVICES) -> {"ok", "error", "silent"}]
        /\ History[m(k)].kafka.up \in BOOLEAN
    BY <2>1, TableFacts
  <2>4. IsFiniteSet({a \in audit : a.at < m(k)})
    <3>1. IsFiniteSet(audit) /\ {a \in audit : a.at < m(k)} \in SUBSET audit
      BY DEF PagesInv
    <3> QED BY <3>1, FS_Subset
  <2> DEFINE own == {a \in audit : a.at < m(k)}
  <2>5. IsFiniteSet(worlds[k].audit)
    <3>1. worlds[k].audit = History[m(k)].audit \cup own
      BY <2>2
    <3>2. IsFiniteSet(own)
      BY <2>4
    <3> HIDE DEF own
    <3>3. IsFiniteSet(History[m(k)].audit \cup own)
      BY <2>3, <3>2, FS_Union
    <3> QED BY <3>1, <3>3
  <2> QED BY <2>1, <2>2, <2>3, <2>5
<1> HIDE DEF worlds, m
<1>5. /\ \A k \in 1..5 : dbs[k] = worlds[k]
      /\ \A k \in 1..7 : later[k] = worlds[5 + k] /\ 5 + k \in 1..12
  <2>1. worlds \in Seq({worlds[k] : k \in 1..12}) /\ Len(worlds) = 12
    <3>1. worlds = [k \in 1..12 |-> worlds[k]]
      BY <1>3 DEF worlds, Worlds
    <3> DEFINE W == {worlds[k] : k \in 1..12}
    <3>2. worlds \in [1..12 -> W]
      BY <3>1
    <3>3. worlds \in Seq(W) /\ Len(worlds) = 12
      <4>1. 12 \in Nat
        OBVIOUS
      <4> HIDE DEF W
      <4> QED BY <3>2, <4>1, ListLength
    <3> QED BY <3>3
  <2> QED BY <2>1
<1>6. DOMAIN SERVICES = 1..7
  BY DEF SERVICES
<1> DEFINE status == buildPlatformStatus(dbs, later, result[c].failing)
<1>7. StatusOf(c) = status
  BY DEF StatusOf, worlds
<1> HIDE DEF dbs, later, status
<1>8. ASSUME status.pipeline_status = "operational"
      PROVE  /\ \A i \in DOMAIN SERVICES : History[m(5 + i)].services[SERVICES[i]] = "ok"
             /\ History[m(1)].kafka.up
             /\ \A id \in DOMAIN PIPELINE_BLOCKS : status.pipeline_blocks[id].status = "ok"
  <2>1. \A i \in DOMAIN SERVICES :
          /\ later[i].services = History[m(5 + i)].services
          /\ later[i].services \in [Range(SERVICES) -> {"ok", "error", "silent"}]
    BY <1>4, <1>5, <1>6
  <2>2. dbs[1].kafka = History[m(1)].kafka /\ dbs[1].kafka.up \in BOOLEAN
    BY <1>4, <1>5
  <2>3. /\ \A i \in DOMAIN SERVICES : later[i].services[SERVICES[i]] = "ok"
        /\ dbs[1].kafka.up
        /\ \A id \in DOMAIN PIPELINE_BLOCKS : status.pipeline_blocks[id].status = "ok"
    BY <1>8, <2>1, <2>2, OperationalServices DEF status
  <2> QED BY <2>1, <2>2, <2>3
<1>9. \A k \in {1, 2, 3} :
        /\ IsFiniteSet(dbs[k].slm) /\ IsFiniteSet(dbs[k].audit)
        /\ \A a \in dbs[k].slm : a.unmapped = (a.status # "mapped")
  <2>1. \A k \in {1, 2, 3} : k \in 1..5 /\ k \in 1..12
    OBVIOUS
  <2> QED BY <1>4, <1>5, <2>1
<1>10. /\ status.scalability.acceptance + status.scalability.unmapped <= 101
       /\ status.semantic.mapped + status.semantic.unmapped <= status.semantic.total
       /\ status.security.blocked + status.security.rate_limited <= status.security.rejected
  BY <1>9, StatusCounts DEF status
<1> QED BY <1>7, <1>8, <1>10 DEF m

-----------------------------------------------------------------------------
(* The comparison with the community                                       *)

\* A latest state for every device that has reported, with its household and a community that
\* it has reported from there.
LEMMA StatesCounted ==
  ASSUME NEW world, IsFiniteSet(world.telemetry)
  PROVE  /\ IsFiniteSet(LatestState(world))
         /\ \A s \in LatestState(world) : \E r \in world.telemetry :
              s.household = r.household /\ s.community = r.community /\ s.device = r.device
PROOF
<1> DEFINE latest == LatestReadings(world)
           mine(one) == {r \in latest : <<r.household, r.device>> = <<one.household, one.device>>}
           state == [one \in latest |-> StateOf(one, mine(one))]
<1>1. latest \in SUBSET world.telemetry
  BY DEF LatestReadings
<1>2. LatestState(world) = {StateOf(one, mine(one)) : one \in latest}
  BY DEF LatestState
<1>3. LatestState(world) = {state[one] : one \in latest}
  <2> HIDE DEF latest
  <2> QED BY <1>2
<1>4. ASSUME NEW one \in latest
      PROVE  \E r \in latest : LET s == StateOf(one, mine(one)) IN
               s.household = r.household /\ s.community = r.community /\ s.device = r.device
  <2> DEFINE communities == {r.community : r \in mine(one)}
             s == StateOf(one, mine(one))
  <2>1. one \in mine(one)
    OBVIOUS
  <2>2. s.household = one.household /\ s.device = one.device
          /\ s.community = CHOOSE name \in communities : TRUE
    <3> HIDE DEF mine
    <3> QED BY DEF StateOf
  <2>3. (CHOOSE name \in communities : TRUE) \in communities
    BY <2>1
  <2>4. PICK r \in mine(one) : s.community = r.community
    BY <2>2, <2>3
  <2>5. r \in latest /\ r.household = one.household /\ r.device = one.device
    OBVIOUS
  <2> QED BY <2>2, <2>4, <2>5
<1> HIDE DEF latest, mine, state
<1>5. IsFiniteSet(latest)
  BY <1>1, FS_Subset
<1>6. IsFiniteSet(LatestState(world))
  BY <1>3, <1>5, ImageCounted
<1> QED BY <1>1, <1>2, <1>4, <1>6

\* A percentile is one, within a group of five at least.
LEMMA PercentileIsOne ==
  ASSUME NEW world, IsFiniteSet(world.telemetry), NEW community, NEW h,
         NEW group,
         group = {r.household : r \in {s \in world.telemetry : s.community \in community}}
  PROVE  /\ PercentileOf(world, community, h) \subseteq 0..100
         /\ PercentileOf(world, community, h) # {} => Cardinality(group) >= 5
PROOF
<1> DEFINE states == {s \in LatestState(world) : s.community \in community}
           compared == {s.household : s \in states}
           below == {i \in compared : h \in compared /\ DemandOf(states, i) <= DemandOf(states, h)}
<1>1. PercentileOf(world, community, h)
        = IF Cardinality(compared) < 5 THEN {}
          ELSE {Share(Cardinality(below), Cardinality(compared), 100)}
  BY Zenon DEF PercentileOf
<1>2. compared \in SUBSET group
  BY StatesCounted
<1>3. IsFiniteSet(group)
  <2> DEFINE rows == {s \in world.telemetry : s.community \in community}
             of == [r \in rows |-> r.household]
  <2>1. IsFiniteSet(rows)
    <3>1. rows \in SUBSET world.telemetry
      OBVIOUS
    <3> HIDE DEF rows
    <3> QED BY <3>1, FS_Subset
  <2>2. group = {of[r] : r \in rows}
    OBVIOUS
  <2> HIDE DEF of, rows
  <2>3. IsFiniteSet({of[r] : r \in rows})
    BY <2>1, ImageCounted
  <2> QED BY <2>2, <2>3
<1>4. below \in SUBSET compared
  OBVIOUS
<1> HIDE DEF compared, below
<1>5. /\ IsFiniteSet(compared) /\ Cardinality(compared) \in Nat /\ Cardinality(group) \in Nat
      /\ Cardinality(compared) <= Cardinality(group)
  BY <1>2, <1>3, Counted
<1>6. Cardinality(below) \in Nat /\ Cardinality(below) <= Cardinality(compared)
  BY <1>4, <1>5, Counted
<1>7. CASE Cardinality(compared) < 5
  BY <1>1, <1>7
<1>8. CASE ~(Cardinality(compared) < 5)
  <2>1. Cardinality(compared) > 0
    BY <1>5, <1>8
  <2>2. Share(Cardinality(below), Cardinality(compared), 100) \in 0..100
    BY <1>5, <1>6, <2>1, ShareOfWhole
  <2> QED BY <1>1, <1>5, <1>8, <2>2
<1> QED BY <1>7, <1>8

\* A reading has one audit row at most.
LEMMA OutcomeIsOne ==
  ASSUME NEW A, IsFiniteSet(A), \A a, b \in A : a = b /\ a.processed \in Nat,
         Highest(A, LAMBDA a : a.processed, 1) # <<>>
  PROVE  Highest(A, LAMBDA a : a.processed, 1)[1] \in A
PROOF
<1> DEFINE n == Cardinality(A)
           number == CHOOSE f \in [A -> 1..n] : IsInjective(f)
           before(a, b) == \/ -a.processed < -b.processed
                           \/ -a.processed = -b.processed /\ a # b /\ number[a] < number[b]
           above(x) == {y \in A : before(y, x)}
           ordered == [i \in 1..n |-> CHOOSE x \in A : Cardinality(above(x)) = i - 1]
           k == Min({1, n})
           shown == Highest(A, LAMBDA a : a.processed, 1)
<1>1. shown = SubSeq(ordered, 1, k)
  BY DEF Highest, SortedBy, Ordered
<1>2. n \in Nat
  BY FS_CardinalityType
<1>3. k \in {1, n} /\ k <= 1 /\ k <= n
  <2> HIDE DEF n
  <2>1. n \in Int /\ 1 \in Int
    BY <1>2
  <2> QED BY <2>1, MinOfTwo
<1>4. \A x \in A : above(x) = {}
  <2> HIDE DEF number
  <2>1. \A x, y \in A : x = y /\ x.processed \in Int
    OBVIOUS
  <2>2. \A x \in A : ~before(x, x)
    BY <2>1
  <2> HIDE DEF before
  <2> QED BY <2>1, <2>2
<1>5. A # {}
  <2>1. CASE A = {}
    <3>1. n = 0
      BY <2>1, FS_EmptySet
    <3> HIDE DEF n, ordered, k
    <3>2. k = 0
      BY <1>3, <3>1
    <3>3. SubSeq(ordered, 1, 0) = <<>>
      OBVIOUS
    <3> QED BY <1>1, <3>2, <3>3
  <2> QED BY <2>1
<1>6. n = 1
  <2>1. PICK a \in A : A = {a}
    BY <1>5
  <2> QED BY <2>1, FS_Singleton
<1>7. k = 1
  <2> HIDE DEF n, k
  <2> QED BY <1>6, <1>3
<1>8. ordered[1] \in A
  <2>1. \E x \in A : Cardinality(above(x)) = 0
    BY <1>4, <1>5, FS_EmptySet
  <2> HIDE DEF above, n
  <2>2. ordered[1] = CHOOSE x \in A : Cardinality(above(x)) = 0
    BY <1>6
  <2> QED BY <2>1, <2>2
<1>9. Len(ordered) = 1 /\ DOMAIN ordered = 1..1
  <2> HIDE DEF n, above
  <2> QED BY <1>6
<1> HIDE DEF ordered, shown, k
<1>10. shown[1] = ordered[1]
  BY <1>1, <1>7, <1>9
<1> QED BY <1>8, <1>10 DEF shown

\* What the semantic connector has done with the last readings of a cohort.
LEMMA ProgressAddsUp ==
  ASSUME NEW world, IsFiniteSet(world.telemetry), IsFiniteSet(world.slm), NEW community,
         \A a, b \in world.slm : /\ a.processed \in Nat /\ (a.reading = b.reading => a = b)
                                 /\ a.unmapped = (a.status # "mapped")
  PROVE  LET progress == SemanticProgress(world, community) IN
         /\ progress.mapped + progress.unmapped <= progress.terminal
         /\ progress.completion \in 0..1000
PROOF
<1> DEFINE readings == {r \in world.telemetry : r.community \in community /\ r.household \in Cohort}
           latest == {r \in readings : ~\E s \in readings :
                         /\ s.device = r.device
                         /\ s.at > r.at \/ (s.at = r.at /\ s.processed > r.processed)}
           audited(r) == {a \in world.slm : a.reading = r.id}
           outcomeOf(r) == Highest(audited(r), LAMBDA a : a.processed, 1)
           terminal == {r \in latest : outcomeOf(r) # <<>>}
           mapped == {r \in terminal : outcomeOf(r)[1].status = "mapped"}
           unmapped == {r \in terminal : outcomeOf(r)[1].unmapped}
           progress == SemanticProgress(world, community)
<1>1. /\ progress.mapped = Cardinality(mapped) /\ progress.unmapped = Cardinality(unmapped)
      /\ progress.terminal = Cardinality(terminal)
      /\ progress.completion = IF latest = {} THEN 0
                               ELSE Share(Cardinality(terminal), Cardinality(latest), 1000)
  BY Zenon DEF SemanticProgress
<1>2. latest \in SUBSET world.telemetry
  OBVIOUS
<1> HIDE DEF latest, progress
<1>3. IsFiniteSet(latest)
  BY <1>2, FS_Subset
<1>4. \A r \in terminal : outcomeOf(r)[1] \in world.slm
  <2> SUFFICES ASSUME NEW r \in latest, outcomeOf(r) # <<>>
               PROVE  outcomeOf(r)[1] \in world.slm
    OBVIOUS
  <2>1. audited(r) \in SUBSET world.slm /\ \A a, b \in audited(r) : a = b /\ a.processed \in Nat
    OBVIOUS
  <2> HIDE DEF audited
  <2>2. IsFiniteSet(audited(r))
    BY <2>1, FS_Subset
  <2>3. outcomeOf(r)[1] \in audited(r)
    BY <2>1, <2>2, OutcomeIsOne
  <2> QED BY <2>1, <2>3
<1> HIDE DEF outcomeOf
<1>5. terminal \in SUBSET latest /\ mapped \in SUBSET terminal /\ unmapped \in SUBSET terminal
  OBVIOUS
<1>6. mapped \cap unmapped = {}
  BY <1>4
<1> HIDE DEF terminal, mapped, unmapped
<1>7. /\ IsFiniteSet(terminal) /\ Cardinality(terminal) \in Nat /\ Cardinality(latest) \in Nat
      /\ Cardinality(terminal) <= Cardinality(latest)
  BY <1>3, <1>5, Counted
<1>8. progress.mapped + progress.unmapped <= progress.terminal
  BY <1>1, <1>5, <1>6, <1>7, Counted
<1>9. progress.completion \in 0..1000
  <2>1. CASE latest = {}
    BY <1>1, <2>1
  <2>2. CASE latest # {}
    <3>1. Cardinality(latest) # 0
      BY <1>3, <2>2, FS_EmptySet
    <3>2. Cardinality(latest) > 0
      BY <1>7, <3>1
    <3>3. Share(Cardinality(terminal), Cardinality(latest), 1000) \in 0..1000
      <4>1. PICK parts \in Nat : parts = 1000
        OBVIOUS
      <4>2. Share(Cardinality(terminal), Cardinality(latest), parts) \in 0..parts
        BY <1>7, <3>2, ShareOfWhole
      <4> QED BY <4>1, <4>2
    <3> QED BY <1>1, <2>2, <3>3
  <2> QED BY <2>1, <2>2
<1> QED BY <1>8, <1>9 DEF progress

\* The registry of the validation households is finite.
LEMMA AssetsCounted ==
  ASSUME NEW world, IsFiniteSet(world.registry), NEW community
  PROVE  IsFiniteSet(CohortAssets(world, community))
PROOF
<1> DEFINE mine == {x \in world.registry : x.community \in community /\ x.household \in Cohort}
<1>1. \E f : CohortAssets(world, community) = {f[d] : d \in mine}
  <2> DEFINE states == LatestState(world)
             of(d) == {x \in states : <<x.household, x.device>> = <<d.household, d.device>>}
             seen(d) == {x.last_seen : x \in of(d)}
             rowOf(d) == [household |-> d.household, device |-> d.device,
                          device_type |-> d.category, profile |-> d.profile,
                          flexible |-> d.flexible, max_flexible |-> d.max_flexible,
                          last_seen |-> IF seen(d) = {} THEN d.last_seen ELSE seen(d),
                          power |-> Values(LAMBDA x : x.power, of(d))]
             f == [d \in mine |-> rowOf(d)]
  <2>1. CohortAssets(world, community) = {rowOf(d) : d \in mine}
    BY Zenon DEF CohortAssets
  <2> HIDE DEF rowOf, mine
  <2>2. {rowOf(d) : d \in mine} = {f[d] : d \in mine}
    OBVIOUS
  <2> QED BY <2>1, <2>2
<1>2. mine \in SUBSET world.registry
  OBVIOUS
<1> HIDE DEF mine
<1>3. IsFiniteSet(mine)
  BY <1>2, FS_Subset
<1> QED BY <1>1, <1>3, ImageCounted

\* What is counted of a community adds up.
LEMMA CommunityAddsUp ==
  ASSUME NEW context, NEW h, NEW dbs,
         IsFiniteSet(dbs[1].telemetry), IsFiniteSet(dbs[5].registry)
  PROVE  LET community == getCustomerCommunity(context, h, dbs) IN
         /\ community.active_households <= community.household_count
         /\ community.cohort.active <= community.cohort.online
         /\ community.cohort.online <= community.cohort.assets
         /\ community.percentile = PercentileOf(dbs[3], context.community, h)
         /\ community.progress = SemanticProgress(dbs[8], context.community)
PROOF
<1> DEFINE community == getCustomerCommunity(context, h, dbs)
           states == {s \in LatestState(dbs[1]) : s.community \in context.community}
           present == {s \in states : s.last_seen >= dbs[1].now - 10}
           households == {s.household : s \in states}
           active == {s.household : s \in present}
           assets == CohortAssets(dbs[5], context.community)
           online == {a \in assets : SeenWithin(a, 20, dbs[5].now)}
           working == {a \in online : IsActive(a)}
<1>1. /\ community.active_households = Cardinality(active)
      /\ community.household_count = Cardinality(households)
      /\ community.percentile = PercentileOf(dbs[3], context.community, h)
      /\ community.progress = SemanticProgress(dbs[8], context.community)
      /\ community.cohort.active = Cardinality(working)
      /\ community.cohort.online = Cardinality(online)
      /\ community.cohort.assets = Cardinality(assets)
  BY Zenon DEF getCustomerCommunity
<1>2. IsFiniteSet(households)
  <2> DEFINE of == [s \in states |-> s.household]
  <2>1. states \in SUBSET LatestState(dbs[1])
    OBVIOUS
  <2>2. households = {of[s] : s \in states}
    OBVIOUS
  <2>3. IsFiniteSet(LatestState(dbs[1]))
    BY StatesCounted
  <2> HIDE DEF of, states, households
  <2>4. IsFiniteSet(states)
    BY <2>1, <2>3, FS_Subset
  <2> QED BY <2>2, <2>4, ImageCounted
<1>3. active \in SUBSET households
  OBVIOUS
<1>4. IsFiniteSet(assets)
  BY AssetsCounted
<1>5. online \in SUBSET assets /\ working \in SUBSET online
  OBVIOUS
<1> HIDE DEF active, households, assets, online, working, community
<1>6. IsFiniteSet(online)
  BY <1>4, <1>5, FS_Subset
<1> QED BY <1>1, <1>2, <1>3, <1>4, <1>5, <1>6, Counted DEF community

\* What a household is compared with is a group, and what is counted of it adds up.
LEMMA ComparisonsFollow ==
  ASSUME IInv, PagesInv
  PROVE  ComparisonsNeedAGroup
PROOF
<1> SUFFICES ASSUME NEW c \in Answered({"community"})
             PROVE  LET community == CommunityOf(c) IN
                    /\ community.percentile \subseteq 0..100
                    /\ community.percentile # {} =>
                         Cardinality(ComparisonGroup(result[c].moments[3],
                                                     Context(c).community)) >= 5
                    /\ community.active_households <= community.household_count
                    /\ community.cohort.active <= community.cohort.online
                    /\ community.cohort.online <= community.cohort.assets
                    /\ community.progress.mapped + community.progress.unmapped
                         <= community.progress.terminal
                    /\ community.progress.completion \in 0..1000
  BY DEF ComparisonsNeedAGroup
<1> DEFINE m(k) == result[c].moments[k]
           worlds == Worlds(c)
           h == Household(c)
           ours == Context(c).community
<1>1. c \in DOMAIN Requests /\ Successful(c) /\ QueriesOf(Route(c)) = 8
  BY DEF Answered, Successful, QueriesOf
<1>2. ASSUME NEW k \in 1..8
      PROVE  /\ m(k) \in DOMAIN History
             /\ worlds[k].telemetry = History[m(k)].telemetry
             /\ IsFiniteSet(worlds[k].telemetry) /\ IsFiniteSet(worlds[k].registry)
             /\ IsFiniteSet(worlds[k].slm)
             /\ \A a, b \in worlds[k].slm :
                  /\ a.processed \in Nat /\ (a.reading = b.reading => a = b)
                  /\ a.unmapped = (a.status # "mapped")
  <2>1. m(k) \in DOMAIN History /\ worlds[k] = World(m(k))
    BY <1>1, PagesMeetWorlds
  <2> HIDE DEF m, worlds
  <2>2. /\ worlds[k].telemetry = History[m(k)].telemetry
        /\ worlds[k].registry = History[m(k)].registry /\ worlds[k].slm = History[m(k)].slm
    BY <2>1, WorldsAreHistory
  <2>3. /\ IsFiniteSet(History[m(k)].telemetry) /\ IsFiniteSet(History[m(k)].registry)
        /\ IsFiniteSet(History[m(k)].slm)
        /\ \A a, b \in History[m(k)].slm :
             /\ a.processed \in Nat /\ (a.reading = b.reading => a = b)
             /\ a.unmapped = (a.status # "mapped")
    BY <2>1, TableFacts
  <2> QED BY <2>1, <2>2, <2>3
<1>3. 1 \in 1..8 /\ 3 \in 1..8 /\ 5 \in 1..8 /\ 8 \in 1..8
  OBVIOUS
<1> DEFINE community == CommunityOf(c)
<1>4. community = getCustomerCommunity(Context(c), h, worlds)
  BY DEF CommunityOf
<1> HIDE DEF m, worlds, h, community
<1>5. /\ community.active_households <= community.household_count
      /\ community.cohort.active <= community.cohort.online
      /\ community.cohort.online <= community.cohort.assets
      /\ community.percentile = PercentileOf(worlds[3], ours, h)
      /\ community.progress = SemanticProgress(worlds[8], ours)
  BY <1>2, <1>3, <1>4, CommunityAddsUp
<1>6. /\ community.percentile \subseteq 0..100
      /\ community.percentile # {} => Cardinality(ComparisonGroup(m(3), ours)) >= 5
  <2> DEFINE group == ComparisonGroup(m(3), ours)
  <2>1. group = {r.household : r \in {s \in worlds[3].telemetry : s.community \in ours}}
    BY <1>2, <1>3 DEF ComparisonGroup
  <2>2. IsFiniteSet(worlds[3].telemetry)
    BY <1>2, <1>3
  <2> HIDE DEF group, ours
  <2>3. /\ PercentileOf(worlds[3], ours, h) \subseteq 0..100
        /\ PercentileOf(worlds[3], ours, h) # {} => Cardinality(group) >= 5
    BY <2>1, <2>2, PercentileIsOne
  <2> QED BY <1>5, <2>3 DEF group
<1>7. /\ community.progress.mapped + community.progress.unmapped <= community.progress.terminal
      /\ community.progress.completion \in 0..1000
  <2>1. /\ IsFiniteSet(worlds[8].telemetry) /\ IsFiniteSet(worlds[8].slm)
        /\ \A a, b \in worlds[8].slm : /\ a.processed \in Nat /\ (a.reading = b.reading => a = b)
                                       /\ a.unmapped = (a.status # "mapped")
    BY <1>2, <1>3
  <2> HIDE DEF ours
  <2> QED BY <1>5, <2>1, ProgressAddsUp
<1> QED BY <1>5, <1>6, <1>7, Zenon DEF m, ours, community

-----------------------------------------------------------------------------
(* Sums over finite sets                                                   *)

\* A non-empty set of naturals has a least element, and it is the minimum.
LEMMA LeastOf ==
  ASSUME NEW S \in SUBSET Nat, S # {}
  PROVE  Min(S) \in S /\ \A x \in S : Min(S) <= x
<1>1. PICK k \in S : \A j \in S : ~ (<<j, k>> \in OpToRel(<, Nat))
  BY WFMin, NatLessThanWellFounded
<1>2. \A j \in S : ~ (j < k)
  BY <1>1 DEF OpToRel
<1>3. k \in Nat /\ \A j \in S : j \in Nat
  OBVIOUS
<1>4. \A j \in S : k <= j
  BY <1>2, <1>3
<1> QED
  BY <1>3, <1>4 DEF Min

\* Induction over the naturals, for a set of them instead of an operator.
LEMMA NumberInduction ==
  ASSUME NEW Good, 0 \in Good, \A n \in Nat : n \in Good => n + 1 \in Good
  PROVE  \A n \in Nat : n \in Good
<1> DEFINE Bad == Nat \ Good
           m == Min(Bad)
<1>1. SUFFICES ASSUME Bad # {} PROVE FALSE
  OBVIOUS
<1>2. m \in Bad /\ \A n \in Bad : m <= n
  BY <1>1, LeastOf
<1> HIDE DEF m
<1>3. m \in Nat /\ m \notin Good /\ m # 0
  BY <1>2
<1>4. m - 1 \in Nat /\ m - 1 \notin Bad /\ (m - 1) + 1 = m
  BY <1>2, <1>3
<1> QED
  BY <1>3, <1>4

\* What holds of a set when it holds of all its proper subsets holds of a finite set.
LEMMA SubsetInduction ==
  ASSUME NEW S, IsFiniteSet(S), NEW Good,
         \A T \in SUBSET S : (\A U \in SUBSET T : U # T => U \in Good) => T \in Good
  PROVE  \A T \in SUBSET S : T \in Good
<1> DEFINE Bad == {Cardinality(T) : T \in {U \in SUBSET S : U \notin Good}}
           m == Min(Bad)
<1>1. SUFFICES ASSUME Bad # {} PROVE FALSE
  OBVIOUS
<1>2. \A T \in SUBSET S : IsFiniteSet(T) /\ Cardinality(T) \in Nat
  BY FS_Subset, FS_CardinalityType
<1>3. Bad \in SUBSET Nat
  BY <1>2
<1>4. m \in Bad /\ \A n \in Bad : m <= n
  BY <1>1, <1>3, LeastOf
<1> HIDE DEF m
<1>5. PICK T \in SUBSET S : T \notin Good /\ Cardinality(T) = m
  BY <1>4
<1>6. ASSUME NEW U \in SUBSET T, U # T, U \notin Good
      PROVE  FALSE
  <2>1. U \in SUBSET S
    OBVIOUS
  <2>2. Cardinality(U) \in Bad
    BY <1>6, <2>1
  <2>3. Cardinality(U) <= Cardinality(T) /\ Cardinality(U) # Cardinality(T)
    BY <1>2, <1>6, FS_Subset
  <2> HIDE DEF Bad
  <2> QED
    BY <1>2, <1>4, <1>5, <2>1, <2>2, <2>3
<1> QED
  BY <1>5, <1>6

\* f takes the elements of each set one after another into base.
IsFold(f, S, base, step, pick) ==
  \A T \in SUBSET S : f[T] = IF T = {} THEN base ELSE step[<<f[T \ {pick[T]}], pick[T]>>]

\* A fold over a finite set is well defined, and what its steps keep in X stays in X.
LEMMA FoldExists ==
  ASSUME NEW S, IsFiniteSet(S), NEW X, NEW base \in X, NEW step \in [X \X S -> X],
         NEW pick, \A T \in SUBSET S : T # {} => pick[T] \in T
  PROVE  \E f \in [SUBSET S -> X] : IsFold(f, S, base, step, pick)
<1> DEFINE Fold(f, T) == IF T = {} THEN base ELSE step[<<f[T \ {pick[T]}], pick[T]>>]
           Upto(n) == \E f \in [SUBSET S -> X] :
                        \A T \in SUBSET S : Cardinality(T) <= n => f[T] = Fold(f, T)
           Good == {n \in Nat : Upto(n)}
<1>1. Cardinality(S) \in Nat
  BY FS_CardinalityType
<1>2. \A T \in SUBSET S : /\ IsFiniteSet(T) /\ Cardinality(T) \in Nat
                          /\ Cardinality(T) <= Cardinality(S)
  BY FS_Subset, FS_CardinalityType
<1>3. \A f \in [SUBSET S -> X], T \in SUBSET S : Fold(f, T) \in X
  OBVIOUS
<1>4. ASSUME NEW n \in Nat, n # 0, Upto(n - 1)
      PROVE  Upto(n)
  <2>1. PICK f \in [SUBSET S -> X] :
               \A T \in SUBSET S : Cardinality(T) <= n - 1 => f[T] = Fold(f, T)
    BY <1>4
  <2> DEFINE g == [T \in SUBSET S |-> IF Cardinality(T) = n THEN Fold(f, T) ELSE f[T]]
  <2>2. g \in [SUBSET S -> X]
    BY <1>3
  <2>3. \A T \in SUBSET S : Cardinality(T) <= n - 1 => g[T] = f[T]
    BY <1>2
  <2>4. ASSUME NEW T \in SUBSET S, Cardinality(T) <= n
        PROVE  Fold(g, T) = Fold(f, T)
    <3>1. CASE T = {}
      BY <3>1
    <3>2. CASE T # {}
      <4>1. pick[T] \in T /\ T \ {pick[T]} \in SUBSET S
        BY <3>2
      <4>2. Cardinality(T \ {pick[T]}) = Cardinality(T) - 1
        BY <1>2, <4>1, FS_RemoveElement
      <4>3. g[T \ {pick[T]}] = f[T \ {pick[T]}]
        BY <1>2, <2>3, <2>4, <4>1, <4>2
      <4> HIDE DEF g
      <4> QED
        BY <4>3
    <3> QED
      BY <3>1, <3>2
  <2>5. ASSUME NEW T \in SUBSET S, Cardinality(T) <= n
        PROVE  g[T] = Fold(g, T)
    <3>1. CASE Cardinality(T) = n
      BY <2>4, <2>5, <3>1
    <3>2. CASE Cardinality(T) # n
      <4>1. Cardinality(T) <= n - 1
        BY <1>2, <2>5, <3>2
      <4> QED
        BY <2>1, <2>3, <2>4, <2>5, <4>1
    <3> QED
      BY <3>1, <3>2
  <2> HIDE DEF g
  <2> QED
    BY <2>2, <2>5
<1>5. Upto(0)
  <2> DEFINE f == [T \in SUBSET S |-> base]
  <2>1. f \in [SUBSET S -> X]
    OBVIOUS
  <2>2. \A T \in SUBSET S : Cardinality(T) <= 0 => T = {}
    BY <1>2, FS_EmptySet
  <2>3. \A T \in SUBSET S : Cardinality(T) <= 0 => f[T] = Fold(f, T)
    BY <2>2
  <2> HIDE DEF f
  <2> QED
    BY <2>1, <2>3
<1> HIDE DEF Upto
<1>6. ASSUME NEW n \in Nat, n \in Good
      PROVE  n + 1 \in Good
  BY <1>4, <1>6
<1>7. \A n \in Nat : n \in Good
  <2>1. 0 \in Good
    BY <1>5
  <2> HIDE DEF Good
  <2> QED
    BY <1>6, <2>1, NumberInduction
<1>8. Upto(Cardinality(S))
  BY <1>1, <1>7
<1> QED
  BY <1>2, <1>8 DEF Upto, IsFold

\* The equation by which MapThenSumSet sums F over the subsets of S.
IsSum(F, S, g) ==
  g = [T \in SUBSET S |-> IF T = {} THEN 0
                          ELSE F[CHOOSE x \in T : TRUE] + g[T \ {CHOOSE x \in T : TRUE}]]

\* The equation has a solution.
LEMMA SumExists ==
  ASSUME NEW S, IsFiniteSet(S), NEW F \in [S -> Int]
  PROVE  \E g : IsSum(F, S, g)
<1> DEFINE pick == [T \in SUBSET S |-> CHOOSE x \in T : TRUE]
           step == [p \in Int \X S |-> F[p[2]] + p[1]]
<1>1. step \in [Int \X S -> Int]
  OBVIOUS
<1>2. \A T \in SUBSET S : T # {} => pick[T] \in T
  OBVIOUS
<1>3. PICK f \in [SUBSET S -> Int] : IsFold(f, S, 0, step, pick)
  <2> HIDE DEF pick, step
  <2>1. 0 \in Int
    OBVIOUS
  <2> QED
    BY <1>1, <1>2, <2>1, FoldExists, Zenon
<1>4. \A T \in SUBSET S : T # {} =>
        step[<<f[T \ {pick[T]}], pick[T]>>] = F[pick[T]] + f[T \ {pick[T]}]
  <2> SUFFICES ASSUME NEW T \in SUBSET S, T # {}
               PROVE  step[<<f[T \ {pick[T]}], pick[T]>>] = F[pick[T]] + f[T \ {pick[T]}]
    OBVIOUS
  <2>1. pick[T] \in S /\ f[T \ {pick[T]}] \in Int
    BY <1>2
  <2> HIDE DEF pick
  <2> QED
    BY <2>1
<1>5. \A T \in SUBSET S : pick[T] = CHOOSE x \in T : TRUE
  OBVIOUS
<1>6. \A T \in SUBSET S :
        f[T] = IF T = {} THEN 0
               ELSE F[CHOOSE x \in T : TRUE] + f[T \ {CHOOSE x \in T : TRUE}]
  <2> HIDE DEF step, pick
  <2> SUFFICES ASSUME NEW T \in SUBSET S
               PROVE  f[T] = IF T = {} THEN 0
                             ELSE F[CHOOSE x \in T : TRUE] + f[T \ {CHOOSE x \in T : TRUE}]
    OBVIOUS
  <2>1. f[T] = IF T = {} THEN 0 ELSE F[pick[T]] + f[T \ {pick[T]}]
    BY <1>3, <1>4 DEF IsFold
  <2> QED
    BY <1>5, <2>1, Zenon
<1>7. IsSum(F, S, f)
  BY <1>6, Zenon DEF IsSum
<1> QED
  BY <1>7

\* What the equation says of one set.
LEMMA SumEquation ==
  ASSUME NEW S, NEW F, NEW g, IsSum(F, S, g)
  PROVE  /\ g[{}] = 0
         /\ \A T \in SUBSET S : T # {} =>
              \E x \in T : g[T] = F[x] + g[T \ {x}]
<1> DEFINE h == [T \in SUBSET S |-> IF T = {} THEN 0
                           ELSE F[CHOOSE x \in T : TRUE] + g[T \ {CHOOSE x \in T : TRUE}]]
<1>1. g = h
  BY Zenon DEF IsSum
<1>2. \A T \in SUBSET S :
        g[T] = IF T = {} THEN 0
               ELSE F[CHOOSE x \in T : TRUE] + g[T \ {CHOOSE x \in T : TRUE}]
  <2>1. \A T \in SUBSET S :
          h[T] = IF T = {} THEN 0
                 ELSE F[CHOOSE x \in T : TRUE] + g[T \ {CHOOSE x \in T : TRUE}]
    BY Zenon
  <2> HIDE DEF h
  <2> QED
    BY <1>1, <2>1, Zenon
<1> HIDE DEF h
<1>3. g[{}] = 0
  <2>1. {} \in SUBSET S
    OBVIOUS
  <2> QED
    BY <1>2, <2>1, Zenon
<1>4. ASSUME NEW T \in SUBSET S, T # {}
      PROVE  \E x \in T : g[T] = F[x] + g[T \ {x}]
  <2>1. (CHOOSE x \in T : TRUE) \in T
    BY <1>4
  <2>2. g[T] = F[CHOOSE x \in T : TRUE] + g[T \ {CHOOSE x \in T : TRUE}]
    BY <1>2, <1>4, Zenon
  <2> QED
    BY <2>1, <2>2, Zenon
<1> QED
  BY <1>3, <1>4

\* The sum is an integer, and it does not matter which element is taken first.
LEMMA SumFacts ==
  ASSUME NEW S, IsFiniteSet(S), NEW F \in [S -> Int], NEW g, IsSum(F, S, g)
  PROVE  /\ g[{}] = 0
         /\ \A T \in SUBSET S : g[T] \in Int
         /\ \A T \in SUBSET S : \A x \in T : g[T] = F[x] + g[T \ {x}]
<1>1. g[{}] = 0 /\ \A T \in SUBSET S : T # {} => \E x \in T : g[T] = F[x] + g[T \ {x}]
  BY SumEquation
<1> DEFINE P(T) == g[T] \in Int /\ \A x \in T : g[T] = F[x] + g[T \ {x}]
           Good == {T \in SUBSET S : P(T)}
<1>2. ASSUME NEW T \in SUBSET S, \A U \in SUBSET T : U # T => P(U)
      PROVE  P(T)
  <2>1. CASE T = {}
    BY <1>1, <2>1
  <2>2. CASE T # {}
    <3>1. PICK c \in T : g[T] = F[c] + g[T \ {c}]
      BY <1>1, <2>2
    <3>2. P(T \ {c}) /\ F[c] \in Int
      BY <1>2
    <3>3. g[T] \in Int
      BY <3>1, <3>2
    <3>4. ASSUME NEW x \in T, x # c
          PROVE  g[T] = F[x] + g[T \ {x}]
      <4>1. P(T \ {x}) /\ P((T \ {x}) \ {c}) /\ x \in T \ {c} /\ c \in T \ {x} /\ F[x] \in Int
        <5>1. T \ {x} \in SUBSET T /\ T \ {x} # T
          OBVIOUS
        <5>2. (T \ {x}) \ {c} \in SUBSET T /\ (T \ {x}) \ {c} # T
          OBVIOUS
        <5> HIDE DEF P
        <5> QED
          BY <1>2, <3>4, <5>1, <5>2
      <4> DEFINE rest == g[(T \ {x}) \ {c}]
      <4>2. (T \ {c}) \ {x} = (T \ {x}) \ {c}
        OBVIOUS
      <4>3. g[T \ {c}] = F[x] + rest
        BY <3>2, <4>1, <4>2
      <4>4. g[T \ {x}] = F[c] + rest /\ rest \in Int
        BY <4>1
      <4>5. g[T] = F[c] + (F[x] + rest) /\ g[T \ {x}] = F[c] + rest
        BY <3>1, <4>3, <4>4, Zenon
      <4> HIDE DEF rest
      <4> QED
        BY <3>2, <4>1, <4>4, <4>5
    <3> QED
      BY <3>1, <3>3, <3>4
  <2> QED
    BY <2>1, <2>2
<1>3. \A T \in SUBSET S : T \in Good
  <2>1. \A T \in SUBSET S : (\A U \in SUBSET T : U # T => U \in Good) => T \in Good
    <3> HIDE DEF P
    <3> QED
      BY <1>2
  <2> HIDE DEF Good
  <2> QED
    BY <2>1, SubsetInduction
<1> QED
  BY <1>1, <1>3

\* A sum of naturals is one.
LEMMA SumOfNaturals ==
  ASSUME NEW S, IsFiniteSet(S), NEW F \in [S -> Nat], NEW g, IsSum(F, S, g)
  PROVE  g[S] \in Nat
PROOF
<1>1. /\ g[{}] = 0 /\ \A T \in SUBSET S : g[T] \in Int
      /\ \A T \in SUBSET S : \A x \in T : g[T] = F[x] + g[T \ {x}]
  <2>1. F \in [S -> Int]
    OBVIOUS
  <2> QED BY <2>1, SumFacts
<1> DEFINE Good == {T \in SUBSET S : g[T] \in Nat}
<1>2. ASSUME NEW T \in SUBSET S, \A U \in SUBSET T : U # T => U \in Good
      PROVE  T \in Good
  <2>1. CASE T = {}
    BY <1>1, <2>1
  <2>2. CASE T # {}
    <3>1. PICK x \in T : TRUE
      BY <2>2
    <3>2. T \ {x} \in SUBSET T /\ T \ {x} # T
      OBVIOUS
    <3>3. g[T \ {x}] \in Nat /\ F[x] \in Nat
      BY <1>2, <3>2
    <3>4. g[T] = F[x] + g[T \ {x}]
      BY <1>1
    <3> QED BY <3>3, <3>4
  <2> QED BY <2>1, <2>2
<1>3. S \in Good
  <2> HIDE DEF Good
  <2> QED BY <1>2, SubsetInduction
<1> QED BY <1>3

\* The demand of some rows is a sum.
LEMMA DemandIsSum ==
  ASSUME NEW S, IsFiniteSet(S), \A x \in S : Demand(x) \in Int
  PROVE  \E F \in [S -> Int] : \E g :
           /\ \A x \in S : F[x] = Demand(x)
           /\ IsSum(F, S, g)
           /\ Total(Demand, S) = g[S]
PROOF
<1> DEFINE F == [x \in S |-> Demand(x)]
           Eq(g) == g = [T \in SUBSET S |-> IF T = {} THEN 0
                                            ELSE Demand(CHOOSE x \in T : TRUE)
                                                   + g[T \ {CHOOSE x \in T : TRUE}]]
           sum == CHOOSE g : Eq(g)
<1>1. F \in [S -> Int] /\ \A x \in S : F[x] = Demand(x)
  OBVIOUS
<1>2. \A T \in SUBSET S : T # {} =>
        F[CHOOSE x \in T : TRUE] = Demand(CHOOSE x \in T : TRUE)
  <2>1. \A T \in SUBSET S : T # {} => (CHOOSE x \in T : TRUE) \in S
    OBVIOUS
  <2> HIDE DEF F
  <2> QED BY <1>1, <2>1, Zenon
<1> HIDE DEF F
<1>3. ASSUME NEW g
      PROVE  IsSum(F, S, g) <=> Eq(g)
  <2> DEFINE lhs == [T \in SUBSET S |-> IF T = {} THEN 0
                                        ELSE F[CHOOSE x \in T : TRUE]
                                               + g[T \ {CHOOSE x \in T : TRUE}]]
             rhs == [T \in SUBSET S |-> IF T = {} THEN 0
                                        ELSE Demand(CHOOSE x \in T : TRUE)
                                               + g[T \ {CHOOSE x \in T : TRUE}]]
  <2>1. lhs = rhs
    <3>1. ASSUME NEW T \in SUBSET S
          PROVE  (IF T = {} THEN 0
                  ELSE F[CHOOSE x \in T : TRUE] + g[T \ {CHOOSE x \in T : TRUE}])
                 = (IF T = {} THEN 0
                    ELSE Demand(CHOOSE x \in T : TRUE) + g[T \ {CHOOSE x \in T : TRUE}])
      <4>1. CASE T = {}
        BY <4>1, Zenon
      <4>2. CASE T # {}
        <5>1. F[CHOOSE x \in T : TRUE] = Demand(CHOOSE x \in T : TRUE)
          BY <1>2, <4>2, Zenon
        <5> QED BY <4>2, <5>1, Zenon
      <4> QED BY <4>1, <4>2, Zenon
    <3> QED BY <3>1, Zenon
  <2> QED BY <2>1, Zenon DEF IsSum
<1>4. Eq(sum)
  <2> HIDE DEF Eq
  <2>1. \E g : IsSum(F, S, g)
    BY <1>1, SumExists
  <2> QED BY <1>3, <2>1
<1>5. Total(Demand, S) = sum[S]
  BY Zenon DEF Total, MapThenSumSet, MapThenFoldSet
<1>6. IsSum(F, S, sum)
  <2> HIDE DEF Eq, sum
  <2> QED BY <1>3, <1>4
<1> HIDE DEF sum
<1> QED BY <1>1, <1>5, <1>6

\* So is their flexible power ...
LEMMA FlexibleIsSum ==
  ASSUME NEW S, IsFiniteSet(S), \A x \in S : x.max_flexible \in Int
  PROVE  \E F \in [S -> Int] : \E g :
           /\ \A x \in S : F[x] = x.max_flexible
           /\ IsSum(F, S, g)
           /\ Total(LAMBDA d : d.max_flexible, S) = g[S]
PROOF
<1> DEFINE F == [x \in S |-> x.max_flexible]
           Eq(g) == g = [T \in SUBSET S |-> IF T = {} THEN 0
                                            ELSE (CHOOSE x \in T : TRUE).max_flexible
                                                   + g[T \ {CHOOSE x \in T : TRUE}]]
           sum == CHOOSE g : Eq(g)
<1>1. F \in [S -> Int] /\ \A x \in S : F[x] = x.max_flexible
  OBVIOUS
<1>2. \A T \in SUBSET S : T # {} =>
        F[CHOOSE x \in T : TRUE] = (CHOOSE x \in T : TRUE).max_flexible
  <2>1. \A T \in SUBSET S : T # {} => (CHOOSE x \in T : TRUE) \in S
    OBVIOUS
  <2> HIDE DEF F
  <2> QED BY <1>1, <2>1, Zenon
<1> HIDE DEF F
<1>3. ASSUME NEW g
      PROVE  IsSum(F, S, g) <=> Eq(g)
  <2> DEFINE lhs == [T \in SUBSET S |-> IF T = {} THEN 0
                                        ELSE F[CHOOSE x \in T : TRUE]
                                               + g[T \ {CHOOSE x \in T : TRUE}]]
             rhs == [T \in SUBSET S |-> IF T = {} THEN 0
                                        ELSE (CHOOSE x \in T : TRUE).max_flexible
                                               + g[T \ {CHOOSE x \in T : TRUE}]]
  <2>1. lhs = rhs
    <3>1. ASSUME NEW T \in SUBSET S
          PROVE  (IF T = {} THEN 0
                  ELSE F[CHOOSE x \in T : TRUE] + g[T \ {CHOOSE x \in T : TRUE}])
                 = (IF T = {} THEN 0
                    ELSE (CHOOSE x \in T : TRUE).max_flexible + g[T \ {CHOOSE x \in T : TRUE}])
      <4>1. CASE T = {}
        BY <4>1, Zenon
      <4>2. CASE T # {}
        <5>1. F[CHOOSE x \in T : TRUE] = (CHOOSE x \in T : TRUE).max_flexible
          BY <1>2, <4>2, Zenon
        <5> QED BY <4>2, <5>1, Zenon
      <4> QED BY <4>1, <4>2, Zenon
    <3> QED BY <3>1, Zenon
  <2> QED BY <2>1, Zenon DEF IsSum
<1>4. Eq(sum)
  <2> HIDE DEF Eq
  <2>1. \E g : IsSum(F, S, g)
    BY <1>1, SumExists
  <2> QED BY <1>3, <2>1
<1>5. Total(LAMBDA d : d.max_flexible, S) = sum[S]
  BY Zenon DEF Total, MapThenSumSet, MapThenFoldSet
<1>6. IsSum(F, S, sum)
  <2> HIDE DEF Eq, sum
  <2> QED BY <1>3, <1>4
<1> HIDE DEF sum
<1> QED BY <1>1, <1>5, <1>6

\* The sum of some values of a table.
TableTotal(table, S) == Total(LAMBDA k : table[k], S)

\* ... and what a table tells of its keys.
LEMMA ValuesAreSummed ==
  ASSUME NEW S, IsFiniteSet(S), NEW table, \A x \in S : table[x] \in Int
  PROVE  \E F \in [S -> Int] : \E g :
           /\ \A x \in S : F[x] = table[x]
           /\ IsSum(F, S, g)
           /\ TableTotal(table, S) = g[S]
PROOF
<1> DEFINE F == [x \in S |-> table[x]]
           Eq(g) == g = [T \in SUBSET S |-> IF T = {} THEN 0
                                            ELSE table[CHOOSE x \in T : TRUE]
                                                   + g[T \ {CHOOSE x \in T : TRUE}]]
           sum == CHOOSE g : Eq(g)
<1>1. F \in [S -> Int] /\ \A x \in S : F[x] = table[x]
  OBVIOUS
<1>2. \A T \in SUBSET S : T # {} =>
        F[CHOOSE x \in T : TRUE] = table[CHOOSE x \in T : TRUE]
  <2>1. \A T \in SUBSET S : T # {} => (CHOOSE x \in T : TRUE) \in S
    OBVIOUS
  <2> HIDE DEF F
  <2> QED BY <1>1, <2>1, Zenon
<1> HIDE DEF F
<1>3. ASSUME NEW g
      PROVE  IsSum(F, S, g) <=> Eq(g)
  <2> DEFINE lhs == [T \in SUBSET S |-> IF T = {} THEN 0
                                        ELSE F[CHOOSE x \in T : TRUE]
                                               + g[T \ {CHOOSE x \in T : TRUE}]]
             rhs == [T \in SUBSET S |-> IF T = {} THEN 0
                                        ELSE table[CHOOSE x \in T : TRUE]
                                               + g[T \ {CHOOSE x \in T : TRUE}]]
  <2>1. lhs = rhs
    <3>1. ASSUME NEW T \in SUBSET S
          PROVE  (IF T = {} THEN 0
                  ELSE F[CHOOSE x \in T : TRUE] + g[T \ {CHOOSE x \in T : TRUE}])
                 = (IF T = {} THEN 0
                    ELSE table[CHOOSE x \in T : TRUE] + g[T \ {CHOOSE x \in T : TRUE}])
      <4>1. CASE T = {}
        BY <4>1, Zenon
      <4>2. CASE T # {}
        <5>1. F[CHOOSE x \in T : TRUE] = table[CHOOSE x \in T : TRUE]
          BY <1>2, <4>2, Zenon
        <5> QED BY <4>2, <5>1, Zenon
      <4> QED BY <4>1, <4>2, Zenon
    <3> QED BY <3>1, Zenon
  <2> QED BY <2>1, Zenon DEF IsSum
<1>4. Eq(sum)
  <2> HIDE DEF Eq
  <2>1. \E g : IsSum(F, S, g)
    BY <1>1, SumExists
  <2> QED BY <1>3, <2>1
<1>5. TableTotal(table, S) = sum[S]
  BY Zenon DEF TableTotal, Total, MapThenSumSet, MapThenFoldSet
<1>6. IsSum(F, S, sum)
  <2> HIDE DEF Eq, sum
  <2> QED BY <1>3, <1>4
<1> HIDE DEF sum
<1> QED BY <1>1, <1>5, <1>6

-----------------------------------------------------------------------------
(* The summary                                                             *)

\* What may be absent is in T, if its values and its fallback are.
LEMMA CoalesceIn ==
  ASSUME NEW T, NEW optional \in SUBSET T, NEW fallback \in T
  PROVE  Coalesce(optional, fallback) \in T
PROOF
<1>1. CASE optional = {}
  BY <1>1 DEF Coalesce
<1>2. CASE optional # {}
  <2>1. (CHOOSE value \in optional : TRUE) \in optional
    BY <1>2
  <2> QED BY <1>2, <2>1 DEF Coalesce
<1> QED BY <1>1, <1>2

\* The positive part of an integer.
LEMMA PositivePart ==
  ASSUME NEW i \in Int
  PROVE  Positive(i) \in Nat
PROOF
<1>1. Max({i, 0}) \in {i, 0} /\ Max({i, 0}) >= 0
  BY MaxOfTwo
<1> QED BY <1>1 DEF Positive

\* Power in W from readings in thousandths.
LEMMA PowerIsInteger ==
  ASSUME NEW r, r.value \in Int
  PROVE  PowerByName(r) \in Int
PROOF
<1>1. ASSUME NEW i \in Int
      PROVE  i \div 1000 \in Int
  OBVIOUS
<1> QED BY <1>1 DEF PowerByName

\* The largest of a finite set of integers.
LEMMA LargestIsMember ==
  ASSUME NEW S \in SUBSET Int, IsFiniteSet(S)
  PROVE  Largest(S) \in SUBSET S /\ (S # {} => Largest(S) # {})
BY MaxIsMember DEF Largest

\* The power of a latest state, if it has one.
LEMMA StatePower ==
  ASSUME NEW world, IsFiniteSet(world.telemetry), \A r \in world.telemetry : r.value \in Int,
         NEW s \in LatestState(world)
  PROVE  s.power \in SUBSET Int
PROOF
<1> DEFINE latest == LatestReadings(world)
           mine(one) == {r \in latest : <<r.household, r.device>> = <<one.household, one.device>>}
           rows(one) == {r \in mine(one) : r.name \in PowerNames}
           power(one) == {PowerByName(r) : r \in rows(one)}
<1>1. PICK one \in latest : s = StateOf(one, mine(one))
  BY DEF LatestState
<1>2. s.power = Largest(power(one))
  <2> HIDE DEF mine, latest
  <2> QED BY <1>1 DEF StateOf
<1>3. rows(one) \in SUBSET world.telemetry
  BY DEF LatestReadings
<1> DEFINE of == [r \in rows(one) |-> PowerByName(r)]
<1>4. power(one) = {of[r] : r \in rows(one)}
  OBVIOUS
<1>5. power(one) \in SUBSET Int
  BY <1>3, PowerIsInteger
<1> HIDE DEF of, power, rows
<1>6. IsFiniteSet(rows(one))
  BY <1>3, FS_Subset
<1>7. IsFiniteSet({of[r] : r \in rows(one)})
  BY <1>6, ImageCounted
<1>8. Largest(power(one)) \in SUBSET power(one)
  BY <1>4, <1>5, <1>7, LargestIsMember
<1> QED BY <1>2, <1>5, <1>8

\* The rows of an inventory: one for each device of the registry or with a latest state.
LEMMA InventoryRows ==
  ASSUME NEW m \in DOMAIN History, NEW world, NEW h, world.telemetry = History[m].telemetry,
         world.registry = History[m].registry
  PROVE  LET registered == {d \in world.registry : d.household = h}
             states == {s \in LatestState(world) : s.household = h}
         IN  /\ {r.device : r \in Inventory(world, h)}
                  = {d.device : d \in registered} \cup {s.device : s \in states}
             /\ \A r \in Inventory(world, h) :
                  /\ r.last_seen = {s.last_seen : s \in {x \in states : x.device = r.device}}
                  /\ r.max_flexible \in Nat /\ Demand(r) \in Nat
PROOF
<1> DEFINE registered == {d \in world.registry : d.household = h}
           states == {s \in LatestState(world) : s.household = h}
           D == {x.device : x \in registered} \cup {x.device : x \in states}
           of(d, rows) == {x \in rows : x.device = d}
           rowOf(d) == InventoryRow(h, d, of(d, registered), of(d, states))
           I == Inventory(world, h)
           power(d) == Values(LAMBDA x : x.power, of(d, states))
           shed(d) == {x.max_flexible : x \in of(d, registered)}
<1>1. I = {rowOf(d) : d \in D}
  BY DEF Inventory
<1>2. ASSUME NEW d
      PROVE  /\ rowOf(d).device = d
             /\ rowOf(d).last_seen = {s.last_seen : s \in of(d, states)}
             /\ rowOf(d).power = power(d)
             /\ rowOf(d).max_flexible
                  \in {Coalesce(shed(d), Positive(Coalesce(power(d), 0))), Coalesce(shed(d), 0)}
  <2> DEFINE mine == of(d, registered)
             seen == of(d, states)
  <2>0. rowOf(d) = InventoryRow(h, d, mine, seen)
    OBVIOUS
  <2> HIDE DEF mine, seen
  <2>1. LET row == InventoryRow(h, d, mine, seen) IN
        /\ row.device = d /\ row.last_seen = {s.last_seen : s \in seen}
        /\ row.power = Values(LAMBDA x : x.power, seen)
    BY DEF InventoryRow
  <2>2. \E capable : InventoryRow(h, d, mine, seen).max_flexible
          = Coalesce({x.max_flexible : x \in mine},
                     IF capable THEN Positive(Coalesce(Values(LAMBDA x : x.power, seen), 0)) ELSE 0)
    BY DEF InventoryRow
  <2> QED BY <2>0, <2>1, <2>2 DEF mine, seen
<1>3. \A d : power(d) \in SUBSET Int /\ shed(d) \in SUBSET Nat
  <2>1. /\ IsFiniteSet(world.telemetry) /\ \A r \in world.telemetry : r.value \in Int
        /\ \A d \in world.registry : d.max_flexible \in Nat
    BY TableFacts
  <2>2. \A s \in states : s.power \in SUBSET Int
    BY <2>1, StatePower
  <2>3. \A x \in registered : x.max_flexible \in Nat
    BY <2>1
  <2> HIDE DEF states, registered
  <2> QED BY <2>2, <2>3 DEF Values
<1> HIDE DEF power, shed
<1>4. ASSUME NEW d
      PROVE  /\ Positive(Coalesce(power(d), 0)) \in Nat
             /\ Coalesce(shed(d), Positive(Coalesce(power(d), 0))) \in Nat
             /\ Coalesce(shed(d), 0) \in Nat
  <2>1. 0 \in Int /\ 0 \in Nat
    OBVIOUS
  <2>2. Coalesce(power(d), 0) \in Int
    BY <1>3, <2>1, CoalesceIn
  <2>3. Positive(Coalesce(power(d), 0)) \in Nat
    BY <2>2, PositivePart
  <2>4. shed(d) \in SUBSET Nat
    BY <1>3
  <2> DEFINE p == Positive(Coalesce(power(d), 0))
  <2> HIDE DEF p
  <2>5. p \in Nat
    BY <2>3 DEF p
  <2>6. Coalesce(shed(d), p) \in Nat /\ Coalesce(shed(d), 0) \in Nat
    BY <2>1, <2>4, <2>5, CoalesceIn
  <2> QED BY <2>3, <2>6 DEF p
<1> HIDE DEF I, rowOf, D
<1>5. {r.device : r \in I} = D
  BY <1>1, <1>2
<1>6. ASSUME NEW r \in I
      PROVE  /\ r.last_seen = {s.last_seen : s \in of(r.device, states)}
             /\ r.max_flexible \in Nat /\ Demand(r) \in Nat
  <2>1. PICK d \in D : r = rowOf(d)
    BY <1>1
  <2>2. r.device = d
    BY <1>2, <2>1
  <2> HIDE DEF of, states
  <2>3. r.last_seen = {s.last_seen : s \in of(r.device, states)}
    BY <1>2, <2>1, <2>2
  <2>4. r.max_flexible \in Nat
    BY <1>2, <1>4, <2>1
  <2>5. Demand(r) \in Nat
    BY <1>2, <1>4, <2>1 DEF Demand
  <2> QED BY <2>3, <2>4, <2>5
<1> QED BY <1>5, <1>6 DEF I, D

\* When the devices of a household were last seen: a finite set of times.
LEMMA TimesOfInventory ==
  ASSUME NEW m \in DOMAIN History, NEW world, NEW h, world.telemetry = History[m].telemetry,
         world.registry = History[m].registry
  PROVE  LET times == Values(LAMBDA d : d.last_seen, Inventory(world, h)) IN
         /\ times \in SUBSET Int /\ IsFiniteSet(times)
         /\ \A t \in times : \E d \in Inventory(world, h) : t \in d.last_seen
PROOF
<1> DEFINE times == Values(LAMBDA d : d.last_seen, Inventory(world, h))
           states == {s \in LatestState(world) : s.household = h}
           seen == [s \in states |-> s.last_seen]
           I == Inventory(world, h)
<1>0. times = UNION {d.last_seen : d \in I}
  BY DEF Values
<1>1. /\ IsFiniteSet(world.telemetry) /\ \A r \in world.telemetry : r.at \in Nat
  BY TableFacts
<1>2. states \in SUBSET LatestState(world) /\ \A s \in states : s.last_seen \in Int
  BY <1>1, StatesAreOwn
<1>3. IsFiniteSet(LatestState(world))
  BY <1>1, StatesCounted
<1>4. \A r \in I : r.last_seen = {s.last_seen : s \in {x \in states : x.device = r.device}}
  BY InventoryRows
<1> HIDE DEF I, states
<1>5. times \in SUBSET {seen[s] : s \in states}
  <2>1. \A t \in times : \E d \in I : t \in d.last_seen
    BY <1>0
  <2> HIDE DEF times
  <2>2. \A t \in times : \E s \in states : t = s.last_seen
    BY <1>4, <2>1
  <2> QED BY <2>2
<1>6. IsFiniteSet({seen[s] : s \in states})
  <2> HIDE DEF seen
  <2>1. IsFiniteSet(states)
    BY <1>2, <1>3, FS_Subset
  <2> QED BY <2>1, ImageCounted
<1>7. {seen[s] : s \in states} \in SUBSET Int
  BY <1>2
<1>8. \A t \in times : \E d \in I : t \in d.last_seen
  BY <1>0
<1> HIDE DEF times, seen
<1>9. IsFiniteSet(times)
  BY <1>5, <1>6, FS_Subset
<1> QED BY <1>5, <1>7, <1>8, <1>9 DEF times, I

\* What the summary counts of the devices of a household.
LEMMA TotalsAddUp ==
  ASSUME NEW m \in DOMAIN History, NEW world, NEW h, world.telemetry = History[m].telemetry,
         world.registry = History[m].registry, NEW now \in Int, NEW clock \in Int, now <= clock
  PROVE  LET totals == DeviceTotals(Inventory(world, h), now) IN
         /\ totals.total \in Nat /\ totals.active \in Nat /\ totals.eligible \in Nat
         /\ totals.eligible <= totals.active /\ totals.active <= totals.total
         /\ totals.live \in Nat /\ totals.flexible \in Nat
         /\ ConnectionStatus(totals.updated, clock) = "live" => totals.active >= 1
PROOF
<1> DEFINE I == Inventory(world, h)
           active == {d \in I : SeenWithin(d, 10, now)}
           eligible == {d \in active : d.flexible}
           drawing == {d \in I : Consumes(d)}
           times == Values(LAMBDA d : d.last_seen, I)
           totals == DeviceTotals(I, now)
<1>1. /\ totals.total = Cardinality(I) /\ totals.active = Cardinality(active)
      /\ totals.eligible = Cardinality(eligible) /\ totals.live = Total(Demand, drawing)
      /\ totals.flexible = Total(LAMBDA d : d.max_flexible, eligible)
      /\ totals.updated = Largest(times)
  <2> HIDE DEF I
  <2> QED BY Zenon DEF DeviceTotals
<1>2. IsFiniteSet(I)
  BY InventoryIsOwn
<1>3. \A d \in I : d.max_flexible \in Nat /\ Demand(d) \in Nat
  BY InventoryRows
<1>4. /\ times \in SUBSET Int /\ IsFiniteSet(times)
      /\ \A t \in times : \E d \in I : t \in d.last_seen
  BY TimesOfInventory
<1>5. active \in SUBSET I /\ eligible \in SUBSET active /\ eligible \in SUBSET I
        /\ drawing \in SUBSET I
  OBVIOUS
<1> HIDE DEF I, eligible, drawing, times, totals
<1>6. /\ IsFiniteSet(active) /\ IsFiniteSet(eligible) /\ IsFiniteSet(drawing)
      /\ Cardinality(I) \in Nat /\ Cardinality(active) \in Nat /\ Cardinality(eligible) \in Nat
      /\ Cardinality(eligible) <= Cardinality(active) /\ Cardinality(active) <= Cardinality(I)
  <2> HIDE DEF active
  <2>1. IsFiniteSet(active)
    BY <1>2, <1>5, FS_Subset
  <2> QED BY <1>2, <1>5, <2>1, Counted
<1>7. totals.live \in Nat
  <2>1. \A d \in drawing : Demand(d) \in Int /\ Demand(d) \in Nat
    BY <1>3, <1>5
  <2>2. PICK F \in [drawing -> Int] : \E g : /\ \A x \in drawing : F[x] = Demand(x)
                                            /\ IsSum(F, drawing, g)
                                            /\ Total(Demand, drawing) = g[drawing]
    BY <1>6, <2>1, DemandIsSum
  <2>3. F \in [drawing -> Nat]
    BY <2>1, <2>2
  <2> QED BY <1>1, <1>6, <2>2, <2>3, SumOfNaturals
<1>8. totals.flexible \in Nat
  <2>1. \A d \in eligible : d.max_flexible \in Int /\ d.max_flexible \in Nat
    BY <1>3, <1>5
  <2>2. PICK F \in [eligible -> Int] :
          \E g : /\ \A x \in eligible : F[x] = x.max_flexible
                 /\ IsSum(F, eligible, g)
                 /\ Total(LAMBDA d : d.max_flexible, eligible) = g[eligible]
    BY <1>6, <2>1, FlexibleIsSum
  <2>3. F \in [eligible -> Nat]
    BY <2>1, <2>2
  <2> QED BY <1>1, <1>6, <2>2, <2>3, SumOfNaturals
<1>9. ASSUME ConnectionStatus(totals.updated, clock) = "live"
      PROVE  totals.active >= 1
  <2>1. Largest(times) # {} /\ clock - Coalesce(Largest(times), 0) <= 10
    BY <1>1, <1>9 DEF ConnectionStatus
  <2>2. Largest(times) \in SUBSET times
    BY <1>4, LargestIsMember
  <2> DEFINE t == Coalesce(Largest(times), 0)
  <2>3. t \in Largest(times)
    <3>1. (CHOOSE v \in Largest(times) : TRUE) \in Largest(times)
      BY <2>1
    <3> QED BY <2>1, <3>1 DEF Coalesce
  <2>4. t \in times /\ clock - t <= 10
    BY <2>1, <2>2, <2>3
  <2> HIDE DEF t
  <2>5. PICK d \in I : t \in d.last_seen
    BY <1>4, <2>4
  <2>6. t \in Int /\ t >= now - 10
    BY <1>4, <2>4
  <2>7. d \in active
    BY <2>5, <2>6 DEF SeenWithin
  <2>8. Cardinality(active) # 0
    BY <1>6, <2>7, FS_EmptySet
  <2> QED BY <1>1, <1>6, <2>8
<1> QED BY <1>1, <1>6, <1>7, <1>8, <1>9 DEF totals, I

\* Five components of at most ten tenths of it make a percentage.
LEMMA ScoreIsPercentage ==
  ASSUME NEW totals, NEW world, NEW events, IsFiniteSet(events),
         totals.total \in Nat, totals.eligible \in Nat, totals.eligible <= totals.total,
         totals.live \in Nat, totals.flexible \in Nat
  PROVE  ScoreOf(totals, world, events) \subseteq 0..100
PROOF
<1> DEFINE done == {p \in events : \E x \in world.executions :
                      x.proposal = p.id /\ x.status = "simulated_success" /\ x.simulated}
           n == Cardinality(events)
           k == Cardinality(done)
           input == [deviceCount |-> totals.total, eligibleDevices |-> totals.eligible,
                     currentPower |-> totals.live, flexibleLoad |-> totals.flexible,
                     hasEv |-> totals.hasEv, hasHeatPump |-> totals.hasHeatPump,
                     eventCount |-> n, successfulEvents |-> k]
           shareOf(part, whole, tenths) == Share(Min({part, whole}), whole, tenths)
           controllable == IF totals.live > 0 THEN shareOf(totals.flexible, totals.live, 300) ELSE 0
           devices == shareOf(totals.eligible, totals.total, 250)
           ev == IF totals.hasEv THEN 150 ELSE 0
           heating == IF totals.hasHeatPump THEN 150 ELSE 0
           trust == shareOf(k, n, 150)
           sum == controllable + devices + ev + heating + trust
<1>1. k \in Nat /\ n \in Nat /\ k <= n
  <2>1. done \in SUBSET events
    OBVIOUS
  <2> HIDE DEF done
  <2> QED BY <2>1, Counted
<1>2. ScoreOf(totals, world, events) = calculateFlexibilityScore(input)
  BY Zenon DEF ScoreOf
<1> HIDE DEF k, n
<1>3. calculateFlexibilityScore(input)
        = IF totals.total < 2 \/ totals.eligible < 1 \/ n < 1 THEN {} ELSE {(sum + 5) \div 10}
  <2>1. /\ input.deviceCount = totals.total /\ input.eligibleDevices = totals.eligible
        /\ input.currentPower = totals.live /\ input.flexibleLoad = totals.flexible
        /\ input.hasEv = totals.hasEv /\ input.hasHeatPump = totals.hasHeatPump
        /\ input.eventCount = n /\ input.successfulEvents = k
    OBVIOUS
  <2> HIDE DEF input
  <2> QED BY <2>1 DEF calculateFlexibilityScore
<1>4. ASSUME NEW part \in Nat, NEW whole \in Nat, whole > 0, NEW tenths \in Nat
      PROVE  shareOf(part, whole, tenths) \in Nat /\ shareOf(part, whole, tenths) <= tenths
  <2> DEFINE l == Min({part, whole})
  <2>1. l \in {part, whole} /\ l <= whole
    BY MinOfTwo
  <2>2. l \in Nat
    BY <2>1
  <2> HIDE DEF l
  <2>3. Share(l, whole, tenths) \in 0..tenths
    BY <1>4, <2>1, <2>2, ShareOfWhole
  <2> QED BY <2>3 DEF l
<1>5. CASE totals.total < 2 \/ totals.eligible < 1 \/ n < 1
  BY <1>2, <1>3, <1>5
<1>6. CASE ~(totals.total < 2 \/ totals.eligible < 1 \/ n < 1)
  <2>1. totals.total > 0 /\ n > 0
    BY <1>1, <1>6
  <2>2. PICK a \in Nat : a = 300
    OBVIOUS
  <2>3. PICK b \in Nat : b = 250
    OBVIOUS
  <2>4. PICK e \in Nat : e = 150
    OBVIOUS
  <2> HIDE DEF shareOf
  <2>5. controllable \in Nat /\ controllable <= 300
    <3>1. totals.live > 0 => /\ shareOf(totals.flexible, totals.live, a) \in Nat
                             /\ shareOf(totals.flexible, totals.live, a) <= a
      BY <1>4
    <3> QED BY <2>2, <3>1
  <2>6. devices \in Nat /\ devices <= 250
    BY <1>4, <2>1, <2>3
  <2>7. trust \in Nat /\ trust <= 150
    BY <1>1, <1>4, <2>1, <2>4
  <2>8. ev \in Nat /\ ev <= 150 /\ heating \in Nat /\ heating <= 150
    OBVIOUS
  <2>9. sum \in Nat /\ sum <= 1000
    <3> HIDE DEF controllable, devices, ev, heating, trust
    <3> QED BY <2>5, <2>6, <2>7, <2>8
  <2> HIDE DEF sum
  <2>10. (sum + 5) \div 10 \in 0..100
    <3>1. ASSUME NEW t \in Nat, t <= 1000
          PROVE  (t + 5) \div 10 \in 0..100
      BY <3>1
    <3> QED BY <2>9, <3>1
  <2> QED BY <1>2, <1>3, <1>6, <2>10
<1> QED BY <1>5, <1>6

\* What a summary puts side by side.
LEMMA SummaryAddsUp ==
  ASSUME NEW context, NEW h, NEW dbs, NEW clock \in Int, NEW m \in DOMAIN History,
         dbs[1].telemetry = History[m].telemetry, dbs[1].registry = History[m].registry,
         dbs[1].now \in Int, dbs[1].now <= clock, IsFiniteSet(dbs[5].proposals)
  PROVE  LET summary == getCustomerSummary(context, h, dbs, clock) IN
         /\ summary.connection = "live" => summary.active_devices >= 1
         /\ summary.flexibility_score \subseteq 0..100
         /\ summary.active_devices <= summary.total_devices
         /\ (summary.flexible_load # {}) => summary.active_devices >= 1
PROOF
<1> DEFINE summary == getCustomerSummary(context, h, dbs, clock)
           totals == DeviceTotals(Inventory(dbs[1], h), dbs[1].now)
           events == ProposalsOf(dbs[5], context, h)
<1>1. /\ summary.connection = ConnectionStatus(totals.updated, clock)
      /\ summary.active_devices = totals.active /\ summary.total_devices = totals.total
      /\ summary.flexible_load = IF totals.eligible = 0 THEN {} ELSE {round(totals.flexible)}
      /\ summary.flexibility_score = ScoreOf(totals, dbs[5], events)
  <2> HIDE DEF totals, events
  <2> QED BY Zenon DEF getCustomerSummary, totals, events
<1>2. /\ totals.total \in Nat /\ totals.active \in Nat /\ totals.eligible \in Nat
      /\ totals.eligible <= totals.active /\ totals.active <= totals.total
      /\ totals.live \in Nat /\ totals.flexible \in Nat
      /\ ConnectionStatus(totals.updated, clock) = "live" => totals.active >= 1
  <2> DEFINE now == dbs[1].now
             world == dbs[1]
  <2>1. /\ now \in Int /\ now <= clock /\ world.telemetry = History[m].telemetry
        /\ world.registry = History[m].registry
    OBVIOUS
  <2>2. totals = DeviceTotals(Inventory(world, h), now)
    OBVIOUS
  <2> HIDE DEF now, world, totals
  <2> QED BY <2>1, <2>2, TotalsAddUp
<1>3. IsFiniteSet(events)
  <2>1. events \in SUBSET dbs[5].proposals
    BY DEF ProposalsOf
  <2> HIDE DEF events
  <2> QED BY <2>1, FS_Subset
<1> HIDE DEF summary, totals, events
<1>4. summary.flexibility_score \subseteq 0..100
  <2>1. totals.eligible <= totals.total
    BY <1>2
  <2> DEFINE world == dbs[5]
  <2> HIDE DEF world
  <2>2. ScoreOf(totals, world, events) \subseteq 0..100
    BY <1>2, <1>3, <2>1, ScoreIsPercentage
  <2> QED BY <1>1, <2>2 DEF world
<1>5. summary.flexible_load # {} => totals.active >= 1
  <2>1. summary.flexible_load # {} => totals.eligible # 0
    BY <1>1
  <2> QED BY <1>2, <2>1
<1> QED BY <1>1, <1>2, <1>4, <1>5 DEF summary

\* What the summaries put side by side adds up.
LEMMA SummariesFollow ==
  ASSUME IInv, PagesInv
  PROVE  SummariesAddUp
PROOF
<1> SUFFICES ASSUME NEW c \in Answered({"summary"})
             PROVE  LET summary == SummaryOf(c) IN
                    /\ summary.connection = "live" => summary.active_devices >= 1
                    /\ summary.flexibility_score \subseteq 0..100
                    /\ summary.active_devices <= summary.total_devices
                    /\ (summary.flexible_load # {}) => summary.active_devices >= 1
  BY DEF SummariesAddUp
<1> DEFINE m(k) == result[c].moments[k]
           worlds == Worlds(c)
           clock == History[result[c].clock].now
<1>1. c \in DOMAIN Requests /\ Successful(c) /\ QueriesOf(Route(c)) = 5 /\ Route(c) = "summary"
  BY DEF Answered, Successful, QueriesOf
<1>2. 1 \in 1..QueriesOf(Route(c)) /\ 5 \in 1..QueriesOf(Route(c))
  BY <1>1
<1>3. /\ m(1) \in DOMAIN History /\ worlds[1] = World(m(1))
      /\ m(5) \in DOMAIN History /\ worlds[5] = World(m(5))
  BY <1>1, <1>2, PagesMeetWorlds
<1>4. result[c].clock \in DOMAIN History /\ m(1) <= result[c].clock
  BY <1>1, <1>2 DEF PagesInv, PageInv, Met
<1> DEFINE summary == getCustomerSummary(Context(c), Household(c), worlds, clock)
<1>5. SummaryOf(c) = summary
  BY DEF SummaryOf
<1>6. clock \in Int /\ History[m(1)].now \in Int /\ History[m(1)].now <= clock
  BY <1>3, <1>4, HistoryFacts
<1> HIDE DEF m, worlds, clock, summary
<1>7. /\ worlds[1].telemetry = History[m(1)].telemetry
      /\ worlds[1].registry = History[m(1)].registry
      /\ worlds[1].now = History[m(1)].now /\ worlds[5].proposals = History[m(5)].proposals
  BY <1>3, WorldsAreHistory
<1>8. IsFiniteSet(worlds[5].proposals)
  BY <1>3, <1>7, TableFacts
<1>9. worlds[1].now \in Int /\ worlds[1].now <= clock
  BY <1>6, <1>7
<1> QED BY <1>3, <1>5, <1>6, <1>7, <1>8, <1>9, SummaryAddsUp DEF summary

-----------------------------------------------------------------------------
(* Pages of devices                                                        *)

\* Some element of a finite set has the largest number.
LEMMA LargestElement ==
  ASSUME NEW S, IsFiniteSet(S), S # {}, NEW f, \A x \in S : f[x] \in Int
  PROVE  \E x \in S : \A y \in S : f[y] <= f[x]
PROOF
<1> DEFINE V == {f[x] : x \in S}
<1>1. V \in SUBSET Int /\ V # {} /\ IsFiniteSet(V)
  BY ImageCounted
<1> HIDE DEF V
<1>2. Max(V) \in V
  BY <1>1, MaxIsMember
<1>3. \A v \in V : v <= Max(V)
  BY <1>1, MaxIsUpper
<1>4. PICK x \in S : f[x] = Max(V)
  BY <1>2 DEF V
<1>5. \A y \in S : f[y] \in V
  BY DEF V
<1> QED BY <1>3, <1>4, <1>5

\* A reading is followed by a last one of the same device and name.
LEMMA LastReading ==
  ASSUME NEW world, IsFiniteSet(world.telemetry),
         \A r \in world.telemetry : r.at \in Nat /\ r.processed \in Nat,
         NEW r \in world.telemetry
  PROVE  \E l \in LatestReadings(world) :
           l.household = r.household /\ l.device = r.device /\ l.at >= r.at
PROOF
<1> DEFINE same(l) == <<l.household, l.device, l.name>> = <<r.household, r.device, r.name>>
           M == {l \in world.telemetry : same(l)}
           time == [l \in M |-> l.at]
<1>1. M \in SUBSET world.telemetry /\ r \in M
  OBVIOUS
<1>2. IsFiniteSet(M)
  BY <1>1, FS_Subset
<1>3. \A l \in M : l.at \in Int /\ l.processed \in Int
  OBVIOUS
<1>4. PICK x \in M : \A y \in M : y.at <= x.at
  <2>1. \A l \in M : time[l] = l.at /\ time[l] \in Int
    BY <1>3
  <2> HIDE DEF M, time
  <2>2. \E x \in M : \A y \in M : time[y] <= time[x]
    BY <1>1, <1>2, <2>1, LargestElement
  <2> QED BY <2>1, <2>2
<1> DEFINE L == {l \in M : l.at = x.at}
           order == [l \in L |-> l.processed]
<1>5. L \in SUBSET M /\ x \in L
  OBVIOUS
<1>6. PICK l \in L : \A y \in L : y.processed <= l.processed
  <2>1. \A y \in L : order[y] = y.processed /\ order[y] \in Int
    BY <1>3
  <2>2. IsFiniteSet(L)
    <3> HIDE DEF L, M
    <3> QED BY <1>2, <1>5, FS_Subset
  <2> HIDE DEF L, M, order
  <2>3. \E l \in L : \A y \in L : order[y] <= order[l]
    BY <1>5, <2>1, <2>2, LargestElement
  <2> QED BY <2>1, <2>3
<1>7. ASSUME NEW s \in world.telemetry,
             <<s.household, s.device, s.name>> = <<l.household, l.device, l.name>>,
             s.at > l.at \/ (s.at = l.at /\ s.processed > l.processed)
      PROVE  FALSE
  <2>1. s \in M
    BY <1>7
  <2>2. s.at <= l.at /\ l.at = x.at /\ s.at \in Int /\ l.at \in Int
    BY <1>3, <1>4, <2>1
  <2>3. s.at = l.at /\ s.processed > l.processed
    BY <1>7, <2>2
  <2>4. s \in L
    BY <2>1, <2>2, <2>3
  <2> QED BY <1>3, <1>6, <2>1, <2>3, <2>4
<1>8. l \in LatestReadings(world)
  BY <1>7 DEF LatestReadings
<1>9. l.household = r.household /\ l.device = r.device /\ l.at >= r.at
  BY <1>1, <1>3, <1>4
<1> QED BY <1>8, <1>9

\* When a device was last seen: not before any of its readings, and at one of them.
LEMMA LastSeen ==
  ASSUME NEW world, IsFiniteSet(world.telemetry),
         \A r \in world.telemetry : r.at \in Nat /\ r.processed \in Nat
  PROVE  /\ \A r \in world.telemetry : \E s \in LatestState(world) :
              /\ s.household = r.household /\ s.device = r.device
              /\ s.last_seen \in Int /\ r.at <= s.last_seen
         /\ \A s \in LatestState(world) : \E r \in world.telemetry :
              s.household = r.household /\ s.device = r.device /\ s.last_seen = r.at
PROOF
<1> DEFINE latest == LatestReadings(world)
           mine(one) == {r \in latest : <<r.household, r.device>> = <<one.household, one.device>>}
           times(one) == {r.at : r \in mine(one)}
<1>1. latest \in SUBSET world.telemetry
  BY DEF LatestReadings
<1>2. LatestState(world) = {StateOf(one, mine(one)) : one \in latest}
  BY DEF LatestState
<1>3. \A one : LET s == StateOf(one, mine(one)) IN
        s.household = one.household /\ s.device = one.device /\ s.last_seen = Max(times(one))
  <2> HIDE DEF mine, latest
  <2> QED BY DEF StateOf
<1>4. ASSUME NEW one \in latest
      PROVE  /\ times(one) \in SUBSET Int /\ one.at \in times(one)
             /\ Max(times(one)) \in times(one) /\ \A t \in times(one) : t <= Max(times(one))
  <2>1. mine(one) \in SUBSET world.telemetry /\ one \in mine(one)
    BY <1>1
  <2> DEFINE at_ == [r \in mine(one) |-> r.at]
  <2>2. times(one) = {at_[r] : r \in mine(one)} /\ times(one) \in SUBSET Int
          /\ one.at \in times(one)
    BY <2>1
  <2> HIDE DEF at_, mine, times
  <2>3. IsFiniteSet(mine(one))
    BY <2>1, FS_Subset
  <2>4. IsFiniteSet({at_[r] : r \in mine(one)})
    BY <2>3, ImageCounted
  <2>5. IsFiniteSet(times(one))
    BY <2>2, <2>4
  <2> QED BY <2>2, <2>5, MaxIsMember, MaxIsUpper
<1>5. ASSUME NEW r \in world.telemetry
      PROVE  \E s \in LatestState(world) :
               /\ s.household = r.household /\ s.device = r.device
               /\ s.last_seen \in Int /\ r.at <= s.last_seen
  <2>1. PICK l \in latest : l.household = r.household /\ l.device = r.device /\ l.at >= r.at
    BY LastReading
  <2>2. StateOf(l, mine(l)) \in LatestState(world)
    BY <1>2
  <2>3. l.at \in Int /\ r.at \in Int
    BY <1>1
  <2> HIDE DEF latest, times, mine
  <2>4. Max(times(l)) \in Int /\ r.at <= Max(times(l))
    BY <1>4, <2>1, <2>3
  <2> QED BY <1>3, <2>1, <2>2, <2>4
<1>6. ASSUME NEW s \in LatestState(world)
      PROVE  \E r \in world.telemetry :
               s.household = r.household /\ s.device = r.device /\ s.last_seen = r.at
  <2>1. PICK one \in latest : s = StateOf(one, mine(one))
    BY <1>2
  <2>2. Max(times(one)) \in times(one)
    BY <1>4
  <2>3. PICK r \in mine(one) : r.at = Max(times(one))
    BY <2>2
  <2>4. r \in world.telemetry /\ r.household = one.household /\ r.device = one.device
    BY <1>1
  <2> HIDE DEF latest, times, mine
  <2> QED BY <1>3, <2>1, <2>3, <2>4
<1> QED BY <1>5, <1>6

\* The inventory of a household has a row for each of its devices, and no other.
LEMMA InventoryIsComplete ==
  ASSUME NEW m \in DOMAIN History, NEW world, NEW h, world.telemetry = History[m].telemetry,
         world.registry = History[m].registry
  PROVE  \A d : d \in {r.device : r \in Inventory(world, h)} <=> OwnedIn(History[m], h, d)
PROOF
<1> DEFINE registered == {d \in world.registry : d.household = h}
           states == {s \in LatestState(world) : s.household = h}
           I == Inventory(world, h)
<1>1. /\ IsFiniteSet(world.telemetry)
      /\ \A r \in world.telemetry : r.at \in Nat /\ r.processed \in Nat
  BY TableFacts
<1>2. {r.device : r \in I} = {d.device : d \in registered} \cup {s.device : s \in states}
  <2>1. /\ {r.device : r \in Inventory(world, h)}
             = {d.device : d \in registered} \cup {s.device : s \in states}
        /\ \A r \in Inventory(world, h) :
             /\ r.last_seen = {s.last_seen : s \in {x \in states : x.device = r.device}}
             /\ r.max_flexible \in Nat /\ Demand(r) \in Nat
    BY InventoryRows
  <2> QED BY <2>1
<1>3. \A r \in I : OwnedIn(History[m], h, r.device)
  BY InventoryIsOwn
<1>4. ASSUME NEW d, OwnedIn(History[m], h, d)
      PROVE  d \in {r.device : r \in I}
  <2>1. PICK x \in world.telemetry \cup world.registry : x.device = d /\ x.household = h
    BY <1>4 DEF OwnedIn
  <2>2. CASE x \in world.telemetry
    <3>1. PICK s \in LatestState(world) : s.household = x.household /\ s.device = x.device
      BY <1>1, <2>2, LastSeen
    <3>2. s \in states /\ s.device = d
      BY <2>1, <3>1
    <3> HIDE DEF states, registered, I
    <3> QED BY <1>2, <3>2
  <2>3. CASE x \in world.registry
    <3>1. x \in registered /\ x.device = d
      BY <2>1, <2>3
    <3> HIDE DEF states, registered, I
    <3> QED BY <1>2, <3>1
  <2> QED BY <2>1, <2>2, <2>3
<1> HIDE DEF I
<1>5. \A d : d \in {r.device : r \in I} => OwnedIn(History[m], h, d)
  BY <1>3
<1> QED BY <1>4, <1>5 DEF I

\* What a query meets of devices is one world of the database.
Meets(world, m) ==
  /\ m \in DOMAIN History
  /\ world.telemetry = History[m].telemetry /\ world.registry = History[m].registry

\* The devices of a household that one world knows and another does not.
Left(m, n, h) == DevicesIn(m, h) \ DevicesIn(n, h)

\* An inventory is no larger than another one and what has left it.
LEMMA InventoryKept ==
  ASSUME NEW m, NEW n, NEW early, Meets(early, m), NEW late, Meets(late, n), NEW h
  PROVE  /\ Cardinality(Left(m, n, h)) \in Nat
         /\ Cardinality(Inventory(early, h))
              <= Cardinality(Inventory(late, h)) + Cardinality(Left(m, n, h))
PROOF
<1> DEFINE S == Inventory(early, h)
           T == Inventory(late, h)
           device == [r \in S \cup T |-> r.device]
           A == {device[r] : r \in S}
           B == {device[r] : r \in T}
<1>0. /\ m \in DOMAIN History /\ n \in DOMAIN History
      /\ early.telemetry = History[m].telemetry /\ early.registry = History[m].registry
      /\ late.telemetry = History[n].telemetry /\ late.registry = History[n].registry
  BY DEF Meets
<1>1. \A r, s \in S : r.device = s.device => r = s
  BY <1>0, InventoryIsOwn
<1>2. IsFiniteSet(S) /\ IsFiniteSet(T)
  BY <1>0, InventoryIsOwn
<1>3. \A d : d \in {r.device : r \in S} <=> OwnedIn(History[m], h, d)
  BY <1>0, InventoryIsComplete
<1>4. \A d : d \in {r.device : r \in T} <=> OwnedIn(History[n], h, d)
  BY <1>0, InventoryIsComplete
<1>5. \A i, d : d \in DevicesIn(i, h) <=> OwnedIn(History[i], h, d)
  BY DEF DevicesIn, OwnedIn
<1>6. A = {r.device : r \in S} /\ B = {r.device : r \in T}
  OBVIOUS
<1> HIDE DEF A, B
<1>7. A = DevicesIn(m, h) /\ B = DevicesIn(n, h)
  BY <1>3, <1>4, <1>5, <1>6
<1>8. IsFiniteSet(A) /\ IsFiniteSet(B)
  <2> HIDE DEF S, T, device
  <2> QED BY <1>2, ImageCounted DEF A, B
<1>9. Cardinality(S) <= Cardinality(A)
  <2>1. \A r \in S : device[r] = r.device
    OBVIOUS
  <2>2. \A r \in S : device[r] \in A
    BY DEF A
  <2> DEFINE f == [r \in S |-> device[r]]
  <2> HIDE DEF S, T, device
  <2>3. f \in [S -> A]
    BY <2>2
  <2>4. \A r, s \in S : f[r] = f[s] => r = s
    BY <1>1, <2>1
  <2> HIDE DEF f
  <2>5. f \in Injection(S, A)
    BY <2>3, <2>4 DEF Injection, IsInjective
  <2> QED BY <1>8, <2>5, FS_Injection
<1>10. IsFiniteSet(B) /\ Cardinality(B) <= Cardinality(T)
  <2>1. B = {device[r] : r \in T}
    BY DEF B
  <2> DEFINE g == [r \in T |-> device[r]]
  <2> HIDE DEF S, T, device
  <2>2. g \in Surjection(T, B)
    BY <2>1 DEF Surjection
  <2> HIDE DEF g
  <2> QED BY <1>2, <2>2, FS_Surjection
<1> HIDE DEF S, T, device
<1> DEFINE G == A \ B
<1>11. Left(m, n, h) = G
  BY <1>7 DEF Left
<1>12. IsFiniteSet(G) /\ IsFiniteSet(B \cup G) /\ A \subseteq B \cup G /\ B \cap G = {}
  BY <1>8, FS_Difference, FS_Union
<1> HIDE DEF G
<1>13. Cardinality(B \cup G) = Cardinality(B) + Cardinality(G) - Cardinality(B \cap G)
  BY <1>8, <1>12, FS_Union
<1>14. Cardinality(B \cap G) = 0
  BY <1>12, FS_EmptySet
<1>15. Cardinality(A) <= Cardinality(B \cup G)
  BY <1>12, FS_Subset
<1> DEFINE s == Cardinality(S)
           t == Cardinality(T)
           a == Cardinality(A)
           b == Cardinality(B)
           g == Cardinality(G)
           u == Cardinality(B \cup G)
           z == Cardinality(B \cap G)
<1>16. s \in Nat /\ t \in Nat /\ a \in Nat /\ b \in Nat /\ g \in Nat /\ u \in Nat
  BY <1>2, <1>8, <1>12, FS_CardinalityType
<1>17. s <= a /\ a <= u /\ u = b + g - z /\ z = 0 /\ b <= t
  BY <1>9, <1>10, <1>13, <1>14, <1>15
<1> HIDE DEF s, t, a, b, g, u, z
<1>18. g \in Nat /\ s <= t + g
  BY <1>16, <1>17
<1> QED BY <1>11, <1>18 DEF s, t, g, S, T

\* Who was seen is seen in a later world, at that time or after.
LEMMA SeenLater ==
  ASSUME NEW m, NEW n, m <= n, NEW early, Meets(early, m), NEW late, Meets(late, n), NEW h,
         NEW r \in Inventory(early, h), NEW t \in r.last_seen
  PROVE  /\ t \in Int
         /\ \E q \in Inventory(late, h) :
              q.device = r.device /\ \E u \in q.last_seen : u \in Int /\ u >= t
PROOF
<1>0. /\ m \in DOMAIN History /\ n \in DOMAIN History
      /\ early.telemetry = History[m].telemetry /\ early.registry = History[m].registry
      /\ late.telemetry = History[n].telemetry /\ late.registry = History[n].registry
  BY DEF Meets
<1>1. /\ \A w \in {early, late} : IsFiniteSet(w.telemetry)
      /\ \A w \in {early, late} : \A x \in w.telemetry : x.at \in Nat /\ x.processed \in Nat
  BY <1>0, TableFacts
<1>2. early.telemetry \subseteq late.telemetry
  <2>1. m = n \/ m < n
    BY <1>0, HistoryFacts
  <2> QED BY <1>0, <2>1, HistoryAssumption
<1>3. r.last_seen = {s.last_seen : s \in {x \in {s \in LatestState(early) : s.household = h} :
                                            x.device = r.device}}
  BY <1>0, InventoryRows
<1>4. PICK s \in LatestState(early) : s.household = h /\ s.device = r.device /\ s.last_seen = t
  BY <1>3
<1>5. PICK x \in early.telemetry :
        s.household = x.household /\ s.device = x.device /\ s.last_seen = x.at
  BY <1>1, LastSeen
<1>6. x \in late.telemetry /\ x.at \in Nat
  BY <1>1, <1>2
<1>7. PICK l \in LatestState(late) :
        /\ l.household = x.household /\ l.device = x.device
        /\ l.last_seen \in Int /\ x.at <= l.last_seen
  BY <1>1, <1>6, LastSeen
<1> DEFINE I == Inventory(late, h)
<1>8. OwnedIn(History[n], h, r.device)
  BY <1>0, <1>4, <1>5, <1>6 DEF OwnedIn
<1>9. \A d : d \in {q.device : q \in I} <=> OwnedIn(History[n], h, d)
  BY <1>0, InventoryIsComplete
<1>10. \A q \in I :
         q.last_seen = {y.last_seen : y \in {z \in {y \in LatestState(late) : y.household = h} :
                                               z.device = q.device}}
  BY <1>0, InventoryRows
<1> HIDE DEF I
<1>11. PICK q \in I : q.device = r.device
  BY <1>8, <1>9
<1>12. l.last_seen \in q.last_seen
  BY <1>4, <1>5, <1>7, <1>10, <1>11
<1>13. t \in Int /\ l.last_seen >= t
  BY <1>4, <1>5, <1>6, <1>7
<1> QED BY <1>7, <1>11, <1>12, <1>13 DEF I

\* What a page shows as online is counted as online after it.
LEMMA OnlineIsCounted ==
  ASSUME NEW m, NEW n, m <= n, NEW early, Meets(early, m), NEW late, Meets(late, n), NEW h,
         NEW now \in Int, NEW clock \in Int, now <= clock,
         NEW shown \in Seq(Inventory(early, h)),
         \A i, j \in DOMAIN shown : shown[i] = shown[j] => i = j
  PROVE  Cardinality({i \in 1..Len(shown) : SeenWithin(shown[i], 10, clock)})
           <= Cardinality({q \in Inventory(late, h) : SeenWithin(q, 10, now)})
PROOF
<1> DEFINE I == Inventory(early, h)
           L == Inventory(late, h)
           S == {i \in 1..Len(shown) : SeenWithin(shown[i], 10, clock)}
           T == {q \in L : SeenWithin(q, 10, now)}
           f == [i \in S |-> CHOOSE q \in T : q.device = shown[i].device]
<1>0. /\ m \in DOMAIN History /\ n \in DOMAIN History
      /\ early.telemetry = History[m].telemetry /\ early.registry = History[m].registry
      /\ late.telemetry = History[n].telemetry /\ late.registry = History[n].registry
  BY DEF Meets
<1>1. \A r, s \in I : r.device = s.device => r = s
  BY <1>0, InventoryIsOwn
<1>2. IsFiniteSet(L)
  BY <1>0, InventoryIsOwn
<1>3. \A r \in I : \A t \in r.last_seen :
        t \in Int /\ \E q \in L : q.device = r.device /\ \E u \in q.last_seen : u \in Int /\ u >= t
  <2> SUFFICES ASSUME NEW r \in I, NEW t \in r.last_seen
               PROVE  t \in Int /\ \E q \in L : q.device = r.device
                                              /\ \E u \in q.last_seen : u \in Int /\ u >= t
    OBVIOUS
  <2> QED BY SeenLater
<1> HIDE DEF I, L
<1>4. shown \in Seq(I) /\ DOMAIN shown = 1..Len(shown)
  BY DEF I
<1>5. \A i \in S : shown[i] \in I
  BY <1>4
<1>6. \A i \in S : \E q \in T : q.device = shown[i].device
  <2> SUFFICES ASSUME NEW i \in S
               PROVE  \E q \in T : q.device = shown[i].device
    OBVIOUS
  <2>1. PICK t \in shown[i].last_seen : t >= clock - 10
    BY DEF SeenWithin
  <2>2. t \in Int
    BY <1>3, <1>5, <2>1
  <2>3. PICK q \in L : q.device = shown[i].device /\ \E u \in q.last_seen : u \in Int /\ u >= t
    BY <1>3, <1>5, <2>1
  <2>4. PICK u \in q.last_seen : u \in Int /\ u >= t
    BY <2>3
  <2>5. u >= now - 10
    BY <2>1, <2>2, <2>4
  <2>6. SeenWithin(q, 10, now)
    BY <2>5 DEF SeenWithin
  <2> QED BY <2>3, <2>6
<1>7. \A i, j \in S : shown[i].device = shown[j].device => i = j
  <2>1. \A i \in S : i \in DOMAIN shown
    BY <1>4
  <2> HIDE DEF S
  <2> QED BY <1>1, <1>5, <2>1
<1>8. IsFiniteSet(T)
  <2>1. T \in SUBSET L
    OBVIOUS
  <2> HIDE DEF T
  <2> QED BY <1>2, <2>1, FS_Subset
<1> HIDE DEF S, T
<1>9. \A i \in S : f[i] \in T /\ f[i].device = shown[i].device
  BY <1>6
<1>10. f \in [S -> T]
  BY <1>9
<1>11. \A i, j \in S : f[i] = f[j] => i = j
  <2> HIDE DEF f
  <2> QED BY <1>7, <1>9
<1> HIDE DEF f
<1>12. f \in Injection(S, T)
  BY <1>10, <1>11 DEF Injection, IsInjective
<1>13. Cardinality(S) <= Cardinality(T)
  BY <1>8, <1>12, FS_Injection
<1> QED BY <1>13 DEF S, T, L

\* What is counted by category is counted once.
LEMMA CategoriesAddUp ==
  ASSUME NEW typed, IsFiniteSet(typed), NEW table,
         DOMAIN table = {r.device_type : r \in typed},
         \A c \in DOMAIN table : table[c] = Cardinality({r \in typed : r.device_type = c})
  PROVE  TableTotal(table, DOMAIN table) = Cardinality(typed)
PROOF
<1> DEFINE type == [r \in typed |-> r.device_type]
           C == {type[r] : r \in typed}
           of(T) == {r \in typed : type[r] \in T}
<1>1. DOMAIN table = C /\ \A c \in C : table[c] = Cardinality(of({c}))
  <2>1. C = {r.device_type : r \in typed}
    OBVIOUS
  <2>2. \A c : of({c}) = {r \in typed : r.device_type = c}
    OBVIOUS
  <2> HIDE DEF of, C
  <2> QED BY <2>1, <2>2
<1>2. \A r \in typed : type[r] \in C
  OBVIOUS
<1> HIDE DEF type
<1>3. IsFiniteSet(C)
  BY ImageCounted
<1>4. \A T : of(T) \in SUBSET typed
  OBVIOUS
<1> HIDE DEF of
<1>5. \A T : IsFiniteSet(of(T)) /\ Cardinality(of(T)) \in Nat
  BY <1>4, FS_Subset, FS_CardinalityType
<1> HIDE DEF C
<1>6. ASSUME NEW c \in C
      PROVE  table[c] = Cardinality(of({c})) /\ table[c] \in Int
  <2>1. table[c] = Cardinality(of({c})) /\ Cardinality(of({c})) \in Nat
    BY Zenon, <1>1, <1>5
  <2> DEFINE one == Cardinality(of({c}))
  <2>2. table[c] = one /\ one \in Nat
    BY <2>1
  <2> HIDE DEF one
  <2>3. table[c] \in Int
    BY <2>2
  <2> QED BY <2>1, <2>3
<1>7. PICK F \in [C -> Int] : \E g : /\ \A x \in C : F[x] = table[x]
                                    /\ IsSum(F, C, g)
                                    /\ TableTotal(table, C) = g[C]
  <2>1. \A c \in C : table[c] \in Int
    BY <1>6
  <2> QED BY <1>3, <2>1, ValuesAreSummed
<1>12. PICK g : /\ \A x \in C : F[x] = table[x]
                /\ IsSum(F, C, g)
                /\ TableTotal(table, C) = g[C]
  BY <1>7
<1>8. /\ g[{}] = 0
      /\ \A T \in SUBSET C : g[T] \in Int
      /\ \A T \in SUBSET C : \A x \in T : g[T] = F[x] + g[T \ {x}]
  BY <1>3, <1>12, SumFacts
<1> DEFINE Good == {T \in SUBSET C : g[T] = Cardinality(of(T))}
<1>9. ASSUME NEW T \in SUBSET C, \A U \in SUBSET T : U # T => U \in Good
      PROVE  T \in Good
  <2>1. CASE T = {}
    <3>1. of({}) = {}
      BY DEF of
    <3> QED BY <1>8, <2>1, <3>1, FS_EmptySet
  <2>2. CASE T # {}
    <3>1. PICK x \in T : TRUE
      BY <2>2
    <3> DEFINE U == T \ {x}
    <3>2. U \in SUBSET T /\ U # T /\ x \in C
      BY <3>1
    <3>3. g[U] = Cardinality(of(U))
      BY <1>9, <3>2
    <3>4. g[T] = Cardinality(of({x})) + g[U]
      <4>1. g[T] = F[x] + g[U]
        BY <1>8, <3>1
      <4>2. F[x] = Cardinality(of({x}))
        BY Zenon, <1>6, <1>12, <3>2
      <4> QED BY <4>1, <4>2
    <3>5. of(T) = of({x}) \cup of(U) /\ of({x}) \cap of(U) = {}
      BY <3>1 DEF of
    <3> HIDE DEF U
    <3>6. Cardinality(of({x}) \cup of(U))
            = Cardinality(of({x})) + Cardinality(of(U)) - Cardinality(of({x}) \cap of(U))
      BY <1>5, FS_Union
    <3>7. Cardinality(of({x}) \cap of(U)) = 0
      BY <3>5, FS_EmptySet
    <3>8. Cardinality(of(T)) = Cardinality(of({x})) + Cardinality(of(U))
      <4> DEFINE a == Cardinality(of({x}))
                 b == Cardinality(of(U))
      <4>1. a \in Nat /\ b \in Nat
        BY <1>5
      <4>2. Cardinality(of(T)) = a + b - 0
        BY Zenon, <3>5, <3>6, <3>7
      <4> HIDE DEF a, b
      <4>3. Cardinality(of(T)) = a + b
        BY <4>1, <4>2
      <4> QED BY <4>3 DEF a, b
    <3> QED BY <3>3, <3>4, <3>8
  <2> QED BY <2>1, <2>2
<1> HIDE DEF Good
<1>10. C \in Good
  BY <1>3, <1>9, SubsetInduction
<1>11. of(C) = typed
  BY <1>2 DEF of
<1> QED BY <1>1, <1>12, <1>10, <1>11 DEF Good

\* No filter but the page.
Unfiltered(options) ==
  /\ options.category = {} /\ options.profile = {} /\ options.deviceId = {}
  /\ options.search = {} /\ options.online = {} /\ options.flexible = {} /\ options.state = {}

\* What is NoFilter but for the page asks for nothing else.
LEMMA NoFilterIsNone ==
  ASSUME NEW options, [options EXCEPT !.limit = {}, !.offset = {}] = NoFilter
  PROVE  Unfiltered(options)
PROOF
<1>1. DOMAIN options = DOMAIN NoFilter
  OBVIOUS
<1>2. {"limit", "offset", "category", "profile", "deviceId", "search", "online", "flexible",
       "state"} = DOMAIN NoFilter
  BY DEF NoFilter
<1>3. \A field \in DOMAIN NoFilter \ {"limit", "offset"} : options[field] = NoFilter[field]
  BY <1>1
<1>4. \A field \in DOMAIN NoFilter : NoFilter[field] = {}
  BY DEF NoFilter
<1>5. \A field \in DOMAIN NoFilter \ {"limit", "offset"} : options[field] = {}
  BY <1>3, <1>4
<1> QED BY <1>2, <1>5 DEF Unfiltered

\* Without filters a page is made of the inventory.
LEMMA NothingFiltered ==
  ASSUME NEW options, Unfiltered(options), NEW world, NEW h
  PROVE  {r \in Inventory(world, h) : MeetsFilters(r, options, world.now)} = Inventory(world, h)
PROOF
<1>1. \A r : MeetsFilters(r, options, world.now)
  BY DEF MeetsFilters, Unfiltered
<1> QED BY <1>1

\* A page without filters is within what is counted after it and has left meanwhile.
LEMMA DevicesPageFits ==
  ASSUME NEW context, NEW h, NEW options, Unfiltered(options),
         options.limit \in SUBSET Int, options.offset \in SUBSET Int,
         NEW dbs, NEW clock \in Int, NEW m, Meets(dbs[1], m),
         NEW n, Meets(dbs[2], n), m <= n, NEW k, Meets(dbs[3], k), n <= k,
         dbs[2].now \in Int, dbs[2].now <= clock
  PROVE  LET page == getCustomerDevices(context, h, options, dbs, clock)
             shown == Len(page.devices)
         IN  /\ shown > 0 => page.offset + shown <= page.total + Cardinality(Left(m, n, h))
             /\ page.total <= TableTotal(page.by_category, DOMAIN page.by_category)
                                + Cardinality(Left(n, k, h))
             /\ Cardinality({i \in 1..shown : page.devices[i].online}) <= page.online_devices
PROOF
<1> DEFINE I(i) == Inventory(dbs[i], h)
           rows(i) == {r \in I(i) : MeetsFilters(r, options, dbs[i].now)}
           asked == normalizePagination(options.limit, options.offset)
           shown == PageOf(rows(1), asked)
           page == getCustomerDevices(context, h, options, dbs, clock)
           online(i) == SeenWithin(shown[i], 10, clock)
<1>1. /\ page.devices = [i \in DOMAIN shown |-> DeviceView(dbs[1], h, shown[i], clock)]
      /\ page.offset = asked.offset
      /\ page.total = Cardinality(rows(2))
      /\ page.by_category = [c \in {r.device_type : r \in rows(3)} |->
                               Cardinality({r \in rows(3) : r.device_type = c})]
      /\ page.online_devices = Cardinality({r \in rows(2) : SeenWithin(r, 10, dbs[2].now)})
  <2> HIDE DEF rows, asked, shown
  <2> QED BY Zenon DEF getCustomerDevices, rows, asked, shown, I
<1>2. rows(1) = I(1) /\ rows(2) = I(2) /\ rows(3) = I(3)
  BY NothingFiltered
<1>3. \A i \in {1, 2, 3} :
        /\ IsFiniteSet(I(i))
        /\ \A r \in I(i) : r.device \in Nat /\ Coalesce(r.last_seen, -1) \in Int
        /\ \A r, s \in I(i) : r.device = s.device => r = s
  <2>1. ASSUME NEW i \in {1, 2, 3}
        PROVE  \E w \in DOMAIN History : /\ dbs[i].telemetry = History[w].telemetry
                                         /\ dbs[i].registry = History[w].registry
    BY DEF Meets
  <2> SUFFICES ASSUME NEW i \in {1, 2, 3}
               PROVE  /\ IsFiniteSet(I(i))
                      /\ \A r \in I(i) : r.device \in Nat /\ Coalesce(r.last_seen, -1) \in Int
                      /\ \A r, s \in I(i) : r.device = s.device => r = s
    OBVIOUS
  <2>2. PICK w \in DOMAIN History : /\ dbs[i].telemetry = History[w].telemetry
                                    /\ dbs[i].registry = History[w].registry
    BY <2>1
  <2> DEFINE world == dbs[i]
  <2>3. /\ IsFiniteSet(Inventory(world, h))
        /\ \A r \in Inventory(world, h) : r.device \in Nat /\ Coalesce(r.last_seen, -1) \in Int
        /\ \A r, s \in Inventory(world, h) : r.device = s.device => r = s
    BY <2>2, InventoryIsOwn
  <2> QED BY <2>3
<1>4. asked.limit \in Nat /\ asked.offset \in Nat
  BY PagesAreNumbers
<1> DEFINE first == Cardinality(Left(m, n, h))
           second == Cardinality(Left(n, k, h))
<1>5. /\ first \in Nat /\ Cardinality(I(1)) <= Cardinality(I(2)) + first
      /\ second \in Nat /\ Cardinality(I(2)) <= Cardinality(I(3)) + second
  BY InventoryKept
<1> HIDE DEF first, second
<1>6. \A i \in {1, 2, 3} : Cardinality(I(i)) \in Nat
  <2> HIDE DEF I
  <2> QED BY <1>3, FS_CardinalityType
<1>7. /\ shown \in Seq(I(1))
      /\ shown # <<>> => asked.offset + Len(shown) <= Cardinality(I(1))
      /\ \A i, j \in DOMAIN shown : shown[i] = shown[j] => i = j
  <2> DEFINE R == rows(1)
  <2> HIDE DEF I, rows, asked, shown
  <2>1. R = I(1)
    BY <1>2
  <2>2. shown = PageOf(R, asked)
    BY DEF shown
  <2> HIDE DEF R
  <2>3. IsFiniteSet(R)
    BY <1>3, <2>1
  <2>4. \A r \in R : r.device \in Nat /\ Coalesce(r.last_seen, -1) \in Int
    BY <1>3, <2>1
  <2>5. \A r, s \in R : r.device = s.device => r = s
    BY <1>3, <2>1
  <2> QED BY <1>4, <2>1, <2>2, <2>3, <2>4, <2>5, PageShowsRows
<1>8. Cardinality({i \in 1..Len(shown) : online(i)})
        <= Cardinality({r \in I(2) : SeenWithin(r, 10, dbs[2].now)})
  <2> DEFINE early == dbs[1]
             late == dbs[2]
             now == dbs[2].now
  <2>1. Meets(early, m) /\ Meets(late, n) /\ now \in Int /\ now <= clock
    OBVIOUS
  <2>2. /\ shown \in Seq(Inventory(early, h))
        /\ \A i, j \in DOMAIN shown : shown[i] = shown[j] => i = j
    BY <1>7
  <2> HIDE DEF shown, early, late, now
  <2>3. Cardinality({i \in 1..Len(shown) : SeenWithin(shown[i], 10, clock)})
          <= Cardinality({q \in Inventory(late, h) : SeenWithin(q, 10, now)})
    BY <2>1, <2>2, OnlineIsCounted
  <2> QED BY <2>3 DEF late, now
<1> HIDE DEF shown, asked, page
<1>9. /\ Len(page.devices) = Len(shown) /\ DOMAIN shown = 1..Len(shown) /\ Len(shown) \in Nat
      /\ \A i \in DOMAIN shown : page.devices[i].online = online(i)
  <2>1. DOMAIN shown = 1..Len(shown) /\ Len(shown) \in Nat
    BY <1>7
  <2>2. \A i \in DOMAIN shown : page.devices[i] = DeviceView(dbs[1], h, shown[i], clock)
    BY <1>1
  <2>3. \A row : DeviceView(dbs[1], h, row, clock).online = SeenWithin(row, 10, clock)
    BY DEF DeviceView
  <2>4. DOMAIN page.devices = 1..Len(shown)
    BY <1>1, <2>1
  <2>5. Len(page.devices) = Len(shown)
    BY <2>1, <2>4
  <2> QED BY <2>1, <2>2, <2>3, <2>5
<1>10. Len(page.devices) > 0 => page.offset + Len(page.devices) <= page.total + first
  <2> DEFINE a == Cardinality(I(1))
             b == Cardinality(I(2))
             l == Len(shown)
             o == asked.offset
  <2>1. a \in Nat /\ b \in Nat /\ first \in Nat /\ a <= b + first
    BY <1>5, <1>6
  <2>2. l > 0 => o + l <= a
    BY <1>7
  <2>3. l \in Nat /\ o \in Nat
    BY <1>4, <1>9
  <2>4. page.total = b /\ page.offset = o /\ Len(page.devices) = l
    BY <1>1, <1>2, <1>9
  <2> HIDE DEF a, b, l, o
  <2> QED BY <2>1, <2>2, <2>3, <2>4
<1>11. page.total <= TableTotal(page.by_category, DOMAIN page.by_category) + second
  <2> DEFINE typed == I(3)
             table == page.by_category
  <2>1. /\ DOMAIN table = {r.device_type : r \in typed}
        /\ \A c \in DOMAIN table : table[c] = Cardinality({r \in typed : r.device_type = c})
    <3> HIDE DEF I, rows
    <3> QED BY <1>1, <1>2
  <2>2. IsFiniteSet(typed)
    BY <1>3
  <2> HIDE DEF typed, table
  <2>3. TableTotal(table, DOMAIN table) = Cardinality(typed)
    BY <2>1, <2>2, CategoriesAddUp
  <2>4. Cardinality(I(2)) <= Cardinality(typed) + second
    BY <1>5 DEF typed
  <2> HIDE DEF I, rows
  <2> QED BY <1>1, <1>2, <2>3, <2>4 DEF table
<1>12. Cardinality({i \in 1..Len(page.devices) : page.devices[i].online}) <= page.online_devices
  <2>1. {i \in 1..Len(page.devices) : page.devices[i].online} = {i \in 1..Len(shown) : online(i)}
    <3> HIDE DEF online
    <3> QED BY <1>9
  <2> HIDE DEF I, rows, online
  <2>2. page.online_devices = Cardinality({r \in I(2) : SeenWithin(r, 10, dbs[2].now)})
    BY <1>1, <1>2
  <2> QED BY <1>8, <2>1, <2>2
<1> QED BY <1>10, <1>11, <1>12 DEF page, first, second

\* A page of the platform's devices is within their number.
LEMMA PlatformPageFits ==
  ASSUME NEW world, IsFiniteSet(world.semantic), NEW failing, NEW options,
         options.limit \in SUBSET Int, options.offset \in SUBSET Int
  PROVE  LET page == listScalabilityDevices(world, failing, options) IN
         page.devices # <<>> => page.offset + Len(page.devices) <= page.total
PROOF
<1> DEFINE last == LatestPerDevice(world.semantic)
           n == Cardinality(last)
           latest == Ordered(last, LAMBDA a, b : a.device < b.device)
           limit == Max({1, Min({100, Coalesce(options.limit \ {0}, 25)})})
           offset == Positive(Coalesce(options.offset, 0))
           k == Min({offset + limit, Len(latest)})
           cut == SubSeq(latest, offset + 1, k)
           page == listScalabilityDevices(world, failing, options)
<1>1. /\ page.devices \in {cut, <<>>} /\ page.offset = offset
      /\ page.devices # <<>> => page.total = Len(latest)
  <2>1. page.devices = safeQuery(failing, <<"platform_devices", 1>>, cut, <<>>)
          /\ page.offset = offset
          /\ page.total = IF page.devices = <<>> THEN 0 ELSE Len(latest)
    <3> HIDE DEF latest, limit, offset
    <3> QED BY Zenon DEF listScalabilityDevices, latest, limit, offset, last
  <2> HIDE DEF page, cut, latest, offset
  <2> QED BY <2>1 DEF safeQuery
<1>2. n \in Nat
  <2> DEFINE device == [e \in world.semantic |-> e.device]
             devices == {device[e] : e \in world.semantic}
             of(d) == {e \in world.semantic : e.device = d}
             event == [d \in devices |-> CHOOSE e \in of(d) : \A f \in of(d) : f.processed <= e.processed]
  <2>1. last = {event[d] : d \in devices}
    <3>1. devices = {e.device : e \in world.semantic}
      OBVIOUS
    <3>2. last = {CHOOSE e \in of(d) : \A f \in of(d) : f.processed <= e.processed :
                    d \in {e.device : e \in world.semantic}}
      BY DEF LatestPerDevice
    <3> HIDE DEF devices, of
    <3> QED BY <3>1, <3>2
  <2> HIDE DEF device, event, last
  <2>2. IsFiniteSet(devices)
    BY ImageCounted
  <2> HIDE DEF devices
  <2>3. IsFiniteSet(last)
    BY <2>1, <2>2, ImageCounted
  <2> QED BY <2>3, FS_CardinalityType
<1>3. DOMAIN latest = 1..n /\ latest = [i \in 1..n |-> latest[i]]
  <2> DEFINE e(i) == CHOOSE x \in last : Cardinality({y \in last : y.device < x.device}) = i - 1
  <2>1. latest = [i \in 1..n |-> e(i)]
    <3> HIDE DEF last
    <3> QED BY DEF Ordered
  <2> HIDE DEF latest, n, e
  <2> QED BY <2>1
<1> DEFINE X == {latest[i] : i \in 1..n}
<1> HIDE DEF page, last, latest
<1>4. latest \in Seq(X) /\ Len(latest) = n
  <2> HIDE DEF n
  <2>1. \A i \in 1..n : latest[i] \in X
    OBVIOUS
  <2> HIDE DEF X
  <2>2. latest \in [1..n -> X]
    BY <1>3, <2>1
  <2> QED BY <1>2, <2>2
<1>5. offset \in Nat
  <2>1. 0 \in Int
    OBVIOUS
  <2>2. Coalesce(options.offset, 0) \in Int
    BY <2>1, CoalesceIn
  <2> QED BY <2>2, PositivePart
<1>6. limit \in Int
  <2> DEFINE wanted == options.limit \ {0}
             l == Coalesce(wanted, 25)
  <2>1. wanted \in SUBSET Int /\ 25 \in Int
    OBVIOUS
  <2> HIDE DEF wanted
  <2>2. l \in Int
    BY <2>1, CoalesceIn
  <2> HIDE DEF l
  <2>3. PICK most \in Int, least \in Int : most = 100 /\ least = 1
    OBVIOUS
  <2>4. Min({most, l}) \in {most, l}
    BY <2>2, MinOfTwo
  <2> DEFINE low == Min({most, l})
  <2>5. low \in Int
    BY <2>2, <2>4
  <2> HIDE DEF low
  <2>6. Max({least, low}) \in {least, low}
    BY <2>5, MaxOfTwo
  <2>7. Max({least, low}) \in Int
    BY <2>5, <2>6
  <2> QED BY <2>3, <2>7 DEF l, wanted, low
<1> HIDE DEF limit, offset
<1>7. k \in Int /\ k <= Len(latest)
  <2> DEFINE a == offset + limit
             b == Len(latest)
  <2>1. a \in Int /\ b \in Int
    BY <1>2, <1>4, <1>5, <1>6
  <2> HIDE DEF a, b
  <2>2. Min({a, b}) \in {a, b} /\ Min({a, b}) <= b
    BY <2>1, MinOfTwo
  <2>3. k = Min({a, b})
    BY DEF a, b
  <2> HIDE DEF k
  <2> QED BY <2>1, <2>2, <2>3 DEF b
<1>8. IsCut(cut, latest, offset, k)
  BY DEF IsCut
<1> HIDE DEF k, cut, X
<1>9. cut # <<>> => offset + Len(cut) <= Len(latest)
  BY <1>4, <1>5, <1>7, <1>8, CutOfSequence
<1>10. page.devices # <<>> => page.offset + Len(page.devices) <= page.total
  BY <1>1, <1>9
<1> QED BY <1>10 DEF page

\* What the pages of devices count is not less than what they show.
LEMMA PagesFollow ==
  ASSUME IInv, PagesInv
  PROVE  PagesFitTheirTotal
PROOF
<1>1. ASSUME NEW c \in Answered({"devices"}), NEW page, page = DevicesOf(c),
             [FiltersOf(Requests[c].options) EXCEPT !.limit = {}, !.offset = {}] = NoFilter
      PROVE  /\ Len(page.devices) > 0 =>
                  page.offset + Len(page.devices) <= page.total + Cardinality(LeftBetween(c, 1, 2))
             /\ page.total <= Total(LAMBDA k : page.by_category[k], DOMAIN page.by_category)
                                + Cardinality(LeftBetween(c, 2, 3))
             /\ Cardinality({i \in 1..Len(page.devices) : page.devices[i].online})
                  <= page.online_devices
  <2> DEFINE m(k) == result[c].moments[k]
             worlds == Worlds(c)
             options == FiltersOf(Requests[c].options)
             clock == History[result[c].clock].now
  <2>1. c \in DOMAIN Requests /\ Successful(c) /\ QueriesOf(Route(c)) = 4 /\ Route(c) = "devices"
    BY DEF Answered, Successful, QueriesOf
  <2>2. \A k \in {1, 2, 3} : k \in 1..QueriesOf(Route(c))
    BY <2>1
  <2>3. \A k \in {1, 2, 3} : m(k) \in DOMAIN History /\ worlds[k] = World(m(k))
    BY <2>1, <2>2, PagesMeetWorlds
  <2>4. /\ result[c].clock \in DOMAIN History /\ m(2) <= result[c].clock
        /\ m(1) <= m(2) /\ m(2) <= m(3)
    <3>1. Met(c, result[c])
      BY <2>1 DEF PagesInv, PageInv
    <3>2. 1 \in 1..2 /\ 2 \in 1..3
      OBVIOUS
    <3> QED BY <2>1, <2>2, <3>1, <3>2 DEF Met
  <2>5. /\ {"limit", "offset"} \subseteq DOMAIN Requests[c].options
        /\ Requests[c].options.limit \subseteq Int /\ Requests[c].options.offset \subseteq Int
    BY <2>1, RequestAssumption DEF Route
  <2>6. options.limit \in SUBSET Int /\ options.offset \in SUBSET Int
    BY <2>5 DEF FiltersOf
  <2>7. Unfiltered(options)
    <3> HIDE DEF options
    <3>1. [options EXCEPT !.limit = {}, !.offset = {}] = NoFilter
      BY <1>1 DEF options
    <3> QED BY <3>1, NoFilterIsNone
  <2>8. page = getCustomerDevices(Context(c), Household(c), options, worlds, clock)
    BY <1>1 DEF DevicesOf
  <2>9. clock \in Int /\ History[m(2)].now \in Int /\ History[m(2)].now <= clock
    BY <2>3, <2>4, HistoryFacts
  <2>13. /\ LeftBetween(c, 1, 2) = Left(m(1), m(2), Household(c))
         /\ LeftBetween(c, 2, 3) = Left(m(2), m(3), Household(c))
    BY DEF LeftBetween, Left
  <2> HIDE DEF m, worlds, clock, options
  <2>10. \A k \in {1, 2, 3} : Meets(worlds[k], m(k)) /\ worlds[k].now = History[m(k)].now
    BY <2>3, WorldsAreHistory DEF Meets
  <2>11. worlds[2].now \in Int /\ worlds[2].now <= clock
    BY <2>9, <2>10
  <2> DEFINE shown == Len(page.devices)
  <2>12. /\ shown > 0 =>
              page.offset + shown <= page.total + Cardinality(Left(m(1), m(2), Household(c)))
         /\ page.total <= TableTotal(page.by_category, DOMAIN page.by_category)
                            + Cardinality(Left(m(2), m(3), Household(c)))
         /\ Cardinality({i \in 1..shown : page.devices[i].online}) <= page.online_devices
    BY <2>4, <2>6, <2>7, <2>8, <2>9, <2>10, <2>11, DevicesPageFits
  <2> QED BY <2>12, <2>13 DEF TableTotal
<1>2. ASSUME NEW c \in Answered({"platform_devices"}), NEW page, page = PlatformDevicesOf(c)
      PROVE  page.devices # <<>> => page.offset + Len(page.devices) <= page.total
  <2> DEFINE m == result[c].moments[1]
             world == Worlds(c)[1]
             options == Requests[c].options
             failing == result[c].failing
  <2>1. c \in DOMAIN Requests /\ Successful(c) /\ QueriesOf(Route(c)) = 1
          /\ Route(c) = "platform_devices"
    BY DEF Answered, Successful, QueriesOf
  <2>2. 1 \in 1..QueriesOf(Route(c))
    BY <2>1
  <2>3. m \in DOMAIN History /\ world = World(m)
    BY <2>1, <2>2, PagesMeetWorlds
  <2>4. options.limit \in SUBSET Int /\ options.offset \in SUBSET Int
    BY <2>1, RequestAssumption DEF Route
  <2>5. page = listScalabilityDevices(world, failing, options)
    BY <1>2 DEF PlatformDevicesOf
  <2> HIDE DEF m, world, options, failing
  <2>6. IsFiniteSet(world.semantic)
    BY <2>3, WorldsAreHistory, TableFacts
  <2> QED BY <2>4, <2>5, <2>6, PlatformPageFits
<1> QED BY <1>1, <1>2 DEF PagesFitTheirTotal

\* What an answer puts side by side adds up.
LEMMA AddUpFollows == IInv /\ PagesInv => AnswersAddUp
BY StatusFollows, ComparisonsFollow, SummariesFollow, PagesFollow DEF AnswersAddUp

-----------------------------------------------------------------------------
(* Theorems                                                                *)

\* The inductive invariant of the portal, for any history of the database, any requests and
\* passes, whatever the model answers and whatever fails.
THEOREM PortalInvariance == Spec => []IInv
BY InitSatisfies, StepPreserves, PTL DEF Spec

\* The state of the portal is well-formed: only an open request or a pass under way makes
\* insights, and only what has been answered has a result.
THEOREM PortalTypeCorrect == Spec => []TypeOK
BY PortalInvariance, TypeFollows, PTL

\* No insight is fabricated: each stored row states a fact of its household that held in a
\* world its generation went through, and an answer shows six rows at most, all of the
\* household it was granted, the cached ones unexpired.
THEOREM InsightsStayGrounded == Spec => []InsightsAreGrounded
BY PortalInvariance, GroundingFollows, PTL

\* Nobody sees the devices of another household, or the proposals made for one, and only its
\* own user sees the identifier of a household, whatever the database becomes between the
\* queries of a page, and whatever household the registry moves a device to.
THEOREM AnswersKeepScope == Spec => []AnswersStayInScope
<1>1. Init => IInv /\ PagesInv
  BY InitSatisfies, PagesInit
<1>2. IInv /\ PagesInv /\ [Next]_vars => (IInv /\ PagesInv)'
  BY StepPreserves, PagesStep
<1> QED BY <1>1, <1>2, AnswersFollow, PTL DEF Spec

\* What an answer puts side by side adds up, though its queries meet different worlds: a live
\* connection has an active device and scores are percentages; a page of devices is within
\* what is counted after it and has left the household meanwhile; nobody is compared within fewer than five households; and the
\* platform is operational only if every service answered well when it was asked.
THEOREM AnswersAlwaysAddUp == Spec => []AnswersAddUp
<1>1. Init => IInv /\ PagesInv
  BY InitSatisfies, PagesInit
<1>2. IInv /\ PagesInv /\ [Next]_vars => (IInv /\ PagesInv)'
  BY StepPreserves, PagesStep
<1> QED BY <1>1, <1>2, AddUpFollows, PTL DEF Spec
=============================================================================
