--------------------------- MODULE CustomerAccess ---------------------------
(***************************************************************************)
(* services/security-gateway/src/customer-auth.js: who may see which       *)
(* household.  A household is asked for by its identifier or by its        *)
(* pseudonym, a hash that names it uniquely.                               *)
(***************************************************************************)
EXTENDS CustomerViews

CONSTANT HouseholdLimit  \* the LIMIT of the queries that list households

ASSUME AccessAssumption == HouseholdLimit \in Nat \ {0}

CUSTOMER_ROLES == {"household_user", "enershare_operator", "technical_admin"}

Plain(household) == [pseudonym |-> FALSE, id |-> household]

stableHouseholdPseudonym(household) == [pseudonym |-> TRUE, id |-> household]

CustomerAccessError(code, status) == [code |-> code, status |-> status]

AccessDenied == CustomerAccessError("household_access_denied", 403)

\* The error of readCustomerContext, if the headers are no identity.
ContextErrors(context) ==
  IF context.role \notin CUSTOMER_ROLES
  THEN {CustomerAccessError("customer_role_required", 401)}
  ELSE IF context.username = {} THEN {CustomerAccessError("customer_identity_required", 401)}
  ELSE IF context.role = "household_user" /\ context.household = {}
  THEN {CustomerAccessError("household_scope_required", 403)}
  ELSE IF context.community = {} THEN {CustomerAccessError("community_scope_required", 403)}
  ELSE {}

-----------------------------------------------------------------------------
\* Rows that make a household known in a community.
KnownRows(world, community) ==
  {r \in world.telemetry \cup world.registry : r.community \in community}

KnownHouseholds(world, community) == {r.household : r \in KnownRows(world, community)}

\* Mutant: any household of the platform will do.
householdExistsAnywhere(world, household, community) ==
  \E r \in world.telemetry \cup world.registry : r.household = household

householdExistsInCommunity(world, household, community) ==
  household \in KnownHouseholds(world, community)

\* ORDER BY max(last_seen) DESC NULLS LAST, household_id: telemetry alone is seen.
ByLastSeen(world, community) ==
  LET lastSeen(h) == Largest({r.at : r \in {t \in world.telemetry :
                                t.community \in community /\ t.household = h}})
      before(g, h) == LET a == Coalesce(lastSeen(g), -1)
                          b == Coalesce(lastSeen(h), -1)
                      IN  a > b \/ (a = b /\ g < h)
  IN  Ordered(KnownHouseholds(world, community), before)

\* The candidates a pseudonym is compared with: a LIMIT without an ORDER BY, so any of
\* them where there are too many.
Candidates(world, community) ==
  LET known == KnownHouseholds(world, community) IN
  IF Cardinality(known) <= HouseholdLimit THEN {known} ELSE kSubset(HouseholdLimit, known)

\* What resolveHouseholdScope may answer: a household or an error.
Granted(household) == [household |-> {household}, error |-> {}]

Refused(error) == [household |-> {}, error |-> {error}]

resolveHouseholdScope(world, context, requested) ==
  LET checked(household) ==
        IF householdExistsInCommunity(world, household, context.community)
        THEN Granted(household) ELSE Refused(AccessDenied)
      named(r, candidates) ==
        IF r.pseudonym
        THEN IF r.id \in candidates THEN checked(r.id) ELSE Refused(AccessDenied)
        ELSE IF context.role # "technical_admin" THEN Refused(AccessDenied) ELSE checked(r.id)
      known == ByLastSeen(world, context.community)
  IN  IF context.role = "household_user"
      THEN {IF requested \subseteq {Plain(h) : h \in context.household}
            THEN Granted(Coalesce(context.household, 0)) ELSE Refused(AccessDenied)}
      ELSE IF requested # {}
      THEN {named(r, candidates) : r \in requested,
                                   candidates \in Candidates(world, context.community)}
      ELSE {IF known = <<>> THEN Refused(CustomerAccessError("customer_household_data_not_found", 404))
            ELSE Granted(known[1])}

listAuthorizedHouseholds(world, context) ==
  LET entry(h) ==
        [selector |-> stableHouseholdPseudonym(h), pseudonym |-> stableHouseholdPseudonym(h),
         devices |-> Cardinality({r.device : r \in {x \in KnownRows(world, context.community) :
                                                       x.household = h}})]
      known == ByLastSeen(world, context.community)
  IN  IF context.role = "household_user"
      THEN [i \in 1..1 |-> [selector |-> Plain(Coalesce(context.household, 0)), devices |-> 0,
                            pseudonym |-> stableHouseholdPseudonym(Coalesce(context.household, 0))]]
      ELSE [i \in 1..Min({HouseholdLimit, Len(known)}) |-> entry(known[i])]
=============================================================================
