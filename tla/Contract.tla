------------------------------ MODULE Contract ------------------------------
(***************************************************************************)
(* The secret contract of an app (internal/database/credentials.go) and    *)
(* the reconciliation plan between what the vault holds and what a run     *)
(* wants recorded (internal/services/syncplan.go). Pure definitions.       *)
(*                                                                         *)
(* The Go map[string]string of an app's secrets is a total function over   *)
(* Keys whose value is Absent where the map has no entry.                  *)
(***************************************************************************)
EXTENDS Integers, FiniteSets

CONSTANTS ExtraKeys,    \* keys an operator keeps in the app's folder
          Absent        \* no entry under a key

Engines == {"postgres", "mysql"}

ContractKeys == {"DB_TYPE", "DB_NAME", "DB_USER", "DB_PASSWORD",
                 "DB_HOST", "DB_PORT", "DB_SCHEMA"}

ASSUME KeysAssumption == ExtraKeys \cap ContractKeys = {}

Keys == ContractKeys \cup ExtraKeys

\* The order ToSecrets and ContractKeys list the contract in; keys of the
\* operator come after it and are in no plan.
SerializationOrder ==
    [k \in Keys |-> CASE k = "DB_TYPE" -> 1 [] k = "DB_NAME" -> 2
                      [] k = "DB_USER" -> 3 [] k = "DB_PASSWORD" -> 4
                      [] k = "DB_HOST" -> 5 [] k = "DB_PORT" -> 6
                      [] k = "DB_SCHEMA" -> 7 [] OTHER -> 8]

Earliest(order, S) == CHOOSE k \in S : \A other \in S : order[k] <= order[other]

----------------------------------------------------------------------------
(* Credentials: a function over the contract's keys, "" where not recorded. *)

\* A Go map lookup: the zero value for a missing key.
Lookup(secrets, k) == IF secrets[k] = Absent THEN "" ELSE secrets[k]

ParseCredentials(secrets) == [k \in ContractKeys |-> Lookup(secrets, k)]

\* DB_SCHEMA is written only when a schema is set; every other key always is.
ToSecretsMutantForgetsUser(creds) ==
    [k \in Keys |->
        IF /\ k \in ContractKeys \ {"DB_USER"}
           /\ k = "DB_SCHEMA" => creds[k] # ""
        THEN creds[k] ELSE Absent]

ToSecrets(creds) ==
    [k \in Keys |->
        IF k \in ContractKeys /\ (k = "DB_SCHEMA" => creds[k] # "")
        THEN creds[k] ELSE Absent]

\* Unlike ResolveEngine below, this takes no --type for an app recorded before
\* DB_TYPE existed.
ResolveType(creds) == creds["DB_TYPE"] \in Engines

RequireCoreMutantNamesOnly(creds) ==
    \A k \in {"DB_NAME", "DB_USER"} : creds[k] # ""

RequireCoreMutantNoName(creds) ==
    \A k \in {"DB_HOST", "DB_PORT", "DB_USER", "DB_PASSWORD"} : creds[k] # ""

RequireCore(creds) ==
    \A k \in {"DB_HOST", "DB_PORT", "DB_NAME", "DB_USER", "DB_PASSWORD"} :
        creds[k] # ""

ValidateContract(creds, engine) ==
    /\ RequireCore(creds)
    /\ engine = "postgres" => creds["DB_SCHEMA"] # ""
    /\ engine = "mysql" => creds["DB_SCHEMA"] = ""

\* ResolveApp finds an app by what its folder still records.
Resolvable(secrets) ==
    /\ \E k \in Keys : secrets[k] # Absent
    /\ Lookup(secrets, "DB_NAME") # ""
    /\ Lookup(secrets, "DB_USER") # ""

\* DB_TYPE is authoritative and --type a fallback for apps recorded before it
\* existed; "" stands for the refusal of a missing or contradicting type.
ResolveEngine(creds, typeFlag) ==
    LET stored == creds["DB_TYPE"]
    IN  IF stored = "" THEN typeFlag
        ELSE IF typeFlag \in {"", stored} THEN stored ELSE ""

----------------------------------------------------------------------------
(* The reconciliation plan, as the sets of contract keys it creates,       *)
(* updates and deletes. The plan runs its creates, then its updates, then  *)
(* its deletes, each in serialization order.                               *)

PlanMutantDeletesExtras(existing, desired) ==
    [creates |-> {k \in ContractKeys : existing[k] = Absent /\ desired[k] # Absent},
     updates |-> {k \in ContractKeys : /\ existing[k] # Absent
                                       /\ desired[k] \notin {Absent, existing[k]}},
     deletes |-> {k \in Keys : existing[k] # Absent /\ desired[k] = Absent}]

PlanMutantKeepsStale(existing, desired) ==
    [creates |-> {k \in ContractKeys : existing[k] = Absent /\ desired[k] # Absent},
     updates |-> {k \in ContractKeys : /\ existing[k] # Absent
                                       /\ desired[k] \notin {Absent, existing[k]}},
     deletes |-> {}]

PlanSecretSync(existing, desired) ==
    [creates |-> {k \in ContractKeys : existing[k] = Absent /\ desired[k] # Absent},
     updates |-> {k \in ContractKeys : /\ existing[k] # Absent
                                       /\ desired[k] \notin {Absent, existing[k]}},
     deletes |-> {k \in ContractKeys : existing[k] # Absent /\ desired[k] = Absent}]

Touched(plan) == plan.creates \cup plan.updates \cup plan.deletes

\* The preflight of the vault. Adopting never converts an app to another engine;
\* a strict run refuses an app of which anything is recorded.
Acceptable(r, recorded) ==
    IF r.adopt THEN Lookup(recorded, "DB_TYPE") \in {"", r.engine}
    ELSE \A k \in ContractKeys : recorded[k] = Absent

\* The next key of the part `left` of a plan that has still to run.
NextOperation(plan, left) ==
    LET phase == CASE plan.creates \cap left # {} -> plan.creates
                   [] plan.creates \cap left = {} /\ plan.updates \cap left # {} -> plan.updates
                   [] OTHER -> plan.deletes
    IN  Earliest(SerializationOrder, phase \cap left)

\* What a plan may have done when it stops: of two keys, the one whose turn
\* comes first.
DoneSoFar(plan) ==
    {done \in SUBSET Touched(plan) :
        \A k \in done, later \in Touched(plan) \ done : NextOperation(plan, {k, later}) = k}

----------------------------------------------------------------------------
(* Erasing a folder goes through its keys in alphabetical order; an        *)
(* operator's key may sort anywhere.                                       *)

AlphabeticalOrder ==
    [k \in Keys |-> CASE k = "DB_HOST" -> 1 [] k = "DB_NAME" -> 2
                      [] k = "DB_PASSWORD" -> 3 [] k = "DB_PORT" -> 4
                      [] k = "DB_SCHEMA" -> 5 [] k = "DB_TYPE" -> 6
                      [] k = "DB_USER" -> 7 [] OTHER -> 8]

\* What is gone of the keys that were listed when erasing them stops.
ErasedSoFar(listed) ==
    {gone \in SUBSET listed :
        \A k \in gone \cap ContractKeys, later \in (listed \ gone) \cap ContractKeys :
            AlphabeticalOrder[k] < AlphabeticalOrder[later]}
=============================================================================
