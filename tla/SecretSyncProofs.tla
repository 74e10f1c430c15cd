-------------------------- MODULE SecretSyncProofs --------------------------
(***************************************************************************)
(* Reconciliation of a folder of any content, for any operator's keys, any  *)
(* strings, any targets and any number of failures.                        *)
(***************************************************************************)
EXTENDS SecretSync, TLAPS

\* TypeOK and ReplanResumes are inductive together; an attempt is done only
\* after a moment at which nothing was left.
SyncInv == TypeOK /\ ReplanResumes /\ DoneIsReconciled

Parts == {"creates", "updates", "deletes"}

----------------------------------------------------------------------------
(* What is desired, and what a plan is made of.                            *)

\* The contract of a target that is complete: what it serializes to parses
\* back to it.
LEMMA DesiredTyped ==
    ASSUME creds \in Targets
    PROVE  /\ Desired \in SecretMaps
           /\ \A k \in ContractKeys : Lookup(Desired, k) = creds[k]
           /\ \A k \in {"DB_NAME", "DB_USER"} : Desired[k] \notin {"", Absent}
           /\ ValidateContract(creds, creds["DB_TYPE"])
<1>1. creds \in [ContractKeys -> Strings] /\ Complete(creds)
  BY SyncAssumption
<1>2. \A k \in ContractKeys : creds[k] \in Strings /\ creds[k] # Absent
  BY <1>1, SyncAssumption
<1>3. ContractKeys \subseteq Keys
  BY DEF Keys
<1>4. Desired = [k \in Keys |-> IF k \in ContractKeys /\ (k = "DB_SCHEMA" => creds[k] # "")
                                THEN creds[k] ELSE Absent]
  BY DEF Desired, ToSecrets
<1>5. Desired \in SecretMaps
  BY <1>2, <1>4 DEF SecretMaps
<1>6. \A k \in ContractKeys : Lookup(Desired, k) = creds[k]
  BY <1>2, <1>3, <1>4 DEF Lookup
<1>7. \A k \in {"DB_NAME", "DB_USER"} : creds[k] # "" /\ k \in ContractKeys /\ k # "DB_SCHEMA"
  BY <1>1 DEF Complete, ValidateContract, RequireCore, ContractKeys
<1>8. \A k \in {"DB_NAME", "DB_USER"} : Desired[k] \notin {"", Absent}
  BY <1>2, <1>3, <1>4, <1>7
<1> QED
  BY <1>1, <1>5, <1>6, <1>8 DEF Complete

LEMMA PlanTyped ==
    ASSUME NEW existing, NEW desired
    PROVE  PlanSecretSync(existing, desired) \in [Parts -> SUBSET ContractKeys]
BY DEF PlanSecretSync, Parts

\* Once a key holds what is desired, no plan touches it any more.
LEMMA ReconciledIsUntouched ==
    ASSUME NEW existing, NEW desired, NEW k, existing[k] = desired[k], NEW part \in Parts
    PROVE  k \notin PlanSecretSync(existing, desired)[part]
BY DEF PlanSecretSync, Parts

\* A plan with nothing to do is one of a folder that is reconciled.
LEMMA EmptyPlanIsReconciled ==
    ASSUME NEW existing, NEW desired,
           \A part \in Parts : PlanSecretSync(existing, desired)[part] = {}
    PROVE  \A k \in ContractKeys : existing[k] = desired[k]
<1> SUFFICES ASSUME NEW k \in ContractKeys PROVE existing[k] = desired[k]
  OBVIOUS
<1>1. /\ k \notin PlanSecretSync(existing, desired).creates
      /\ k \notin PlanSecretSync(existing, desired).updates
      /\ k \notin PlanSecretSync(existing, desired).deletes
  BY DEF Parts
<1> QED
  BY <1>1 DEF PlanSecretSync

\* The first of some contract keys in serialization order is one of them.
LEMMA EarliestIsMember ==
    ASSUME NEW S \in SUBSET ContractKeys, S # {}
    PROVE  Earliest(SerializationOrder, S) \in S
<1>1. \A k \in ContractKeys : k \in Keys
  BY DEF Keys
<1>2. /\ SerializationOrder["DB_TYPE"] = 1 /\ SerializationOrder["DB_NAME"] = 2
      /\ SerializationOrder["DB_USER"] = 3 /\ SerializationOrder["DB_PASSWORD"] = 4
      /\ SerializationOrder["DB_HOST"] = 5 /\ SerializationOrder["DB_PORT"] = 6
      /\ SerializationOrder["DB_SCHEMA"] = 7
  BY <1>1 DEF SerializationOrder, ContractKeys
<1> DEFINE First(k) == k \in S /\ \A other \in S : SerializationOrder[k] <= SerializationOrder[other]
<1>3. \A k \in S : k \in {"DB_TYPE", "DB_NAME", "DB_USER", "DB_PASSWORD", "DB_HOST", "DB_PORT", "DB_SCHEMA"}
  BY DEF ContractKeys
<1>4. CASE "DB_TYPE" \in S
  <2>1. First("DB_TYPE")
    BY <1>2, <1>3, <1>4
  <2> QED
    BY <2>1 DEF Earliest
<1>5. CASE S \cap {"DB_TYPE"} = {} /\ "DB_NAME" \in S
  <2>1. First("DB_NAME")
    BY <1>2, <1>3, <1>5
  <2> QED
    BY <2>1 DEF Earliest
<1>6. CASE S \cap {"DB_TYPE", "DB_NAME"} = {} /\ "DB_USER" \in S
  <2>1. First("DB_USER")
    BY <1>2, <1>3, <1>6
  <2> QED
    BY <2>1 DEF Earliest
<1>7. CASE S \cap {"DB_TYPE", "DB_NAME", "DB_USER"} = {} /\ "DB_PASSWORD" \in S
  <2>1. First("DB_PASSWORD")
    BY <1>2, <1>3, <1>7
  <2> QED
    BY <2>1 DEF Earliest
<1>8. CASE S \cap {"DB_TYPE", "DB_NAME", "DB_USER", "DB_PASSWORD"} = {} /\ "DB_HOST" \in S
  <2>1. First("DB_HOST")
    BY <1>2, <1>3, <1>8
  <2> QED
    BY <2>1 DEF Earliest
<1>9. CASE S \cap {"DB_TYPE", "DB_NAME", "DB_USER", "DB_PASSWORD", "DB_HOST"} = {} /\ "DB_PORT" \in S
  <2>1. First("DB_PORT")
    BY <1>2, <1>3, <1>9
  <2> QED
    BY <2>1 DEF Earliest
<1>10. CASE S \cap {"DB_TYPE", "DB_NAME", "DB_USER", "DB_PASSWORD", "DB_HOST", "DB_PORT"} = {} /\ "DB_SCHEMA" \in S
  <2>1. First("DB_SCHEMA")
    BY <1>2, <1>3, <1>10
  <2> QED
    BY <2>1 DEF Earliest
<1> QED
  BY <1>3, <1>4, <1>5, <1>6, <1>7, <1>8, <1>9, <1>10

\* The next operation is one that is left.
LEMMA KeyIsLeft ==
    ASSUME TypeOK, left # {}
    PROVE  Key \in left /\ Key \in ContractKeys
<1>1. /\ plan.creates \subseteq ContractKeys /\ plan.updates \subseteq ContractKeys
      /\ plan.deletes \subseteq ContractKeys
  BY DEF TypeOK
<1>2. left \subseteq plan.creates \cup plan.updates \cup plan.deletes
  BY DEF TypeOK, Touched
<1>3. CASE plan.creates \cap left # {}
  <2>1. Key = Earliest(SerializationOrder, plan.creates \cap left)
    BY <1>3 DEF Key, NextOperation
  <2> QED
    BY <1>1, <1>3, <2>1, EarliestIsMember
<1>4. CASE plan.creates \cap left = {} /\ plan.updates \cap left # {}
  <2>1. Key = Earliest(SerializationOrder, plan.updates \cap left)
    BY <1>4 DEF Key, NextOperation
  <2> QED
    BY <1>1, <1>4, <2>1, EarliestIsMember
<1>5. CASE plan.creates \cap left = {} /\ plan.updates \cap left = {}
  <2>1. Key = Earliest(SerializationOrder, plan.deletes \cap left)
    BY <1>5 DEF Key, NextOperation
  <2>2. plan.deletes \cap left # {}
    BY <1>2, <1>5
  <2> QED
    BY <1>1, <2>1, <2>2, EarliestIsMember
<1> QED
  BY <1>3, <1>4, <1>5

----------------------------------------------------------------------------
(* The invariant.                                                          *)

\* A plan made from the folder as it is, with all of it left.
LEMMA FreshPlan ==
    ASSUME NEW s, NEW d
    PROVE  \A part \in Parts :
               PlanSecretSync(s, d)[part] = PlanSecretSync(s, d)[part] \cap Touched(PlanSecretSync(s, d))
BY DEF Touched, Parts

LEMMA InitSync == Init => SyncInv
<1> SUFFICES ASSUME Init PROVE SyncInv
  OBVIOUS
<1>1. /\ plan = PlanSecretSync(store, Desired) /\ left = Touched(plan)
      /\ state = "running" /\ failures = 0
  BY DEF Init, Begin
<1>2. plan \in [Parts -> SUBSET ContractKeys]
  BY <1>1, PlanTyped
<1>3. store \in SecretMaps /\ creds \in Targets
  BY SyncAssumption DEF Init
<1>8. Failures \in Nat
  BY SyncAssumption
<1>9. failures \in 0 .. Failures
  BY <1>1, <1>8
<1>5. plan \in [{"creates", "updates", "deletes"} -> SUBSET ContractKeys]
  BY <1>2 DEF Parts
<1>6. left \subseteq Touched(plan)
  BY <1>1
<1>7. TypeOK
  BY <1>1, <1>3, <1>5, <1>6, <1>9 DEF TypeOK
<1>4. ReplanResumes
  BY <1>1, <1>2, FreshPlan DEF ReplanResumes
<1> QED
  BY <1>1, <1>7, <1>4 DEF SyncInv, DoneIsReconciled

\* One write, of the next operation: a plan made after it lacks just its key.
LEMMA WriteShrinksPlan ==
    ASSUME TypeOK, left # {}, Write, UNCHANGED creds, NEW part \in Parts
    PROVE  /\ store' \in SecretMaps
           /\ PlanSecretSync(store', Desired')[part]
                = PlanSecretSync(store, Desired)[part] \ {Key}
<1>1. Key \in ContractKeys /\ Key \in Keys
  BY KeyIsLeft DEF Keys
<1>2. Desired' = Desired /\ Desired \in SecretMaps
  BY DesiredTyped DEF TypeOK, Desired
<1>3. store' = [store EXCEPT ![Key] = Desired[Key]] /\ store \in SecretMaps
  BY DEF Write, TypeOK
<1>4. store' \in SecretMaps
  BY <1>1, <1>2, <1>3 DEF SecretMaps
<1>5. store'[Key] = Desired[Key] /\ \A k \in ContractKeys \ {Key} : store'[k] = store[k]
  BY <1>1, <1>3 DEF SecretMaps, Keys
<1>6. Key \notin PlanSecretSync(store', Desired)[part]
  BY <1>5, ReconciledIsUntouched
<1>7. \A k \in ContractKeys \ {Key} :
          k \in PlanSecretSync(store', Desired)[part] <=> k \in PlanSecretSync(store, Desired)[part]
  BY <1>5 DEF PlanSecretSync, Parts
<1>8. /\ PlanSecretSync(store', Desired)[part] \subseteq ContractKeys
      /\ PlanSecretSync(store, Desired)[part] \subseteq ContractKeys
  BY PlanTyped
<1> QED
  BY <1>2, <1>4, <1>6, <1>7, <1>8

LEMMA OperateSync == SyncInv /\ Operate => SyncInv'
<1> SUFFICES ASSUME SyncInv, Operate PROVE SyncInv'
  OBVIOUS
<1>1. /\ TypeOK /\ ReplanResumes /\ state = "running" /\ left # {}
      /\ creds' = creds /\ plan' = plan /\ DOMAIN plan = Parts
  BY DEF SyncInv, Operate, TypeOK, Parts
<1>2. CASE Write /\ left' = left \ {Key} /\ UNCHANGED <<state, failures>>
  <2>1. store' \in SecretMaps
    BY <1>1, <1>2, WriteShrinksPlan DEF Parts
  <2>2. TypeOK'
    BY <1>1, <1>2, <2>1 DEF TypeOK, Touched
  <2>3. ReplanResumes'
    <3> SUFFICES ASSUME NEW part \in Parts
                 PROVE  PlanSecretSync(store', Desired')[part] = plan[part] \cap (left \ {Key})
      BY <1>1, <1>2 DEF ReplanResumes
    <3>1. PlanSecretSync(store, Desired)[part] = plan[part] \cap left
      BY <1>1 DEF ReplanResumes
    <3>2. PlanSecretSync(store', Desired')[part] = PlanSecretSync(store, Desired)[part] \ {Key}
      BY <1>1, <1>2, WriteShrinksPlan
    <3> QED
      BY <3>1, <3>2
  <2> QED
    BY <1>1, <1>2, <2>2, <2>3 DEF SyncInv, DoneIsReconciled
<1>3. CASE /\ Write \/ UNCHANGED store
           /\ failures < Failures /\ failures' = failures + 1
           /\ state' = "stopped" /\ UNCHANGED left
  <2>1. store' \in SecretMaps
    BY <1>1, <1>3, WriteShrinksPlan DEF TypeOK, Parts
  <2>6. Failures \in Nat
    BY SyncAssumption
  <2>7. failures \in 0 .. Failures
    BY <1>1 DEF TypeOK
  <2>2. failures' \in 0 .. Failures
    BY <1>3, <2>6, <2>7
  <2>3. /\ creds \in Targets /\ plan \in [{"creates", "updates", "deletes"} -> SUBSET ContractKeys]
        /\ left \subseteq Touched(plan)
    BY <1>1 DEF TypeOK
  <2>4. /\ creds' \in Targets /\ plan' \in [{"creates", "updates", "deletes"} -> SUBSET ContractKeys]
        /\ left' \subseteq Touched(plan)' /\ state' \in {"running", "stopped", "done"}
    BY <1>1, <1>3, <2>3 DEF Touched
  <2>5. TypeOK'
    BY <2>1, <2>2, <2>4 DEF TypeOK
  <2> QED
    BY <1>3, <2>5 DEF SyncInv, ReplanResumes, DoneIsReconciled
<1> QED
  BY <1>2, <1>3 DEF Operate

LEMMA FinishSync == SyncInv /\ Finish => SyncInv'
<1> SUFFICES ASSUME SyncInv, Finish PROVE SyncInv'
  OBVIOUS
<1>1. /\ TypeOK /\ ReplanResumes /\ state = "running" /\ left = {} /\ DOMAIN plan = Parts
      /\ state' = "done" /\ UNCHANGED <<store, creds, plan, left, failures>>
  BY DEF SyncInv, Finish, TypeOK, Parts
<1>2. \A part \in Parts : PlanSecretSync(store, Desired)[part] = {}
  BY <1>1 DEF ReplanResumes
<1>3. \A k \in ContractKeys : store[k] = Desired[k]
  BY <1>2, EmptyPlanIsReconciled
<1>4. creds \in Targets /\ creds \in [ContractKeys -> Strings]
  BY <1>1, SyncAssumption DEF TypeOK
<1>5. \A k \in ContractKeys : Lookup(store, k) = creds[k]
  BY <1>3, <1>4, DesiredTyped DEF Lookup
<1>6. ParseCredentials(store) = creds
  BY <1>4, <1>5 DEF ParseCredentials
<1>7. ValidateContract(ParseCredentials(store), creds["DB_TYPE"])
  BY <1>4, <1>6, DesiredTyped
<1>8. DoneIsReconciled'
  BY <1>1, <1>3, <1>7 DEF DoneIsReconciled, Desired
<1>9. TypeOK'
  BY <1>1 DEF TypeOK
<1> QED
  BY <1>1, <1>8, <1>9 DEF SyncInv, ReplanResumes

LEMMA RepeatSync == SyncInv /\ Repeat => SyncInv'
<1> SUFFICES ASSUME SyncInv, Repeat PROVE SyncInv'
  OBVIOUS
<1>1. /\ TypeOK /\ plan' = PlanSecretSync(store, Desired) /\ left' = Touched(plan')
      /\ state' = "running" /\ UNCHANGED <<store, creds, failures>> /\ Desired' = Desired
  BY DEF SyncInv, Repeat, Desired
<1>2. plan' \in [Parts -> SUBSET ContractKeys]
  BY <1>1, PlanTyped
<1>3. TypeOK'
  BY <1>1, <1>2 DEF TypeOK, Parts
<1>4. ReplanResumes'
  BY <1>1, <1>2, FreshPlan DEF ReplanResumes
<1> QED
  BY <1>1, <1>3, <1>4 DEF SyncInv, DoneIsReconciled

LEMMA NextSync == SyncInv /\ [Next]_vars => SyncInv'
<1> SUFFICES ASSUME SyncInv, [Next]_vars PROVE SyncInv'
  OBVIOUS
<1>1. CASE Next
  BY <1>1, OperateSync, FinishSync, RepeatSync DEF Next
<1>2. CASE UNCHANGED vars
  BY <1>2 DEF vars, SyncInv, TypeOK, ReplanResumes, DoneIsReconciled, Desired
<1> QED
  BY <1>1, <1>2

LEMMA SyncInvariance == Spec => []SyncInv
BY InitSync, NextSync, PTL DEF Spec

----------------------------------------------------------------------------
(* What it gives.                                                          *)

\* Every variable stays in its type.
THEOREM SyncTyped == Spec => []TypeOK
<1>1. SyncInv => TypeOK
  BY DEF SyncInv
<1> QED
  BY <1>1, SyncInvariance, PTL

\* planSecretSync is right for every folder: an attempt that ends well, however
\* often it was stopped and repeated, leaves exactly the desired contract.
THEOREM Reconciles == Spec => []DoneIsReconciled
<1>1. SyncInv => DoneIsReconciled
  BY DEF SyncInv
<1> QED
  BY <1>1, SyncInvariance, PTL

\* A re-run plans just what the stopped run had left.
THEOREM Resumes == Spec => []ReplanResumes
<1>1. SyncInv => ReplanResumes
  BY DEF SyncInv
<1> QED
  BY <1>1, SyncInvariance, PTL

\* No step changes a key of the operator's.
THEOREM ExtrasStay == Spec => ExtrasUntouched
<1>1. SyncInv /\ [Next]_vars => [\A k \in ExtraKeys : store'[k] = store[k]]_store
  <2> SUFFICES ASSUME SyncInv, [Next]_vars, store' # store, NEW k \in ExtraKeys
               PROVE  store'[k] = store[k]
    OBVIOUS
  <2>1. TypeOK /\ left # {} /\ Write
    BY DEF SyncInv, Next, Operate, Finish, Repeat, vars
  <2>2. k # Key
    BY <2>1, KeyIsLeft, KeysAssumption
  <2> QED
    BY <2>1, <2>2 DEF Write, TypeOK, SecretMaps, Keys
<1> QED
  BY <1>1, SyncInvariance, PTL DEF Spec, ExtrasUntouched

\* No step makes an app that commands can resolve unresolvable.
THEOREM ResolvableStays == Spec => StaysResolvable
<1>1. SyncInv /\ [Next]_vars => [Resolvable(store) => Resolvable(store')]_store
  <2> SUFFICES ASSUME SyncInv, [Next]_vars, store' # store, Resolvable(store)
               PROVE  Resolvable(store')
    OBVIOUS
  <2>1. TypeOK /\ left # {} /\ Write
    BY DEF SyncInv, Next, Operate, Finish, Repeat, vars
  <2>2. \A k \in {"DB_NAME", "DB_USER"} : k \in Keys /\ Desired[k] \notin {"", Absent}
    BY <2>1, DesiredTyped DEF TypeOK, Keys, ContractKeys
  <2>3. store' = [store EXCEPT ![Key] = Desired[Key]] /\ DOMAIN store = Keys
    BY <2>1 DEF Write, TypeOK, SecretMaps
  <2>4. \A k \in {"DB_NAME", "DB_USER"} : store[k] \notin {"", Absent}
    BY DEF Resolvable, Lookup
  <2>5. \A k \in {"DB_NAME", "DB_USER"} : store'[k] \notin {"", Absent}
    BY <2>2, <2>3, <2>4
  <2> QED
    BY <2>2, <2>5 DEF Resolvable, Lookup
<1> QED
  BY <1>1, SyncInvariance, PTL DEF Spec, StaysResolvable
=============================================================================
