----------------------------- MODULE SecretSync -----------------------------
(***************************************************************************)
(* Reconciliation on its own (planSecretSync, Provisioner.executeSyncPlan):*)
(* one folder that may hold anything at first, a contract to record in it, *)
(* and attempts that plan, run their plan call by call, stop at the first  *)
(* call that fails, and are repeated. Lifecycle runs the same plan among   *)
(* everything else; here the folder's first content is arbitrary.          *)
(***************************************************************************)
EXTENDS Contract

CONSTANTS Strings,      \* what a secret may hold, "" among it
          Folders,      \* what the folder may hold at first
          Targets,      \* the credentials to record
          Failures      \* how many calls may fail

SecretMaps == [Keys -> Strings \cup {Absent}]

\* What provisioning records: every core field, and a schema in postgres only.
Complete(c) == c["DB_TYPE"] \in Engines /\ ValidateContract(c, c["DB_TYPE"])

ASSUME SyncAssumption ==
    /\ Absent \notin Strings /\ Engines \cup {""} \subseteq Strings
    /\ Folders \subseteq SecretMaps
    /\ Targets \subseteq [ContractKeys -> Strings]
    /\ \A c \in Targets : Complete(c)
    /\ Failures \in Nat

VARIABLES store,        \* the folder's secrets
          creds,        \* the credentials to record
          plan,         \* the plan of the current attempt
          left,         \* the keys of it that have still to be written
          state,        \* "running", "stopped" by a failure, or "done"
          failures

vars == <<store, creds, plan, left, state, failures>>

Desired == ToSecrets(creds)

Begin(first) ==
    /\ plan = PlanSecretSync(first, Desired)
    /\ left = Touched(plan)

Init ==
    /\ store \in Folders
    /\ creds \in Targets
    /\ Begin(store)
    /\ state = "running" /\ failures = 0

Key == NextOperation(plan, left)

Write == store' = [store EXCEPT ![Key] = Desired[Key]]

\* One call: it succeeds, or fails with or without having taken effect.
OperateMutantStaysRunning ==
    /\ state = "running" /\ left # {}
    /\ \/ Write /\ left' = left \ {Key} /\ UNCHANGED <<state, failures>>
       \/ /\ Write \/ UNCHANGED store
          /\ failures < Failures /\ failures' = failures + 1
          /\ left' = left \ {Key} /\ UNCHANGED state
    /\ UNCHANGED <<creds, plan>>

Operate ==
    /\ state = "running" /\ left # {}
    /\ \/ Write /\ left' = left \ {Key} /\ UNCHANGED <<state, failures>>
       \/ /\ Write \/ UNCHANGED store
          /\ failures < Failures /\ failures' = failures + 1
          /\ state' = "stopped" /\ UNCHANGED left
    /\ UNCHANGED <<creds, plan>>

Finish ==
    /\ state = "running" /\ left = {}
    /\ state' = "done"
    /\ UNCHANGED <<store, creds, plan, left, failures>>

Repeat ==
    /\ state = "stopped"
    /\ plan' = PlanSecretSync(store, Desired)
    /\ left' = Touched(plan')
    /\ state' = "running"
    /\ UNCHANGED <<store, creds, failures>>

Next == Operate \/ Finish \/ Repeat

Spec == Init /\ [][Next]_vars

----------------------------------------------------------------------------
(* Every variable stays in its type; a plan's three parts are disjoint.    *)
TypeOK ==
    /\ store \in SecretMaps
    /\ creds \in Targets
    /\ plan \in [{"creates", "updates", "deletes"} -> SUBSET ContractKeys]
    /\ left \subseteq Touched(plan)
    /\ state \in {"running", "stopped", "done"}
    /\ failures \in 0 .. Failures

\* An attempt that ends well leaves exactly the desired contract, and one that
\* every reader of the contract accepts, whatever the folder held at first.
DoneIsReconciled ==
    state = "done" =>
        /\ \A k \in ContractKeys : store[k] = Desired[k]
        /\ ValidateContract(ParseCredentials(store), creds["DB_TYPE"])

\* A repeated run picks up where the failed one stopped: planned afresh at any
\* moment, the work is what is left of the running plan.
ReplanResumes ==
    state = "running" =>
        \A part \in DOMAIN plan :
            PlanSecretSync(store, Desired)[part] = plan[part] \cap left

\* No step of any attempt changes a key of the operator's.
ExtrasUntouched == [][\A k \in ExtraKeys : store'[k] = store[k]]_store

\* An app that commands can resolve stays so through every step: names are
\* overwritten, never removed.
StaysResolvable == [][Resolvable(store) => Resolvable(store')]_store
=============================================================================
