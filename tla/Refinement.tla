----------------------------- MODULE Refinement -----------------------------
(***************************************************************************)
(* Lifecycle, for operators who wait for each other and one app under its   *)
(* default names, implements AppLifecycle. What an app was when a command   *)
(* began is kept nowhere in the system, so a history variable notes it.     *)
(***************************************************************************)
EXTENDS Overlap

CONSTANTS TheApp    \* the site of the app

VARIABLE last       \* the last command: its invocation and what it found

NoCommand == "none"

\* The record is one conn accepts, and with it test connects.
Ready(s) ==
    LET creds == ParseCredentials(secrets[s])
        e == creds["DB_TYPE"]
    IN  ResolveType(creds) /\ ValidateContract(creds, e) /\ LetsIn(e, creds)

\* The engines that have something under the app's names.
Holding(s) == {e \in Engines : DbExists(e, DefaultDb[s]) \/ RoleExists(e, DefaultUser[s])}

Condition(s) ==
    [held |-> Holding(s),
     record |-> IF Ready(s) THEN "ready"
                ELSE IF \E k \in ContractKeys : secrets[s][k] # Absent THEN "broken" ELSE "none"]

InitWithHistory == Init /\ last = [by |-> NoCommand, found |-> Condition(TheApp)]

NextWithHistory ==
    /\ Next
    /\ last' = IF \E p \in Invocations : At(p, "idle") /\ pc'[p] # "idle"
               THEN [by |-> CHOOSE p \in Invocations : At(p, "idle") /\ pc'[p] # "idle",
                     found |-> Condition(TheApp)]
               ELSE last

SpecWithHistory == InitWithHistory /\ [][NextWithHistory]_<<vars, last>>

UnderWay == \E p \in Invocations : Active(p)

CommandOf(p) == IF Request(p).cmd = "provision" /\ Request(p).adopt THEN "adopt" ELSE Request(p).cmd

App == INSTANCE AppLifecycle WITH
    app <- IF UnderWay THEN [record |-> "changing", held |-> {}] ELSE Condition(TheApp),
    found <- last.found,
    command <- IF last.by = NoCommand THEN "none" ELSE CommandOf(last.by),
    report <- IF last.by = NoCommand \/ UnderWay THEN "" ELSE pc[last.by]

\* Every command, whatever fails in it and at whatever call it dies, is one
\* step of the abstract app from the state it found to one its report allows.
KeepsPromises == App!Spec
=============================================================================
