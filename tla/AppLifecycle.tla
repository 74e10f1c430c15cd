---------------------------- MODULE AppLifecycle ----------------------------
(***************************************************************************)
(* What the tool promises of one app to an operator who waits for each      *)
(* command to end: in which state a command may leave the app, given the    *)
(* state it found it in and what it reported. The two stores, their calls   *)
(* and their faults are not visible here; Refinement shows that Lifecycle   *)
(* keeps these promises.                                                    *)
(*                                                                         *)
(* The record of an app is "ready" if readers accept it and a server lets   *)
(* its user in with it, "broken" if it is anything else, and "none"         *)
(* otherwise. Engines hold an app that have anything under its names.       *)
(***************************************************************************)
CONSTANT Engines

VARIABLES
    app,        \* the app's record and what holds it, Changing during a command
    found,      \* what the last command found
    command,    \* the last command
    report      \* and what it reported, "" while it is under way

States == [record : {"none", "broken", "ready"}, held : SUBSET Engines]
Changing == [record |-> "changing", held |-> {}]
Commands == {"provision", "adopt", "rotate", "delete"}
Failures == {"failed", "rolledBack", "crashed"}

vars == <<app, found, command, report>>

Recorded(a) == a.record # "none"

Init ==
    /\ app \in States /\ found = app
    /\ command = "none" /\ report = ""

Begin(c) ==
    /\ app \in States
    /\ app' = Changing /\ found' = app
    /\ command' = c /\ report' = ""

Ends(reports) ==
    /\ app = Changing
    /\ report' \in reports /\ app' \in States
    /\ UNCHANGED <<found, command>>

\* Provisioning that reports success leaves a ready app; without --adopt it
\* found no record, and nothing on its engine.
Provisions ==
    /\ command \in {"provision", "adopt"} /\ Ends({"synced"})
    /\ app'.record = "ready"
    /\ \E e \in Engines :
        /\ app'.held = found.held \cup {e}
        /\ command = "provision" => ~Recorded(found) /\ e \notin found.held

\* A rotation finds a record and keeps one, and leaves a ready app ready.
Rotates ==
    /\ command = "rotate" /\ Ends({"rotated", "unverified"})
    /\ Recorded(found) /\ Recorded(app') /\ app'.held = found.held
    /\ found.record = "ready" => app'.record = "ready"

Deletes ==
    /\ command = "delete" /\ Ends({"deleted"})
    /\ Recorded(found) /\ ~Recorded(app')
    /\ \E e \in Engines : app'.held = found.held \ {e}

\* A strict run changes no app that is recorded; it and an adoption may leave
\* something behind, but take away nothing they found.
FailsToProvision ==
    /\ command \in {"provision", "adopt"} /\ Ends(Failures)
    /\ found.held \subseteq app'.held
    /\ \E e \in Engines : app'.held \subseteq found.held \cup {e}
    /\ Recorded(found) => Recorded(app')
    /\ command = "provision" /\ Recorded(found) => app' = found

\* A rotation neither makes nor loses a record.
FailsToRotate ==
    /\ command = "rotate" /\ Ends(Failures)
    /\ app'.held = found.held
    /\ IF Recorded(found) THEN Recorded(app') ELSE app' = found

\* A delete has dropped what it has forgotten, and makes no app ready.
FailsToDelete ==
    /\ command = "delete" /\ Ends(Failures)
    /\ app'.record = "ready" => found.record = "ready"
    /\ IF Recorded(found)
       THEN \E e \in Engines :
                /\ app'.held \in {found.held, found.held \ {e}}
                /\ ~Recorded(app') => e \notin app'.held
       ELSE app' = found

Declines ==
    /\ command \in {"adopt", "rotate", "delete"} /\ Ends({"declined"})
    /\ app' = found

Next ==
    \/ \E c \in Commands : Begin(c)
    \/ Provisions \/ Rotates \/ Deletes
    \/ FailsToProvision \/ FailsToRotate \/ FailsToDelete \/ Declines

Spec == Init /\ [][Next]_vars
=============================================================================
