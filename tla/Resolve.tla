------------------------------ MODULE Resolve ------------------------------
(***************************************************************************)
(* What `rotate` (cmd/rotate.go) and `delete` (cmd/delete.go) begin with:  *)
(* the app is resolved from the vault, never from naming conventions, and  *)
(* the operator is asked to confirm. The prompt is also that of `provision *)
(* --adopt` (cmd/provision.go).                                            *)
(***************************************************************************)
EXTENDS Stores

\* ResolveApp, then resolveEngine and the engine's configuration.
ResolveMutantAnyEngine(p) ==
    LET found == secrets[Site(p)]
        engine == ResolveEngine(ParseCredentials(found), Request(p).engine)
    IN  /\ At(p, "resolve")
        /\ Read(IF Request(p).online /\ Resolvable(found) /\ engine # ""
                THEN GotoWith(p, "confirm", [job[p] EXCEPT !.seen = found, !.engine = engine])
                ELSE Goto(p, "failed"),
                Goto(p, "failed"))

Resolve(p) ==
    LET found == secrets[Site(p)]
        engine == ResolveEngine(ParseCredentials(found), Request(p).engine)
    IN  /\ At(p, "resolve")
        /\ Read(IF Request(p).online /\ Resolvable(found) /\ engine \in Engines
                THEN GotoWith(p, "confirm", [job[p] EXCEPT !.seen = found, !.engine = engine])
                ELSE Goto(p, "failed"),
                Goto(p, "failed"))

FirstDrop == [postgres |-> "pgDropDatabase", mysql |-> "myDropUser"]

AfterConfirm(p) ==
    CASE Request(p).cmd = "provision" -> "prepare"
      [] Request(p).cmd = "rotate" -> "resolveAgain"
      [] Request(p).cmd = "delete" -> FirstDrop[Engine(p)]

\* --force is an operator who confirms at once.
Confirm(p) ==
    /\ At(p, "confirm")
    /\ Local(Goto(p, AfterConfirm(p)))

Decline(p) ==
    /\ At(p, "confirm")
    /\ Local(Goto(p, "declined"))

ResolveStep(p) == Resolve(p) \/ Confirm(p) \/ Decline(p)
=============================================================================
