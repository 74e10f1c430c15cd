------------------------------- MODULE Rotate -------------------------------
(***************************************************************************)
(* `rotate` (Provisioner.Rotate): after the prompt the app is resolved     *)
(* again, the server gets the new password first and the vault second, and *)
(* the old password is restored if the vault refuses.                      *)
(***************************************************************************)
EXTENDS Resolve

ResolveAgain(p) ==
    LET found == secrets[Site(p)]
    IN  /\ At(p, "resolveAgain")
        /\ Read(IF Resolvable(found)
                THEN GotoWith(p, "alter", [job[p] EXCEPT !.seen = found])
                ELSE Goto(p, "failed"),
                Goto(p, "failed"))

OldPassword(p) == Lookup(job[p].seen, "DB_PASSWORD")

\* RotatePassword of either adapter: the user name passes the allowlist, the
\* role must exist, and sessions that are open stay open.
RotatePassword(p, password, ok, bad) ==
    SqlCall(RoleExists(Engine(p), UserOf(p)),
            SetPassword(Engine(p), UserOf(p), password), Goto(p, ok), Goto(p, bad))

AlterMutantIgnoresError(p) ==
    /\ At(p, "alter")
    /\ RotatePassword(p, p, "record", "record")

AlterMutantRecreates(p) ==
    /\ At(p, "alter")
    /\ SqlCall(TRUE, SetPassword(Engine(p), UserOf(p), p), Goto(p, "record"), Goto(p, "failed"))

Alter(p) ==
    /\ At(p, "alter")
    /\ RotatePassword(p, p, "record", "failed")

AfterRecordFailed(p) == IF OldPassword(p) = "" THEN "printRotated" ELSE "restore"

RecordMutantAlwaysUpdates(p) ==
    /\ At(p, "record")
    /\ VaultCall(CanUpdate(Site(p), "DB_PASSWORD"),
                 Put(Site(p), "DB_PASSWORD", p),
                 Goto(p, "verify"), Goto(p, AfterRecordFailed(p)))

RecordMutantIgnoresError(p) ==
    /\ At(p, "record")
    /\ VaultCall(IF OldPassword(p) = "" THEN CanCreate(Site(p), "DB_PASSWORD")
                                        ELSE CanUpdate(Site(p), "DB_PASSWORD"),
                 Put(Site(p), "DB_PASSWORD", p),
                 Goto(p, "verify"), Goto(p, "verify"))

\* A missing password secret is created, any other is updated in place.
Record(p) ==
    /\ At(p, "record")
    /\ VaultCall(IF OldPassword(p) = "" THEN CanCreate(Site(p), "DB_PASSWORD")
                                        ELSE CanUpdate(Site(p), "DB_PASSWORD"),
                 Put(Site(p), "DB_PASSWORD", p),
                 Goto(p, "verify"), Goto(p, AfterRecordFailed(p)))

\* The new password is recorded; --no-verify or a good dial end the run well,
\* a failed one says so and changes nothing.
Verify(p) ==
    /\ At(p, "verify")
    /\ Local(\/ Goto(p, "rotated")
             \/ Goto(p, "unverified"))

RestoreMutantKeepsNew(p) ==
    /\ At(p, "restore")
    /\ RotatePassword(p, p, "rolledBack", "printRotated")

Restore(p) ==
    /\ At(p, "restore")
    /\ RotatePassword(p, OldPassword(p), "rolledBack", "printRotated")

PrintRotatedMutantSilent(p) ==
    /\ At(p, "printRotated")
    /\ Goto(p, "failed")
    /\ UNCHANGED <<role, owner, access, hardening, secrets, folder, faults, shown>>

PrintRotated(p) ==
    /\ At(p, "printRotated")
    /\ shown' = shown \cup {p}
    /\ Goto(p, "failed")
    /\ UNCHANGED <<role, owner, access, hardening, secrets, folder, faults>>

RotateStep(p) ==
    \/ ResolveAgain(p) \/ Alter(p) \/ Record(p) \/ Verify(p)
    \/ Restore(p) \/ PrintRotated(p)
=============================================================================
