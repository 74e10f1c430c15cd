------------------------------ MODULE Overlap ------------------------------
(***************************************************************************)
(* Commands of any kind that overlap. Nothing orders them: there is no lock *)
(* and no version in either store, so two operators can make the stores    *)
(* disagree. What is left to promise is what overlapping commands can never *)
(* bring back, and that the next command nobody disturbs puts things right. *)
(***************************************************************************)
EXTENDS Lifecycle

\* No other command is under way, nor will one start.
Undisturbed(p) == \A q \in Invocations \ {p} : pc[q] \in Finished

\* Nothing of the app p worked on is left in either store.
Gone(p) ==
    /\ ~DbExists(Engine(p), DbOf(p)) /\ ~RoleExists(Engine(p), UserOf(p))
    /\ ~folder[Site(p)] /\ \A k \in Keys : secrets[Site(p)][k] = Absent

\* Deletes and rotations of one app that overlap: once a delete has reported
\* success the app stays gone until it is provisioned anew. A rotation that
\* resolved it before neither sets a password on, nor records one for, what was
\* dropped; a second delete fails.
DeletedStaysGone ==
    \A p \in Invocations :
        At(p, "deleted") /\ (\A q \in Invocations : ~Provisioning(q)) => Gone(p)

\* Rotations, adoptions and deletes that overlapped may have left the server
\* with one password and the vault with another, or parts of an app: a rotation
\* that then runs alone makes the stores agree, if the user is still there.
RotationHeals ==
    \A p \in Invocations :
        CanRotate(p) /\ secrets[Site(p)]["DB_PASSWORD"] # "" /\ Undisturbed(p)
        ~> Rotates(p) /\ role[Engine(p)][UserOf(p)] = p /\ secrets[Site(p)]["DB_PASSWORD"] = p

\* And an adoption that then runs alone makes the app whole in both stores.
AdoptionHeals ==
    \A p \in Invocations :
        CanAdopt(p) /\ Undisturbed(p) ~> At(p, "synced") /\ ServerReady(p) /\ Recorded(p)

\* And a delete that then runs alone leaves nothing, unless the folder went
\* before it: then there is nothing to delete and it fails.
DeletionHeals ==
    \A p \in Invocations :
        CanDelete(p) /\ folder[Site(p)] /\ Undisturbed(p) ~> At(p, "deleted") /\ Gone(p)

----------------------------------------------------------------------------
(* A statement of the documentation that overlapping commands refute.      *)

\* REFERENCE.md: "Adopted resources are never dropped by a failed run's
\* cleanup", by no failed run's, a strict one that created them included.
CleanupSparesAdopted ==
    [][\A p, q \in Invocations :
        /\ pc[p] \in {"pgUndoDatabase", "myUndoDatabase"} /\ Moves(p)
        /\ At(q, "synced") /\ job[q].dbThere
        => owner'[Engine(q)][DbOf(q)] = owner[Engine(q)][DbOf(q)]]_vars
=============================================================================
