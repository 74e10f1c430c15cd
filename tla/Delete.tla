------------------------------- MODULE Delete -------------------------------
(***************************************************************************)
(* `delete` (Provisioner.Deprovision), once the adapter has dropped the    *)
(* database and the user the app was resolved to before the prompt: what   *)
(* the folder holds now is erased, then the folder.                        *)
(***************************************************************************)
EXTENDS Resolve

ListSecrets(p) ==
    /\ At(p, "listSecrets")
    /\ Read(GotoWith(p, "erase",
                     [job[p] EXCEPT !.left = {k \in Keys : secrets[Site(p)][k] # Absent}]),
            Goto(p, "failed"))

\* Keys are erased in alphabetical order.
NextToErase(S) ==
    (S \cap ExtraKeys) \cup
    {k \in S \cap ContractKeys :
        \A other \in S \cap ContractKeys : AlphabeticalOrder[k] <= AlphabeticalOrder[other]}

Erase(p) ==
    /\ At(p, "erase")
    /\ \E k \in NextToErase(job[p].left) :
        VaultCall(CanUpdate(Site(p), k), Put(Site(p), k, Absent),
                  GotoWith(p, "erase", [job[p] EXCEPT !.left = @ \ {k}]),
                  Goto(p, "failed"))

DeleteFolder(p) ==
    /\ At(p, "erase") /\ job[p].left = {}
    /\ VaultCall(folder[Site(p)], RemoveFolder(Site(p)),
                 Goto(p, "deleted"), Goto(p, "failed"))

DeleteStep(p) == ListSecrets(p) \/ Erase(p) \/ DeleteFolder(p)
=============================================================================
