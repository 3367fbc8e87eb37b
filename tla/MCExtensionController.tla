------------------------ MODULE MCExtensionController ------------------------
(***************************************************************************)
(* Small instances of ExtensionController: one extension, one image.       *)
(***************************************************************************)
EXTENDS ExtensionController, TLC

CONSTANTS alice, bob, i1, x1, k1, k2

\* alice submits, bob approves; who verifies is the subject of MCOperationLedger.
MCPerson == [s \in Subjects |-> s]
MCGrants == [s \in Subjects |-> IF s = alice THEN Actions ELSE {"approve"}]
MCExtension == [i \in Images |-> x1]

Submitted(key, action, approval) ==
    [actor |-> alice, key |-> key, action |-> action, image |-> i1,
     approval |-> approval, git |-> FALSE, local |-> FALSE]

MCInstallRemove == {Submitted(k1, "install", FALSE), Submitted(k2, "remove", TRUE)}
MCInstallRevoke == {Submitted(k1, "install", FALSE), Submitted(k2, "revoke", TRUE)}

Scene(workers, faults) == [workers |-> workers, faults |-> faults]

\* Two workers that may lose their leases; or one that also crashes, while
\* extension management acts behind the ledger's back.
MCRemoveScenes == {Scene(Workers, {"slow"})} \cup {Scene({w}, {"slow", "crash", "manage"}) : w \in Workers}
MCLiveScenes == {Scene(Workers, {"crash", "timeout", "release"})}
MCCrashScene == {Scene(Workers, {"slow", "crash"})}
MCSlowScene == {Scene(Workers, {"slow"})}

Symmetry == Permutations(Workers) \cup Permutations(Uids)
=============================================================================
