--------------------------- MODULE MCShellReconciler ---------------------------
(***************************************************************************)
(* Small instances of ShellReconciler: one actor.                          *)
(***************************************************************************)
EXTENDS ShellReconciler

CONSTANTS alice, w1

MCActorOf == [s \in Sessions |-> alice]

Scene(workers, faults) == [workers |-> workers, faults |-> faults]

\* Two reconcilers that may lose their leases; or one that is in time.
MCScenes == {Scene(Workers, {"slow", "crash", "timeout", "permission"}),
             Scene({w1}, {"crash", "timeout", "idle", "logout", "disable"})}
MCCrashScene == {Scene({w1}, {"crash"})}
MCPermissionScene == {Scene({w1}, {"permission"})}
=============================================================================
