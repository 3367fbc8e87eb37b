--------------------------- MODULE MCShellAuthority ---------------------------
(***************************************************************************)
(* Small instances of ShellAuthority: one actor.                           *)
(***************************************************************************)
EXTENDS ShellAuthority

CONSTANTS alice

MCActorOf == [s \in Sessions |-> alice]
=============================================================================
