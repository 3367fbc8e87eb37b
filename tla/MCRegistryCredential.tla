------------------------- MODULE MCRegistryCredential -------------------------
(***************************************************************************)
(* Small instances of RegistryCredential: an authorization, a replacement  *)
(* and a removal of the credential meet the two replicas' ticks.           *)
(***************************************************************************)
EXTENDS RegistryCredential, TLC

CONSTANTS authorize, replace, remove

MCKind == (authorize :> "oauth") @@ (replace :> "replace") @@ (remove :> "remove")

Scene(cred, requests, faults) == [cred |-> cred, requests |-> requests, faults |-> faults]

MCRegistryScenes == {
    Scene("device", {replace}, {"crash"}),
    Scene("device", {}, {"crash", "provider"}),
    Scene("device", {authorize}, {}),
    Scene("pat", {remove, replace}, {"lost"}),
    Scene("pat", {remove}, {"provider", "release"}),
    Scene("none", {authorize}, {"provider", "authority", "start", "audit"})}

\* A reconnection is asked for after a refresh was interrupted, and fails.
MCReconnectScene == {Scene("device", {authorize}, {"crash", "start"})}
=============================================================================
