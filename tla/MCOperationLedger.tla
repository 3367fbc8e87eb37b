-------------------------- MODULE MCOperationLedger --------------------------
(***************************************************************************)
(* Small instances of OperationLedger.  alice submits requests, bob may    *)
(* approve and verify, alias is a second account of alice's person.        *)
(***************************************************************************)
EXTENDS OperationLedger

CONSTANTS alice, bob, alias, i1, k1, k2, w1, w2

MCPerson == [s \in Subjects |-> IF s = bob THEN "bob" ELSE "alice"]
MCGrants == [s \in Subjects |-> IF s = alice THEN Permissions \ {"verify"}
                                             ELSE {"approve", "verify"}]

Submitted(key, action, approval, git) ==
    [actor |-> alice, key |-> key, action |-> action, image |-> i1,
     approval |-> approval, git |-> git, local |-> action = "install" /\ ~ approval]

\* A Git-reviewed install, a direct one under the same key, and a removal and a
\* revocation that share the other key.
MCRequests == {Submitted(k1, "install", TRUE, TRUE), Submitted(k1, "install", FALSE, FALSE),
               Submitted(k2, "remove", TRUE, FALSE), Submitted(k2, "revoke", TRUE, FALSE)}

Accepted == {r \in Requests : state[r] # "None"}

(***************************************************************************)
(* Two situations.  Review: the alias signs in, one worker's leases hold.  *)
(* Revoke: a direct install, a revocation of its image, two workers and    *)
(* leases that expire, but no alias.                                       *)
(***************************************************************************)
Review == /\ session[alice] # "none"
          /\ \A r \in Accepted : r.action # "revoke"
          /\ \A n \in DOMAIN outbox : outbox[n].epoch <= 1 /\ outbox[n].owner # w2
Revoke == /\ \A r \in Accepted : r.action # "remove" /\ ~ r.git
          /\ session[alias] = "none"

MCSpec == Init /\ [][Next /\ (Review' \/ Revoke')]_vars
=============================================================================
