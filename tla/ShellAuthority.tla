---------------------------- MODULE ShellAuthority ----------------------------
(***************************************************************************)
(* The durable authority of the OS Shell: the tables console_shell.        *)
(* {shell_session, shell_attach_ticket, shell_control_state} and the       *)
(* PL/pgSQL functions through which the browser API, the gateway, the      *)
(* runtimes, the reconciler and the release controller change them.  Each  *)
(* function is one transaction under the row locks it takes (creation also *)
(* under an advisory lock), so each is one action.                         *)
(*                                                                         *)
(* A call that raises, returns no row or replays changes nothing and is a  *)
(* disabled action.  The binding of a session that never changes (origin,  *)
(* assurance, release evidence, browser session) is part of its name.      *)
(***************************************************************************)
EXTENDS Integers, FiniteSets

CONSTANTS
    Actors,
    Sessions,         \* shell session ids: actor, browser session, idempotency key
    ActorOf,          \* shell_session.actor_id
    Tickets,          \* attach tickets, by hash
    Workers,          \* reconciler identities (lease_owner)
    Uids,             \* Kubernetes UIDs of runtime Pods
    ActorLimit, GlobalLimit,
    MaxEpoch,         \* bound: a lease may run out until this epoch
    MaxGeneration,    \* bound on reprojections
    MaxRevision,      \* bound on permission changes
    NoSession, NoWorker, NoUid

ASSUME SessionsAssumption == ActorOf \in [Sessions -> Actors] /\ NoSession \notin Sessions
ASSUME NamesAssumption == NoWorker \notin Workers /\ NoUid \notin Uids
ASSUME BoundsAssumption == /\ MaxEpoch \in Nat /\ MaxGeneration \in Nat /\ MaxRevision \in Nat
                           /\ ActorLimit \in Nat /\ GlobalLimit \in Nat

VARIABLES
    perm,       \* actor -> current permission revision, and whether it grants session:attach
    browser,    \* session -> its browser session is neither revoked nor expired
    sess,       \* session -> its shell_session row
    tickets,    \* ticket -> its shell_attach_ticket row
    feature     \* the shell_control_state row

vars == <<perm, browser, sess, tickets, feature>>

Observed == {"Pending", "Provisioning", "Ready", "Terminating", "Terminated", "Failed"}

(***************************************************************************)
(* leased: lease_expires_at is in the future.  life: "idle" once           *)
(* idle_expires_at passed, "over" once absolute_expires_at did; a runtime  *)
(* credential expires with the session.                                    *)
(***************************************************************************)
Session == [observed : Observed \cup {"None"}, desired : {"Running", "Terminated"},
            gen : Nat \ {0}, epoch : Nat \ {0}, owner : Workers \cup {NoWorker}, leased : BOOLEAN,
            rev : Nat, uid : Uids \cup {NoUid}, registered : BOOLEAN,
            life : {"live", "idle", "over"}]

\* live: expires_at is in the future.  by: runtime_authorized_by.
Ticket == [session : Sessions \cup {NoSession}, gen : Nat, epoch : Nat, rev : Nat,
           live : BOOLEAN, consumed : BOOLEAN, by : Uids \cup {NoUid}]
NoTicket == [session |-> NoSession, gen |-> 0, epoch |-> 0, rev |-> 0,
             live |-> FALSE, consumed |-> FALSE, by |-> NoUid]

\* op: the release controller's operation, kind and phase in one.
Feature == [enabled : BOOLEAN, drained : BOOLEAN,
            op : {"None", "Enabled", "Draining", "ScaleDownClaimed", "ScaledDown"},
            claimed : BOOLEAN]

TypeOK ==
    /\ perm \in [Actors -> [rev : Nat, attach : BOOLEAN]]
    /\ browser \in [Sessions -> BOOLEAN]
    /\ sess \in [Sessions -> Session]
    /\ tickets \in [Tickets -> Ticket]
    /\ feature \in Feature

\* No row yet; what a row is inserted with.
NoRow == [observed |-> "None", desired |-> "Running", gen |-> 1, epoch |-> 1,
          owner |-> NoWorker, leased |-> FALSE, rev |-> 0, uid |-> NoUid,
          registered |-> FALSE, life |-> "live"]

Init ==
    /\ perm = [a \in Actors |-> [rev |-> 0, attach |-> TRUE]]
    /\ browser = [s \in Sessions |-> TRUE]
    /\ sess = [s \in Sessions |-> NoRow]
    /\ tickets = [t \in Tickets |-> NoTicket]
    /\ feature = [enabled |-> FALSE, drained |-> FALSE, op |-> "None", claimed |-> FALSE]

-----------------------------------------------------------------------------
(* Identity, as these functions read it.  No function rewrites the          *)
(* permission revision of a browser session, so one that was issued before  *)
(* a change is refused with the shell session's own revision.               *)

Rev(s) == perm[ActorOf[s]].rev
Authority(s, rev) == Rev(s) = rev
HasAttach(s) == feature.enabled /\ perm[ActorOf[s]].attach
AttachAuthority(s, rev) == Authority(s, rev) /\ HasAttach(s)

PermissionChanges(a, attach) ==
    /\ perm[a].rev < MaxRevision
    /\ perm' = [perm EXCEPT ![a] = [rev |-> @.rev + 1, attach |-> attach]]
    /\ UNCHANGED <<browser, sess, tickets, feature>>

BrowserSessionEnds(s) ==
    /\ browser[s]
    /\ browser' = [browser EXCEPT ![s] = FALSE]
    /\ UNCHANGED <<perm, sess, tickets, feature>>

-----------------------------------------------------------------------------
(* Browser API and gateway.                                                 *)

Exists(s) == sess[s].observed # "None"
Active(s) == /\ sess[s].observed \notin {"None", "Terminated"}
             /\ sess[s].desired = "Running"
             /\ sess[s].life = "live"

CreateSession(s) ==
    /\ feature.enabled
    /\ AttachAuthority(s, Rev(s))
    /\ browser[s]
    /\ ~ Exists(s)
    /\ Cardinality({q \in Sessions : Active(q)}) < GlobalLimit
    /\ Cardinality({q \in Sessions : Active(q) /\ ActorOf[q] = ActorOf[s]}) < ActorLimit
    /\ sess' = [sess EXCEPT ![s] = [NoRow EXCEPT !.observed = "Pending", !.rev = Rev(s)]]
    /\ UNCHANGED <<perm, browser, tickets, feature>>

\* mutant: a session that is to be torn down still admits
AttachableUntilTerminated(s) ==
    /\ sess[s].observed = "Ready"
    /\ sess[s].rev = Rev(s)

Attachable(s) ==
    /\ sess[s].desired = "Running"
    /\ sess[s].observed = "Ready"
    /\ sess[s].rev = Rev(s)

IssueAttachTicket(s, t) ==
    /\ AttachAuthority(s, Rev(s))
    /\ Attachable(s)
    /\ sess[s].life = "live"
    /\ browser[s]
    /\ tickets[t] = NoTicket
    /\ tickets' = [tickets EXCEPT ![t] =
          [NoTicket EXCEPT !.session = s, !.gen = sess[s].gen, !.epoch = sess[s].epoch,
                           !.rev = Rev(s), !.live = TRUE]]
    /\ UNCHANGED <<perm, browser, sess, feature>>

\* The ticket was issued under the session's present generation and epoch.
SameFence(t) ==
    LET s == tickets[t].session IN
    tickets[t].gen = sess[s].gen /\ tickets[t].epoch = sess[s].epoch

ConsumeAttachTicket(t) ==
    LET s == tickets[t].session IN
    /\ tickets[t] # NoTicket
    /\ AttachAuthority(s, tickets[t].rev)
    /\ Attachable(s)
    /\ sess[s].life = "live"
    /\ SameFence(t)
    /\ browser[s]
    /\ ~ tickets[t].consumed
    /\ tickets[t].live
    /\ tickets' = [tickets EXCEPT ![t].consumed = TRUE]
    /\ UNCHANGED <<perm, browser, sess, feature>>

\* Input of an attached terminal; idle_expires_at is moved, not checked.
TouchActivity(t) ==
    LET s == tickets[t].session IN
    /\ tickets[t].consumed
    /\ AttachAuthority(s, tickets[t].rev)
    /\ Attachable(s)
    /\ SameFence(t)
    /\ sess[s].life # "over"
    /\ browser[s]
    /\ sess' = [sess EXCEPT ![s].life = "live"]
    /\ UNCHANGED <<perm, browser, tickets, feature>>

Expire(which) == [t \in Tickets |-> IF which[t] THEN [tickets[t] EXCEPT !.live = FALSE]
                                                ELSE tickets[t]]

RequestTeardown(s) ==
    /\ Exists(s)
    /\ sess' = [sess EXCEPT ![s].desired = "Terminated", ![s].rev = Rev(s)]
    /\ tickets' = Expire([t \in Tickets |-> tickets[t].session = s /\ ~ tickets[t].consumed])
    /\ UNCHANGED <<perm, browser, feature>>

-----------------------------------------------------------------------------
(* Runtimes.  A runtime calls with the binding it was created with: the UID *)
(* of its Pod, a generation and an epoch.                                   *)

\* mutant: the fencing epoch of the caller is not compared
BoundRuntimeOfGeneration(s, uid, g, e) == sess[s].uid = uid /\ sess[s].gen = g

BoundRuntime(s, uid, g, e) == sess[s].uid = uid /\ sess[s].gen = g /\ sess[s].epoch = e

RegisterRuntime(s, uid, g, e) ==
    /\ AttachAuthority(s, sess[s].rev)
    /\ BoundRuntime(s, uid, g, e)
    /\ sess[s].leased
    /\ sess[s].observed = "Provisioning"
    /\ sess[s].desired = "Running"
    /\ ~ sess[s].registered
    /\ sess' = [sess EXCEPT ![s].registered = TRUE]
    /\ UNCHANGED <<perm, browser, tickets, feature>>

AuthorizeRuntimeAttach(t, uid, g, e) ==
    LET s == tickets[t].session IN
    /\ tickets[t] # NoTicket
    /\ sess[s].registered
    /\ BoundRuntime(s, uid, g, e)
    /\ sess[s].life # "over"
    /\ Attachable(s)
    /\ HasAttach(s)
    /\ SameFence(t)
    /\ tickets[t].consumed
    /\ tickets[t].by = NoUid
    /\ tickets[t].live
    /\ tickets' = [tickets EXCEPT ![t].by = uid]
    /\ UNCHANGED <<perm, browser, sess, feature>>

-----------------------------------------------------------------------------
(* Reconciler: leases, and calls fenced by worker, generation and epoch.    *)

\* mutant: claims leave out what is to be torn down
ClaimableRunning(s) == /\ sess[s].observed \notin {"None", "Terminated"}
                       /\ sess[s].desired = "Running"
                       /\ ~ sess[s].leased

Claimable(s) == /\ sess[s].observed \notin {"None", "Terminated"}
                /\ ~ sess[s].leased

\* The epoch stops at its bound; see LeaseRunsOut for when that can be met.
Claimed(row, w) ==
    [row EXCEPT !.owner = w, !.leased = TRUE,
                !.epoch = IF row.epoch < MaxEpoch THEN row.epoch + 1 ELSE row.epoch]

\* ORDER BY does not matter: a pass takes up to five sessions.
ClaimSession(w, s) ==
    /\ Claimable(s)
    /\ sess' = [sess EXCEPT ![s] = Claimed(sess[s], w)]
    /\ UNCHANGED <<perm, browser, tickets, feature>>

Fence(w, s, g, e) ==
    /\ sess[s].owner = w
    /\ sess[s].gen = g
    /\ sess[s].epoch = e
    /\ sess[s].leased

\* The functions that raise when the fence was lost compare with <>, which a NULL
\* lease_owner passes: a session no worker holds is open to its last fence.
FenceNotLost(w, s, g, e) ==
    /\ sess[s].gen = g
    /\ sess[s].epoch = e
    /\ sess[s].owner = NoWorker \/ (sess[s].owner = w /\ sess[s].leased)

MayInspect(w, s, g, e) == Fence(w, s, g, e) /\ sess[s].observed # "Terminated"

\* heartbeat_shell_session renews the lease and notices expiry and logout.
MayHeartbeat(w, s, g, e, rev) ==
    MayInspect(w, s, g, e) /\ sess[s].rev = rev

Heartbeat(w, s, g, e, rev) ==
    /\ Authority(s, rev)
    /\ MayHeartbeat(w, s, g, e, rev)
    /\ sess' = IF sess[s].life # "live" \/ ~ browser[s]
               THEN [sess EXCEPT ![s].desired = "Terminated"] ELSE sess
    /\ UNCHANGED <<perm, browser, tickets, feature>>

\* mutant: the generation stays
ReprojectedInPlace(row) == [row EXCEPT !.observed = "Pending", !.uid = NoUid,
                                       !.registered = FALSE]

Reprojected(row) == [row EXCEPT !.gen = row.gen + 1, !.observed = "Pending",
                                !.uid = NoUid, !.registered = FALSE]

MayReproject(w, s, g, e, uid) ==
    /\ FenceNotLost(w, s, g, e)
    /\ sess[s].desired = "Running"
    /\ sess[s].observed \in {"Provisioning", "Ready", "Failed"}
    /\ sess[s].uid = uid

ReprojectRuntime(w, s, g, e, uid) ==
    /\ MayReproject(w, s, g, e, uid)
    /\ sess[s].gen < MaxGeneration
    /\ sess' = [sess EXCEPT ![s] = Reprojected(sess[s])]
    /\ tickets' = Expire([t \in Tickets |-> tickets[t].session = s /\ tickets[t].by = NoUid])
    /\ UNCHANGED <<perm, browser, feature>>

MayRevoke(w, s, g, e) == FenceNotLost(w, s, g, e) /\ sess[s].observed # "Terminated"

RevokeAuthority(w, s, g, e) ==
    /\ MayRevoke(w, s, g, e)
    /\ sess' = [sess EXCEPT ![s].desired = "Terminated", ![s].rev = Rev(s)]
    /\ tickets' = Expire([t \in Tickets |-> tickets[t].session = s /\ tickets[t].by = NoUid])
    /\ UNCHANGED <<perm, browser, feature>>

Transitions ==
    [None         |-> {},
     Pending      |-> {"Provisioning", "Terminating", "Failed"},
     Provisioning |-> {"Ready", "Terminating", "Failed"},
     Ready        |-> {"Terminating", "Failed"},
     Failed       |-> {"Terminating", "Terminated"},
     Terminating  |-> {"Terminated", "Failed"},
     Terminated   |-> {}]

\* mutant: Ready does not ask for the fenced registration
MayBecomeUnregistered(s, next) == next = "Ready" => sess[s].desired = "Running"

MayBecome(s, next) ==
    next = "Ready" => sess[s].desired = "Running" /\ sess[s].registered

MayTransit(w, s, g, e, from, next, rev, uid) ==
    /\ Authority(s, rev)
    /\ FenceNotLost(w, s, g, e)
    /\ sess[s].observed = from
    /\ sess[s].rev = rev \/ next \in {"Terminating", "Terminated"}
    /\ next \in Transitions[from]
    /\ MayBecome(s, next)
    /\ sess[s].uid # NoUid /\ uid # NoUid => sess[s].uid = uid

\* The row after the transition: an end writes the intent, a final state frees the lease.
Transited(row, next, rev, uid) ==
    LET ends == next \in {"Terminating", "Terminated"}
        frees == next \in {"Terminated", "Failed"} IN
    [row EXCEPT !.observed = next,
                !.desired = IF ends THEN "Terminated" ELSE row.desired,
                !.rev = rev,
                !.uid = IF row.uid = NoUid THEN uid ELSE row.uid,
                !.owner = IF frees THEN NoWorker ELSE row.owner,
                !.leased = ~ frees /\ row.leased]

Transit(w, s, g, e, from, next, rev, uid) ==
    /\ MayTransit(w, s, g, e, from, next, rev, uid)
    /\ sess' = [sess EXCEPT ![s] = Transited(sess[s], next, rev, uid)]
    /\ UNCHANGED <<perm, browser, tickets, feature>>

-----------------------------------------------------------------------------
(* The feature gate, its drain and the scale-down of the control workloads. *)

\* mutant: drained means that nothing runs any more
QuietEarly == \A s \in Sessions : Exists(s) => sess[s].desired = "Terminated"

Quiet == \A s \in Sessions : Exists(s) =>
            sess[s].desired = "Terminated" /\ sess[s].observed = "Terminated"

NoLiveTicket == \A t \in Tickets : tickets[t].live => tickets[t].consumed

\* apply_shell_feature_state, and the operation its caller writes.
ApplyFeatureState(on, op) ==
    /\ feature.op \notin {"Draining", "ScaleDownClaimed"}
    /\ \/ \* the retry of the same request
          /\ on = feature.enabled
          /\ on \/ (Quiet /\ NoLiveTicket)
          /\ feature' = [feature EXCEPT !.op = op, !.claimed = FALSE]
          /\ UNCHANGED <<sess, tickets>>
       \/ /\ feature' = [enabled |-> on, drained |-> FALSE, op |-> op, claimed |-> FALSE]
          /\ IF on THEN UNCHANGED <<sess, tickets>>
             ELSE /\ sess' = [s \in Sessions |->
                        IF sess[s].observed \in {"None", "Terminated"} THEN sess[s]
                        ELSE [sess[s] EXCEPT !.desired = "Terminated"]]
                  /\ tickets' = Expire([t \in Tickets |-> ~ tickets[t].consumed])
    /\ UNCHANGED <<perm, browser>>

OperatorDisables == ApplyFeatureState(FALSE, "None")
ReleaseEnables == ApplyFeatureState(TRUE, "Enabled")
ReleaseDisables == ApplyFeatureState(FALSE, "Draining")

\* activate_native_runtime_from_setup enables a disabled feature whatever operation
\* is under way, a drain or a claimed scale-down included.
SetupActivates ==
    /\ ~ feature.enabled
    /\ feature' = [enabled |-> TRUE, drained |-> FALSE, op |-> "Enabled", claimed |-> FALSE]
    /\ UNCHANGED <<perm, browser, sess, tickets>>

\* get_shell_feature_state completes the drain it observes.
ObserveDrain ==
    /\ ~ feature.enabled
    /\ ~ feature.drained
    /\ Quiet
    /\ feature' = [feature EXCEPT !.drained = TRUE]
    /\ UNCHANGED <<perm, browser, sess, tickets>>

\* Which claimant holds the claim is not told apart; a claim that ran out may be
\* taken over.
ClaimScaleDown ==
    /\ ~ feature.enabled
    /\ feature.op \in {"Draining", "ScaleDownClaimed"}
    /\ Quiet
    /\ NoLiveTicket
    /\ ~ feature.claimed
    /\ feature' = [feature EXCEPT !.drained = TRUE, !.op = "ScaleDownClaimed", !.claimed = TRUE]
    /\ UNCHANGED <<perm, browser, sess, tickets>>

CompleteScaleDown ==
    /\ ~ feature.enabled
    /\ feature.op = "ScaleDownClaimed"
    /\ feature.claimed
    /\ feature' = [feature EXCEPT !.op = "ScaledDown", !.claimed = FALSE]
    /\ UNCHANGED <<perm, browser, sess, tickets>>

FeatureStep ==
    \/ OperatorDisables \/ ReleaseEnables \/ ReleaseDisables \/ SetupActivates
    \/ ObserveDrain \/ ClaimScaleDown \/ CompleteScaleDown

-----------------------------------------------------------------------------
(* Time.                                                                    *)

\* bound: MaxEpoch ends the leases that can run out
LeaseRunsOut(s) ==
    /\ sess[s].leased
    /\ sess[s].epoch < MaxEpoch
    /\ sess' = [sess EXCEPT ![s].leased = FALSE]
    /\ UNCHANGED <<perm, browser, tickets, feature>>

SessionExpires(s, life) ==
    /\ Exists(s)
    /\ \/ sess[s].life = "live" /\ life \in {"idle", "over"}
       \/ sess[s].life = "idle" /\ life = "over"
    /\ sess' = [sess EXCEPT ![s].life = life]
    /\ UNCHANGED <<perm, browser, tickets, feature>>

TicketExpires(t) ==
    /\ tickets[t].live
    /\ tickets' = [tickets EXCEPT ![t].live = FALSE]
    /\ UNCHANGED <<perm, browser, sess, feature>>

ScaleDownClaimRunsOut ==
    /\ feature.claimed
    /\ feature' = [feature EXCEPT !.claimed = FALSE]
    /\ UNCHANGED <<perm, browser, sess, tickets>>

-----------------------------------------------------------------------------
\* A call of a worker with a fence it was given once.
WorkerCall(w, s, g, e) ==
    \/ \E rev \in 0 .. MaxRevision : Heartbeat(w, s, g, e, rev)
    \/ \E uid \in Uids \cup {NoUid} : ReprojectRuntime(w, s, g, e, uid)
    \/ RevokeAuthority(w, s, g, e)
    \/ \E next \in Observed, rev \in 0 .. MaxRevision, uid \in Uids \cup {NoUid} :
          Transit(w, s, g, e, sess[s].observed, next, rev, uid)

BrowserStep ==
    \/ \E s \in Sessions : CreateSession(s) \/ RequestTeardown(s) \/ BrowserSessionEnds(s)
    \/ \E s \in Sessions, t \in Tickets : IssueAttachTicket(s, t)
    \/ \E t \in Tickets : ConsumeAttachTicket(t) \/ TouchActivity(t)
    \/ \E a \in Actors, attach \in BOOLEAN : PermissionChanges(a, attach)

TimeStep ==
    \/ \E s \in Sessions : LeaseRunsOut(s)
    \/ \E s \in Sessions, life \in {"idle", "over"} : SessionExpires(s, life)
    \/ \E t \in Tickets : TicketExpires(t)
    \/ ScaleDownClaimRunsOut

\* A claim hands out epoch 2 at the earliest.
Fences == (1 .. MaxGeneration) \X (2 .. MaxEpoch)

Next ==
    \/ BrowserStep \/ FeatureStep \/ TimeStep
    \/ \E w \in Workers, s \in Sessions :
          ClaimSession(w, s) \/ \E f \in Fences : WorkerCall(w, s, f[1], f[2])
    \/ \E uid \in Uids, f \in Fences :
          \/ \E s \in Sessions : RegisterRuntime(s, uid, f[1], f[2])
          \/ \E t \in Tickets : AuthorizeRuntimeAttach(t, uid, f[1], f[2])

Spec == Init /\ [][Next]_vars

-----------------------------------------------------------------------------
(* Properties.                                                              *)

\* "runtime cannot become Ready before fenced registration": a Ready session has
\* a bound runtime that registered, through every re-claim and reprojection; a
\* session without a runtime has no registration left over.
ReadyIsRegistered ==
    \A s \in Sessions :
        /\ sess[s].observed = "Ready" => sess[s].registered
        /\ sess[s].registered => sess[s].uid # NoUid /\ sess[s].observed # "Pending"

\* Once the drain is complete it stays complete: no session exists or comes back
\* while the control workloads are being scaled down, until a release, or the setup,
\* enables the feature again.
DrainHolds ==
    /\ feature.drained =>
          /\ ~ feature.enabled
          /\ \A s \in Sessions : sess[s].observed \in {"None", "Terminated"}
    /\ feature.op \in {"ScaleDownClaimed", "ScaledDown"} => feature.drained

\* Teardown, logout, revocation and feature disable are final: the intent never
\* returns to Running, and from then on no ticket of the session is issued,
\* consumed or authorized, whatever is re-enabled later; Terminated is final.
TeardownIsFinal ==
    [][\A s \in Sessions : (Exists(s) /\ sess[s].desired = "Terminated") =>
          /\ sess'[s].desired = "Terminated"
          /\ sess[s].observed = "Terminated" => sess'[s].observed = "Terminated"
          /\ \A t \in Tickets : tickets'[t].session = s =>
                /\ tickets[t].session = s
                /\ tickets'[t].consumed = tickets[t].consumed
                /\ tickets'[t].by = tickets[t].by]_vars

\* No function asks for a write that the trigger guard_shell_session_mutation
\* refuses: generation and epoch only grow, and a bound runtime is replaced only
\* with a new generation.
MutationGuardHolds ==
    [][\A s \in Sessions :
          /\ sess'[s].gen >= sess[s].gen
          /\ sess'[s].epoch >= sess[s].epoch
          /\ (sess[s].uid # NoUid /\ sess'[s].uid # sess[s].uid)
                => sess'[s].gen # sess[s].gen]_vars
=============================================================================
