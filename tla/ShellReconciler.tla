--------------------------- MODULE ShellReconciler ---------------------------
(***************************************************************************)
(* Reconcilers of os-shell-control running the sessions of ShellAuthority  *)
(* as Pods.  tick and reconcile are chains of awaits: every database call  *)
(* and every Kubernetes request is a step of its own, so a lease can run   *)
(* out, a permission change, a teardown arrive or another reconciler act   *)
(* between any two of them.                                                *)
(***************************************************************************)
EXTENDS ShellAuthority

CONSTANTS
    Scenes,     \* bound: the situations an instance explores
    NoPod       \* the API server answers 404

ASSUME ScenesAssumption ==
    Scenes \subseteq [workers : SUBSET Workers,
                      faults : SUBSET {"crash", "timeout", "slow", "permission", "idle", "logout", "disable"}]

VARIABLES
    job,        \* worker -> the reconcile call it is in
    active,     \* worker -> session -> the fence of the row in its active map
    pod,        \* session -> the Pod named after it, or NoPod
    bindings,   \* history: the binding every Pod was created with
    scene       \* bound: the reconcilers and the faults of this behaviour

podVars == <<pod, bindings>>
allVars == <<vars, job, active, podVars, scene>>
Faults == scene.faults

\* A Pod carries the session, generation and epoch it was created for as labels,
\* and hands them to its containers.
Binding == [session : Sessions, uid : Uids, gen : Nat, epoch : Nat]

FenceOf(row) == [gen |-> row.gen, epoch |-> row.epoch, rev |-> row.rev]
NotActive == [gen |-> 0, epoch |-> 0, rev |-> 0]
FenceType == [gen : Nat, epoch : Nat, rev : Nat]

Pcs == {"idle", "inspect", "revokeExpired", "toTerminating", "deletePod", "toTerminated",
        "staleGet", "staleDelete", "reproject", "create", "collisionGet",
        "collisionDelete", "createAgain", "toProvisioning", "toReady", "catch"}

(***************************************************************************)
(* mode: who called reconcile, which decides what a throw leads to; base:  *)
(* the fence reconcile took from its row on entry; row: the row it has     *)
(* now; uid: the Pod it created or collided with.                          *)
(***************************************************************************)
Job == [pc : Pcs, session : Sessions \cup {NoSession},
        mode : {"claimed", "active", "revoked"}, base : FenceType,
        row : Session, uid : Uids \cup {NoUid}]
Idle == [pc |-> "idle", session |-> NoSession, mode |-> "claimed", base |-> NotActive,
         row |-> NoRow, uid |-> NoUid]

ReconcilerTypeOK ==
    /\ TypeOK
    /\ job \in [Workers -> Job]
    /\ active \in [Workers -> [Sessions -> FenceType]]
    /\ pod \in [Sessions -> Binding \cup {NoPod}]
    /\ bindings \subseteq Binding
    /\ scene \in Scenes

\* The feature was enabled by a release.
ReconcilerInit ==
    /\ Init
    /\ job = [w \in Workers |-> Idle]
    /\ active = [w \in Workers |-> [s \in Sessions |-> NotActive]]
    /\ pod = [s \in Sessions |-> NoPod]
    /\ bindings = {}
    /\ scene \in Scenes

-----------------------------------------------------------------------------
At(w, pc) == job[w].pc = pc
S(w) == job[w].session
Goto(w, pc) == job' = [job EXCEPT ![w].pc = pc]
GotoWith(w, pc, row) == job' = [job EXCEPT ![w].pc = pc, ![w].row = row]
Done(w) == job' = [job EXCEPT ![w] = Idle]
SetActive(w, s, fence) == active' = [active EXCEPT ![w][s] = fence]

TeardownPc(row) ==
    IF row.observed # "Terminating" THEN "toTerminating"
    ELSE IF row.uid # NoUid THEN "deletePod" ELSE "toTerminated"

(***************************************************************************)
(* Where reconcile goes with a row before its first await.  Whether the 45 *)
(* seconds of a projection have passed is left open.                       *)
(***************************************************************************)
Branch(row, reclaimed) ==
    IF row.desired = "Running" /\ row.life # "live" THEN {"revokeExpired"}
    ELSE IF row.desired = "Terminated" THEN {TeardownPc(row)}
    ELSE IF reclaimed /\ row.observed \in {"Provisioning", "Ready", "Failed"} THEN {"staleGet"}
    ELSE CASE row.observed = "Pending"      -> {"create"}
           [] row.observed = "Provisioning" -> IF row.registered THEN {"toReady"} ELSE {"staleGet", "idle"}
           [] OTHER                         -> {"idle"}

\* reconcile(row, reclaimed): "idle" is active.set and return.
Reconcile(w, s, mode, row, reclaimed) ==
    \E pc \in Branch(row, reclaimed) :
        IF pc = "idle" THEN Done(w) /\ SetActive(w, s, FenceOf(row))
        ELSE /\ job' = [job EXCEPT ![w] = [pc |-> pc, session |-> s, mode |-> mode,
                            base |-> FenceOf(row), row |-> row, uid |-> NoUid]]
             /\ UNCHANGED active

(***************************************************************************)
(* An exception.  Under tick's active loop it is caught and the authority  *)
(* of the session revoked; a second one forgets the session; for a claimed *)
(* row it is logged and the lease is left to run out.                      *)
(***************************************************************************)
Throw(w) ==
    CASE job[w].mode = "active"  -> Goto(w, "catch") /\ UNCHANGED active
      [] job[w].mode = "revoked" -> Done(w) /\ SetActive(w, S(w), NotActive)
      [] job[w].mode = "claimed" -> Done(w) /\ UNCHANGED active

-----------------------------------------------------------------------------
(* tick.                                                                    *)

ClaimWork(w) ==
    \E s \in Sessions :
        /\ At(w, "idle")
        /\ ClaimSession(w, s)
        /\ Reconcile(w, s, "claimed", sess'[s], TRUE)
        /\ UNCHANGED podVars

\* The permission revision is compared first, and a change throws.
HeartbeatWork(w) ==
    \E s \in Sessions :
        LET f == active[w][s]
            here == [Idle EXCEPT !.session = s, !.mode = "active", !.row = sess[s]] IN
        /\ At(w, "idle")
        /\ f # NotActive
        /\ \/ /\ ~ Authority(s, f.rev)
              /\ job' = [job EXCEPT ![w] = [here EXCEPT !.pc = "catch"]]
              /\ UNCHANGED <<vars, active>>
           \/ /\ Authority(s, f.rev)
              /\ ~ MayHeartbeat(w, s, f.gen, f.epoch, f.rev)
              /\ SetActive(w, s, NotActive)
              /\ UNCHANGED <<vars, job>>
           \/ /\ Heartbeat(w, s, f.gen, f.epoch, f.rev)
              /\ job' = [job EXCEPT ![w] = [here EXCEPT !.pc = "inspect"]]
              /\ UNCHANGED active
        /\ UNCHANGED podVars

Inspect(w) ==
    LET s == S(w)
        f == active[w][s] IN
    /\ At(w, "inspect")
    /\ IF MayInspect(w, s, f.gen, f.epoch) THEN Reconcile(w, s, "active", sess[s], FALSE)
                                           ELSE Done(w) /\ SetActive(w, s, NotActive)
    /\ UNCHANGED <<vars, podVars>>

Catch(w) ==
    LET s == S(w)
        f == active[w][s] IN
    /\ At(w, "catch")
    /\ IF MayRevoke(w, s, f.gen, f.epoch)
       THEN RevokeAuthority(w, s, f.gen, f.epoch) /\ Reconcile(w, s, "revoked", sess'[s], FALSE)
       ELSE Done(w) /\ SetActive(w, s, NotActive) /\ UNCHANGED vars
    /\ UNCHANGED podVars

-----------------------------------------------------------------------------
(* reconcile: teardown.                                                     *)

RevokeExpired(w) ==
    LET b == job[w].base IN
    /\ At(w, "revokeExpired")
    /\ IF MayRevoke(w, S(w), b.gen, b.epoch)
       THEN /\ RevokeAuthority(w, S(w), b.gen, b.epoch)
            /\ GotoWith(w, TeardownPc(sess'[S(w)]), sess'[S(w)])
            /\ UNCHANGED active
       ELSE Throw(w) /\ UNCHANGED vars
    /\ UNCHANGED podVars

May(w, from, next, uid) ==
    LET b == job[w].base IN MayTransit(w, S(w), b.gen, b.epoch, from, next, b.rev, uid)
Do(w, from, next, uid) ==
    LET b == job[w].base IN Transit(w, S(w), b.gen, b.epoch, from, next, b.rev, uid)

ToTerminating(w) ==
    LET row == job[w].row IN
    /\ At(w, "toTerminating")
    /\ IF May(w, row.observed, "Terminating", row.uid)
       THEN /\ Do(w, row.observed, "Terminating", row.uid)
            /\ GotoWith(w, TeardownPc(sess'[S(w)]), sess'[S(w)])
            /\ UNCHANGED active
       ELSE Throw(w) /\ UNCHANGED vars
    /\ UNCHANGED podVars

\* DELETE with a UID precondition: 404 is success, another UID a conflict.
DeletePod(w, uid, next) ==
    /\ IF pod[S(w)] # NoPod /\ pod[S(w)].uid # uid THEN Throw(w) /\ UNCHANGED pod
       ELSE /\ pod' = [pod EXCEPT ![S(w)] = NoPod]
            /\ Goto(w, next)
            /\ UNCHANGED active
    /\ UNCHANGED <<vars, bindings>>

TeardownDeletes(w) == At(w, "deletePod") /\ DeletePod(w, job[w].row.uid, "toTerminated")

ToTerminated(w) ==
    /\ At(w, "toTerminated")
    /\ IF May(w, "Terminating", "Terminated", job[w].row.uid)
       THEN /\ Do(w, "Terminating", "Terminated", job[w].row.uid)
            /\ Done(w)
            /\ SetActive(w, S(w), NotActive)
       ELSE Throw(w) /\ UNCHANGED vars
    /\ UNCHANGED podVars

-----------------------------------------------------------------------------
(* reconcile: a runtime left by an earlier claim, or that never registered. *)

StaleGet(w) ==
    LET p == pod[S(w)] IN
    /\ At(w, "staleGet")
    /\ IF p = NoPod THEN Goto(w, "reproject") /\ UNCHANGED active
       ELSE IF p.uid = job[w].row.uid THEN Goto(w, "staleDelete") /\ UNCHANGED active
       ELSE Throw(w)
    /\ UNCHANGED <<vars, podVars>>

StaleDelete(w) == At(w, "staleDelete") /\ DeletePod(w, job[w].row.uid, "reproject")

ReprojectStale(w) ==
    LET b == job[w].base IN
    /\ At(w, "reproject")
    /\ IF MayReproject(w, S(w), b.gen, b.epoch, job[w].row.uid)
       THEN /\ ReprojectRuntime(w, S(w), b.gen, b.epoch, job[w].row.uid)
            /\ Reconcile(w, S(w), job[w].mode, sess'[S(w)], FALSE)
       ELSE Throw(w) /\ UNCHANGED vars
    /\ UNCHANGED podVars

-----------------------------------------------------------------------------
(* reconcile: a Pending session gets its Pod.                               *)

UsedUids == {b.uid : b \in bindings}

NewPod(w, uid) ==
    LET b == [session |-> S(w), uid |-> uid, gen |-> job[w].row.gen,
              epoch |-> job[w].row.epoch] IN
    /\ pod' = [pod EXCEPT ![S(w)] = b]
    /\ bindings' = bindings \cup {b}

\* POST; the name is taken (409) when a Pod of the session is there.
CreatePod(w) ==
    /\ At(w, "create") \/ At(w, "createAgain")
    /\ IF pod[S(w)] = NoPod
       THEN \E uid \in Uids \ UsedUids :
               /\ NewPod(w, uid)
               /\ job' = [job EXCEPT ![w].pc = "toProvisioning", ![w].uid = uid]
               /\ UNCHANGED active
       ELSE /\ IF At(w, "create") THEN Goto(w, "collisionGet") /\ UNCHANGED active
                                  ELSE Throw(w)
            /\ UNCHANGED podVars
    /\ UNCHANGED vars

\* Only the session label is compared, which the name implies.
CollisionGet(w) ==
    /\ At(w, "collisionGet")
    /\ IF pod[S(w)] = NoPod THEN Throw(w)
       ELSE /\ job' = [job EXCEPT ![w].pc = "collisionDelete", ![w].uid = pod[S(w)].uid]
            /\ UNCHANGED active
    /\ UNCHANGED <<vars, podVars>>

CollisionDelete(w) == At(w, "collisionDelete") /\ DeletePod(w, job[w].uid, "createAgain")

\* The transition that ends a pass, and active.set with the row it returns.
Advance(w, from, next, uid) ==
    /\ IF May(w, from, next, uid)
       THEN /\ Do(w, from, next, uid)
            /\ Done(w)
            /\ SetActive(w, S(w), FenceOf(sess'[S(w)]))
       ELSE Throw(w) /\ UNCHANGED vars
    /\ UNCHANGED podVars

ToProvisioning(w) == At(w, "toProvisioning") /\ Advance(w, "Pending", "Provisioning", job[w].uid)

ToReady(w) == At(w, "toReady") /\ Advance(w, "Provisioning", "Ready", job[w].row.uid)

-----------------------------------------------------------------------------
(* Faults.  The last epoch MaxEpoch allows is spared.                       *)

Spare(s) == sess[s].epoch < MaxEpoch

KubePcs == {"deletePod", "staleGet", "staleDelete", "create", "collisionGet",
            "collisionDelete", "createAgain"}

\* A Kubernetes request times out after five seconds; a create or a delete may
\* have taken effect all the same.
KubeTimesOut(w) ==
    /\ "timeout" \in Faults
    /\ job[w].pc \in KubePcs
    /\ Spare(S(w))
    /\ \/ UNCHANGED podVars
       \/ /\ job[w].pc \in {"create", "createAgain"}
          /\ pod[S(w)] = NoPod
          /\ \E uid \in Uids \ UsedUids : NewPod(w, uid)
       \/ /\ pod[S(w)] # NoPod
          /\ \/ job[w].pc \in {"deletePod", "staleDelete"} /\ job[w].row.uid = pod[S(w)].uid
             \/ job[w].pc = "collisionDelete" /\ job[w].uid = pod[S(w)].uid
          /\ pod' = [pod EXCEPT ![S(w)] = NoPod]
          /\ UNCHANGED bindings
    /\ Throw(w)
    /\ UNCHANGED vars

\* The process is replaced: the active map is gone too.
Crash(w) ==
    /\ "crash" \in Faults
    /\ \A s \in Sessions : Spare(s)
    /\ job[w] # Idle \/ \E s \in Sessions : active[w][s] # NotActive
    /\ Done(w)
    /\ active' = [active EXCEPT ![w] = [s \in Sessions |-> NotActive]]
    /\ UNCHANGED <<vars, podVars>>

-----------------------------------------------------------------------------
(* The rest of the system.                                                  *)

\* The agent of a Pod, perhaps one already deleted, calls with its binding.
RuntimeCalls ==
    /\ \E b \in bindings :
          \/ RegisterRuntime(b.session, b.uid, b.gen, b.epoch)
          \/ \E t \in Tickets : AuthorizeRuntimeAttach(t, b.uid, b.gen, b.epoch)
    /\ UNCHANGED <<job, active, podVars>>

Users ==
    /\ \/ \E s \in Sessions : CreateSession(s) \/ RequestTeardown(s)
       \/ "logout" \in Faults /\ \E s \in Sessions : BrowserSessionEnds(s)
       \/ \E s \in Sessions, t \in Tickets : IssueAttachTicket(s, t)
       \/ \E t \in Tickets : ConsumeAttachTicket(t)
       \/ "idle" \in Faults /\ \E t \in Tickets : TouchActivity(t)
       \/ "permission" \in Faults /\ \E a \in Actors, attach \in BOOLEAN : PermissionChanges(a, attach)
       \/ ReleaseEnables /\ feature.op = "None"
       \/ "disable" \in Faults /\ OperatorDisables /\ feature.enabled
    /\ UNCHANGED <<job, active, podVars>>

\* A worker in time: it neither lets its lease run out in the middle of a
\* pass nor forgets a heartbeat.
InTime(s) == \A w \in Workers : S(w) # s /\ active[w][s] = NotActive

(***************************************************************************)
(* Past the bound on epochs a lease still runs out when the session is to  *)
(* be torn down and no reconciler holds a fence of it: the number of the   *)
(* epoch tells nothing apart any more, and the claim that follows keeps it. *)
(***************************************************************************)
LastLeaseRunsOut(s) ==
    /\ sess[s].leased
    /\ sess[s].epoch = MaxEpoch
    /\ sess[s].desired = "Terminated"
    /\ InTime(s)
    /\ sess' = [sess EXCEPT ![s].leased = FALSE]
    /\ UNCHANGED <<perm, browser, tickets, feature>>

AnyLeaseRunsOut ==
    /\ \E s \in Sessions : \/ LeaseRunsOut(s) /\ ("slow" \in Faults \/ InTime(s))
                           \/ LastLeaseRunsOut(s)
    /\ UNCHANGED <<job, active, podVars>>

GoesIdle ==
    /\ "idle" \in Faults
    /\ \E s \in Sessions : SessionExpires(s, "idle")
    /\ UNCHANGED <<job, active, podVars>>

WorkerStep(w) ==
    \/ HeartbeatWork(w) \/ Inspect(w) \/ Catch(w)
    \/ RevokeExpired(w) \/ ToTerminating(w) \/ TeardownDeletes(w) \/ ToTerminated(w)
    \/ StaleGet(w) \/ StaleDelete(w) \/ ReprojectStale(w)
    \/ CreatePod(w) \/ CollisionGet(w) \/ CollisionDelete(w)
    \/ ToProvisioning(w) \/ ToReady(w)

Process(w) ==
    /\ w \in scene.workers
    /\ ClaimWork(w) \/ WorkerStep(w) \/ KubeTimesOut(w) \/ Crash(w)

ReconcilerNext ==
    /\ \/ Users \/ AnyLeaseRunsOut \/ GoesIdle \/ RuntimeCalls
       \/ \E w \in Workers : Process(w)
    /\ UNCHANGED scene

ReconcilerSpec == ReconcilerInit /\ [][ReconcilerNext]_allVars

(***************************************************************************)
(* tick runs every three seconds for as long as the process lives, so a    *)
(* reconciler keeps claiming and keeps beating, its awaits complete, and   *)
(* leases run out.  Nothing is assumed of users or runtimes.               *)
(***************************************************************************)
FairReconcilerSpec ==
    /\ ReconcilerSpec
    /\ \A w \in Workers : /\ WF_allVars(w \in scene.workers /\ ClaimWork(w) /\ UNCHANGED scene)
                         /\ WF_allVars(w \in scene.workers /\ WorkerStep(w) /\ UNCHANGED scene)
    /\ WF_allVars(AnyLeaseRunsOut /\ UNCHANGED scene)

-----------------------------------------------------------------------------
(* Properties.                                                              *)

\* A terminal is attached only to the runtime that was created under the very
\* generation and epoch of its ticket: one of an earlier claim, or of a reconciler
\* that lost its lease, is never let in.
AttachedRuntimeIsBound ==
    \A t \in Tickets : tickets[t].by # NoUid =>
        [session |-> tickets[t].session, uid |-> tickets[t].by,
         gen |-> tickets[t].gen, epoch |-> tickets[t].epoch] \in bindings

\* A session that is to be torn down is eventually Terminated, through crashes and
\* Kubernetes timeouts, as long as passes are in time and permissions do not change.
TeardownConcludes ==
    \A s \in Sessions :
        (Exists(s) /\ sess[s].desired = "Terminated" /\ Faults \cap {"slow", "permission"} = {})
            ~> sess[s].observed = "Terminated"

\* The same, whatever happens to the actor's permissions.
\* The same without the condition: what reconcile is written to achieve.  The code
\* does not give it when permissions change under a session to be torn down.
TeardownAlwaysConcludes ==
    \A s \in Sessions :
        (Exists(s) /\ sess[s].desired = "Terminated") ~> sess[s].observed = "Terminated"

\* "Pod ... residue close to the reviewed zero-residue state": a Terminated
\* session has no Pod.
NoResidue ==
    \A s \in Sessions : sess[s].observed = "Terminated" => pod[s] = NoPod
=============================================================================
