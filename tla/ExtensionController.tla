------------------------- MODULE ExtensionController -------------------------
(***************************************************************************)
(* C_EXT workers executing the operations of OperationLedger against the   *)
(* UIPluginRegistration objects of a Kubernetes namespace.  runOnce is a   *)
(* chain of awaits: every database call and every Kubernetes request is a  *)
(* step of its own, so leases expire, other workers claim, images are      *)
(* revoked, packages change and the reconciler acts between any two.       *)
(***************************************************************************)
EXTENDS OperationLedger

CONSTANTS
    Extensions,       \* Registration names, one per extension descriptor
    Extension,        \* image -> the extension it is a release of
    MaxAttempts,      \* maxObservationAttempts
    Scenes,           \* bound: the situations an instance explores
    NoReg             \* the API server answers 404

ASSUME ExtensionAssumption == Extension \in [Images -> Extensions]
ASSUME MaxAttemptsAssumption == MaxAttempts \in 1 .. MaxClaims
ASSUME ScenesAssumption ==
    Scenes \subseteq [workers : SUBSET Workers, faults : SUBSET {"crash", "timeout", "release", "manage", "slow"}]

VARIABLES
    job,       \* worker -> where its runOnce is, and the claim it works under
    reg,       \* extension -> the UIPluginRegistration object, or NoReg
    uidsUsed,  \* UIDs the API server has given out: a UID is never reused
    current,   \* images that C_REG and the UIPluginPackage still resolve to
    pinned,    \* extensions whose package scope refuses a removal (main-shell-core)
    wrote,     \* history: requests for which a worker wrote to Kubernetes
    scene      \* bound: the workers and the faults of this behaviour

k8sVars == <<reg, uidsUsed, current, pinned, wrote>>
allVars == <<vars, job, k8sVars, scene>>
Faults == scene.faults

(***************************************************************************)
(* The resourceVersion of a Registration is abstracted to the object       *)
(* itself: a conditional write goes through when the object is the one     *)
(* that was read.  "Installed" stands for Installed and Enabled, "Ready"   *)
(* for the complete readiness evidence, "Failed" for Failed and Removed,   *)
(* "Pending" for anything else.                                            *)
(***************************************************************************)
Registration == [uid : Uids, op : Requests,
                 desired : {"Installed", "Disabled", "Uninstalled"},
                 phase : {"Pending", "Ready", "Failed"}]
ASSUME NoRegAssumption == NoReg \notin Registration

Pcs == {"idle", "resolve", "renew", "assert", "package", "read", "create", "patch",
        "record", "observe", "observePackage", "assertReady", "fail"}
Job == [pc : Pcs, row : Nat, epoch : Nat, seen : Registration \cup {NoReg},
        sideEffect : SideEffects]
Idle == [pc |-> "idle", row |-> 0, epoch |-> 0, seen |-> NoReg, sideEffect |-> "none"]

ControllerTypeOK ==
    /\ TypeOK
    /\ job \in [Workers -> Job]
    /\ reg \in [Extensions -> Registration \cup {NoReg}]
    /\ uidsUsed \subseteq Uids
    /\ current \subseteq Images
    /\ pinned \subseteq Extensions
    /\ wrote \subseteq Requests
    /\ scene \in Scenes

\* Subjects hold recent aal2 sessions throughout: what a session admits is
\* OperationLedger's subject, not this module's.
ControllerInit ==
    /\ Init
    /\ session = [s \in Subjects |-> "aal2"]
    /\ job = [w \in Workers |-> Idle]
    /\ reg = [x \in Extensions |-> NoReg]
    /\ uidsUsed = {}
    /\ current = Images
    /\ pinned \in SUBSET Extensions
    /\ wrote = {}
    /\ scene \in Scenes

-----------------------------------------------------------------------------
Row_(w) == outbox[job[w].row]
Op(w) == Row_(w).op
Ext(w) == Extension[Op(w).image]
Observing(w) == Row_(w).event # "OperationReadyForDispatch"
Holds(w) == ClaimHeld(w, job[w].row, job[w].epoch, Row_(w).event)

At(w, pc) == job[w].pc = pc
Goto(w, pc) == job' = [job EXCEPT ![w].pc = pc]
\* runOnce returns or throws; after a throw the claim waits for its lease to expire.
Return(w) == job' = [job EXCEPT ![w] = Idle]
FailWith(w, sideEffect) == job' = [job EXCEPT ![w].pc = "fail", ![w].sideEffect = sideEffect]
Saw(w, pc, object) == job' = [job EXCEPT ![w].pc = pc, ![w].seen = object]

ClaimWork(w) ==
    \E i \in DOMAIN outbox :
        /\ At(w, "idle")
        /\ Claim(w, i)
        /\ job' = [job EXCEPT ![w] =
              [Idle EXCEPT !.row = i, !.epoch = outbox[i].epoch + 1,
                           !.pc = IF outbox[i].event = "OperationReadyForDispatch"
                                     /\ outbox[i].op.action = "install"
                                  THEN "resolve" ELSE "renew"]]
        /\ UNCHANGED k8sVars

\* resolveExtension: the C_REG candidate must still be the approved plan's.
Resolve(w) ==
    /\ At(w, "resolve")
    /\ IF Op(w).image \in current THEN Goto(w, "renew") ELSE Return(w)
    /\ UNCHANGED <<vars, k8sVars>>

AfterRenew(w) ==
    IF Observing(w) THEN IF Op(w).action = "install" THEN "observePackage" ELSE "observe"
    ELSE CASE Op(w).action = "install"   -> "assert"
           [] Op(w).action = "remove"    -> "package"
           [] Op(w).action = "revoke"    -> "record"

Renew(w) ==
    /\ At(w, "renew")
    /\ IF Holds(w) THEN RenewOwnerClaim(w, job[w].row, job[w].epoch) /\ Goto(w, AfterRenew(w))
                   ELSE UNCHANGED vars /\ Return(w)
    /\ UNCHANGED k8sVars

\* assertInstallNotRevoked, before the Kubernetes write and before the observation.
AssertInstallNotRevoked(w) ==
    /\ \/ At(w, "assert")
       \/ At(w, "assertReady")
    /\ IF ~ Holds(w) THEN Return(w)
       ELSE IF IsRevoked(Op(w).image)
            THEN FailWith(w, IF At(w, "assert") THEN "none" ELSE "present")
            ELSE Goto(w, IF At(w, "assert") THEN "package" ELSE "record")
    /\ UNCHANGED <<vars, k8sVars>>

-----------------------------------------------------------------------------
(* registrationWriter.applyInstall: GET package, GET registration, POST.    *)

InstallGetsPackage(w) ==
    /\ At(w, "package")
    /\ Op(w).action = "install"
    /\ IF Op(w).image \in current THEN Goto(w, "read") ELSE Return(w)
    /\ UNCHANGED <<vars, k8sVars>>

InstallGetsRegistration(w) ==
    /\ At(w, "read")
    /\ Op(w).action = "install"
    /\ LET object == reg[Ext(w)] IN
       IF object = NoReg THEN Goto(w, "create")
       ELSE IF object.desired = "Uninstalled" THEN Return(w)
       ELSE Saw(w, "record", object)
    /\ UNCHANGED <<vars, k8sVars>>

\* POST; 409 when another writer was first.
CreateRegistration(w) ==
    /\ At(w, "create")
    /\ IF reg[Ext(w)] # NoReg THEN Return(w) /\ UNCHANGED k8sVars
       ELSE \E uid \in Uids \ uidsUsed :
            LET object == [uid |-> uid, op |-> Op(w), desired |-> "Installed",
                           phase |-> "Pending"] IN
            /\ reg' = [reg EXCEPT ![Ext(w)] = object]
            /\ uidsUsed' = uidsUsed \cup {uid}
            /\ wrote' = wrote \cup {Op(w)}
            /\ Saw(w, "record", object)
            /\ UNCHANGED <<current, pinned>>
    /\ UNCHANGED vars

-----------------------------------------------------------------------------
(* registrationWriter.applyRemove: GET package, GET registration, PATCH.    *)

RemoveGetsPackage(w) ==
    /\ At(w, "package")
    /\ Op(w).action = "remove"
    /\ IF Ext(w) \in pinned THEN FailWith(w, "none") ELSE Goto(w, "read")
    /\ UNCHANGED <<vars, k8sVars>>

RemoveGetsRegistration(w) ==
    /\ At(w, "read")
    /\ Op(w).action = "remove"
    /\ LET object == reg[Ext(w)] IN
       IF object = NoReg THEN FailWith(w, "none")
       ELSE Saw(w, IF object.desired = "Uninstalled" THEN "record" ELSE "patch", object)
    /\ UNCHANGED <<vars, k8sVars>>

\* The PATCH carries the resourceVersion that was read.
PatchUninstalled(w) ==
    /\ At(w, "patch")
    /\ IF reg[Ext(w)] # job[w].seen THEN Return(w) /\ UNCHANGED k8sVars
       ELSE /\ reg' = [reg EXCEPT ![Ext(w)].desired = "Uninstalled"]
            /\ wrote' = wrote \cup {Op(w)}
            /\ Goto(w, "record")
            /\ UNCHANGED <<uidsUsed, current, pinned>>
    /\ UNCHANGED vars

-----------------------------------------------------------------------------
(* registrationWriter.observeInstall and observeRemove.                     *)

\* mutant: observation is retried for ever
RetryAlways(w) == Return(w)

NotYet(w) ==
    IF job[w].epoch >= MaxAttempts THEN FailWith(w, "unknown") ELSE Return(w)

ObserveInstallGetsPackage(w) ==
    /\ At(w, "observePackage")
    /\ IF Op(w).image \in current THEN Goto(w, "observe") ELSE FailWith(w, "unknown")
    /\ UNCHANGED <<vars, k8sVars>>

ObserveInstall(w) ==
    /\ At(w, "observe")
    /\ Op(w).action = "install"
    /\ LET object == reg[Ext(w)] IN
       IF object = NoReg THEN FailWith(w, "unknown")
       ELSE IF object.uid # Row_(w).uid \/ object.desired # "Installed" THEN FailWith(w, "unknown")
       ELSE CASE object.phase = "Failed"   -> FailWith(w, "present")
              [] object.phase = "Ready"    -> Saw(w, "assertReady", object)
              [] object.phase = "Pending"  -> NotYet(w)
    /\ UNCHANGED <<vars, k8sVars>>

\* mutant: desiredState Uninstalled is taken for the removal itself
ObserveRemoveEarly(w) ==
    /\ At(w, "observe")
    /\ Op(w).action = "remove"
    /\ Goto(w, "record")
    /\ UNCHANGED <<vars, k8sVars>>

\* 404 is reported as the absence of the UID the removal was applied to.
ObserveRemove(w) ==
    /\ At(w, "observe")
    /\ Op(w).action = "remove"
    /\ LET object == reg[Ext(w)] IN
       IF object = NoReg THEN Goto(w, "record")
       ELSE IF object.uid # Row_(w).uid THEN FailWith(w, "unknown")
       ELSE IF object.phase = "Failed" THEN FailWith(w, "present")
       ELSE NotYet(w)
    /\ UNCHANGED <<vars, k8sVars>>

\* A Kubernetes request of an observation times out or is refused.
ObservationThrows(w) ==
    /\ "timeout" \in Faults
    /\ At(w, "observe") \/ At(w, "observePackage")
    /\ NotYet(w)
    /\ UNCHANGED <<vars, k8sVars>>

-----------------------------------------------------------------------------
(* The receipts.                                                            *)

RecordReceipt(w) ==
    LET i == job[w].row
        e == job[w].epoch IN
    \/ ApplyRevocation(w, i, e)
    \/ ~ Observing(w) /\ ApplyInstallRegistration(w, i, e, job[w].seen.uid)
    \/ ~ Observing(w) /\ ApplyRemoveRegistration(w, i, e, job[w].seen.uid)
    \/ Observing(w) /\ RecordInstallObservation(w, i, e, job[w].seen.uid)
    \/ Observing(w) /\ RecordRemoveObservation(w, i, e, Row_(w).uid)

\* A revocation that got there first closes an install as failed, side effect present.
Record(w) ==
    /\ At(w, "record")
    /\ IF ~ Holds(w) THEN Return(w) /\ UNCHANGED vars
       ELSE IF Op(w).action = "install" /\ IsRevoked(Op(w).image)
            THEN FailWith(w, "present") /\ UNCHANGED vars
            ELSE RecordReceipt(w) /\ Return(w)
    /\ UNCHANGED k8sVars

RecordFailure(w) ==
    /\ At(w, "fail")
    /\ IF Holds(w) THEN RecordExecutionFailure(w, job[w].row, job[w].epoch, job[w].sideEffect)
                   ELSE UNCHANGED vars
    /\ Return(w)
    /\ UNCHANGED k8sVars

\* The process dies, or a database or Kubernetes call fails without a terminal
\* answer (the last claim MaxClaims allows is spared).
Crash(w) ==
    /\ "crash" \in Faults
    /\ ~ At(w, "idle")
    /\ job[w].epoch < MaxClaims
    /\ Return(w)
    /\ UNCHANGED <<vars, k8sVars>>

-----------------------------------------------------------------------------
(* The rest of the cluster.                                                 *)

\* A later release replaces the package: the approved plan is no longer current.
PackageChanges(image) ==
    /\ "release" \in Faults
    /\ image \in current
    /\ current' = current \ {image}
    /\ UNCHANGED <<vars, job, reg, uidsUsed, pinned, wrote>>

\* One pass of the lifecycle reconciler over a Registration; its status patch and
\* its delete are conditional on the object it read.
Reconcile(x) ==
    /\ reg[x] # NoReg
    /\ \/ \E phase \in {"Pending", "Failed"} : reg' = [reg EXCEPT ![x].phase = phase]
       \/ /\ reg[x].desired = "Installed"
          /\ reg' = [reg EXCEPT ![x].phase = "Ready"]
       \/ /\ reg[x].desired = "Uninstalled"
          /\ reg' = [reg EXCEPT ![x] = NoReg]
    /\ UNCHANGED <<vars, job, uidsUsed, current, pinned, wrote>>

\* Extension management patches desiredState outside the ledger, conditionally on
\* the object it read.
SetDesiredState(x, desired) ==
    /\ "manage" \in Faults
    /\ reg[x] # NoReg
    /\ x \in pinned => desired = "Installed"
    /\ reg' = [reg EXCEPT ![x].desired = desired]
    /\ UNCHANGED <<vars, job, uidsUsed, current, pinned, wrote>>

-----------------------------------------------------------------------------
WorkerStep(w) ==
    \/ Resolve(w) \/ Renew(w) \/ AssertInstallNotRevoked(w)
    \/ InstallGetsPackage(w) \/ InstallGetsRegistration(w) \/ CreateRegistration(w)
    \/ RemoveGetsPackage(w) \/ RemoveGetsRegistration(w) \/ PatchUninstalled(w)
    \/ ObserveInstallGetsPackage(w) \/ ObserveInstall(w) \/ ObserveRemove(w)
    \/ Record(w) \/ RecordFailure(w)

\* C_API's side of the ledger.
Governance ==
    /\ \/ \E r \in Requests : Accept(r) \/ RecordProposal(r) \/ RecordMerge(r)
       \/ \E s \in Subjects, r \in Requests : Approve(s, r) \/ VerifyExtensionOperation(s, r)
    /\ UNCHANGED <<job, k8sVars>>

(***************************************************************************)
(* A lease (at least 5 s, 30 by default) outlasts the pause between two    *)
(* passes of cycle (1 s by default), so an idle worker looks for other     *)
(* work before a lease runs out, unless a pass is slow.                    *)
(***************************************************************************)
LeaseRunsOut(i) ==
    /\ LeaseExpires(i)
    /\ \/ "slow" \in Faults
       \/ \A w \in Workers, j \in DOMAIN outbox : (w \in scene.workers /\ At(w, "idle")) => ~ Claimable(j)
    /\ UNCHANGED <<job, k8sVars>>

Process(w) ==
    /\ w \in scene.workers
    /\ ClaimWork(w) \/ WorkerStep(w) \/ ObservationThrows(w) \/ Crash(w)

ControllerNext ==
    /\ \/ Governance
       \/ \E i \in DOMAIN outbox : LeaseRunsOut(i)
       \/ \E w \in Workers : Process(w)
       \/ \E image \in Images : PackageChanges(image)
       \/ \E x \in Extensions : Reconcile(x)
       \/ \E x \in Extensions, desired \in {"Installed", "Disabled", "Uninstalled"} :
             SetDesiredState(x, desired)
    /\ UNCHANGED scene

ControllerSpec == ControllerInit /\ [][ControllerNext]_allVars

(***************************************************************************)
(* cycle() reschedules itself after every pass, so a live worker keeps     *)
(* claiming and its awaits keep completing, and time passes; nothing is    *)
(* assumed of the reconciler, of the package or of the people.             *)
(***************************************************************************)
FairControllerSpec ==
    /\ ControllerSpec
    /\ \A w \in Workers : /\ WF_allVars(w \in scene.workers /\ ClaimWork(w) /\ UNCHANGED scene)
                         /\ WF_allVars(w \in scene.workers /\ WorkerStep(w) /\ UNCHANGED scene)
    /\ WF_allVars((\E i \in DOMAIN outbox : LeaseRunsOut(i)) /\ UNCHANGED scene)

-----------------------------------------------------------------------------
(* Properties.                                                              *)

\* RegistrationAbsent is recorded only when the UID the removal was applied to is
\* gone for good, whatever re-installs happen around it.
RemovalIsReal ==
    \A x \in receipts : (x.phase = "Verified" /\ x.op.action = "remove") =>
        \A ext \in Extensions : reg[ext] # NoReg => reg[ext].uid # x.uid

\* A worker never writes to Kubernetes for an operation that the ledger has
\* already closed: "applies one fenced Kubernetes Registration".
WritesAreFenced ==
    [][\A x \in Extensions :
          (reg'[x] # NoReg /\ (reg[x] = NoReg \/ reg[x].uid # reg'[x].uid))
              => state[reg'[x].op] = "Submitted"]_allVars

\* A failure that claims side effect "none" left nothing behind in Kubernetes.
NoneMeansNoWrite ==
    \A x \in receipts : x.sideEffect = "none" => x.op \notin wrote

\* An applied install or removal is eventually observed or closed: a Registration
\* that never settles is given up after maxObservationAttempts.
ObservationConcludes ==
    \A r \in Requests :
        (state[r] = "Applied" /\ r.action # "revoke")
            ~> (ReceiptOf(r, "Verified") # {} \/ state[r] \in {"Failed", "Unknown"})

\* An authorized revocation takes effect, however other operations fare.
RevocationConcludes ==
    \A r \in Requests :
        (state[r] = "Authorized" /\ r.action = "revoke") ~> IsRevoked(r.image)
=============================================================================
