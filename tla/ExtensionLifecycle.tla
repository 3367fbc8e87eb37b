-------------------------- MODULE ExtensionLifecycle --------------------------
(***************************************************************************)
(* C_EXT: the lifecycle reconciler that turns a UIPluginPackage and its    *)
(* UIPluginRegistration into workloads, and the management calls that      *)
(* change either behind its back.  A pass of reconcileOnce is a chain of   *)
(* Kubernetes requests working from the Registration and the Package it    *)
(* read first; packages are published, operators enable, disable,          *)
(* uninstall and roll back, and during an update of the controller a       *)
(* second reconciler runs, between any two of them.                        *)
(*                                                                         *)
(* One extension stands for all: passes of different extensions touch      *)
(* different objects.  A resourceVersion is abstracted to freshness: what  *)
(* a pass or a call read is fresh until someone writes the object, and a   *)
(* conditional write goes through when it is.  A pass that reads a status  *)
(* equal to the one it would write does not write (patchStatus).           *)
(*                                                                         *)
(* Every deletion is a foreground one: Kubernetes marks the object, which  *)
(* can still be read and written, and takes it away later.  No code reads  *)
(* the mark.                                                               *)
(***************************************************************************)
EXTENDS Naturals, FiniteSets

CONSTANTS
    Releases,          \* digest, manifest and signature of one release of the package
    NoRelease,
    Reconcilers,       \* controller processes; two overlap while one replaces the other
    Calls,             \* management requests
    NoReg,             \* the API server answers 404
    LifecycleScenes    \* bound: the situations an instance explores

VARIABLES
    pkg,      \* the UIPluginPackage: its release, and the one its signed envelope names
    reg,      \* the UIPluginRegistration, or NoReg
    made,     \* release -> how much of its ServiceAccount, Deployment, Service and budget exists
    up,       \* releases whose Deployment has its replicas available
    active,   \* the release the stable Service selects, or NoRelease
    leaving,  \* the stable Service is marked for deletion
    pass,     \* reconciler -> its reconcileOnce
    call,     \* management request -> its progress and its audit record
    scene     \* bound: what this behaviour may do, and how often

lifecycleVars == <<pkg, reg, made, up, active, leaving, pass, call, scene>>

Asks == {"Enabled", "Disabled", "Uninstalled", "rollback"}
Desired == {"Installed", "Enabled", "Disabled", "Uninstalled"}
Phases == {"", "Installing", "DependencyPending", "Failed", "Ready", "Activated", "Disabled"}

(***************************************************************************)
(* good: the verification and serving fields of the status vouch for       *)
(* current.  seen: observedGeneration is the generation of the spec.       *)
(***************************************************************************)
Status == [phase : Phases, current : Releases \cup {NoRelease},
           previous : Releases \cup {NoRelease}, good : BOOLEAN, seen : BOOLEAN]
NoStatus == [phase |-> "", current |-> NoRelease, previous |-> NoRelease, good |-> FALSE, seen |-> FALSE]

\* deleted: the Registration is marked for deletion; "revived" remembers that
\* a management call has written its spec since.
Registration == [desired : Desired, status : Status, deleted : {"no", "pending", "revived"}]
NewReg == [desired |-> "Installed", status |-> NoStatus, deleted |-> "no"]

Idle == [pc |-> "idle", desired |-> "Installed", status |-> NoStatus, fresh |-> FALSE, plan |-> NoRelease,
         doomed |-> {}, changed |-> {}, terminal |-> FALSE]
NewCall == [pc |-> "new", ask |-> "rollback", previous |-> NoRelease, freshPkg |-> FALSE, freshReg |-> FALSE,
            outcome |-> "", result |-> "", wrote |-> {}]

Present == {"whole", "going"}

PassPcs == {"idle", "package", "apply", "rest", "rollout", "verify", "serve", "unserve", "cleanup", "delete",
            "observe", "fail"}
Pass == [pc : PassPcs, desired : Desired, status : Status, fresh : BOOLEAN, plan : Releases \cup {NoRelease},
         doomed : SUBSET Releases, changed : SUBSET Releases, terminal : BOOLEAN]

Outcomes == {"", "accepted", "succeeded", "failed", "unknown"}
Call == [pc : {"new", "package", "registration", "record", "done"}, ask : Asks,
         previous : Releases \cup {NoRelease}, freshPkg : BOOLEAN, freshReg : BOOLEAN,
         outcome : Outcomes, result : Outcomes, wrote : SUBSET {"package", "registration"}]

Scenario == [first : Releases, previous : Releases \cup {NoRelease}, installed : BOOLEAN, official : BOOLEAN,
             bad : SUBSET Releases, broken : SUBSET Releases, releases : SUBSET Releases,
             reconcilers : SUBSET Reconcilers, asks : SUBSET (Calls \X Asks), faults : SUBSET STRING,
             publishes : Nat, installs : Nat, troubles : Nat]

ASSUME NoReleaseAssumption == NoRelease \notin Releases
ASSUME NoRegAssumption == NoReg \notin Registration
ASSUME ReconcilersAssumption == IsFiniteSet(Reconcilers)
\* What serves at the start was verified.
ASSUME LifecycleScenesAssumption ==
    LifecycleScenes \subseteq {sc \in Scenario : sc.installed => sc.first \notin sc.bad}

LifecycleTypeOK ==
    /\ pkg \in [release : Releases, signed : Releases]
    /\ reg \in Registration \cup {NoReg}
    /\ made \in [Releases -> {"none", "part"} \cup Present]
    /\ up \subseteq Releases
    /\ active \in Releases \cup {NoRelease}
    /\ leaving \in BOOLEAN
    /\ pass \in [Reconcilers -> Pass]
    /\ call \in [Calls -> Call]
    /\ scene \in Scenario

\* A release serves, perhaps after an update from another; or nothing is installed.
LifecycleInit ==
    /\ scene \in LifecycleScenes
    /\ pkg = [release |-> scene.first, signed |-> scene.first]
    /\ IF scene.installed
       THEN /\ reg = [desired |-> "Enabled", deleted |-> "no",
                      status |-> [phase |-> "Activated", current |-> scene.first,
                                  previous |-> scene.previous, good |-> TRUE, seen |-> TRUE]]
            /\ made = [r \in Releases |-> IF r = scene.first THEN "whole" ELSE "none"]
            /\ up = {scene.first} /\ active = scene.first
       ELSE reg = NoReg /\ made = [r \in Releases |-> "none"] /\ up = {} /\ active = NoRelease
    /\ leaving = FALSE
    /\ pass = [c \in Reconcilers |-> Idle]
    /\ call = [m \in Calls |-> NewCall]

-----------------------------------------------------------------------------
(* A pass of the reconciler.                                                *)

At(c, pc) == c \in scene.reconcilers /\ pass[c].pc = pc
Goto(c, pc) == pass' = [pass EXCEPT ![c].pc = pc]
Plan(c) == pass[c].plan
Fail(c, terminal) ==
    pass' = [pass EXCEPT ![c].pc = "fail", ![c].terminal = terminal, ![c].doomed = {}, ![c].changed = {}]

\* Everything read of the Registration before this write is stale, and the
\* status in it will not be used any more.
StalePasses(ps) == [c \in Reconcilers |-> [ps[c] EXCEPT !.fresh = FALSE, !.status = NoStatus]]
StaleCalls(cs) == [m \in Calls |-> [cs[m] EXCEPT !.freshReg = FALSE]]

\* patchStatus, then the pass ends.  A refused patch ends it too: markFailure
\* patches from the same reading and is refused as well.
Report(c, status) ==
    /\ IF pass[c].fresh /\ status # pass[c].status
       THEN /\ reg' = [reg EXCEPT !.status = status]
            /\ pass' = [StalePasses(pass) EXCEPT ![c] = Idle]
            /\ call' = StaleCalls(call)
       ELSE pass' = [pass EXCEPT ![c] = Idle] /\ UNCHANGED <<reg, call>>
    /\ UNCHANGED <<pkg, made, up, active, leaving, scene>>

\* projectPreviousVerifiedRelease: the current release of a status that still
\* vouches for it becomes the previous one when the plan is another.
Promotes(status, r) == status.good /\ status.current \notin {NoRelease, r}

Installing(status, r) ==
    [status EXCEPT !.phase = "Installing", !.good = Promotes(status, r), !.seen = TRUE]
Failing(status, terminal) ==
    [status EXCEPT !.phase = IF terminal THEN "Failed" ELSE "DependencyPending", !.good = FALSE, !.seen = TRUE]
Serving(status, r, desired) ==
    [phase |-> CASE desired = "Enabled" -> "Activated" [] desired = "Disabled" -> "Disabled" [] OTHER -> "Ready",
     current |-> r, previous |-> IF Promotes(status, r) THEN status.current ELSE status.previous,
     good |-> TRUE, seen |-> TRUE]

\* mutant: a Registration that failed for good is not looked at again.
ListUnlessFailed(c) ==
    /\ At(c, "idle") /\ reg # NoReg /\ reg.status.phase # "Failed"
    /\ pass' = [pass EXCEPT ![c] = [Idle EXCEPT !.pc = "package", !.desired = reg.desired,
                                                !.status = reg.status, !.fresh = TRUE]]
    /\ UNCHANGED <<pkg, reg, made, up, active, leaving, call, scene>>

ListRegistrations(c) ==
    /\ At(c, "idle") /\ reg # NoReg
    /\ pass' = [pass EXCEPT ![c] = [Idle EXCEPT !.pc = "package", !.desired = reg.desired,
                                                !.status = reg.status, !.fresh = TRUE]]
    /\ UNCHANGED <<pkg, reg, made, up, active, leaving, call, scene>>

\* buildExtensionWorkloadPlan: the spec of the official module must be the one
\* its signed envelope names.
Plannable == scene.official => pkg.release = pkg.signed

ReadPackage(c) ==
    /\ At(c, "package")
    /\ IF Plannable
       THEN pass' = [pass EXCEPT ![c].plan = pkg.release,
                                 ![c].pc = IF pass[c].desired = "Uninstalled" THEN "serve" ELSE "apply"]
       ELSE Fail(c, TRUE)
    /\ UNCHANGED <<pkg, reg, made, up, active, leaving, call, scene>>

\* upsert, the first resources and then the rest.  What exists is left alone
\* when it looks as desired, also while it is being deleted.  Whoever is
\* deleting this revision finds objects other than those it listed.
More(how) == CASE how = "none" -> "part" [] how = "part" -> "whole" [] OTHER -> how

Upsert(c) ==
    LET r == Plan(c)
        next == IF pass[c].pc = "apply" THEN "rest" ELSE "rollout"
        adds == made[r] = "none" \/ (made[r] = "part" /\ At(c, "rest")) IN
    /\ At(c, "apply") \/ At(c, "rest")
    /\ made' = [made EXCEPT ![r] = IF adds THEN More(@) ELSE @]
    /\ pass' = [d \in Reconcilers |->
          CASE d = c -> [pass[d] EXCEPT !.pc = next]
            [] d # c /\ adds /\ r \in pass[d].doomed -> [pass[d] EXCEPT !.changed = @ \cup {r}]
            [] OTHER -> pass[d]]
    /\ UNCHANGED <<pkg, reg, up, active, leaving, call, scene>>

\* Every resource is read back, then the rollout of the Deployment.
Rollout(c) ==
    /\ At(c, "rollout")
    /\ \/ /\ made[Plan(c)] \notin Present
          /\ Fail(c, FALSE)
          /\ UNCHANGED <<pkg, reg, made, up, active, leaving, call, scene>>
       \/ /\ made[Plan(c)] \in Present /\ Plan(c) \in up
          /\ Goto(c, "verify")
          /\ UNCHANGED <<pkg, reg, made, up, active, leaving, call, scene>>
       \/ /\ made[Plan(c)] \in Present /\ Plan(c) \notin up
          /\ Report(c, Installing(pass[c].status, Plan(c)))

\* verifyExtensionRelease fetches manifest, signature and entry from the Pods.
VerifyRelease(c) ==
    /\ At(c, "verify")
    /\ IF Plan(c) \notin up THEN Fail(c, FALSE)
       ELSE IF Plan(c) \in scene.bad THEN Fail(c, TRUE)
       ELSE Goto(c, "serve")
    /\ UNCHANGED <<pkg, reg, made, up, active, leaving, call, scene>>

\* The stable Service moves to the verified revision, also while it is being
\* deleted (upsert), or its deletion is asked for (remove).
Withdraws(c) == pass[c].desired \in {"Disabled", "Uninstalled"}

MoveService(c) ==
    /\ At(c, "serve")
    /\ \/ /\ ~ Withdraws(c)
          /\ active' = Plan(c)
          /\ Goto(c, "cleanup") /\ UNCHANGED leaving
       \/ /\ Withdraws(c) /\ active = NoRelease
          /\ Goto(c, "cleanup") /\ UNCHANGED <<active, leaving>>
       \/ /\ Withdraws(c) /\ active # NoRelease
          /\ leaving' = TRUE
          /\ Goto(c, "unserve") /\ UNCHANGED active
    /\ UNCHANGED <<pkg, reg, made, up, call, scene>>

\* The end of remove: the Service is gone, still there, or another one.
ServiceIsGone(c) ==
    /\ At(c, "unserve")
    /\ IF active = NoRelease THEN Goto(c, "cleanup") ELSE Fail(c, ~ leaving)
    /\ UNCHANGED <<pkg, reg, made, up, active, leaving, call, scene>>

\* mutant: the cleanup of a verified release plans as the removal does.
RetainNothing(desired, r) == {}

\* planInactiveExtensionRevisionCleanup, over the resources of every revision.
Retained(desired, r) == IF desired = "Uninstalled" THEN {} ELSE {r}
Inactive(desired, r) == {q \in Releases : made[q] # "none"} \ Retained(desired, r)
RevisionBound == 2

PlanCleanup(c) ==
    LET doomed == Inactive(pass[c].desired, Plan(c)) IN
    /\ At(c, "cleanup")
    /\ IF Cardinality(doomed) > RevisionBound
       THEN Fail(c, TRUE)
       ELSE pass' = [pass EXCEPT ![c].pc = "delete", ![c].doomed = doomed]
    /\ UNCHANGED <<pkg, reg, made, up, active, leaving, call, scene>>

\* removeCleanupCandidate, for the candidates of one revision.  Foreground
\* deletion of a Deployment is not over when it is read back.
DeleteRevision(c) ==
    \E r \in pass[c].doomed :
        /\ At(c, "delete")
        /\ CASE made[r] = "none" ->
                  pass' = [pass EXCEPT ![c].doomed = @ \ {r}] /\ UNCHANGED <<made, up>>
             [] made[r] # "none" /\ r \in pass[c].changed ->
                  /\ \/ UNCHANGED <<made, up>>
                     \/ made' = [made EXCEPT ![r] = "part"] /\ up' = up \ {r}
                  /\ Fail(c, TRUE)
             [] made[r] = "part" /\ r \notin pass[c].changed ->
                  /\ made' = [made EXCEPT ![r] = "none"] /\ up' = up \ {r}
                  /\ pass' = [pass EXCEPT ![c].doomed = @ \ {r}]
             [] made[r] \in Present /\ r \notin pass[c].changed ->
                  \/ /\ made[r] = "whole"
                     /\ made' = [made EXCEPT ![r] = "part"] /\ up' = up \ {r}
                     /\ UNCHANGED pass
                  \/ /\ made' = [made EXCEPT ![r] = "going"]
                     /\ Fail(c, FALSE) /\ UNCHANGED up
        /\ UNCHANGED <<pkg, reg, active, leaving, call, scene>>

\* mutant: the deletion carries no precondition.
MayDeleteAny(c) == reg # NoReg

\* The Registration is deleted only in the version that asked for it.
MayDelete(c) == pass[c].fresh

Conclude(c) ==
    /\ At(c, "delete") /\ pass[c].doomed = {} /\ pass[c].desired # "Uninstalled"
    /\ Report(c, Serving(pass[c].status, Plan(c), pass[c].desired))

\* The mark is a change of the object and of its generation; a second deletion
\* of a marked object changes nothing.
MarkDeleted(c) ==
    /\ reg' = [reg EXCEPT !.deleted = "pending", !.status.seen = FALSE]
    /\ pass' = [StalePasses(pass) EXCEPT ![c].pc = "observe"]
    /\ call' = StaleCalls(call)

DeleteRegistration(c) ==
    /\ At(c, "delete") /\ pass[c].doomed = {} /\ pass[c].desired = "Uninstalled"
    /\ \/ /\ reg # NoReg /\ MayDelete(c) /\ reg.deleted = "no"
          /\ MarkDeleted(c)
       \/ /\ reg = NoReg \/ (MayDelete(c) /\ reg.deleted # "no")
          /\ Goto(c, "observe") /\ UNCHANGED <<reg, call>>
       \/ /\ reg # NoReg /\ ~ MayDelete(c)
          /\ Fail(c, FALSE) /\ UNCHANGED <<reg, call>>
    /\ UNCHANGED <<pkg, made, up, active, leaving, scene>>

\* The Registration is gone, still there (DeletionPending), or another one
\* (ResourceOwnershipMismatch).
ObserveDeletion(c) ==
    /\ At(c, "observe")
    /\ IF reg = NoReg THEN pass' = [pass EXCEPT ![c] = Idle] ELSE Fail(c, reg.deleted = "no")
    /\ UNCHANGED <<pkg, reg, made, up, active, leaving, call, scene>>

MarkFailure(c) ==
    /\ At(c, "fail")
    /\ Report(c, Failing(pass[c].status, pass[c].terminal))

ReconcileOnce(c) ==
    \/ ListRegistrations(c) \/ ReadPackage(c) \/ Upsert(c) \/ Rollout(c) \/ VerifyRelease(c)
    \/ MoveService(c) \/ ServiceIsGone(c) \/ PlanCleanup(c) \/ DeleteRevision(c) \/ Conclude(c)
    \/ DeleteRegistration(c) \/ ObserveDeletion(c) \/ MarkFailure(c)

-----------------------------------------------------------------------------
(* Extension management: a recorded mutation.                               *)

Decide(m, result) ==
    [call[m] EXCEPT !.pc = "record", !.result = result, !.previous = NoRelease, !.freshPkg = FALSE, !.freshReg = FALSE]

\* recordEvent(accepted), the reads, and the refusals that follow from them.
BeginCall(m, ask) ==
    /\ call[m].pc = "new" /\ <<m, ask>> \in scene.asks
    /\ call' = [call EXCEPT ![m] =
          LET read == [NewCall EXCEPT !.ask = ask, !.outcome = "accepted"]
          IN  IF reg = NoReg \/ (ask = "rollback" /\ reg.status.previous \in {NoRelease, pkg.release})
              THEN [read EXCEPT !.pc = "record", !.result = "failed"]
              ELSE IF ask = "rollback"
              THEN [read EXCEPT !.pc = "package", !.previous = reg.status.previous, !.freshPkg = TRUE, !.freshReg = TRUE]
              ELSE [read EXCEPT !.pc = "registration", !.freshReg = TRUE]]
    /\ UNCHANGED <<pkg, reg, made, up, active, leaving, pass, scene>>

\* How a request to write may end: done, refused, or cut off before its answer
\* (sideEffect as given) or while its body is read (no sideEffect).
Answers == {"ok"} \cup (scene.faults \cap {"lost", "cut"})
OutcomeOf(answer) == IF answer = "cut" THEN "failed" ELSE "unknown"

\* mutant: the failure of the second write keeps its default, no side effect.
SecondOutcomeDefault(answer) == "failed"

\* After the Package was written, a failure is never reported as having no effect.
SecondOutcome(answer) == "unknown"

WritePackage(m) ==
    /\ call[m].freshPkg
    /\ pkg' = [pkg EXCEPT !.release = call[m].previous]
    /\ \E answer \in Answers :
          call' = [n \in Calls |->
              IF n # m THEN [call[n] EXCEPT !.freshPkg = FALSE]
              ELSE [IF answer = "ok" THEN [call[m] EXCEPT !.pc = "registration", !.freshPkg = FALSE] ELSE Decide(m, OutcomeOf(answer))
                       EXCEPT !.wrote = {"package"}]]

RollbackPackage(m) ==
    /\ call[m].pc = "package"
    /\ \/ WritePackage(m)
       \/ /\ ~ call[m].freshPkg \/ "lost" \in scene.faults
          /\ call' = [call EXCEPT ![m] = Decide(m, "unknown")]
          /\ UNCHANGED pkg
    /\ UNCHANGED <<reg, made, up, active, leaving, pass, scene>>

WriteRegistration(m) ==
    LET desired == IF call[m].ask = "rollback" THEN "Enabled" ELSE call[m].ask IN
    /\ call[m].freshReg
    /\ reg' = [reg EXCEPT !.desired = desired, !.status.seen = FALSE,
                          !.deleted = IF @ = "no" THEN "no" ELSE "revived"]
    /\ pass' = StalePasses(pass)
    /\ \E answer \in Answers :
          call' = [StaleCalls(call) EXCEPT ![m] =
              [Decide(m, CASE answer = "ok" -> "succeeded"
                           [] answer # "ok" /\ call[m].ask = "rollback" -> SecondOutcome(answer)
                           [] OTHER -> OutcomeOf(answer))
                 EXCEPT !.wrote = @ \cup {"registration"}]]

PatchRegistration(m) ==
    /\ call[m].pc = "registration"
    /\ \/ WriteRegistration(m)
       \/ /\ ~ call[m].freshReg \/ "lost" \in scene.faults
          /\ call' = [call EXCEPT ![m] =
                Decide(m, IF call[m].ask = "rollback" THEN SecondOutcome("refused") ELSE "unknown")]
          /\ UNCHANGED <<reg, pass>>
    /\ UNCHANGED <<pkg, made, up, active, leaving, scene>>

\* The second event of the audit record; without it the call stays accepted.
RecordOutcome(m) ==
    /\ call[m].pc = "record"
    /\ call' = [call EXCEPT ![m].pc = "done", ![m].outcome = call[m].result, ![m].result = ""]
    /\ UNCHANGED <<pkg, reg, made, up, active, leaving, pass, scene>>

-----------------------------------------------------------------------------
(* The surroundings.                                                        *)

Spend(what) == what \in scene.faults /\ scene.troubles > 0 /\ scene' = [scene EXCEPT !.troubles = @ - 1]

\* A request of a pass is refused, times out, or loses its answer: the last is
\* the write, followed by the failure of the request after it.
RequestThrows(c) ==
    /\ c \in scene.reconcilers /\ pass[c].pc \notin {"idle", "fail"}
    /\ Spend("timeout") /\ Fail(c, FALSE)
    /\ UNCHANGED <<pkg, reg, made, up, active, leaving, call>>

\* The process of a reconciler, or of a management call, ends.
Crash(c) ==
    /\ c \in scene.reconcilers /\ pass[c].pc # "idle"
    /\ Spend("crash") /\ pass' = [pass EXCEPT ![c] = Idle]
    /\ UNCHANGED <<pkg, reg, made, up, active, leaving, call>>

CallDies(m) ==
    /\ call[m].pc \notin {"new", "done"}
    /\ Spend("crash") /\ call' = [call EXCEPT ![m] = [Decide(m, "") EXCEPT !.pc = "done"]]
    /\ UNCHANGED <<pkg, reg, made, up, active, leaving, pass>>

\* Module discovery or a release replaces the spec and its envelope, if the
\* envelope is another one.
Publish(r) ==
    /\ scene.publishes > 0 /\ r \in scene.releases \ {pkg.signed}
    /\ scene' = [scene EXCEPT !.publishes = @ - 1]
    /\ pkg' = [release |-> r, signed |-> r]
    /\ call' = [m \in Calls |-> [call[m] EXCEPT !.freshPkg = FALSE]]
    /\ UNCHANGED <<reg, made, up, active, leaving, pass>>

\* A discovery that fails marks the package of the official module, and the next
\* one that succeeds writes the spec of the envelope again.
Rediscover ==
    /\ scene.official /\ Spend("catalog")
    /\ pkg' = [pkg EXCEPT !.release = pkg.signed]
    /\ call' = [m \in Calls |-> [call[m] EXCEPT !.freshPkg = FALSE]]
    /\ UNCHANGED <<reg, made, up, active, leaving, pass>>

\* applyInstall of the operation worker.
Install ==
    /\ scene.installs > 0 /\ reg = NoReg
    /\ scene' = [scene EXCEPT !.installs = @ - 1]
    /\ reg' = NewReg
    /\ UNCHANGED <<pkg, made, up, active, leaving, pass, call>>

\* Kubernetes starts and stops Pods, and finishes what was deleted.
PodsStart(r) ==
    /\ made[r] = "whole" /\ r \notin up /\ r \notin scene.broken
    /\ up' = up \cup {r}
    /\ UNCHANGED <<pkg, reg, made, active, leaving, pass, call, scene>>

PodsStop(r) ==
    /\ r \in up /\ Spend("pods") /\ up' = up \ {r}
    /\ UNCHANGED <<pkg, reg, made, active, leaving, pass, call>>

Vanish(r) ==
    /\ made[r] = "going"
    /\ made' = [made EXCEPT ![r] = "part"] /\ up' = up \ {r}
    /\ UNCHANGED <<pkg, reg, active, leaving, pass, call, scene>>

\* ... and so the Registration and the stable Service, whatever they say by now.
RegistrationVanishes ==
    /\ reg # NoReg /\ reg.deleted # "no"
    /\ reg' = NoReg /\ pass' = StalePasses(pass) /\ call' = StaleCalls(call)
    /\ UNCHANGED <<pkg, made, up, active, leaving, scene>>

ServiceVanishes ==
    /\ leaving
    /\ leaving' = FALSE /\ active' = NoRelease
    /\ UNCHANGED <<pkg, reg, made, up, pass, call, scene>>

Surroundings ==
    \/ \E c \in Reconcilers : RequestThrows(c) \/ Crash(c)
    \/ \E m \in Calls : CallDies(m)
    \/ \E r \in Releases : Publish(r) \/ PodsStart(r) \/ PodsStop(r) \/ Vanish(r)
    \/ Rediscover \/ Install \/ RegistrationVanishes \/ ServiceVanishes

LifecycleNext ==
    \/ \E c \in Reconcilers : ReconcileOnce(c)
    \/ \E m \in Calls : \/ \E ask \in Asks : BeginCall(m, ask)
                        \/ RollbackPackage(m) \/ PatchRegistration(m) \/ RecordOutcome(m)
    \/ Surroundings

LifecycleSpec ==
    /\ LifecycleInit /\ [][LifecycleNext]_lifecycleVars
    /\ \A c \in Reconcilers : WF_lifecycleVars(ReconcileOnce(c))
    /\ \A r \in Releases : WF_lifecycleVars(PodsStart(r)) /\ WF_lifecycleVars(Vanish(r))
    /\ WF_lifecycleVars(RegistrationVanishes) /\ WF_lifecycleVars(ServiceVanishes)

-----------------------------------------------------------------------------
(* Properties.                                                              *)

Alone == Cardinality(scene.reconcilers) = 1

\* What the stable Service selects was verified before it was selected, and no
\* revision is deleted while it is selected, whatever is published, rolled back
\* or disabled in the middle of a pass (one reconciler for the second part).
ServedIsSound ==
    [][/\ active' \notin scene.bad
       /\ Alone => \A r \in Releases :
             made[r] = "whole" /\ made'[r] # "whole" => active # r]_lifecycleVars

\* Nothing of the extension is left but the Registration that asks for that
\* (the second part with one reconciler).
Removable ==
    /\ reg.desired = "Uninstalled"
    /\ Alone => active = NoRelease /\ \A r \in Releases : made[r] = "none"

\* A Registration is marked for deletion only while it asks for its removal, also
\* when an operator takes that back during the removal, and last of all; and both
\* are still so when it goes, unless a management call has written it meanwhile.
UninstallIsComplete ==
    [][LET marks == reg.deleted = "no" /\ (reg' = NoReg \/ reg'.deleted # "no")
           goes == reg.deleted = "pending" /\ reg' = NoReg
       IN  reg # NoReg /\ (marks \/ goes) => Removable]_lifecycleVars

\* What the code does not give: a Registration that an operator has set to
\* Enabled or Disabled does not vanish (the mark of the deletion is not read).
RevivedIsKept == [][reg # NoReg /\ reg' = NoReg => reg.desired = "Uninstalled"]_lifecycleVars

\* The last event of a management call tells the truth: "failed" means nothing
\* was written, "succeeded" that everything was (recordedMutation).
OutcomeIsTrue ==
    \A m \in Calls :
        /\ call[m].outcome = "failed" => call[m].wrote = {}
        /\ call[m].outcome = "succeeded" =>
              call[m].wrote = {"registration"} \cup IF call[m].ask = "rollback" THEN {"package"} ELSE {}

\* The desired state is reached and reported.
Reached ==
    /\ active = IF reg.desired = "Disabled" THEN NoRelease ELSE pkg.release
    /\ \A r \in Releases : made[r] = IF r = pkg.release THEN "whole" ELSE "none"
    /\ reg.status.phase \in {"Ready", "Activated", "Disabled"}
    /\ reg.status.seen /\ reg.status.good /\ reg.status.current = pkg.release

Hopeless == pkg.release \in scene.bad \cup scene.broken
TooMany == reg # NoReg /\ Cardinality(Inactive(reg.desired, pkg.release)) > RevisionBound

\* When changes and failures stop, the reconcilers reach what the Registration
\* asks for, or it is gone.  A release that does not start or verify, a
\* package that is not what its envelope signs, and more inactive revisions
\* than one cleanup may plan are the exceptions; an installation profile that
\* setup never provides is one more (verifyInstallationProfile, before the
\* upserts), and is here among the requests that fail now and then.
LifecycleSettles ==
    <>[](reg = NoReg \/ ~ Plannable \/ TooMany
         \/ (reg.desired # "Uninstalled" /\ (Hopeless \/ Reached)))

\* Without the exceptions of the code's own making: an uninstall concludes.
UninstallConcludes == <>[](reg = NoReg \/ reg.desired # "Uninstalled")

\* A Service never selects a revision that is not there.
ServedIsThere == active # NoRelease => made[active] \in Present
=============================================================================
