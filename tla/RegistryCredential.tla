-------------------------- MODULE RegistryCredential --------------------------
(***************************************************************************)
(* The registry credential broker of C_API.  One Kubernetes Secret holds   *)
(* the credential and the state of its lifecycle; every replica ticks on   *)
(* it, request handlers replace and remove the credential, and each write  *)
(* is a compare-and-swap on the resourceVersion the writer read.  A tick   *)
(* first writes a work marker and then calls GitHub, the audit function    *)
(* and the pull Secrets of the release namespaces, one call after another. *)
(*                                                                         *)
(* A process keeps `fresh', whether the Secret is still the version it     *)
(* holds, instead of a version number.  Generations are numbered and name  *)
(* the credential that was stored with them.  A tick that only reads, or   *)
(* loses its first write, changes nothing and is no step here.             *)
(***************************************************************************)
EXTENDS Naturals, FiniteSets

CONSTANTS
    Replicas,           \* API processes that tick
    Requests,           \* governed replace and remove requests
    Kind,               \* request -> "oauth" | "replace" | "remove"
    Namespaces,         \* pull Secrets are written in namespaces 1..Namespaces
    MaxCredential,      \* bound on generations
    RegistryScenes,     \* [cred, requests, faults] to start from; "crash" and
                        \* "release" happen at most once
    NoRequest

ASSUME NamespacesAssumption == Namespaces \in Nat \ {0}
ASSUME MaxCredentialAssumption == MaxCredential \in Nat \ {0}

Procs == Replicas \cup Requests

VARIABLES
    secret,     \* opensphere-registry-auth
    pull,       \* namespace -> generation its pull Secret carries
    ops,        \* request -> state of its operation
    recorded,   \* <<rotation, outcome>> already in the audit ledger
    proc,       \* process -> what it is doing
    env,        \* clock, release and authority as the processes find them
    redeemed,   \* generation -> times its refresh token was presented
    made        \* request -> generation its credential change was stored under

registryVars == <<secret, pull, ops, recorded, proc, env, redeemed, made>>

Works == {"none", "device-start", "device-poll", "refresh", "propagate"}
Phases == {"Pending", "Ready", "Degraded", "Removing", "Anonymous",
           "AwaitingAuthorization", "ReauthorizationRequired"}
Credentials == {"none", "pat", "device"}
Generations == 0..MaxCredential
Faults == {"crash", "provider", "release", "lost", "authority", "start", "audit"}

ASSUME KindAssumption == Kind \in [Requests -> {"oauth", "replace", "remove"}]
ASSUME NoRequestAssumption == NoRequest \notin Requests
ASSUME RegistryScenesAssumption ==
    RegistryScenes \subseteq [cred : Credentials, requests : SUBSET Requests, faults : SUBSET Faults]

Secret == [cred : Credentials, gen : 1..MaxCredential, phase : Phases, work : Works, pending : BOOLEAN,
           op : Requests \cup {NoRequest}, rot : Generations, seen : BOOLEAN]
Snap == [gen : Generations, cred : Credentials, op : Requests \cup {NoRequest}, rot : Generations]
Process == [pc : {"idle", "oauth", "replace", "remove", "start", "startFailed", "reject", "interrupted",
                  "device-poll", "granted", "refresh", "redeem", "redeemed",
                  "propagate", "get", "fence", "put", "check", "final", "success", "finish",
                  "lost", "failed", "reauthorize", "degrade"},
            fresh : BOOLEAN, snap : Snap, at : 0..Namespaces, old : BOOLEAN]
Surroundings == [due : BOOLEAN, overdue : BOOLEAN, images : BOOLEAN, authority : BOOLEAN,
                 faults : SUBSET Faults, requests : SUBSET Requests]

Idle == [pc |-> "idle", fresh |-> FALSE, snap |-> [gen |-> 0, cred |-> "none", op |-> NoRequest, rot |-> 0],
         at |-> 0, old |-> FALSE]

\* The audit event of a claim is that of the last rotation or, for a refresh
\* without one, its own: a refresh is named by the generation it replaces.
Event(s) == IF s.rot = 0 /\ s.work = "refresh" THEN s.gen ELSE s.rot
Snapshot(s) == [gen |-> s.gen, cred |-> s.cred, op |-> s.op, rot |-> Event(s)]
Holding(pc, s) == [Idle EXCEPT !.pc = pc, !.fresh = TRUE, !.snap = Snapshot(s)]
Goes(p, pc) == proc' = [proc EXCEPT ![p].pc = pc]
Ends(p) == proc' = [proc EXCEPT ![p] = Idle]

\* A write of the Secret: every other process now holds an older version.
Write(p, s, next) ==
    /\ secret' = s
    /\ proc' = [q \in Procs |-> IF q = p THEN next ELSE [proc[q] EXCEPT !.fresh = FALSE]]
    /\ env' = [env EXCEPT !.overdue = FALSE, !.due = @ /\ s.gen = secret.gen]

\* The swap at the end of a step: it takes effect only on the version the
\* process holds, and a conflict ends the tick.
Swap(p, s, next) ==
    \/ proc[p].fresh /\ Write(p, s, next)
    \/ ~ proc[p].fresh /\ Ends(p) /\ UNCHANGED <<secret, env>>

Outcome(o) == CASE o = "succeeded" -> "Applied" [] o = "unknown" -> "Unknown" [] OTHER -> "Reconciling"

\* record_registry_credential_result: the event of a rotation is recorded once
\* per outcome, and an applied operation no longer moves.
Result(snap, o) ==
    LET known == snap.rot # 0 /\ <<snap.rot, o>> \in recorded
        applied == snap.op # NoRequest /\ ops[snap.op] = "Applied"
    IN  /\ ops' = IF known \/ applied \/ snap.op = NoRequest THEN ops
                  ELSE [ops EXCEPT ![snap.op] = Outcome(o)]
        /\ recorded' = IF known \/ applied \/ snap.rot = 0 THEN recorded
                       ELSE recorded \cup {<<snap.rot, o>>}

RegistryStart(sc) ==
    /\ secret = [cred |-> sc.cred, gen |-> 1, phase |-> IF sc.cred = "none" THEN "Anonymous" ELSE "Pending",
                 work |-> "none", pending |-> FALSE, op |-> NoRequest, rot |-> 0, seen |-> FALSE]
    /\ pull = [n \in 1..Namespaces |-> 1]
    /\ ops = [r \in Requests |-> "none"]
    /\ recorded = {}
    /\ proc = [p \in Procs |-> Idle]
    /\ env = [due |-> FALSE, overdue |-> FALSE, images |-> FALSE, authority |-> TRUE,
              faults |-> sc.faults, requests |-> sc.requests]
    /\ redeemed = [g \in Generations |-> 0]
    /\ made = [r \in Requests |-> 0]

-----------------------------------------------------------------------------
(* Request handlers.                                                       *)

Available == secret.work = "none" /\ ~ secret.pending /\ secret.op = NoRequest

\* operationService.accept, then the broker reads the Secret: a claimed or
\* unfinished lifecycle refuses the request.
AcceptRequest(r) ==
    /\ r \in env.requests /\ ops[r] = "none"
    /\ ops' = [ops EXCEPT ![r] = "Authorized"]
    /\ proc' = [proc EXCEPT ![r] = IF Available THEN Holding(Kind[r], secret) ELSE [Idle EXCEPT !.pc = "reject"]]
    /\ UNCHANGED <<secret, pull, recorded, env, redeemed, made>>

\* beginOAuth marks the Secret before it asks GitHub for a device code.
BeginOAuth(r) ==
    /\ proc[r].pc = "oauth"
    /\ \/ LET s == [secret EXCEPT !.op = r, !.work = "device-start"]
          IN  proc[r].fresh /\ Write(r, s, Holding("start", s))
       \/ ~ proc[r].fresh /\ Goes(r, "reject") /\ UNCHANGED <<secret, env>>
    /\ UNCHANGED <<pull, ops, recorded, redeemed, made>>

\* The device code arrived and is stored with the request that asked for it.
AwaitAuthorization(r) ==
    /\ proc[r].pc = "start" /\ env.authority
    /\ proc[r].fresh
    /\ Write(r, [secret EXCEPT !.work = "none", !.pending = TRUE, !.phase = "AwaitingAuthorization"], Idle)
    /\ UNCHANGED <<pull, ops, recorded, redeemed, made>>

\* Without authority, a device code or its version of the Secret the handler
\* records a failure, takes its marker back and rejects the intent.
StartFails(r) ==
    /\ proc[r].pc = "start"
    /\ ~ env.authority \/ ~ proc[r].fresh \/ "start" \in env.faults
    /\ Result(proc[r].snap, "failed")
    /\ Goes(r, "startFailed")
    /\ UNCHANGED <<secret, pull, env, redeemed, made>>

GiveUpStart(r) ==
    /\ proc[r].pc = "startFailed"
    /\ \/ /\ proc[r].fresh
          /\ Write(r, [secret EXCEPT !.work = "none", !.pending = FALSE, !.op = NoRequest,
                         !.phase = IF secret.cred = "none" THEN "ReauthorizationRequired" ELSE "Degraded"],
                   [Idle EXCEPT !.pc = "reject"])
       \/ ~ proc[r].fresh /\ Goes(r, "reject") /\ UNCHANGED <<secret, env>>
    /\ UNCHANGED <<pull, ops, recorded, redeemed, made>>

\* replace verifies the new credential with GitHub before it swaps it in;
\* remove swaps at once.  "lost": the swap is made and its answer is lost.
ChangeCredential(r) ==
    /\ proc[r].pc \in {"replace", "remove"}
    /\ \/ /\ env.authority /\ proc[r].fresh /\ secret.gen < MaxCredential
          /\ LET s == [secret EXCEPT !.cred = IF Kind[r] = "remove" THEN "none" ELSE "pat", !.gen = @ + 1, !.op = r,
                         !.phase = IF Kind[r] = "remove" THEN "Removing" ELSE "Pending", !.seen = FALSE]
             IN  \/ Write(r, s, Idle)
                 \/ "lost" \in env.faults /\ Write(r, s, [Idle EXCEPT !.pc = "reject"])
          /\ made' = [made EXCEPT ![r] = secret.gen + 1]
       \/ /\ ~ env.authority \/ ~ proc[r].fresh \/ (Kind[r] = "replace" /\ "provider" \in env.faults)
          /\ Goes(r, "reject")
          /\ UNCHANGED <<secret, env, made>>
    /\ UNCHANGED <<pull, ops, recorded, redeemed>>

\* rejectIntent closes the operation as unknown, under the event of the
\* rotation the Secret names, if it names one.
RejectIntent(r) ==
    /\ proc[r].pc = "reject"
    /\ Result([Idle.snap EXCEPT !.op = r, !.rot = secret.rot], "unknown")
    /\ Ends(r)
    /\ UNCHANGED <<secret, pull, env, redeemed, made>>

-----------------------------------------------------------------------------
(* The tick: adoption of the release images, release of interrupted work,  *)
(* and the claim that starts a poll, a refresh or a propagation.           *)

RefreshDue == secret.cred = "device" /\ env.due

AdoptImages(p) ==
    /\ proc[p].pc = "idle" /\ env.images /\ secret.work = "none" /\ ~ secret.pending
    /\ secret' = [secret EXCEPT !.seen = FALSE,
                     !.phase = IF @ = "ReauthorizationRequired" THEN @
                               ELSE IF secret.cred # "none" THEN "Pending" ELSE "Anonymous"]
    /\ proc' = [q \in Procs |-> [proc[q] EXCEPT !.fresh = FALSE]]
    /\ env' = [env EXCEPT !.images = FALSE]
    /\ UNCHANGED <<pull, ops, recorded, redeemed, made>>

\* Work older than two minutes has an unknown result and is never resumed.
RecordInterrupted(p) ==
    /\ proc[p].pc = "idle" /\ secret.work # "none" /\ env.overdue
    /\ Result(Snapshot(secret), "unknown")
    /\ proc' = [proc EXCEPT ![p] = Holding("interrupted", secret)]
    /\ UNCHANGED <<secret, pull, env, redeemed, made>>

\* mutant: interrupted work that is simply tried again.
RetryInterrupted(p) ==
    /\ proc[p].pc = "interrupted"
    /\ Swap(p, [secret EXCEPT !.phase = "Degraded", !.work = "none", !.pending = FALSE, !.op = NoRequest], Idle)
    /\ UNCHANGED <<pull, ops, recorded, redeemed, made>>

\* mutant: interrupted work whose marker stays.
KeepInterrupted(p) ==
    /\ proc[p].pc = "interrupted"
    /\ Swap(p, [secret EXCEPT !.phase = "ReauthorizationRequired", !.pending = FALSE, !.op = NoRequest], Idle)
    /\ UNCHANGED <<pull, ops, recorded, redeemed, made>>

ReleaseInterrupted(p) ==
    /\ proc[p].pc = "interrupted"
    /\ Swap(p, [secret EXCEPT !.phase = "ReauthorizationRequired", !.work = "none", !.pending = FALSE, !.op = NoRequest],
            Idle)
    /\ UNCHANGED <<pull, ops, recorded, redeemed, made>>

Claim(p) ==
    /\ proc[p].pc = "idle" /\ secret.work = "none" /\ ~ (env.images /\ ~ secret.pending)
    /\ secret.phase # "ReauthorizationRequired"
    /\ ~ (secret.phase = "Anonymous" /\ secret.op = NoRequest)
    /\ ~ (secret.phase = "Ready" /\ ~ secret.pending /\ ~ RefreshDue /\ secret.seen)
    /\ secret.gen < MaxCredential \/ ~ (secret.pending \/ RefreshDue)
    /\ LET kind == IF secret.pending THEN "device-poll" ELSE IF RefreshDue THEN "refresh" ELSE "propagate"
           s == [secret EXCEPT !.work = kind]
       IN  Write(p, s, Holding(kind, s))
    /\ UNCHANGED <<pull, ops, recorded, redeemed, made>>

\* The person has not answered yet, or GitHub grants the credential.
Poll(p) ==
    /\ proc[p].pc = "device-poll" /\ env.authority
    /\ \/ Swap(p, [secret EXCEPT !.work = "none"], Idle)
       \/ Goes(p, "granted") /\ UNCHANGED <<secret, env>>
    /\ UNCHANGED <<pull, ops, recorded, redeemed, made>>

StorePolled(p) ==
    /\ proc[p].pc = "granted" /\ env.authority
    /\ Swap(p, [secret EXCEPT !.work = "none", !.pending = FALSE, !.cred = "device", !.gen = @ + 1,
                  !.phase = "Pending", !.seen = FALSE], Idle)
    /\ made' = IF proc[p].fresh THEN [made EXCEPT ![secret.op] = secret.gen + 1] ELSE made
    /\ UNCHANGED <<pull, ops, recorded, redeemed>>

\* The refresh is audited before the old pair is presented.
AuditRefresh(p) ==
    /\ proc[p].pc = "refresh"
    /\ Result(proc[p].snap, "accepted")
    /\ Goes(p, "redeem")
    /\ UNCHANGED <<secret, pull, env, redeemed, made>>

\* GitHub consumes the old pair; its answer may be lost.
Redeem(p) ==
    /\ proc[p].pc = "redeem"
    /\ redeemed' = [redeemed EXCEPT ![proc[p].snap.gen] = @ + 1]
    /\ Goes(p, "redeemed") \/ ("provider" \in env.faults /\ Goes(p, "lost"))
    /\ UNCHANGED <<secret, pull, ops, recorded, env, made>>

StoreRefreshed(p) ==
    /\ proc[p].pc = "redeemed"
    /\ Swap(p, [secret EXCEPT !.work = "none", !.gen = @ + 1, !.rot = secret.gen, !.phase = "Pending", !.seen = FALSE],
            Idle)
    /\ UNCHANGED <<pull, ops, recorded, redeemed, made>>

-----------------------------------------------------------------------------
(* store.synchronize: each pull Secret is read, the fence is read again,   *)
(* and the pull Secret is replaced on the version that was read.           *)

\* mutant: the loop over the namespaces leaves out the last one
AfterShort(c, here, next) ==
    IF c.at < Namespaces - 1 THEN [c EXCEPT !.pc = here, !.at = @ + 1] ELSE [c EXCEPT !.pc = next, !.at = 1]

After(c, here, next) ==
    IF c.at < Namespaces THEN [c EXCEPT !.pc = here, !.at = @ + 1] ELSE [c EXCEPT !.pc = next, !.at = 1]

Inspect(p) ==
    /\ proc[p].pc = "propagate"
    /\ proc' = [proc EXCEPT ![p].pc = "get", ![p].at = 1]
    /\ UNCHANGED <<secret, pull, ops, recorded, env, redeemed, made>>

GetPull(p) ==
    /\ proc[p].pc = "get"
    /\ IF pull[proc[p].at] = proc[p].snap.gen THEN proc' = [proc EXCEPT ![p] = After(@, "get", "check")]
       ELSE proc' = [proc EXCEPT ![p].pc = "fence", ![p].old = TRUE]
    /\ UNCHANGED <<secret, pull, ops, recorded, env, redeemed, made>>

\* mutant: a propagation that does not look at the fence.
AssertNoFence(p) ==
    /\ proc[p].pc \in {"fence", "final"}
    /\ Goes(p, IF proc[p].pc = "fence" THEN "put" ELSE "success")
    /\ UNCHANGED <<secret, pull, ops, recorded, env, redeemed, made>>

AssertFence(p) ==
    /\ proc[p].pc \in {"fence", "final"}
    /\ IF proc[p].fresh THEN Goes(p, IF proc[p].pc = "fence" THEN "put" ELSE "success") ELSE Ends(p)
    /\ UNCHANGED <<secret, pull, ops, recorded, env, redeemed, made>>

PutPull(p) ==
    /\ proc[p].pc = "put"
    /\ IF proc[p].old
       THEN /\ pull' = [pull EXCEPT ![proc[p].at] = proc[p].snap.gen]
            /\ proc' = [q \in Procs |-> IF q = p THEN After([proc[p] EXCEPT !.old = FALSE], "get", "check")
                                        ELSE [proc[q] EXCEPT !.old = @ /\ proc[q].at # proc[p].at]]
       ELSE Ends(p) /\ pull' = pull
    /\ UNCHANGED <<secret, ops, recorded, env, redeemed, made>>

CheckPull(p) ==
    /\ proc[p].pc = "check"
    /\ IF pull[proc[p].at] = proc[p].snap.gen THEN proc' = [proc EXCEPT ![p] = After(@, "check", "final")]
       ELSE Goes(p, "failed")
    /\ UNCHANGED <<secret, pull, ops, recorded, env, redeemed, made>>

RecordSuccess(p) ==
    /\ proc[p].pc = "success"
    /\ Result(proc[p].snap, "succeeded")
    /\ Goes(p, "finish")
    /\ UNCHANGED <<secret, pull, env, redeemed, made>>

FinishPropagation(p) ==
    /\ proc[p].pc = "finish"
    /\ Swap(p, [secret EXCEPT !.phase = IF secret.cred = "none" THEN "Anonymous" ELSE "Ready", !.work = "none",
                  !.pending = FALSE, !.op = NoRequest, !.rot = 0, !.seen = TRUE], Idle)
    /\ UNCHANGED <<pull, ops, recorded, redeemed, made>>

-----------------------------------------------------------------------------
(* Failures of a tick.  A poll, a refresh and a permanent refusal ask for  *)
(* a new authorization; anything else is tried again.                      *)

CallFails(p) ==
    /\ \/ /\ proc[p].pc \in {"device-poll", "granted"} /\ (~ env.authority \/ "provider" \in env.faults)
          /\ Goes(p, "lost")
       \/ proc[p].pc \in {"redeem", "propagate"} /\ "provider" \in env.faults /\ Goes(p, "lost")
       \/ proc[p].pc \in {"propagate", "get", "put", "check"} /\ "provider" \in env.faults /\ Goes(p, "failed")
    /\ UNCHANGED <<secret, pull, ops, recorded, env, redeemed, made>>

\* A failure that cannot be recorded leaves the work marker where it is.
RecordFailure(p) ==
    /\ proc[p].pc \in {"lost", "failed"}
    /\ \/ /\ Result(proc[p].snap, IF proc[p].pc = "lost" THEN "unknown" ELSE "failed")
          /\ Goes(p, IF proc[p].pc = "lost" THEN "reauthorize" ELSE "degrade")
       \/ "audit" \in env.faults /\ Ends(p) /\ UNCHANGED <<ops, recorded>>
    /\ UNCHANGED <<secret, pull, env, redeemed, made>>

SettleFailure(p) ==
    /\ proc[p].pc \in {"reauthorize", "degrade"}
    /\ LET again == proc[p].pc = "reauthorize"
       IN  Swap(p, [secret EXCEPT !.phase = IF again THEN "ReauthorizationRequired" ELSE "Degraded",
                      !.work = "none", !.pending = FALSE, !.op = IF again THEN NoRequest ELSE @], Idle)
    /\ UNCHANGED <<pull, ops, recorded, redeemed, made>>

-----------------------------------------------------------------------------
(* Around the processes: time, releases, sessions and process stops.       *)

RefreshComesDue ==
    /\ secret.cred = "device" /\ ~ env.due /\ secret.gen < MaxCredential
    /\ env' = [env EXCEPT !.due = TRUE]
    /\ UNCHANGED <<secret, pull, ops, recorded, proc, redeemed, made>>

\* A connection verified fifteen minutes ago is verified again.
ObservationAges ==
    /\ secret.phase = "Ready" /\ secret.seen
    /\ secret' = [secret EXCEPT !.seen = FALSE]
    /\ UNCHANGED <<pull, ops, recorded, proc, env, redeemed, made>>

WorkAges ==
    /\ secret.work # "none" /\ ~ env.overdue
    /\ env' = [env EXCEPT !.overdue = TRUE]
    /\ UNCHANGED <<secret, pull, ops, recorded, proc, redeemed, made>>

ReleaseChanges ==
    /\ "release" \in env.faults
    /\ env' = [env EXCEPT !.faults = @ \ {"release"}, !.images = TRUE]
    /\ UNCHANGED <<secret, pull, ops, recorded, proc, redeemed, made>>

AuthorityLapses ==
    /\ "authority" \in env.faults /\ env.authority
    /\ env' = [env EXCEPT !.authority = FALSE]
    /\ UNCHANGED <<secret, pull, ops, recorded, proc, redeemed, made>>

Stop(p) ==
    /\ proc[p].pc # "idle" /\ "crash" \in env.faults
    /\ env' = [env EXCEPT !.faults = @ \ {"crash"}]
    /\ Ends(p)
    /\ UNCHANGED <<secret, pull, ops, recorded, redeemed, made>>

Handle(r) == AcceptRequest(r) \/ BeginOAuth(r) \/ AwaitAuthorization(r) \/ StartFails(r) \/ GiveUpStart(r)
             \/ ChangeCredential(r) \/ RejectIntent(r)

Tick(p) == AdoptImages(p) \/ RecordInterrupted(p) \/ ReleaseInterrupted(p) \/ Claim(p) \/ Poll(p) \/ StorePolled(p)
           \/ AuditRefresh(p) \/ Redeem(p) \/ StoreRefreshed(p) \/ Inspect(p) \/ GetPull(p) \/ AssertFence(p)
           \/ PutPull(p) \/ CheckPull(p) \/ RecordSuccess(p) \/ FinishPropagation(p)
           \/ CallFails(p) \/ RecordFailure(p) \/ SettleFailure(p)

RegistryNext == \/ \E r \in Requests : Handle(r)
                \/ \E p \in Replicas : Tick(p)
                \/ \E p \in Procs : Stop(p)
                \/ RefreshComesDue \/ ObservationAges \/ WorkAges \/ ReleaseChanges \/ AuthorityLapses

RegistryFairness == WF_registryVars(WorkAges) /\ \A p \in Replicas : WF_registryVars(Tick(p))

RegistrySpec == /\ \E sc \in RegistryScenes : RegistryStart(sc)
                /\ [][RegistryNext]_registryVars
                /\ RegistryFairness

-----------------------------------------------------------------------------
\* The Secret, the pull Secrets and the processes keep their shapes.
RegistryTypeOK ==
    /\ secret \in Secret
    /\ pull \in [1..Namespaces -> 1..MaxCredential]
    /\ ops \in [Requests -> {"none", "Authorized", "Applied", "Unknown", "Reconciling"}]
    /\ recorded \subseteq Generations \X {"accepted", "succeeded", "failed", "unknown"}
    /\ proc \in [Procs -> Process]
    /\ env \in Surroundings
    /\ redeemed \in [Generations -> Nat]
    /\ made \in [Requests -> Generations]

\* A pull Secret never returns to an older credential, whatever a replica
\* that lost its claim still writes (synchronize reads, fences, replaces).
PullNeverGoesBack == [][\A n \in 1..Namespaces : pull'[n] >= pull[n]]_registryVars

\* A Ready connection has its credential in every release namespace, and an
\* operation reported Applied stored its credential, of which every namespace
\* carries that generation or a later one (tick, synchronize).
PropagationIsReal ==
    /\ secret.phase = "Ready" => \A n \in 1..Namespaces : pull[n] = secret.gen
    /\ \A r \in Requests :
          ops[r] = "Applied" => made[r] # 0 /\ \A n \in 1..Namespaces : pull[n] >= made[r]

\* A refresh token is presented once: "Never retry it after a crash/unknown
\* result" (tick).
RefreshOnce == \A g \in Generations : redeemed[g] <= 1

\* A claimed Secret is released: replicas keep ticking, and a marker whose
\* owner stopped is taken back when it is two minutes old.
WorkIsReleased == secret.work # "none" ~> secret.work = "none"
=============================================================================
