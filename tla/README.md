# OpenSphere Console: TLA+ verification project

This directory models the part of the OpenSphere Console that decides what may
happen to a cluster and keeps the record of what did: the ledger of governed
operations, the controller that executes them against Kubernetes, the identity
components that say who may ask, the lifecycle of installed extensions, the OS
Shell, and the three services that keep promises of their own: registry
credentials, dialogue state and notifications.

Paths are relative to the repository (`src/` is its root). Modules and configurations are
run from this directory:

    tlc -config Ledger.cfg MCOperationLedger
    tlapm OperationLedger_proofs.tla

## 1. The system

### 1.1 Components

| Component | Where | State it keeps | Operations that change it |
|---|---|---|---|
| Operation ledger | `migrations/baseline/0001`, versions 0009, 0022, 0023, 0033, 0036, 0039, 0040 | PostgreSQL rows: operations, approvals, outbox, receipts, revocations | SECURITY DEFINER functions: accept, approve, record proposal / merge, claim, renew, apply, observe, fail, verify |
| Operation lifecycle contract | `packages/domain/src/operation-state.mjs` | - | the closed transition table |
| C_EXT worker | `apps/extension-controller/src/{controller,kubernetes-registration-writer,postgres-store,server}.mjs` | none of its own between passes; a claim in the ledger, a `UIPluginRegistration` in Kubernetes | `runOnce`: claim, resolve, renew, write, record, observe |
| C_EXT lifecycle reconciler | `.../kubernetes-extension-lifecycle.mjs` | Registration status, workloads, Services, endpoints | readiness evidence, revision cleanup, conditional delete |
| C_EXT extension management | `.../kubernetes-extension-management.mjs`, `.../extension-management-*.mjs` | Registration `desiredState`, navigation, bindings | set desired state, rollback, bind |
| C_EXT proxy, egress policy, discovery | `.../plugin-proxy.mjs`, `.../kubernetes-api-egress-policy.mjs`, `.../ghcr-module-discovery.mjs` | caches, endpoint slices | forward, refresh, publish |
| C_API operation service | `apps/console-api/src/operation-service.mjs`, `packages/authz` | - (calls the ledger) | accept, approve, verify |
| C_API browser sessions | versions 0002-0010, `identity-session-broker.mjs` | session rows: refresh generation, assurance, idle and absolute expiry | issue, activate, refresh, step up, touch, revoke |
| C_API managed identities | versions 0011, 0016, 0017, `identity-operations.mjs` | authority rows (role, permission revision, revoke epoch), lifecycle operations; users in Supabase Auth | bootstrap, create, enable, disable, profile, MFA reset, recovery link, change role; prepare / complete around the Auth service |
| C_API CLI device identity | versions 0018, 0019, `cli-identity-broker.mjs` | devices, challenges, bearer sessions | enrol, challenge, answer, revoke |
| C_API platform changes | versions 0022-0024, 0039, `platform-change-operations.mjs`, `gitea-change-client.mjs` | receipts; branch, commit and pull request in Gitea | propose, merge, record |
| C_API registry credentials | version 0027, `registry-credential-broker.mjs` | one Kubernetes Secret with credential and lifecycle, a pull Secret per release namespace, audit events | authorize, replace, remove; the tick: poll, refresh, propagate, release interrupted work |
| C_API audit ledger | baseline 0001 | hash-chained rows | append |
| C_SCTL OS Shell control | versions 0029, 0035, 0043, 0044, `apps/os-shell-control` | shell sessions, attach tickets, feature state, command ledger; one Pod per session | create, claim, heartbeat, register, attach, tear down, disable the feature |
| C_DST dialogue state | version 0030, `apps/osdst` | conversations, turns with a lease and an attempt count, revisions of the transition log, recovery receipts | begin, heartbeat, complete, fail a turn; archive, delete; reap, recover, purge |
| C_AI OSAA gateway and adapter | versions 0031, 0032, `apps/osaa-gateway`, `backend/osaa-governed-adapter` | provider settings, tool executions | call a model, run a governed tool |
| C_NOTIFY dispatcher | `apps/notification-dispatcher` | events, deliveries, attempts, channel health | claim, materialize, send, record, settle, retry, give up |
| C_BAK recovery owner | `apps/recovery-owner` | channel configuration, backup jobs | configure, run |
| C_REG registry | `backend/registry` (Go) | resolved catalogue | resolve a candidate |
| C_CLI | `cmd/os-cli` (Go) | local credentials, the installed binary | commands, self-update |
| C_WEB | `apps/console-web` (Angular) | view state | - |
| Contracts, manifests, scripts | `packages/contracts`, `deploy`, `scripts` | - | - |

`apps/console-api/runtime` and `apps/extension-controller/runtime` are the
retained former implementations that the services above replace.

### 1.2 How they interact

* C_WEB and C_CLI call C_API over HTTP. C_API holds no authority itself: it
  calls ledger functions, which check session, permission revision and
  permission again in the same transaction that writes.
* C_API and C_EXT never call each other. An accepted or approved operation
  leaves an **outbox row**; a C_EXT worker *claims* the row, does the work in
  Kubernetes, and calls a ledger function that writes the receipt, moves the
  operation and marks the row delivered in one transaction. An install or a
  removal then gets a second row asking for an **observation** of the result.
* C_EXT writes a `UIPluginRegistration`; the lifecycle reconciler turns it into
  workloads and reports readiness in its status; extension management changes
  `desiredState` beside the ledger.
* C_API carries a reviewed declaration to Gitea and records proposal and merge;
  the outbox row of such an operation cannot be claimed before the merge.
* C_SCTL repeats the claim pattern for shell sessions, with a Pod as the object
  outside the database.
* The session broker of C_API stands between the browser, Supabase Auth (users,
  factors, refresh tokens) and the session rows; managed identities and CLI
  devices act on the same users and authority rows.
* Every C_API replica ticks on one registry Secret; every dispatcher polls one
  delivery table; the OSAA gateway holds the lease of a turn while it executes
  it, and C_DST's maintenance takes over turns whose gateway is gone.

### 1.3 What is hard here

* Claims are leases. A worker that was slow, or whose process was replaced, goes
  on with a claim that is no longer its own; only an epoch compared in the
  ledger tells the two apart, and **Kubernetes does not see that epoch**.
* Every unit of work is a pair (Kubernetes write, receipt) with a gap between:
  a crash in the gap makes the retry meet its own earlier write.
* Revocation races an install at each of its awaits.
* Independence of the approver is about *persons*, not accounts.
* Two event kinds, two retry rules: the apply phase is retried without limit, the
  observation phase at most `maxObservationAttempts` times.
* Shell sessions and browser sessions add expiry by time, and permissions that
  change under a session that is already running.
* Identity changes are a transaction, then calls to Supabase Auth, then a
  transaction: what was read before the call is stale after it, and a cleanup
  may undo what a lost answer had in fact committed.
* A refresh token is good for one exchange. Two requests exchange it at once, or
  a process stops after presenting it and before storing the answer.
* A pass of the lifecycle reconciler is a dozen requests long and works from the
  Package and Registration it read first, which operators, releases and a second
  reconciler change meanwhile.
* Deletions are foreground ones: a deleted object can be read and written until the
  garbage collector takes it away, and nothing reads `deletionTimestamp`.
* Deliveries and turns are retried, and the retry is told from the first try by
  a count that is written in another statement than the effect it counts. An
  operator's retry is a GET and then an unconditional PATCH.
* An SMTP dialogue has no timeout.

### 1.4 What makes each component correct

| Component | Properties |
|---|---|
| Operation ledger | moves only along the lifecycle; one operation per idempotency key; no claim before approval by another person and before the merge; one receipt per phase, written only under the last claim; work is neither lost nor duplicated; Verified implies evidence; revocation is final |
| C_EXT worker | absence is recorded only when the object is gone; side effects are reported truly; writes belong to a live claim; applied operations conclude; a revocation is not starved |
| Lifecycle reconciler | only verified releases are served; a revision in use is not collected; an uninstall leaves nothing, and takes effect only while it is wanted; the desired state is reached |
| Extension management | the audit tells what a call did, also when it was cut short between its two writes |
| Browser sessions | a rotated refresh pair is never overwritten by a slower request; what ended stays ended, whatever was waiting for Auth meanwhile |
| Managed identities | there is always an administrator; one initial administrator; an authority row has its user; an MFA reset ends the assurance it takes away |
| CLI device identity | a challenge is answered once; a revoked device has no live session; a disabled person has none |
| Platform changes | one pull request per operation across retries; the merge recorded is of the approved commit |
| Registry credentials | Ready and Applied mean every namespace has the credential; no namespace goes back; a refresh token is presented once; a claimed Secret is released |
| Audit ledger | one successor per entry |
| OS Shell | an attach ticket is used once and only under its generation and epoch; quotas hold; a terminated session has no Pod; disabling the feature drains every session |
| Dialogue state | one live turn per conversation; a transition extends the revision it was computed from; an answer is final; turns conclude and deleted conversations are purged |
| Notification dispatcher | attempts are counted without gap; sends are bounded; accepted is final; a delivery concludes |

## 2. Plan

Ordered by how much the rest of the console rests on it.

| # | Module | Models | Composes | State |
|---|---|---|---|---|
| 1 | `OperationLifecycle` | the domain's transition table, as the abstract specification | - | done |
| 2 | `OperationLedger` | the ledger functions | implements 1 | done, proved in `OperationLedger_proofs` |
| 3 | `ExtensionController` | C_EXT workers, Registrations | extends 2 | done, proved in 7 |
| 4 | `ShellAuthority` | the functions of version 0029 | - | done, proved in 6 |
| 5 | `ShellReconciler` | the C_SCTL reconciler, Pods | extends 4 | done, proved in 6 |
| 6 | `ShellReconciler_proofs` | the authority alone, then with its reconcilers | 4, 5 | done |
| 7 | `ExtensionController_proofs` | every step of `ControllerSpec` is a step of `OperationLedger!Spec`, so the theorems of 2 hold of the controller | 2, 3 | done |
| 8 | `OperationLedger_proofs` | the ledger, its refinement of 1, dispatch and fencing | 2 | done |
| 9 | `BrowserSession` | versions 0002-0010, the session broker, Supabase Auth as its client uses it | - | done, proved with 12 |
| 10 | `ManagedIdentity` | versions 0011, 0016, 0017: prepare / complete around the Auth service, roles, the first administrator | extends 9 | done, proved with 12 |
| 11 | `CliIdentity` | version 0018: enrollment, challenge, answer, session, revocation | extends 10 | done, proved with 12 |
| 12 | `IdentityAuthority` | the three together, and the properties of identity | 9, 10, 11 | done, proved in `IdentityAuthority_proofs` |
| 13 | `RegistryCredential` | version 0027, the credential broker, its Secret store | - | done, proved in `RegistryCredential_proofs` |
| 14 | `DialogueState` | version 0030, `conversation-store.js`, the leased execution of the gateway | - | done, proved in `DialogueState_proofs` |
| 15 | `NotificationDispatch` | the dispatcher's `runOnce`, `0011_notification_delivery.sql` | - | done, proved in `NotificationDispatch_proofs` |
| 16 | `ExtensionLifecycle` | the lifecycle reconciler, its workloads and revision cleanup; desired state and rollback of extension management | the detail behind `Reconcile` and `SetDesiredState` of 3 | done, proved in `ExtensionLifecycle_proofs` |

The abstract specifications worth stating are the transition table (1), which the
ledger is shown to implement, and the ledger as the abstraction of the
controller (7).

## 3. The modules

### 3.1 OperationLifecycle

`packages/domain/src/operation-state.mjs`: each operation has a state and a
version; a step moves one operation along the closed table, by one edge or by
two in one transaction, and counts the edges. It is the abstract specification
that `OperationLedger` implements.

### 3.2 OperationLedger

One action per ledger function. A transaction that raises, or answers an
idempotent replay, changes nothing and is a disabled action.

| Action | Function |
|---|---|
| `Accept` | `accept_operation`, `accept_gitea_module`, `accept_development_module_install` |
| `Approve` | `approve_operation` |
| `RecordProposal`, `RecordMerge` | `record_gitea_proposal`, `record_gitea_merge` |
| `Claim` | `claim_owner_operation` as of version 0039 |
| `RenewOwnerClaim` | `renew_owner_claim` |
| `ApplyRevocation`, `ApplyInstallRegistration`, `ApplyRemoveRegistration` | the apply functions: receipt, state, delivery and the observation row |
| `RecordInstallObservation`, `RecordRemoveObservation` | the observation functions |
| `RecordExecutionFailure` | `record_execution_failure`, in both phases |
| `VerifyExtensionOperation` | `verify_extension_operation` |
| `SessionChanges`, `LeaseExpires` | the environment: people and time |

Why a function is one action: each runs in one READ COMMITTED transaction that
takes the outbox and operation rows `FOR UPDATE` (or `FOR SHARE`) before it reads
what it decides on; `accept_operation` first takes an advisory lock on actor and
key. `claim` uses `SKIP LOCKED`; `NextInLine` therefore lets a claim pass over a
row whose former owner is just calling. An owner call may come from any worker
with any epoch up to the bound: this includes every late, repeated or confused
call, not only those that `controller.mjs` makes.

### 3.3 ExtensionController

Extends the ledger with what `runOnce` in `controller.mjs` keeps between its
awaits (`job`: the program counter, claimed row, epoch and the object read) and
with the Kubernetes side. A worker's steps are its awaits:

    claim -> resolve -> renew -> assert not revoked -> GET package
          -> GET Registration -> POST | PATCH -> record | fail
    claim -> renew -> GET package -> GET Registration -> assert -> record | fail

`Return` is a return or a throw: the claim then waits for its lease to run out,
as in the code. `Reconcile` is the lifecycle reconciler's visible effect
(readiness, failure, the delete of an uninstalled Registration) and
`SetDesiredState` extension management's; both are conditional on the object read
and so are single steps. `Governance` is C_API's side.

### 3.4 ShellAuthority

The rows of version 0029 (session, attach ticket, feature state) and one action per
function: `CreateSession`, `IssueAttachTicket`, `ConsumeAttachTicket`,
`TouchActivity`, `RequestTeardown` for the browser and the gateway;
`RegisterRuntime`, `AuthorizeRuntimeAttach` for the runtimes; `ClaimSession`,
`Heartbeat`, `ReprojectRuntime`, `RevokeAuthority`, `Transit` for the reconciler;
`ApplyFeatureState` (three callers), `SetupActivates`, `ObserveDrain`, `ClaimScaleDown`,
`CompleteScaleDown` for the release controller. Every fenced call may carry any
fence ever handed out. `FenceNotLost` is weaker than `Fence` because three
functions compare `lease_owner <> worker`, which is NULL, and so does not raise,
when nobody owns the lease.

### 3.5 ShellReconciler

Extends `ShellAuthority` with the `tick` and `reconcile` of
`apps/os-shell-control/server.js`: the reconcile call each process is in (`job`),
its in-memory `active` map, the Pod of each session, and the binding every Pod was
created with. `Throw` has the three meanings of the code: caught in the active
loop (revoke, then reconcile again), thrown a second time (forget the session), or
logged for a claimed row (the lease runs out).

### 3.6 BrowserSession, ManagedIdentity, CliIdentity, IdentityAuthority

`BrowserSession` has the session rows, the authority rows, and Supabase Auth
(`account`, `family`), which is external. A request of the broker awaits Auth and
the database in turn; `call` is its place in the handler and what it has read, and
each await ends an action:

    login    LoginAuth -> LoginIssue [-> Logout]
    resolve  ReadCredentials [-> RefreshAuth -> Rotate -> Settle
                              |  RefreshAuth -> PeerRotation [-> RejectRefresh]]
    aal2     ReadForTotp -> VerifyTotp -> CompleteTotp [-> Logout]
    recover  RecoverAuth -> RecoverRevoke -> RecoverLogout

Step-up and enrollment resolve their session first, as `resolveSession` runs
before their handlers. `RevokeOwned` is the user's own revocation.

`ManagedIdentity` adds administrative tasks. Each lifecycle task is `Prepare` (the
database accepts it under its idempotency key), the Auth effect (`ReadUser` and
`WriteUser`, `CreateUser`, or `RemoveFactors`), `Complete`, and `Undo` where the
broker rolls back. `CompleteFails` has both meanings of a failed call: the
transaction was refused, or it committed and the answer was lost. `ChangeRole`
and the initial administrator's claim complete the module.

`CliIdentity` adds enrollments (an approved enrollment is a device), challenges and
sessions; answering a challenge is two transactions (`ReadChallenge`,
`CompleteCliSession`) with the signature check between them.

`IdentityAuthority` composes the three: they share the users, authority rows and
sessions, and its properties are about one of them acting in the middle of
another.

### 3.7 RegistryCredential

The Secret `opensphere-registry-auth` (`secret`), the pull Secrets of the release
namespaces (`pull`), the audit ledger's events (`recorded`), and for every process
its place in `tick` or in a request handler (`proc`). A write of the Secret is a
compare-and-swap, so a process keeps only whether the version it read is still the
current one (`fresh`). `Claim` writes the work marker; then follow the calls of a poll
(`Poll`, `StorePolled`), a refresh (`AuditRefresh`, `Redeem`, `StoreRefreshed`) or a
propagation (`Inspect`, then per namespace `GetPull`, `AssertFence`, `PutPull`; then
`CheckPull`, `AssertFence`, `RecordSuccess`, `FinishPropagation`).
`RecordInterrupted` and `ReleaseInterrupted` take back a marker two minutes old.

### 3.8 DialogueState

One conversation, its turns, and the gateways that execute them. The lease of a
turn is named by its attempt. `Heartbeat` and `HeartbeatCommit` are two steps because
`heartbeatTurn` holds the turn's row lock between its UPDATE and its COMMIT and does
not lock the conversation, as every other function does; the variable `revived`
records that a lease ran out in between and was renewed all the same.
`ReapTurns` fails all turns that can be reaped in one transaction, and writes one
recovery receipt per attempt.

### 3.9 NotificationDispatch

One event, its deliveries per channel, and the dispatchers. Each PostgREST call of
`runOnce` is an action of its own, because nothing joins them in a transaction:
`ClaimDeliveries`, then per delivery `ReadContext`, `Send`, `RecordAttempt`,
`SettleDelivery`, `WriteHealth`; any of them may throw to `Catch`, which completes the
delivery as retryable through the same three writes.

An operator's retry (`browser-api.js`, `retryDelivery`) is two requests as well:
`ReadRetry` reads the delivery and refuses one that has not failed, `PatchRetry` writes
`queued`, no lock and the generation it read plus one, by the id alone and whatever the
delivery has become. The requests are the constant `Retries`; the history field `late`
of a request says that the delivery was no longer failed when it was written.

A provider may also go silent. The HTTP channels pass an abort signal, so their
silence is the timeout in `Send`. `smtpConnection`, `smtpReader` and `smtpSend`
(`server.js:148-213`) set none and listen neither to `end` nor to `close`: `Send` then
moves to `"wait"`, from where only `SmtpAnswers` (a late answer, or an error of the
socket) leads on, and nothing says that it happens. Claims age under a waiting
dispatcher as they do under one that is gone.

### 3.10 ExtensionLifecycle

The UIPluginPackage (`pkg`: its release, and the one its signed envelope names), the
Registration (`reg`), the workloads of every release (`made`, `up`), the stable
Service (`active`, and `leaving` once its deletion was asked for), a pass of each
reconciler (`pass`) and the management calls
(`call`) with their audit outcome. `ReconcileOnce` follows `reconcileOnce`:

    ListRegistrations -> ReadPackage -> Upsert (twice) -> Rollout [Installing]
      -> VerifyRelease -> MoveService [-> ServiceIsGone] -> PlanCleanup
      -> DeleteRevision* -> Conclude
    ListRegistrations -> ReadPackage -> MoveService [-> ServiceIsGone] -> PlanCleanup
      -> DeleteRevision* -> DeleteRegistration -> ObserveDeletion      (Uninstalled)

any of which may go to `MarkFailure`. `made` says how much of a revision exists:
`"part"` stands for some of its ServiceAccount, Deployment, Service and disruption
budget, `"going"` for a Deployment whose foreground deletion is not over. A pass that
deletes a revision notices (`changed`) that somebody re-created part of it, because the
UID or resourceVersion is not the listed one.

The removal of the Service and of the Registration is a request, a reading and a later
event, as in the code. `DeleteRegistration` sends the DELETE with the UID and
resourceVersion that were read (`lifecycle.mjs:466`): the API server marks the object,
which is a change of it (`MarkDeleted`), or answers 409; a marked one is not marked
again. `ObserveDeletion` reads it back: gone, still there (DeletionPending) or another
one (ResourceOwnershipMismatch), and the last two fail the pass. `RegistrationVanishes`
and `ServiceVanishes` are the garbage collector. Between mark and disappearance the
Registration has `deleted = "pending"`; a management call may still write its spec,
which turns that to `"revived"`, and passes go on working for it. `MoveService` and
`ServiceIsGone` are the two halves of `remove` for the stable Service.

A management call is `BeginCall` (audit
event "accepted", the two reads), `RollbackPackage` for a rollback,
`PatchRegistration`, `RecordOutcome`.

`ExtensionController` sees of all this only the Registration; its `Reconcile` may
report readiness and failure, and delete, at any time.

### 3.11 Scenes

Most instances start from one of several **scenes**: which requests are made, which
processes run, which faults happen. A scene is chosen in the initial state and
changes nothing in the actions. It lets one run cover several situations whose
product would be too large.

## 4. The runs

Between them the passing runs take every action. `CHECK_DEADLOCK FALSE`
stands where an instance may come to rest: all requests closed, or the bounds met.

| Run | Instance | Shows | States |
|---|---|---|---|
| `ledger` | Git-reviewed install, direct install under its key, removal and revocation; 3 subjects of 2 persons, 2 workers, 2 claims per row; in two scenes (below) | TypeOK; DispatchMatchesState; ReceiptsAreFenced; OneOperationPerKey; VerifiedIsJustified; ClaimedOnlyWhenAuthorized; ImplementsLifecycle; RevokedImageGainsNothing | 405,819 |
| `controller_remove` | install and removal; 2 workers with expiring leases, or 1 that also crashes beside extension management | RemovalIsReal | 2,104,813 |
| `controller_live` | install and revocation, 1 worker, crashes, timeouts, package changes, 3 claims | RevocationConcludes; ObservationConcludes | 209,572 |
| `side_effect` | install and revocation, crash | **violated**: NoneMeansNoWrite | |
| `shell_authority` | one session, one ticket, epochs to 3, 2 generations, one permission change | ReadyIsRegistered; DrainHolds; TeardownIsFinal; MutationGuardHolds | 182,018 |
| `shell_reconcile` | 2 reconcilers, slow, crashing, meeting timeouts, a permission change; or 1 in time with crash, timeout, idleness, logout, disable | AttachedRuntimeIsBound; TeardownConcludes | 678,152 |
| `lifecycle` | 3 releases, 2 management calls, 1 or 2 reconcilers; 11 scenes | OutcomeIsTrue; ServedIsSound; UninstallIsComplete; LifecycleSettles | 680,322 |
| `identity` | 2 subjects, 3 sessions, 2 devices; 11 scenes of requests that meet; requests stop anywhere, answers are lost | AdminContinuity; AuthorityHasAccount; ResetEndsAssurance; CliSessionsAreEarned; PairNeverGoesBack; EndedStaysEnded | 547,171 |
| `registry` | 2 replicas, 2 namespaces, 3 generations; 6 scenes of requests and faults | PropagationIsReal; RefreshOnce; PullNeverGoesBack; WorkIsReleased | 444,501 |
| `dialogue` | 2 turns, 2 gateways, 2 attempts; crash, lost answers, paused heartbeats | TurnsAreSerial; TransitionsAreFresh; AnswerIsFinal; TurnConcludes; DeletedIsPurged | 252,900 |
| `notification` | 2 dispatchers, up to 2 channels, 2 attempts, 1 or 2 retries; 8 scenes of faults | AttemptsAreCounted; SendsAreLimited; AcceptedIsFinal; DeliveryConcludes | 431,356 |
| `notification_poison` | 2 dispatchers, one stops | **violated**: SendsAreAlwaysLimited | |

The type invariants of the modules other than the ledger (`ControllerTypeOK`,
`ReconcilerTypeOK`, `ShellAuthority!TypeOK`, `IdentityTypeOK`, `RegistryTypeOK`,
`DialogueTypeOK`, `NotificationTypeOK`, `LifecycleTypeOK`) are proved as part of the inductive
invariants of section 6 and left out of the configurations; add them to one when a module changes.

### 4.1 The bounds, and why they are enough

* **MaxClaims** (2 or 3): a lease may expire, or a worker crash, until a row has
  been claimed that often. Two claims give every pair (stale owner, present
  owner) of one row; a third owner compares the same epoch with the same code.
  The liveness run takes 3 so that an observation (`MaxAttempts` = 2) can fail, be
  retried, and fail for the last time with a claim to spare.
* **The scenes of the ledger**: `MCOperationLedger` restricts the steps to two
  situations, *Review* (the alias signs in, one worker whose leases hold) and *Revoke*
  (a direct install, a revocation of its image, two workers, expiring leases). The
  restriction is on the joint occurrence of both, not on any single action.
* **Requests**: two at a time, chosen to interfere: an install with the revocation
  of its image, an install with the removal of its extension, two requests under
  one key. The ledger relates no three operations.
* **Uids**: one per object that can be created. An extension is created again after
  a removal, so two; a shell session's Pod is created by two claims and one
  reprojection, so three.
* **Subjects**: requester, approver, and in `ledger` an alias of the
  requester's person, which is the case independence is about.
* **MaxEpoch**, **MaxGeneration**, **MaxRevision** (3, 2, 1): two claims of one
  session (epoch 1 is the row's own), one reprojection, one permission change: a
  fence has a predecessor in each of its components.
* **Sessions**, **Tickets**: one. Sessions share nothing but the quotas and the
  feature row, whose functions treat all of them alike; the quotas are not checked.
* **Faults** names the faults a scene explores; `"slow"` lets a lease run out
  at any await.
* **Identity scenes**: two or three requests on the same rows, because every race the
  broker guards against is between one that waits for Auth and one that writes
  meanwhile. **MaxGen** = 4: the first pair, and one each for three requests that
  renew it.
* **MaxCredential** = 3, **Namespaces** = 2: a credential, its refresh or
  replacement, and one after that, so a late writer can be two generations behind; two
  namespaces, so a propagation can stop halfway.
* **MAX_TURN_ATTEMPTS** = 2 (5 in the code), two turns: a turn that is
  retried while another waits for the conversation.
* **MAX_ATTEMPTS** = 2 (8 in the code), **Retries** = two requests, **MaxSends** = 5: `sends`
  is a history counter that stops counting at 5, one above the largest value that any
  checked property allows. Two retries give every overlap of two; the limit on sends is
  proved for any number.
* **Lifecycle scenes**: a removal another operator takes back; an update, removal and
  re-installation with failing requests and Pods; a rollback that races the next
  release; two updates that never start or do not verify (four combinations); the
  official module; two installations; two reconcilers in an update and in a removal.
  Three releases: a pass may work on one while the Service selects a second and the
  Package names a third. At most two publications and one failure, crash or lost Pod
  per behaviour, placed anywhere. Two reconcilers meet each other without further
  failures.

`SYMMETRY` (workers and UIDs) is used only in `controller_remove`.

## 5. Fairness

Used by `controller_live`, `shell_reconcile`, `lifecycle`, `registry`, `dialogue` and
`notification`.

* **Controller.** Weak fairness of `ClaimWork` and `WorkerStep` for each worker:
  `cycle` in `server.mjs` reschedules itself after every pass, also after one that
  threw, and each await ends in an answer or a timeout. Weak fairness of
  `LeaseRunsOut`: time passes. Nothing is assumed of the reconciler, the package,
  or of people. Without `"slow"` a lease does not run out while an idle worker has
  something to claim: the lease is at least 5 s (30 by default), the pause between
  passes 1 s by default. The configuration admits a pause of up to 60 s
  (`server.mjs:41-42`), under which a row that keeps failing at the head of the
  queue could be re-claimed before the rows behind it: `RevocationConcludes`
  depends on this.
* **Shell.** `tick` runs every 3 s, a lease lasts 15 s, a Kubernetes request at
  most 5 s. Weak fairness of `ClaimWork` and `WorkerStep` per reconciler and of the
  leases. Without `"slow"` a reconciler keeps the lease of a session it works on
  (`InTime`).
* **The bound on epochs under liveness.** A counter that stops would end every
  behaviour and make a liveness claim false or hollow. Past `MaxEpoch` a lease
  therefore still runs out (`LastLeaseRunsOut`) when the session is to be torn down
  and no reconciler holds a fence of it; the next claim keeps the number. No
  process can tell the difference, so the lasso of `ShellStuckPermission.cfg` is a
  behaviour of the program.

* **Lifecycle.** `cycle` re-arms its timer in a `finally`, and each request has a
  timeout: weak fairness of `ReconcileOnce` per reconciler. Weak fairness of `PodsStart`,
  `Vanish`, `RegistrationVanishes` and `ServiceVanishes`: Kubernetes starts what can start
  and finishes foreground deletions.
  Nothing is assumed of operators, releases or management calls.
* **Registry.** `tick` runs on a timer in every replica (`server.mjs`) and each of its
  calls has a timeout: weak fairness of `Tick` per replica. Weak fairness of
  `WorkAges`: time passes. Nothing is assumed of requests, providers or sessions.
* **Dialogue.** An execution ends (its model and tool calls have timeouts) and then
  fails its turn if nothing else happened; a heartbeat's transaction ends; a lease
  that no execution renews runs out; reaping and purge run on timers
  (`osdst/server.js`). Completion is not assumed: a turn may always fail.
* **Notification.** The dispatchers poll on a timer, and their calls to Supabase and to
  the HTTP providers time out: weak fairness of `RunOnce` per dispatcher, and of the
  aging of claims. SMTP has no timeout, so `SmtpAnswers` is not part of `RunOnce` and no
  fairness is assumed of it: a dispatcher may wait for ever. `DeliveryConcludes` is
  therefore the claim that a queued delivery concludes unless *every* dispatcher waits.
  Nothing is assumed of operators.

## 6. The proofs

Every safety property that a run checks is also proved, for all values of the
constants. Each component's theorems are in the module `<component>_proofs`, which
extends the component; none is taken on trust, and the bounds TLC needs
(`MaxClaims`, `MaxEpoch`, `MaxGen`, `MaxCredential`, `Retries`, the scenes) are
arbitrary in the proofs.

| Module | Theorem | States |
|---|---|---|
| `OperationLedger_proofs` | `LedgerInvariant`, `DispatchInvariant` | `Spec => []LedgerInv`, `[]DispatchInv`, the inductive invariants |
| | `TypeCorrectness` | `Spec => []TypeOK` |
| | `Authorization` | `Spec => []ClaimedOnlyWhenAuthorized` |
| | `Justification` | `Spec => []VerifiedIsJustified` |
| | `Idempotency` | `Spec => []OneOperationPerKey` |
| | `DispatchAgreement` | `Spec => []DispatchMatchesState` |
| | `Fencing` | `Spec => []ReceiptsAreFenced` |
| | `LifecycleRefinement` | `Spec => ImplementsLifecycle` |
| | `RevocationHolds` | `Spec => RevokedImageGainsNothing` |
| `ExtensionController_proofs` | `ControllerInvariant` | `ControllerSpec => []ControllerInv` |
| | `LedgerRefinement` | `ControllerSpec => Spec` |
| | `LedgerHoldsUnderWorkers` | the invariants of the ledger, of `ControllerSpec` |
| | `RealRemoval` | `ControllerSpec => []RemovalIsReal` |
| `ShellReconciler_proofs` | `ShellInvariant`, `ShellTypeCorrectness` | `Spec => []ShellInv`, `[]TypeOK` (the authority alone) |
| | `ReadinessIsRegistration`, `DrainIsStable` | `Spec => []ReadyIsRegistered`, `[]DrainHolds` |
| | `TeardownFinality`, `MutationGuard` | `Spec => TeardownIsFinal`, `MutationGuardHolds` |
| | `ReconcilerInvariant` | `ReconcilerSpec => []ReconcilerInv` |
| | `AttachedRuntimes` | `ReconcilerSpec => []AttachedRuntimeIsBound` |
| | `AuthorityUnderReconcilers` | the four properties of the authority, of `ReconcilerSpec` |
| `ExtensionLifecycle_proofs` | `LifecycleInvariant`, `LifecycleTypeCorrectness` | `LifecycleSpec => []LifecycleInv`, `[]LifecycleTypeOK` |
| | `SoundService` | `LifecycleSpec => ServedIsSound` |
| | `EndingHolds` | `LifecycleSpec => []Ending`, the second induction |
| | `CompleteUninstall` | `LifecycleSpec => UninstallIsComplete` |
| | `TrueOutcomes` | `LifecycleSpec /\ AnswersAreWhole => []OutcomeIsTrue` |
| `IdentityAuthority_proofs` | `IdentityInvariant`, `IdentityTypeCorrectness` | `IdentitySpec => []IdentityInv`, `[]IdentityTypeOK` |
| | `AdministratorsContinue`, `AccountsRemain`, `AssuranceEnds`, `CliSessionsEarned` | `[]AdminContinuity`, `[]AuthorityHasAccount`, `[]ResetEndsAssurance`, `[]CliSessionsAreEarned` |
| | `PairsGoForward`, `EndedForever` | `PairNeverGoesBack`, `EndedStaysEnded` |
| `RegistryCredential_proofs` | `RegistryInvariant`, `RegistryTypeCorrectness` | `RegistrySpec => []RegistryInv`, `[]RegistryTypeOK` |
| | `RealPropagation`, `ForwardPull` | `[]PropagationIsReal`, `PullNeverGoesBack` |
| | `PresentedOnce` | `RegistrySpec /\ ReconnectionsStart => []RefreshOnce` |
| `DialogueState_proofs` | `DialogueInvariant`, `DialogueTypeCorrectness` | `DialogueSpec => []DialogueInv`, `[]DialogueTypeOK` |
| | `SerialTurns`, `FreshTransitions`, `AnswerFinality` | `[]TurnsAreSerial`, `[]TransitionsAreFresh`, `AnswerIsFinal` |
| | `OpenRecovery` | `[]RecoveryIsOpen`, the safety half of `TurnConcludes` |
| `NotificationDispatch_proofs` | `NotificationInvariant`, `NotificationTypeCorrectness` | `NotificationSpec => []NotificationInv`, `[]NotificationTypeOK` |
| | `CountedAttempts`, `LimitedSends`, `FinalAcceptance` | `[]AttemptsAreCounted`, `[]SendsAreLimited`, `AcceptedIsFinal` |

### 6.1 Assumptions

All are named, stand in the module that declares the constant and are evaluated by TLC
on every run. Null values (`NoSubject`, `NoWorker`, `NoUid`, `NoReg`, `NoRelease`,
`NoRequest`, `NoOne`, `NoSession`) are not members of their sets; bounds are natural
numbers. Those that say something of the code:

* `RequestsAssumption`: a Git-reviewed request is an install that needs an approval, a
  local one an install that needs none, which is what the two intake functions admit.
* `SubjectsAssumption`, `OwnerAssumption`, `SessionsAssumption`, `ExtensionAssumption`,
  `KindAssumption`: what a name stands for is fixed for life (a subject's person, a
  session's owner, an image's extension, the kind of a request).
* `LoginsAssumption`: each login request is for a session of its own; session ids are
  random (`identity-session-broker.mjs`).
* `MaxAttemptsAssumption` (controller): the attempts of a failing installation are within the
  bound on claims.
* `ScenesAssumption`, `RegistryScenesAssumption`, `LifecycleScenesAssumption`: the start of
  a scene is a state the component leaves behind: an administrator where there are managed
  identities, sessions of managed subjects, what serves was verified.

Two theorems have a hypothesis on the behaviour. `PresentedOnce` excludes a reconnection
that fails to start while a device credential is connected, `TrueOutcomes` an answer that
breaks off in its body. Both are findings (section 7: `RegistryRetry.cfg`,
`ManagementCut.cfg`); the theorems say that nothing else breaks these properties. Likewise
`SerialTurns` and `LimitedSends` prove properties that carry their exception in their
own text: a heartbeat paused across the end of its lease, a dispatcher that was disturbed.
`FinalAcceptance` excepts a delivery that a late retry wrote as well, and `CompleteUninstall`
says nothing of a marked Registration that an operator wrote before it went.

### 6.2 The arguments

None of the main properties is inductive. What each invariant adds, and which step needs
it (TLC checked each invariant on the scenes of its component before it was proved):

* **Ledger.** `ApprovedByAnother`: a recorded approver is another person, and a request
  that needs one does not leave Planned without. `DispatchedAfterApproval`: `Claim` needs
  it, for the row it takes is then of an approved request. `ClaimedAfterMerge`: the apply
  functions check the claim, not the merge. `AppliedAfterMerge`:
  `VerifyExtensionOperation` asks only for receipts. `DispatchInv` relates, for one
  operation, its dispatch row (`DispatchedOnce`), its observation row (`ObservedOnce`) and
  its receipts (`ReceiptsMatchState`) to its state; the fence of a receipt follows from the
  row being delivered in the same transaction. The refinement maps `state` and `version` to
  those of `OperationLifecycle`; its only two-edge steps are the apply functions.
* **Controller.** What a worker read is old, so `JobIsInformed` says what it may still
  rely on at each program counter: that the UID it saw was given out for its extension, or
  that the object it is to remove is gone. UIDs are never reused (`UidsAreUnique`,
  `Gone`), which makes an observed removal final. `LedgerRefinement` maps every step to one
  call of a ledger function or a stutter, so that the theorems of the ledger need not be
  proved again.
* **Shell.** Every function rewrites at most one row, so the argument is about one row
  (`RowMoves`): Ready needs the registration, fences grow, Terminated and the intent to
  terminate stay. A row that was never created is empty (`RowsStartEmpty`): no fence of it
  was handed out. For the reconcilers `ReconcilerInv` adds that a UID which a row, a job or
  a Pod names belongs to the session its Pod was created for, and that what a worker holds
  is of a row that exists; every step of `ReconcilerNext` moves the authority as one of its
  functions, or not at all (`AuthorityMoves`), which carries the four properties over.
* **Lifecycle.** A pass acts long after it read. `ReadingFits`: its reading is true while
  fresh. `PlanFits`: what is about to be served was verified. `CleanupFits`, with one
  reconciler: from the move of the Service to the end of the cleanup the Service selects
  what the pass chose, nothing retained is on the list of deletions, and a removal still
  lists every revision that exists, because nobody else adds one. `Tells` follows a
  management call's writes to its audit record. `CompleteUninstall` is about two moments,
  the mark and the disappearance. The first follows from `LifecycleInv`. For the second,
  `Ending` is proved by an induction of its own: while a marked Registration has not been
  written, its removal stays complete, because every pass that is under way read
  `Uninstalled` and such a pass neither builds nor serves (`Calm`).
* **Identity.** Three invariants that meet in one: who has an authority row, a user and the
  role (`AccountInv`), what a challenge is worth (`CliInv`), and how far a session row and
  a request that read it may lag behind the subject and the Auth session (`SessionInv`).
* **Registry.** `FreshOK`: a process that is fresh holds the Secret there is. `LoopOK`:
  the namespaces a propagation has passed stay passed. `RequestOK`: a request that has not
  written the Secret is named nowhere. For `PresentedOnce`, `RefreshInv` says that a token
  which was presented, or is about to be, is guarded by the phase, the work mark or a
  pending authorization.
* **Dialogue.** The argument of a fencing token: a begin draws an attempt that no execution
  holds (`LeasesAreDrawn`); while no lapsed lease was revived, a turn with time left is the
  only one and its execution read the head of the log (`ReadsAreCurrent`).
* **Notification.** That attempts are counted needs only the unique attempt number
  (`CountIsShared`), and holds through every fault. That an
  acceptance is final needs one owner per claim (`ClaimIsOwned`), which holds only while the
  dispatchers are undisturbed (finding 2) and until a retry comes late
  (`NotificationOverlap.cfg`). The limit on sends survives a late retry, with two dispatchers
  on one delivery, so it cannot rest on ownership: `Budget` counts what was sent, the
  dispatchers that will still send (`Unsent`) and a delivery waiting to be claimed against
  the attempts already counted and the retries written.

The proofs led to changes of the modules, none to a run's verdict: CASE expressions whose
arms overlapped (TLC takes the first, the logic any) became IF chains in
`ExtensionController`, `ExtensionLifecycle`, `RegistryCredential` and `ShellReconciler`, and
assumptions and record types that had been implicit were written down.

### 6.3 Checked by TLC only

The liveness properties (`ObservationConcludes`, `RevocationConcludes`, `TeardownConcludes`,
`LifecycleSettles`, `WorkIsReleased`, `TurnConcludes`, `DeletedIsPurged`,
`DeliveryConcludes`) rest on fairness and ENABLED, which the prover does not handle. The
counterexamples of section 7 are TLC's.

## 7. Findings

1. **A failure recorded with side effect `none` may have written**
   (`side_effect`, `controller.mjs:301`). A worker creates the Registration and loses
   its process before the receipt; the image is revoked; the retry finds the
   revocation before it looks at Kubernetes and closes the operation with side
   effect `none`, while the Registration exists. `migrations/README.md:3` reserves
   `none` for a rejection before the write. The removal has the same gap: a terminal
   error of `applyRemove` is recorded as `none` (`controller.mjs:358`), and a retry
   after the first claim's Uninstalled patch and the reconciler's delete ends in
   RegistrationNotFound (`kubernetes-registration-writer.mjs:326`). The same
   configuration with `Requests <- MCInstallRemove` shows it.
2. **A stopped dispatcher leaves a delivery that is sent without end**
   (`notification_poison`, `notification-dispatcher/server.js:248`). The attempt row is
   inserted before the delivery is patched; a stop in between leaves the delivery's
   count behind. Each later claim sends the message, collides with the recorded
   attempt number, collides again in its handler and leaves the delivery to be
   claimed five minutes later. `docs/PLAN-CONSOLE-EXTERNAL-NOTIFICATION-CHANNELS-2026-07-23.md:498`
   limits automatic attempts to 8. `SendsAreLimited` is the limit without stops, slow
   batches and store failures.

Twelve more configurations reproduce a counterexample that the text below describes;
they are not among the runs of section 4, and TLC reports the violation within a
minute.

| Configuration | Module | Property | Shows |
|---|---|---|---|
| `ControllerFence.cfg` | `MCExtensionController` | `WritesAreFenced` | The claim is checked before `applyInstall`; its two reads and the POST (`kubernetes-registration-writer.mjs:257`) do not carry the epoch. A worker whose lease ran out in between creates the Registration again after its successor finished the install and a removal deleted the first one. The ledger refuses the late receipt; the object stays. `README.md:31` speaks of "one fenced Kubernetes Registration". |
| `ShellStuckPermission.cfg` | `MCShellReconciler` | `TeardownAlwaysConcludes` | The teardown transition (`os-shell-control/server.js:369`) asserts the row's permission revision. When the actor's permissions change after the teardown was recorded, and the session is in no `active` map, nothing brings the row up to date: every claim throws, and a drain that waits for the session does not complete. `TeardownConcludes` is the same claim for actors whose permissions do not change and reconcilers in time. A variant without a permission change needs two slow reconcilers: one that lost its lease meets its successor's Pod, compares only the session label (line 383), deletes it and creates its own; the row's UID then names no Pod. |
| `LifecycleAccumulated.cfg` | `MCExtensionLifecycle` | `UninstallConcludes` | Cleanup runs only after a release was verified, so updates that never start leave one revision each. With three revisions the bound of two in `planInactiveExtensionRevisionCleanup` (`extension-release.mjs:411`) refuses every plan, also the one of an uninstall, which then never concludes. |
| `LifecycleOfficial.cfg` | `MCExtensionLifecycle` | `UninstallConcludes` | `rollback` rewrites the spec of the official module but not the envelope in its annotation; `verifyModulePackage` (`module-release.mjs:42`) then refuses the package at the start of every pass, the pass of an uninstall included. Discovery finds the envelope unchanged and writes nothing, until it fails once and then succeeds (`Rediscover`) or a new release appears. |
| `LifecycleServed.cfg` | `MCExtensionLifecycle` | `ServedIsThere` | Two reconcilers overlap, one working from an older Package; or a release comes back while its Deployment is being deleted (nothing looks at `deletionTimestamp`): the stable Service selects a revision that is gone. `LifecycleSettles` says that later passes repair it. |
| `LifecycleRevived.cfg` | `MCExtensionLifecycle` | `RevivedIsKept` | An uninstall has marked the Registration for deletion; an operator sets it to Enabled, which succeeds, because neither extension management (`kubernetes-extension-management.mjs:363`) nor the reconciler reads `deletionTimestamp`. A pass may even serve the extension again. Then the Registration vanishes, and what that pass built stays without an owner. `UninstallIsComplete` is the claim for a Registration that nobody writes after the mark. |
| `ManagementCut.cfg` | `MCExtensionLifecycle` | `OutcomeIsTrue` | The answer to a PATCH breaks off in its body: `boundedJson` (`kubernetes-extension-management.mjs:31`) throws without a side effect, and `recordedMutation` records "failed" (its evidence says "unknown") for a change that was made. |
| `ShellResidue.cfg` | `MCShellReconciler` | `NoResidue` | The process ends between creating the Pod and recording its UID; the teardown that follows has no UID to delete (`server.js:370`), and a Pod outlives its Terminated session. |
| `RegistryRetry.cfg` | `MCRegistryCredential` | `RefreshOnce` | A refresh is interrupted after the old token was presented; the release asks for a new authorization; a reconnection that fails to start sets the phase to Degraded (`registry-credential-broker.mjs:63`), and the next tick presents the old token again, which the comment at line 93 excludes. The `registry` run has no such failed reconnection. |
| `DisabledDevice.cfg` | `MCIdentity` | `DisabledHasNoCli` | Disabling an account leaves its authority row and its CLI devices; `create_cli_device_challenge` and `complete_cli_device_session` (0018:317, 391-397) ask for nothing else, so the device is given a session of the new epoch. |
| `NotificationOverlap.cfg` | `MCNotification` | `AcceptedIsNotRetried` | Two retries of one failed delivery both pass the check at `browser-api.js:174`. The first queues it and the provider accepts it; the PATCH of the second (line 175), conditional on nothing, sets the accepted delivery back to queued, and it is sent again. `retry_generation`, computed from the value read, counts both as one. `docs/PLAN-CONSOLE-EXTERNAL-NOTIFICATION-CHANNELS-2026-07-23.md:317` says that an accepted delivery cannot be retried. |
| `NotificationSilent.cfg` | `MCNotification` | `RequestsEnd` | An SMTP server takes the connection and says nothing, or closes it in the middle of a dialogue: the await of the next line stays pending, `runOnce` keeps `polling` true and the dispatcher polls no more (`server.js:148-213, 259`). The same document, line 500, sets a request timeout of ten seconds. |

## 8. Abstractions

* **Ledger.** A lease is a Boolean; sessions are none, aal1 or aal2, after expiry,
  revocation and the five-minute rule; digests of requests, plans and evidence, and
  audit rows, are left out; a branch and pull request are reduced to their
  existence; `attempt_count` is the epoch. An operation is named by its request.
  The functions are those of the last migration: local installs accepted under
  version 0036 with an approval, which version 0040 no longer admits, and their
  `approve_development_module_install` are left out.
* **Controller.** A resourceVersion is the object itself, so a conditional write
  succeeds when the object is the one read. An object that changed and changed
  back counts as unchanged, where Kubernetes would refuse: the model allows
  more. Phase `Failed` stands for Failed and Removed, `Ready` for the complete
  readiness evidence, `Installed` for Installed and Enabled. `current` joins the
  C_REG candidate and the UIPluginPackage, which are read at different steps.
  `pinned` is the package scope that refuses a removal. People hold recent aal2
  sessions.
* **Shell.** What a session is bound to for life (origin, assurance, release
  evidence, browser session) is part of its name. Instants are reduced to passed
  or not. A process works on one session at a time; a tick that starts while the
  last one runs, and the `listPods` probe, are left out. The setup's
  `activate_native_runtime_from_setup` (0035:55) calls `apply_shell_feature_state` without
  the check of the operation's phase that its other callers make, also during a drain or a
  claimed scale-down (`SetupActivates`). It clears drain and claim in the same transaction,
  which is why `DrainHolds` survives it. The instances with reconcilers have no scale-down;
  there it is the step `ReleaseEnables`.
* **Identity.** Instants are reduced to passed or not: a pair that comes due, a
  session that expires, the five minutes of recent aal2. Touching a session's
  activity is the expiry that does not happen. Roles are administrator or not.
  Passwords are counted, codes and signatures are what the verifying step accepts.
  The four polls of `peerRotation` are one, the last, which decides.
* **Lifecycle.** One extension: passes of different extensions share no object. A
  resourceVersion is whether what was read is still current; that a Deployment's own
  status also moves its resourceVersion, and so makes a cleanup fail until the next
  pass, is covered by `RequestThrows`. The GET of the Package and of the Registration
  in a management call are one step (their writes are conditional on both). A second DELETE of
  a marked object changes nothing, and a spec written after the mark counts as one revival
  whatever it says. `LifecycleSettles` has one exception that the model cannot show: an
  installation profile that setup never provides fails every pass before its first upsert;
  here that is a request that fails now and then. It counts a Registration that is gone as
  settled, the revived one too. Because there is one extension, the model does not show
  either that `reconcileOnce` validates a Registration (`exactRegistration`,
  `kubernetes-extension-lifecycle.mjs:448`) before it advances its cursor (line 449): a
  malformed Registration is met again by every pass, and those behind it are not reached. The manifest's
  contents, the installation profile, the refusal to disable a core extension and the
  comparison of static contracts are single guards and left out.
* **Registry.** A generation names the credential stored with it; resource versions
  are `fresh`; the images of a release are changed or not. A tick that reads and
  does nothing is no step.
* **Dialogue.** One conversation with a retention period: one without
  (`retention_days` NULL) is never purged by design. A transition is the turn it
  belongs to and the revision it was computed from.
* **Notification.** One event; rules and templates decide only which channels it
  reaches. Backoff is the freedom to claim later. `Undisturbed` names the condition
  of `SendsAreLimited` and `AcceptedIsFinal`: no stop, no silent server, no batch that
  outlives its claim, and the store answers. Without it the code does send again
  (finding 2). Overlapping retries are not excluded from `SendsAreLimited`; each PATCH
  that was written (`Requeued`) allows one more send. Reading, and refusing, a delivery
  that has not failed changes nothing and is no step.
* **External.** Kubernetes, Gitea, Supabase Auth, GitHub and the notification
  providers are modelled from how the code uses them.

Seen while modelling, in places no property covers:

* a login that presented the old password before a recovery and is issued after it
  keeps its session (0005:88-114);
* the rollback of a failed enable or disable writes back the value read, over a peer's
  later change (`identity-session-broker.mjs:515-519`); a process that stops between
  removing factors and completing the reset leaves the user without them;
* a first turn without `conversationId` that is retried creates a second conversation;
* the audit event of a rotation can be reused (0027:39); an interrupted removal leaves
  the old credential in pull Secrets;
* events that arrive while the control is paused are processed without deliveries
  (`0011_notification_delivery.sql:281`), and a disabled channel still receives the
  deliveries queued before;
* `setInterval` starts a shell tick whether or not the last one ended
  (`os-shell-control/server.js:472`);
* the apply phase of an operation has no attempt limit: an install whose package
  changed after approval is claimed and fails every lease period (`controller.mjs:286`);
* an install whose image is revoked after its ready observation and before verification
  stays Applied (baseline 0001:2474);
* instants inside a transaction: `v_now` of 0029:646 is read before the row lock is
  waited for, so a teardown that waits for a new ticket can violate
  `expires_at > created_at` and be rolled back; `touch_shell_session_activity` (0029:1163)
  revives an idle session beside the one created in its place;
* a turn that began before its conversation was archived completes into it
  (`conversation-store.js:432`);
* two approved revocations of one image: the second is applied but is never verified
  (baseline 0001:2428).

## 9. Not modelled

* **Extension management** beyond desired state and rollback: navigation preferences
  (one transaction) and bindings (one conditional patch).
* **Platform changes in Gitea**: the wired `moduleOwner` admits only the Cluster
  Manager declaration (`gitea-module-contract.mjs`), which `propose` and `approve` refuse
  (`platform-change-operations.mjs:323, 532`), so no new change reaches Gitea. The
  receipts are in the ledger model.
* **Shell command ledger** (0043, 0044): two single transactions on one row; a command
  interrupted between them stays Dispatching, as the migration's own rule says. The
  cluster functions the commands reach are in another repository.
* **Audit ledger**: one append under one advisory lock.
* **Shell gateway and runtime agent** (Go), **C_CLI**: byte streams and a client; the
  authority they ask is modelled.
* **C_AI gateway** beyond the lease of a turn, and the governed adapter: model calls,
  retrieval, prompts and incident analysis, with no durable state shared by two
  writers other than the dialogue.
* **C_BAK recovery owner**, **plugin proxy**, **egress policy**,
  **C_REG resolution**: requests forwarded, or caches rebuilt from their source.
* **C_WEB**: views. **Legacy runtimes** (`apps/*/runtime`): superseded by the services
  above. **Contracts, manifests, scripts**: data.

`PROJECT.json` lists each with its reason, and under "hazards" what is hard to test.
