--------------------------- MODULE OperationLedger ---------------------------
(***************************************************************************)
(* The durable ledger of governed Extension operations: the tables         *)
(* console_operation.{operation, approval, outbox, execution_receipt,      *)
(* verification_receipt} and console_extension.revocation, and the         *)
(* PL/pgSQL functions that are the only way to change them.  Each function *)
(* is one transaction that locks the outbox and operation rows it reads,   *)
(* so each is one action here.                                             *)
(*                                                                         *)
(* An operation is named by the request it was accepted from.  A call the  *)
(* functions refuse (RAISE EXCEPTION) or answer as an idempotent replay    *)
(* changes no row, and is a disabled action.                               *)
(***************************************************************************)
EXTENDS Integers, Sequences, FiniteSets

CONSTANTS
    Subjects,     \* subject_authority.subject_id
    Person,       \* subject_authority.person_ref of each subject
    Grants,       \* the permissions permission_grant gives each subject
    Keys,         \* idempotency keys
    Images,       \* exact image digests, the targets of installs and revocations
    Requests,     \* the operation requests the subjects can submit
    Workers,      \* C_EXT worker ids
    Uids,         \* Kubernetes UIDs of Registrations
    MaxClaims,    \* bound: a claim lease may expire until this many claims
    NoSubject, NoWorker, NoUid, NoRequest

Actions == {"install", "remove", "revoke"}
Permissions == Actions \cup {"approve", "verify"}

(***************************************************************************)
(* A request: the submitting actor and idempotency key, the typed action,  *)
(* the image (installs and revocations; a removal names the descriptor of  *)
(* the image's extension), whether the action policy requires an           *)
(* independent approval, whether dispatch is bound to a merged Gitea       *)
(* declaration (declaration_binding IS NOT NULL), and whether it is the    *)
(* Cluster Manager install of a local edge console, which needs no aal2.   *)
(***************************************************************************)
Request == [actor : Subjects, key : Keys, action : Actions, image : Images,
            approval : BOOLEAN, git : BOOLEAN, local : BOOLEAN]

ASSUME SubjectsAssumption == /\ NoSubject \notin Subjects
                             /\ DOMAIN Person = Subjects
                             /\ Grants \in [Subjects -> SUBSET Permissions]
ASSUME WorkersAssumption == NoWorker \notin Workers
ASSUME UidsAssumption == NoUid \notin Uids
ASSUME MaxClaimsAssumption == MaxClaims \in Nat
\* accept_gitea_module admits only installs that require an approval,
\* accept_development_module_install only installs that require none.
ASSUME RequestsAssumption ==
    /\ Requests \subseteq Request
    /\ NoRequest \notin Requests
    /\ \A r \in Requests : /\ r.git => r.action = "install" /\ r.approval
                           /\ r.local => r.action = "install" /\ ~ r.approval

VARIABLES
    session,      \* subject -> assurance of its usable Console session
    state,        \* request -> operation.state, "None" when there is no row
    version,      \* request -> operation.state_version
    approver,     \* request -> approval.actor_ref
    proposed,     \* request -> a proposal receipt is in the audit ledger
    merged,       \* request -> declaration_merge_revision IS NOT NULL
    outbox,       \* the outbox rows, in outbox_id order
    receipts,     \* execution_receipt rows
    revoked,      \* image -> the revocation row that covers it
    verifier      \* request -> verification_receipt.actor_ref

opVars == <<state, version, approver, proposed, merged, verifier>>
ledgerVars == <<outbox, receipts, revoked>>
vars == <<session, opVars, ledgerVars>>

States == {"Planned", "Authorized", "Submitted", "Reconciling", "Applied",
           "Verified", "Failed", "Unknown", "RolledBack"}
Events == {"OperationAwaitingApproval", "OperationReadyForDispatch",
           "ExtensionInstallObservationRequested",
           "ExtensionRemovalObservationRequested"}
SideEffects == {"none", "present", "unknown"}

(***************************************************************************)
(* An outbox row.  attempt_count moves with claim_epoch and is the same    *)
(* number.  The lease is abstracted to whether it is still running.  The   *)
(* payload of an observation row is the UID its Applied receipt recorded.  *)
(***************************************************************************)
Row == [op : Requests, event : Events, uid : Uids \cup {NoUid},
        owner : Workers \cup {NoWorker}, epoch : Nat,
        leased : BOOLEAN, delivered : BOOLEAN]

NewRow(r, event, uid) ==
    [op |-> r, event |-> event, uid |-> uid, owner |-> NoWorker,
     epoch |-> 0, leased |-> FALSE, delivered |-> FALSE]

\* sideEffect is what the receipt claims was left behind outside the ledger.
Receipt == [op : Requests, epoch : Nat,
            phase : {"Applied", "Verified", "Failed", "Unknown"},
            uid : Uids \cup {NoUid}, sideEffect : SideEffects]

NotRevoked == [op |-> NoRequest, epoch |-> 0]
Revocation == [op : Requests, epoch : Nat] \cup {NotRevoked}

TypeOK ==
    /\ session \in [Subjects -> {"none", "aal1", "aal2"}]
    /\ state \in [Requests -> States \cup {"None"}]
    /\ version \in [Requests -> Nat]
    /\ approver \in [Requests -> Subjects \cup {NoSubject}]
    /\ proposed \in [Requests -> BOOLEAN]
    /\ merged \in [Requests -> BOOLEAN]
    /\ verifier \in [Requests -> Subjects \cup {NoSubject}]
    /\ outbox \in Seq(Row)
    /\ receipts \subseteq Receipt
    /\ revoked \in [Images -> Revocation]

Init ==
    /\ session \in [Subjects -> {"none", "aal1", "aal2"}]
    /\ state = [r \in Requests |-> "None"]
    /\ version = [r \in Requests |-> 0]
    /\ approver = [r \in Requests |-> NoSubject]
    /\ proposed = [r \in Requests |-> FALSE]
    /\ merged = [r \in Requests |-> FALSE]
    /\ verifier = [r \in Requests |-> NoSubject]
    /\ outbox = <<>>
    /\ receipts = {}
    /\ revoked = [i \in Images |-> NotRevoked]

-----------------------------------------------------------------------------
(* Identity.  What the functions read of browser_session, subject_authority *)
(* and permission_grant: a session that is revoked, expired or behind its   *)
(* subject's permission revision or revoke epoch is "none"; an aal2 session *)
(* whose last re-authentication is older than five minutes is "aal1".       *)

\* Sign-in, step-up, expiry and revocation change a session at any time.
SessionChanges(s, aal) ==
    /\ session[s] # aal
    /\ session' = [session EXCEPT ![s] = aal]
    /\ UNCHANGED <<opVars, ledgerVars>>

Admits(s, permission) == session[s] # "none" /\ permission \in Grants[s]
AdmitsRecentAal2(s, permission) == session[s] = "aal2" /\ permission \in Grants[s]

-----------------------------------------------------------------------------
(* Intake and approval: the functions C_API calls.                          *)

\* mutant: the lookup compares the request digest too
DigestIsNew(r) == state[r] = "None"

KeyIsFree(r) ==
    \A q \in Requests : (q.actor = r.actor /\ q.key = r.key) => state[q] = "None"

MayRequest(r) ==
    IF r.local THEN Admits(r.actor, r.action) ELSE AdmitsRecentAal2(r.actor, r.action)

Accept(r) ==
    /\ MayRequest(r)
    /\ KeyIsFree(r)
    /\ state' = [state EXCEPT ![r] = IF r.approval THEN "Planned" ELSE "Authorized"]
    /\ outbox' = Append(outbox,
                        NewRow(r, IF r.approval THEN "OperationAwaitingApproval"
                                                ELSE "OperationReadyForDispatch", NoUid))
    /\ UNCHANGED <<session, version, approver, proposed, merged, verifier,
                   receipts, revoked>>

\* mutant: an alias account of the initiator may approve
AnotherAccount(s, r) == s # r.actor

IndependentOf(s, r) == s # r.actor /\ Person[s] # Person[r.actor]

\* The caller's expected state version is the version of the Planned row.
Approve(s, r) ==
    /\ AdmitsRecentAal2(s, "approve")
    /\ state[r] = "Planned"
    /\ IndependentOf(s, r)
    /\ r.approval
    /\ approver[r] = NoSubject
    /\ approver' = [approver EXCEPT ![r] = s]
    /\ state' = [state EXCEPT ![r] = "Authorized"]
    /\ version' = [version EXCEPT ![r] = @ + 1]
    /\ outbox' = Append(outbox, NewRow(r, "OperationReadyForDispatch", NoUid))
    /\ UNCHANGED <<session, proposed, merged, verifier, receipts, revoked>>

\* The branch and pull request of an operation are abstracted to their existence.
RecordProposal(r) ==
    /\ r.git
    /\ state[r] \in {"Planned", "Authorized", "Submitted"}
    /\ ~ proposed[r]
    /\ proposed' = [proposed EXCEPT ![r] = TRUE]
    /\ UNCHANGED <<session, state, version, approver, merged, verifier, ledgerVars>>

RecordMerge(r) ==
    /\ r.git
    /\ r.approval
    /\ approver[r] # NoSubject
    /\ proposed[r]
    /\ ~ merged[r]
    /\ state[r] = "Authorized"
    /\ merged' = [merged EXCEPT ![r] = TRUE]
    /\ state' = [state EXCEPT ![r] = "Submitted"]
    /\ version' = [version EXCEPT ![r] = @ + 1]
    /\ UNCHANGED <<session, approver, proposed, verifier, ledgerVars>>

-----------------------------------------------------------------------------
(* Dispatch: claims, leases and the fence that every owner call passes.     *)

ObservationOf(action) ==
    IF action = "install" THEN "ExtensionInstallObservationRequested"
                          ELSE "ExtensionRemovalObservationRequested"

Claimable(i) ==
    LET row == outbox[i] IN
    /\ ~ row.delivered
    /\ ~ row.leased
    /\ row.op.git => merged[row.op]
    /\ \/ /\ row.event = "OperationReadyForDispatch"
          /\ state[row.op] \in {"Authorized", "Submitted", "Reconciling", "Unknown"}
       \/ /\ row.op.action \in {"install", "remove"}
          /\ row.event = ObservationOf(row.op.action)
          /\ state[row.op] = "Applied"

\* mutant: rows are dispatched strictly in order
HeadOfLine(i) ==
    \A j \in 1 .. i - 1 : outbox[j].event # "OperationAwaitingApproval" => outbox[j].delivered

(***************************************************************************)
(* The lowest claimable row is taken, FOR UPDATE SKIP LOCKED: a row that   *)
(* was claimed before can be locked at that moment by a late call of its   *)
(* former owner, and is then passed over.                                  *)
(***************************************************************************)
NextInLine(i) ==
    \A j \in 1 .. i - 1 : Claimable(j) => outbox[j].owner # NoWorker

TakenBy(row, w) ==
    [row EXCEPT !.owner = w, !.epoch = row.epoch + 1, !.leased = TRUE]

Claim(w, i) ==
    LET r == outbox[i].op IN
    /\ Claimable(i)
    /\ NextInLine(i)
    /\ outbox' = [outbox EXCEPT ![i] = TakenBy(outbox[i], w)]
    /\ IF outbox[i].event = "OperationReadyForDispatch" /\ state[r] = "Authorized"
       THEN /\ state' = [state EXCEPT ![r] = "Submitted"]
            /\ version' = [version EXCEPT ![r] = @ + 1]
       ELSE UNCHANGED <<state, version>>
    /\ UNCHANGED <<session, approver, proposed, merged, verifier, receipts, revoked>>

\* statement_timestamp() passes lease_expires_at (the last claim MaxClaims
\* allows keeps its lease).
LeaseExpires(i) ==
    /\ outbox[i].epoch < MaxClaims
    /\ outbox[i].leased
    /\ ~ outbox[i].delivered
    /\ outbox' = [outbox EXCEPT ![i] = [@ EXCEPT !.leased = FALSE]]
    /\ UNCHANGED <<session, opVars, receipts, revoked>>

\* mutant: the claim epoch is not compared
OwnerHolds(w, i, e, event) ==
    /\ outbox[i].event = event
    /\ outbox[i].owner = w
    /\ ~ outbox[i].delivered
    /\ outbox[i].leased

\* The fence: worker w presents epoch e for row i of kind event.
ClaimHeld(w, i, e, event) ==
    /\ outbox[i].event = event
    /\ outbox[i].owner = w
    /\ outbox[i].epoch = e
    /\ ~ outbox[i].delivered
    /\ outbox[i].leased

\* renew_owner_claim: the lease of a held claim runs on; no other change.
RenewOwnerClaim(w, i, e) ==
    /\ ClaimHeld(w, i, e, outbox[i].event)
    /\ UNCHANGED vars

\* mutant: delivered_at is not set
LeaveOpen(i) == outbox

Deliver(i) == [outbox EXCEPT ![i] = [@ EXCEPT !.delivered = TRUE]]

-----------------------------------------------------------------------------
(* Execution: the functions C_EXT calls under its claim.                    *)

IsRevoked(image) == revoked[image] # NotRevoked

\* mutant: the revocation is checked before the Kubernetes write only
MayInstallUnchecked(r) == TRUE

MayInstall(r) == ~ IsRevoked(r.image)

Applicable(r) == state[r] \in {"Submitted", "Reconciling", "Unknown"}

\* mutant: the passage through Reconciling is not counted
BecomesAppliedUncounted(r) ==
    /\ state' = [state EXCEPT ![r] = "Applied"]
    /\ version' = [version EXCEPT ![r] = @ + 1]

\* Reconciling and Applied are two updates of one transaction.
BecomesApplied(r) ==
    /\ state' = [state EXCEPT ![r] = "Applied"]
    /\ version' = [version EXCEPT ![r] = @ + (IF state[r] = "Reconciling" THEN 1 ELSE 2)]

AddReceipt(r, e, phase, uid, sideEffect) ==
    receipts' = receipts \cup {[op |-> r, epoch |-> e, phase |-> phase,
                                uid |-> uid, sideEffect |-> sideEffect]}

ApplyRevocation(w, i, e) ==
    LET r == outbox[i].op IN
    /\ ClaimHeld(w, i, e, "OperationReadyForDispatch")
    /\ r.action = "revoke"
    /\ Applicable(r)
    /\ BecomesApplied(r)
    /\ revoked' = IF IsRevoked(r.image) THEN revoked
                  ELSE [revoked EXCEPT ![r.image] = [op |-> r, epoch |-> e]]
    /\ AddReceipt(r, e, "Applied", NoUid, "present")
    /\ outbox' = Deliver(i)
    /\ UNCHANGED <<session, approver, proposed, merged, verifier>>

ApplyInstallRegistration(w, i, e, uid) ==
    LET r == outbox[i].op IN
    /\ ClaimHeld(w, i, e, "OperationReadyForDispatch")
    /\ r.action = "install"
    /\ Applicable(r)
    /\ MayInstall(r)
    /\ BecomesApplied(r)
    /\ AddReceipt(r, e, "Applied", uid, "present")
    /\ outbox' = Append(Deliver(i), NewRow(r, ObservationOf("install"), uid))
    /\ UNCHANGED <<session, approver, proposed, merged, verifier, revoked>>

ApplyRemoveRegistration(w, i, e, uid) ==
    LET r == outbox[i].op IN
    /\ ClaimHeld(w, i, e, "OperationReadyForDispatch")
    /\ r.action = "remove"
    /\ Applicable(r)
    /\ BecomesApplied(r)
    /\ AddReceipt(r, e, "Applied", uid, "present")
    /\ outbox' = Append(Deliver(i), NewRow(r, ObservationOf("remove"), uid))
    /\ UNCHANGED <<session, approver, proposed, merged, verifier, revoked>>

AppliedWith(r, uid) ==
    \E a \in receipts : a.op = r /\ a.phase = "Applied" /\ a.uid = uid

\* A direct install needs no second person: readiness closes the operation.
RecordInstallObservation(w, i, e, uid) ==
    LET r == outbox[i].op IN
    /\ ClaimHeld(w, i, e, ObservationOf("install"))
    /\ r.action = "install"
    /\ state[r] = "Applied"
    /\ MayInstall(r)
    /\ AppliedWith(r, uid)
    /\ AddReceipt(r, e, "Verified", uid, "present")
    /\ outbox' = Deliver(i)
    /\ IF ~ r.approval /\ ~ r.git
       THEN /\ state' = [state EXCEPT ![r] = "Verified"]
            /\ version' = [version EXCEPT ![r] = @ + 1]
       ELSE UNCHANGED <<state, version>>
    /\ UNCHANGED <<session, approver, proposed, merged, verifier, revoked>>

RecordRemoveObservation(w, i, e, uid) ==
    LET r == outbox[i].op IN
    /\ ClaimHeld(w, i, e, ObservationOf("remove"))
    /\ r.action = "remove"
    /\ state[r] = "Applied"
    /\ AppliedWith(r, uid)
    /\ AddReceipt(r, e, "Verified", uid, "present")
    /\ outbox' = Deliver(i)
    /\ UNCHANGED <<session, opVars, revoked>>

\* mutant: the side effect is written where the phase belongs
FailurePhaseRaw(sideEffect) == sideEffect

FailurePhase(sideEffect) == IF sideEffect = "unknown" THEN "Unknown" ELSE "Failed"

RecordExecutionFailure(w, i, e, sideEffect) ==
    LET r == outbox[i].op
        phase == FailurePhase(sideEffect) IN
    /\ \/ /\ ClaimHeld(w, i, e, "OperationReadyForDispatch")
          /\ state[r] \in {"Submitted", "Reconciling"}
       \/ /\ ClaimHeld(w, i, e, ObservationOf(r.action))
          /\ r.action \in {"install", "remove"}
          /\ state[r] = "Applied"
          /\ sideEffect # "none"
    /\ AddReceipt(r, e, phase, NoUid, sideEffect)
    /\ state' = [state EXCEPT ![r] = phase]
    /\ version' = [version EXCEPT ![r] = @ + 1]
    /\ outbox' = Deliver(i)
    /\ UNCHANGED <<session, approver, proposed, merged, verifier, revoked>>

-----------------------------------------------------------------------------
(* Independent verification: C_API closes an operation on owner evidence.   *)

ReceiptOf(r, phase) == {x \in receipts : x.op = r /\ x.phase = phase}

\* mutant: the observation of an install or a removal is not asked for
AppliedSuffices(r) == ReceiptOf(r, "Applied") # {}

\* SELECT ... INTO takes any one of the receipts of a phase.
EvidenceMatches(r) ==
    \/ /\ r.action = "revoke"
       /\ revoked[r.image].op = r
       /\ \E a \in ReceiptOf(r, "Applied") : a.epoch = revoked[r.image].epoch
    \/ /\ r.action \in {"install", "remove"}
       /\ r.action = "install" => MayInstall(r)
       /\ \E a \in ReceiptOf(r, "Applied"), v \in ReceiptOf(r, "Verified") : v.uid = a.uid

VerifyExtensionOperation(s, r) ==
    /\ Admits(s, "verify")
    /\ state[r] = "Applied"
    /\ EvidenceMatches(r)
    /\ verifier' = [verifier EXCEPT ![r] = s]
    /\ state' = [state EXCEPT ![r] = "Verified"]
    /\ version' = [version EXCEPT ![r] = @ + 1]
    /\ UNCHANGED <<session, approver, proposed, merged, ledgerVars>>

-----------------------------------------------------------------------------
\* A call of worker w about row i with a claim epoch it was given once.
OwnerCall(w, i, e) ==
    \/ ApplyRevocation(w, i, e)
    \/ \E uid \in Uids : \/ ApplyInstallRegistration(w, i, e, uid)
                         \/ ApplyRemoveRegistration(w, i, e, uid)
                         \/ RecordInstallObservation(w, i, e, uid)
                         \/ RecordRemoveObservation(w, i, e, uid)
    \/ \E sideEffect \in SideEffects : RecordExecutionFailure(w, i, e, sideEffect)

Next ==
    \/ \E s \in Subjects, aal \in {"none", "aal1", "aal2"} : SessionChanges(s, aal)
    \/ \E r \in Requests : Accept(r) \/ RecordProposal(r) \/ RecordMerge(r)
    \/ \E s \in Subjects, r \in Requests : Approve(s, r) \/ VerifyExtensionOperation(s, r)
    \/ \E i \in DOMAIN outbox : LeaseExpires(i)
    \/ \E w \in Workers, i \in DOMAIN outbox :
          Claim(w, i) \/ \E e \in 1 .. MaxClaims : OwnerCall(w, i, e)

Spec == Init /\ [][Next]_vars

-----------------------------------------------------------------------------
(* Properties.                                                              *)

Lifecycle == INSTANCE OperationLifecycle WITH Operations <- Requests

\* Every function moves an operation only along the domain's closed transition
\* table, and state_version counts the moves: a caller that presents the version
\* it read is told of every change in between.
ImplementsLifecycle == Lifecycle!Spec

\* An actor's idempotency key names at most one operation: a retried or raced
\* accept_operation never creates a second one.
OneOperationPerKey ==
    \A r, q \in Requests :
        (r.actor = q.actor /\ r.key = q.key /\ state[r] # "None" /\ state[q] # "None")
            => r = q

DispatchEvents == Events \ {"OperationAwaitingApproval"}

\* Row i is an undelivered dispatch of operation r.
OpenDispatch(i, r) ==
    outbox[i].op = r /\ outbox[i].event \in DispatchEvents /\ ~ outbox[i].delivered

\* An operation that still has owner work to do has exactly one dispatch row to
\* do it under, of the kind its state calls for; one that has none left has no
\* open row: no crash, expiry or late call loses or duplicates the work.
DispatchMatchesState ==
    \A r \in Requests :
        LET open == {i \in DOMAIN outbox : OpenDispatch(i, r)} IN
        /\ \A i, j \in open : i = j
        /\ state[r] \in {"Authorized", "Submitted"} <=>
              \E i \in open : outbox[i].event = "OperationReadyForDispatch"
        /\ (state[r] = "Applied" /\ r.action # "revoke" /\ ReceiptOf(r, "Verified") = {}) <=>
              \E i \in open : outbox[i].event # "OperationReadyForDispatch"

\* verify_extension_operation reads "the" Applied and "the" Verified receipt of
\* an operation: there is never more than one of a phase, and at most one
\* receipt that closes the owner's work.
OneReceiptPerPhase ==
    \A x, y \in receipts :
        x.op = y.op /\ (\/ x.phase = y.phase
                        \/ {x.phase, y.phase} \subseteq {"Verified", "Failed", "Unknown"})
            => x = y

\* A receipt was written under the last claim of its row: a worker whose lease
\* expired never records anything once another claim exists.  A call that is
\* repeated after its answer was lost adds no second receipt of its phase.
ReceiptsAreFenced ==
    /\ \A x \in receipts : \E i \in DOMAIN outbox :
          /\ outbox[i].op = x.op
          /\ outbox[i].event \in DispatchEvents
          /\ outbox[i].delivered
          /\ outbox[i].epoch = x.epoch
    /\ OneReceiptPerPhase

Justified(r) ==
    /\ \E a \in receipts :
          /\ a.op = r /\ a.phase = "Applied"
          /\ r.action # "revoke" =>
                \E v \in receipts : v.op = r /\ v.phase = "Verified" /\ v.uid = a.uid
    /\ r.action = "revoke" => revoked[r.image].op = r
    /\ r.approval => approver[r] # NoSubject /\ Person[approver[r]] # Person[r.actor]
    /\ r.git => merged[r]
    /\ verifier[r] = NoSubject => r.action = "install" /\ ~ r.approval

\* What Verified means: the owner applied the request and, for an install or a
\* removal, observed the very Registration it applied; the request was approved
\* by another person where policy asks for it, its declaration was merged where
\* it has one, and only a direct install closes without a verifying subject.
VerifiedIsJustified ==
    \A r \in Requests : state[r] = "Verified" => Justified(r)

\* No owner call runs for a request that its policy leaves to a second person or
\* to a merge that has not happened: a claimed row belongs to a request that was
\* approved, and merged, before.
ClaimedOnlyWhenAuthorized ==
    \A i \in DOMAIN outbox : outbox[i].owner # NoWorker =>
        LET r == outbox[i].op IN
        /\ r.approval => approver[r] # NoSubject /\ Person[approver[r]] # Person[r.actor]
        /\ r.git => merged[r]

\* Once an image is revoked, no install of it gains evidence or becomes Verified.
RevokedImageGainsNothing ==
    [][\A r \in Requests : (r.action = "install" /\ IsRevoked(r.image)) =>
          /\ state'[r] = "Verified" => state[r] = "Verified"
          /\ \A x \in receipts' \ receipts : x.op = r => x.phase \in {"Failed", "Unknown"}
      ]_vars

-----------------------------------------------------------------------------
(* The inductive invariant behind ClaimedOnlyWhenAuthorized and             *)
(* VerifiedIsJustified (proved in OperationLedger_proofs).                  *)

\* Whoever approved is another person, and nothing that needs an approval gets
\* past Planned without one.
ApprovedByAnother ==
    \A r \in Requests :
        /\ approver[r] # NoSubject => IndependentOf(approver[r], r)
        /\ (r.approval /\ state[r] \notin {"None", "Planned"}) => approver[r] # NoSubject

\* Dispatch rows exist only for operations past Planned.
DispatchedAfterApproval ==
    \A i \in DOMAIN outbox :
        outbox[i].event \in DispatchEvents => state[outbox[i].op] \notin {"None", "Planned"}

\* Only dispatch rows are claimed, and those of a Git-reviewed install once merged.
ClaimedAfterMerge ==
    \A i \in DOMAIN outbox : outbox[i].owner # NoWorker =>
        /\ outbox[i].event \in DispatchEvents
        /\ outbox[i].op.git => merged[outbox[i].op]

\* What was applied had been merged before.
AppliedAfterMerge ==
    \A r \in Requests : (state[r] \in {"Applied", "Verified"} /\ r.git) => merged[r]

LedgerInv ==
    /\ TypeOK
    /\ ApprovedByAnother
    /\ DispatchedAfterApproval
    /\ ClaimedAfterMerge
    /\ AppliedAfterMerge
    /\ VerifiedIsJustified

-----------------------------------------------------------------------------
(* The inductive invariant behind DispatchMatchesState and                  *)
(* ReceiptsAreFenced: the rows, the receipts and the state of one operation *)
(* say the same.                                                            *)

Observations == {ObservationOf("install"), ObservationOf("remove")}

\* One row to dispatch an operation, from its authorization on; open while the
\* owner has nothing recorded.
DispatchedOnce(r) ==
    /\ \A i, j \in DOMAIN outbox :
          (/\ outbox[i].op = r /\ outbox[i].event = "OperationReadyForDispatch"
           /\ outbox[j].op = r /\ outbox[j].event = "OperationReadyForDispatch") => i = j
    /\ state[r] \notin {"None", "Planned"} =>
          \E i \in DOMAIN outbox : outbox[i].op = r /\ outbox[i].event = "OperationReadyForDispatch"
    /\ \A i \in DOMAIN outbox :
          (outbox[i].op = r /\ outbox[i].event = "OperationReadyForDispatch") =>
              /\ state[r] \notin {"None", "Planned"}
              /\ ~ outbox[i].delivered <=> state[r] \in {"Authorized", "Submitted"}

\* One row to observe it, from its application on; open until the observation is
\* recorded or fails.
ObservedOnce(r) ==
    /\ \A i, j \in DOMAIN outbox :
          (/\ outbox[i].op = r /\ outbox[i].event \in Observations
           /\ outbox[j].op = r /\ outbox[j].event \in Observations) => i = j
    /\ (state[r] = "Applied" /\ r.action # "revoke") =>
          \E i \in DOMAIN outbox : outbox[i].op = r /\ outbox[i].event \in Observations
    /\ \A i \in DOMAIN outbox :
          (outbox[i].op = r /\ outbox[i].event \in Observations) =>
              /\ r.action # "revoke" /\ ReceiptOf(r, "Applied") # {}
              /\ ~ outbox[i].delivered <=> (state[r] = "Applied" /\ ReceiptOf(r, "Verified") = {})

\* The receipts an operation has by its state.
ReceiptsMatchState(r) ==
    /\ ReceiptOf(r, "Applied") # {} => state[r] \in {"Applied", "Verified", "Failed", "Unknown"}
    /\ ReceiptOf(r, "Verified") # {} => state[r] \in {"Applied", "Verified"}
    /\ ReceiptOf(r, "Failed") # {} => state[r] = "Failed"
    /\ ReceiptOf(r, "Unknown") # {} => state[r] = "Unknown"

OperationMatches(r) == DispatchedOnce(r) /\ ObservedOnce(r) /\ ReceiptsMatchState(r)

DispatchInv == ReceiptsAreFenced /\ \A r \in Requests : OperationMatches(r)

=============================================================================
