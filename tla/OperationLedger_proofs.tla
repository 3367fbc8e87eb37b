------------------------ MODULE OperationLedger_proofs ------------------------
(***************************************************************************)
(* Theorems about OperationLedger, for every set of subjects, requests,    *)
(* workers and UIDs and every bound on the claims.                         *)
(***************************************************************************)
EXTENDS OperationLedger, TLAPS

-----------------------------------------------------------------------------
(* The outbox is changed in three ways only: a row is appended, a row is    *)
(* rewritten in place, or a row is delivered and another one appended.      *)

\* Appending a row keeps the other rows where they are.
LEMMA AppendRow ==
    ASSUME NEW S, NEW q \in Seq(S), NEW row \in S
    PROVE  /\ Append(q, row) \in Seq(S)
           /\ DOMAIN Append(q, row) = 1 .. Len(q) + 1
           /\ \A j \in DOMAIN q : Append(q, row)[j] = q[j]
           /\ Append(q, row)[Len(q) + 1] = row
           /\ DOMAIN q = 1 .. Len(q)
           /\ Len(q) \in Nat
OBVIOUS

\* Rewriting a row keeps the others.
LEMMA RewriteRow ==
    ASSUME NEW S, NEW q \in Seq(S), NEW i \in DOMAIN q, NEW row \in S
    PROVE  /\ [q EXCEPT ![i] = row] \in Seq(S)
           /\ DOMAIN [q EXCEPT ![i] = row] = DOMAIN q
           /\ \A j \in DOMAIN q : [q EXCEPT ![i] = row][j] = IF j = i THEN row ELSE q[j]
OBVIOUS

\* A new outbox row has the type of a row.
LEMMA NewRowType ==
    ASSUME NEW r \in Requests, NEW event \in Events, NEW uid \in Uids \cup {NoUid}
    PROVE  NewRow(r, event, uid) \in Row
BY DEF NewRow, Row

\* A row keeps what it is about, and whose it is.
Kept(j) ==
    /\ j \in DOMAIN outbox
    /\ outbox'[j].op = outbox[j].op
    /\ outbox'[j].event = outbox[j].event
    /\ outbox'[j].owner = outbox[j].owner

\* INSERT INTO outbox: every row is kept or is the new one.
LEMMA OutboxAppend ==
    ASSUME outbox \in Seq(Row), NEW row \in Row, outbox' = Append(outbox, row)
    PROVE  /\ outbox' \in Seq(Row)
           /\ \A j \in DOMAIN outbox' : Kept(j) \/ outbox'[j] = row
BY AppendRow DEF Kept

\* UPDATE of one outbox row: the row is replaced and the others are kept.
LEMMA OutboxRewrite ==
    ASSUME outbox \in Seq(Row), NEW i \in DOMAIN outbox, NEW row \in Row,
           outbox' = [outbox EXCEPT ![i] = row]
    PROVE  /\ outbox' \in Seq(Row)
           /\ DOMAIN outbox' = DOMAIN outbox
           /\ \A j \in DOMAIN outbox : outbox'[j] = IF j = i THEN row ELSE outbox[j]
BY RewriteRow

\* Delivering a row changes its delivered flag only.
LEMMA DeliverRow ==
    ASSUME outbox \in Seq(Row), NEW i \in DOMAIN outbox
    PROVE  /\ Deliver(i) \in Seq(Row)
           /\ DOMAIN Deliver(i) = DOMAIN outbox
           /\ \A j \in DOMAIN outbox : /\ Deliver(i)[j].op = outbox[j].op
                                       /\ Deliver(i)[j].event = outbox[j].event
                                       /\ Deliver(i)[j].owner = outbox[j].owner
<1> DEFINE row == [outbox[i] EXCEPT !.delivered = TRUE]
<1>1. outbox[i] \in Row
  OBVIOUS
<1>2. /\ row \in Row
      /\ row.op = outbox[i].op /\ row.event = outbox[i].event /\ row.owner = outbox[i].owner
  BY <1>1 DEF Row
<1>3. Deliver(i) = [outbox EXCEPT ![i] = row]
  BY DEF Deliver
<1> HIDE DEF row
<1> QED
  BY <1>2, <1>3, RewriteRow

\* Delivering keeps the operation, the event and the owner of every row.
LEMMA OutboxDeliver ==
    ASSUME outbox \in Seq(Row), NEW i \in DOMAIN outbox, outbox' = Deliver(i)
    PROVE  /\ outbox' \in Seq(Row)
           /\ \A j \in DOMAIN outbox' : Kept(j)
BY DeliverRow DEF Kept

\* Delivering one row and inserting another, as the apply functions do.
LEMMA OutboxDeliverAppend ==
    ASSUME outbox \in Seq(Row), NEW i \in DOMAIN outbox, NEW row \in Row,
           outbox' = Append(Deliver(i), row)
    PROVE  /\ outbox' \in Seq(Row)
           /\ \A j \in DOMAIN outbox' : Kept(j) \/ outbox'[j] = row
BY DeliverRow, AppendRow DEF Kept
-----------------------------------------------------------------------------
(* What a step may do to the facts a Verified operation rests on.           *)

\* The evidence about request r only grows.
EvidenceGrows(r) ==
    /\ receipts \subseteq receipts'
    /\ IsRevoked(r.image) => revoked'[r.image] = revoked[r.image]
    /\ approver[r] # NoSubject => approver'[r] = approver[r]
    /\ merged[r] => merged'[r]
    /\ verifier'[r] = verifier[r]

\* What justified a verification is never taken away: receipts, approvals, merges
\* and revocations only grow.
LEMMA JustifiedIsStable ==
    ASSUME NEW r \in Requests, Justified(r), EvidenceGrows(r)
    PROVE  Justified(r)'
<1>1. r.action = "revoke" => revoked'[r.image].op = r
  <2> SUFFICES ASSUME r.action = "revoke" PROVE revoked'[r.image].op = r
    OBVIOUS
  <2>1. revoked[r.image].op = r
    BY DEF Justified
  <2>2. IsRevoked(r.image)
    BY <2>1, RequestsAssumption DEF IsRevoked, NotRevoked
  <2> QED
    BY <2>1, <2>2 DEF EvidenceGrows
<1>2. \E a \in receipts' :
          /\ a.op = r /\ a.phase = "Applied"
          /\ r.action # "revoke" =>
                \E v \in receipts' : v.op = r /\ v.phase = "Verified" /\ v.uid = a.uid
  BY DEF Justified, EvidenceGrows
<1> QED
  BY <1>1, <1>2 DEF Justified, EvidenceGrows

\* An operation that was dispatched stays past Planned.
LEMMA DispatchedIsStable ==
    ASSUME outbox \in Seq(Row), DispatchedAfterApproval,
           \A q \in Requests : state[q] \notin {"None", "Planned"}
                                  => state'[q] \notin {"None", "Planned"},
           \A j \in DOMAIN outbox' :
              Kept(j) \/ (outbox'[j].event \in DispatchEvents
                             => state'[outbox'[j].op] \notin {"None", "Planned"})
    PROVE  DispatchedAfterApproval'
<1> SUFFICES ASSUME NEW j \in DOMAIN outbox', outbox'[j].event \in DispatchEvents
             PROVE  state'[outbox'[j].op] \notin {"None", "Planned"}
  BY DEF DispatchedAfterApproval, DispatchEvents
<1>1. ASSUME Kept(j) PROVE state'[outbox'[j].op] \notin {"None", "Planned"}
  <2>1. j \in DOMAIN outbox /\ outbox[j] \in Row
    BY <1>1 DEF Kept
  <2>2. outbox[j].op \in Requests
    BY <2>1 DEF Row
  <2>3. state[outbox[j].op] \notin {"None", "Planned"}
    BY <1>1, <2>1 DEF Kept, DispatchedAfterApproval
  <2> QED
    BY <1>1, <2>2, <2>3 DEF Kept
<1> QED
  BY <1>1

\* A step that neither claims a row nor undoes a merge keeps the claimed rows merged.
LEMMA ClaimedIsStable ==
    ASSUME outbox \in Seq(Row), ClaimedAfterMerge,
           \A q \in Requests : merged[q] => merged'[q],
           \A j \in DOMAIN outbox' : Kept(j) \/ outbox'[j].owner = NoWorker
    PROVE  ClaimedAfterMerge'
<1> SUFFICES ASSUME NEW j \in DOMAIN outbox', outbox'[j].owner # NoWorker
             PROVE  /\ outbox'[j].event \in DispatchEvents
                    /\ outbox'[j].op.git => merged'[outbox'[j].op]
  BY DEF ClaimedAfterMerge, DispatchEvents
<1>1. Kept(j) /\ j \in DOMAIN outbox /\ outbox[j] \in Row
  BY DEF Kept
<1>2. outbox[j].op \in Requests
  BY <1>1 DEF Row
<1> QED
  BY <1>1, <1>2 DEF Kept, ClaimedAfterMerge

-----------------------------------------------------------------------------
(* The inductive invariant.                                                 *)

\* The empty ledger satisfies the invariant.
LEMMA InitEstablishesLedgerInv == Init => LedgerInv
<1> SUFFICES ASSUME Init PROVE LedgerInv
  OBVIOUS
<1>1. TypeOK
  <2>1. outbox \in Seq(Row)
    BY DEF Init
  <2>2. revoked \in [Images -> Revocation]
    BY DEF Init, Revocation
  <2> QED
    BY <2>1, <2>2 DEF Init, TypeOK
<1>2. ApprovedByAnother /\ AppliedAfterMerge /\ VerifiedIsJustified
  BY DEF Init, ApprovedByAnother, AppliedAfterMerge, VerifiedIsJustified
<1>3. DispatchedAfterApproval /\ ClaimedAfterMerge
  BY DEF Init, DispatchedAfterApproval, ClaimedAfterMerge
<1> QED
  BY <1>1, <1>2, <1>3 DEF LedgerInv

\* A session that is opened, stepped up or closed changes nothing of the ledger.
LEMMA SessionChangesKeepsLedgerInv ==
    ASSUME LedgerInv, NEW s \in Subjects, NEW aal \in {"none", "aal1", "aal2"},
           SessionChanges(s, aal)
    PROVE  LedgerInv'
<1> USE DEF LedgerInv, SessionChanges, opVars, ledgerVars
<1>1. TypeOK'
  BY DEF TypeOK
<1>2. ApprovedByAnother'
  BY DEF ApprovedByAnother, IndependentOf
<1>3. DispatchedAfterApproval' /\ ClaimedAfterMerge' /\ AppliedAfterMerge'
  BY DEF DispatchedAfterApproval, ClaimedAfterMerge, AppliedAfterMerge
<1>4. VerifiedIsJustified'
  BY DEF VerifiedIsJustified, Justified
<1> QED
  BY <1>1, <1>2, <1>3, <1>4

\* accept_operation adds an operation that is Planned, or Authorized without need of
\* approval, and its first row.
LEMMA AcceptKeepsLedgerInv ==
    ASSUME LedgerInv, NEW r \in Requests, Accept(r)
    PROVE  LedgerInv'
<1> DEFINE row == NewRow(r, IF r.approval THEN "OperationAwaitingApproval"
                                          ELSE "OperationReadyForDispatch", NoUid)
<1>0. TypeOK
  BY DEF LedgerInv
<1>1. /\ row \in Row
      /\ row.op = r /\ row.owner = NoWorker
      /\ row.event \in DispatchEvents => ~ r.approval
  <2>1. (IF r.approval THEN "OperationAwaitingApproval" ELSE "OperationReadyForDispatch") \in Events
    BY DEF Events
  <2> QED
    BY <2>1, NewRowType DEF NewRow, DispatchEvents, Events
<1> HIDE DEF row
<1>2. outbox' = Append(outbox, row)
  BY DEF Accept, row
<1>3. /\ outbox' \in Seq(Row)
      /\ \A j \in DOMAIN outbox' : Kept(j) \/ outbox'[j] = row
  BY <1>0, <1>1, <1>2, OutboxAppend DEF TypeOK
<1>4. /\ state[r] = "None"
      /\ state' = [state EXCEPT ![r] = IF r.approval THEN "Planned" ELSE "Authorized"]
  BY DEF Accept, KeyIsFree
<1>5. TypeOK'
  BY <1>0, <1>3, <1>4 DEF TypeOK, Accept, States
<1>6. ApprovedByAnother'
  BY <1>0, <1>4 DEF LedgerInv, ApprovedByAnother, IndependentOf, Accept, TypeOK
<1>7. DispatchedAfterApproval'
  <2>1. \A q \in Requests : state[q] \notin {"None", "Planned"} => state'[q] \notin {"None", "Planned"}
    BY <1>0, <1>4 DEF TypeOK
  <2>2. ~ r.approval => state'[r] = "Authorized"
    BY <1>0, <1>4 DEF TypeOK
  <2> QED
    BY <1>0, <1>1, <1>3, <2>1, <2>2, DispatchedIsStable DEF LedgerInv, TypeOK
<1>8. ClaimedAfterMerge'
  BY <1>0, <1>1, <1>3, ClaimedIsStable DEF LedgerInv, Accept, TypeOK
<1>9. AppliedAfterMerge'
  BY <1>0, <1>4 DEF LedgerInv, AppliedAfterMerge, Accept, TypeOK
<1>10. VerifiedIsJustified'
  BY <1>0, <1>4, JustifiedIsStable DEF LedgerInv, VerifiedIsJustified, EvidenceGrows, Accept, TypeOK
<1> QED
  BY <1>5, <1>6, <1>7, <1>8, <1>9, <1>10 DEF LedgerInv

\* A step that takes one operation to a state past Planned and opens rows for no
\* other operation keeps the invariant if the target state is earned.
LEMMA OperationStep ==
    ASSUME LedgerInv, TypeOK', ApprovedByAnother',
           NEW r \in Requests, NEW to \in States \ {"Planned"},
           state' = [state EXCEPT ![r] = to],
           \A j \in DOMAIN outbox' :
              Kept(j) \/ (outbox'[j].op = r /\ outbox'[j].owner = NoWorker),
           \A q \in Requests : merged[q] => merged'[q],
           \A q \in Requests \ {r} : EvidenceGrows(q),
           (to \in {"Applied", "Verified"} /\ r.git) => merged'[r],
           to = "Verified" => Justified(r)'
    PROVE  LedgerInv'
<1>0. TypeOK
  BY DEF LedgerInv
<1>1. state'[r] = to /\ \A q \in Requests \ {r} : state'[q] = state[q]
  BY <1>0 DEF TypeOK
<1>2. to \notin {"None", "Planned"}
  BY DEF States
<1>3. DispatchedAfterApproval'
  <2>1. \A q \in Requests : state[q] \notin {"None", "Planned"} => state'[q] \notin {"None", "Planned"}
    BY <1>1, <1>2
  <2> QED
    BY <1>0, <1>1, <1>2, <2>1, DispatchedIsStable DEF LedgerInv, TypeOK
<1>4. ClaimedAfterMerge'
  BY <1>0, ClaimedIsStable DEF LedgerInv, TypeOK
<1>5. AppliedAfterMerge'
  BY <1>1 DEF LedgerInv, AppliedAfterMerge
<1>6. VerifiedIsJustified'
  <2> SUFFICES ASSUME NEW q \in Requests, state'[q] = "Verified" PROVE Justified(q)'
    BY DEF VerifiedIsJustified
  <2>1. CASE q = r
    BY <1>1, <2>1
  <2>2. CASE q # r
    BY <1>1, <2>2, JustifiedIsStable DEF LedgerInv, VerifiedIsJustified
  <2> QED
    BY <2>1, <2>2
<1> QED
  BY <1>3, <1>4, <1>5, <1>6 DEF LedgerInv

\* approve_operation authorizes on behalf of another person and opens the dispatch.
LEMMA ApproveKeepsLedgerInv ==
    ASSUME LedgerInv, NEW s \in Subjects, NEW r \in Requests, Approve(s, r)
    PROVE  LedgerInv'
<1> DEFINE row == NewRow(r, "OperationReadyForDispatch", NoUid)
<1>0. TypeOK
  BY DEF LedgerInv
<1>1. row \in Row /\ row.op = r /\ row.owner = NoWorker
  BY NewRowType DEF NewRow, Events
<1> HIDE DEF row
<1>2. /\ outbox' \in Seq(Row)
      /\ \A j \in DOMAIN outbox' : Kept(j) \/ outbox'[j] = row
  BY <1>0, <1>1, OutboxAppend DEF TypeOK, Approve, row
<1>3. /\ state' = [state EXCEPT ![r] = "Authorized"]
      /\ approver' = [approver EXCEPT ![r] = s]
      /\ approver[r] = NoSubject
      /\ s # NoSubject
  BY SubjectsAssumption DEF Approve
<1>4. TypeOK'
  <2>1. version' \in [Requests -> Nat]
    BY <1>0 DEF TypeOK, Approve
  <2> QED
    BY <1>0, <1>2, <1>3, <2>1 DEF TypeOK, Approve, States
<1>5. ApprovedByAnother'
  BY <1>0, <1>3 DEF LedgerInv, ApprovedByAnother, IndependentOf, Approve, TypeOK
<1>6. \A q \in Requests \ {r} : EvidenceGrows(q)
  BY <1>0, <1>3 DEF EvidenceGrows, Approve, TypeOK
<1>7. "Authorized" \in States \ {"Planned"}
  BY DEF States
<1>8. \A q \in Requests : merged[q] => merged'[q]
  BY DEF Approve
<1>9. \A j \in DOMAIN outbox' :
          Kept(j) \/ (outbox'[j].op = r /\ outbox'[j].owner = NoWorker)
  BY <1>1, <1>2
<1> QED
  BY <1>3, <1>4, <1>5, <1>6, <1>7, <1>8, <1>9, OperationStep

\* record_gitea_proposal touches no operation state.
LEMMA RecordProposalKeepsLedgerInv ==
    ASSUME LedgerInv, NEW r \in Requests, RecordProposal(r)
    PROVE  LedgerInv'
<1> USE DEF LedgerInv, RecordProposal, ledgerVars
<1>1. TypeOK'
  BY DEF TypeOK
<1>2. ApprovedByAnother'
  BY DEF ApprovedByAnother, IndependentOf
<1>3. DispatchedAfterApproval' /\ ClaimedAfterMerge' /\ AppliedAfterMerge'
  BY DEF DispatchedAfterApproval, ClaimedAfterMerge, AppliedAfterMerge
<1>4. VerifiedIsJustified'
  BY DEF VerifiedIsJustified, Justified
<1> QED
  BY <1>1, <1>2, <1>3, <1>4

\* record_gitea_merge submits an approved operation.
LEMMA RecordMergeKeepsLedgerInv ==
    ASSUME LedgerInv, NEW r \in Requests, RecordMerge(r)
    PROVE  LedgerInv'
<1>0. TypeOK
  BY DEF LedgerInv
<1>1. state' = [state EXCEPT ![r] = "Submitted"] /\ state[r] = "Authorized"
  BY DEF RecordMerge
<1>2. TypeOK'
  <2>1. version' \in [Requests -> Nat] /\ merged' \in [Requests -> BOOLEAN]
    BY <1>0 DEF TypeOK, RecordMerge
  <2> QED
    BY <1>0, <1>1, <2>1 DEF TypeOK, RecordMerge, ledgerVars, States
<1>3. ApprovedByAnother'
  BY <1>0, <1>1 DEF LedgerInv, ApprovedByAnother, IndependentOf, RecordMerge, TypeOK
<1>4. \A j \in DOMAIN outbox' : Kept(j)
  BY DEF Kept, RecordMerge, ledgerVars
<1>5. \A q \in Requests : merged[q] => merged'[q]
  BY <1>0 DEF RecordMerge, TypeOK
<1>6. \A q \in Requests \ {r} : EvidenceGrows(q)
  BY <1>0, <1>5 DEF EvidenceGrows, RecordMerge, ledgerVars, TypeOK
<1>7. "Submitted" \in States \ {"Planned", "Applied", "Verified"}
  BY DEF States
<1> QED
  BY <1>1, <1>2, <1>3, <1>4, <1>5, <1>6, <1>7, OperationStep

\* claim_owner_operation takes a dispatch row of a merged operation.
LEMMA ClaimKeepsLedgerInv ==
    ASSUME LedgerInv, NEW w \in Workers, NEW i \in DOMAIN outbox, Claim(w, i)
    PROVE  LedgerInv'
<1> DEFINE r == outbox[i].op
           row == TakenBy(outbox[i], w)
<1>0. TypeOK
  BY DEF LedgerInv
<1>1. outbox[i] \in Row
  BY <1>0 DEF TypeOK
<1>2. r \in Requests
  BY <1>1 DEF Row
<1>3. row \in Row /\ row.op = r /\ row.event = outbox[i].event
  <2>1. outbox[i].epoch + 1 \in Nat
    BY <1>1 DEF Row
  <2> QED
    BY <1>1, <2>1 DEF Row, TakenBy
<1>4. outbox' = [outbox EXCEPT ![i] = row]
  BY DEF Claim
<1>5. /\ outbox[i].event \in DispatchEvents
      /\ r.git => merged[r]
  BY DEF Claim, Claimable, ObservationOf, DispatchEvents, Events
<1>s. \/ state' = state /\ version' = version
      \/ /\ state[r] = "Authorized"
         /\ state' = [state EXCEPT ![r] = "Submitted"]
         /\ version' = [version EXCEPT ![r] = @ + 1]
  BY DEF Claim
<1>u. UNCHANGED <<session, approver, proposed, merged, verifier, receipts, revoked>>
  BY DEF Claim
<1> HIDE DEF r, row
<1>6. /\ outbox' \in Seq(Row)
      /\ DOMAIN outbox' = DOMAIN outbox
      /\ \A j \in DOMAIN outbox : outbox'[j] = IF j = i THEN row ELSE outbox[j]
  BY <1>0, <1>3, <1>4, OutboxRewrite DEF TypeOK
<1>7. \A q \in Requests : \/ state'[q] = state[q]
                          \/ state[q] = "Authorized" /\ state'[q] = "Submitted"
  <2>1. state \in [Requests -> States \cup {"None"}]
    BY <1>0 DEF TypeOK
  <2> QED
    BY <1>2, <1>s, <2>1
<1>8. TypeOK'
  <2>1. version' \in [Requests -> Nat]
    BY <1>0, <1>2, <1>s DEF TypeOK
  <2>2. state' \in [Requests -> States \cup {"None"}]
    BY <1>0, <1>2, <1>s DEF TypeOK, States
  <2> QED
    BY <1>0, <1>6, <1>u, <2>1, <2>2 DEF TypeOK
<1>9. ApprovedByAnother'
  BY <1>7, <1>u DEF LedgerInv, ApprovedByAnother, IndependentOf
<1>10. DispatchedAfterApproval'
  <2> SUFFICES ASSUME NEW j \in DOMAIN outbox, outbox'[j].event \in DispatchEvents
               PROVE  state'[outbox'[j].op] \notin {"None", "Planned"}
    BY <1>6 DEF DispatchedAfterApproval, DispatchEvents
  <2>1. outbox'[j].op = outbox[j].op /\ outbox'[j].event = outbox[j].event
    BY <1>3, <1>6 DEF r
  <2>0. outbox[j] \in Row
    BY <1>0 DEF TypeOK
  <2>2. outbox[j].op \in Requests
    BY <2>0 DEF Row
  <2>3. state[outbox[j].op] \notin {"None", "Planned"}
    BY <2>1 DEF LedgerInv, DispatchedAfterApproval
  <2> QED
    BY <1>7, <2>1, <2>2, <2>3
<1>11. ClaimedAfterMerge'
  <2> SUFFICES ASSUME NEW j \in DOMAIN outbox, outbox'[j].owner # NoWorker
               PROVE  /\ outbox'[j].event \in DispatchEvents
                      /\ outbox'[j].op.git => merged[outbox'[j].op]
    BY <1>6, <1>u DEF ClaimedAfterMerge, DispatchEvents
  <2>1. CASE j = i
    BY <1>3, <1>5, <1>6, <2>1
  <2>2. CASE j # i
    BY <1>6, <2>2 DEF LedgerInv, ClaimedAfterMerge
  <2> QED
    BY <2>1, <2>2
<1>12. AppliedAfterMerge'
  BY <1>7, <1>u DEF LedgerInv, AppliedAfterMerge
<1>13. VerifiedIsJustified'
  BY <1>7, <1>u DEF LedgerInv, VerifiedIsJustified, Justified
<1> QED
  BY <1>8, <1>9, <1>10, <1>11, <1>12, <1>13 DEF LedgerInv

\* The expiry of a lease leaves the owner of the row where it is.
LEMMA LeaseExpiresKeepsLedgerInv ==
    ASSUME LedgerInv, NEW i \in DOMAIN outbox, LeaseExpires(i)
    PROVE  LedgerInv'
<1> DEFINE row == [outbox[i] EXCEPT !.leased = FALSE]
<1>0. TypeOK
  BY DEF LedgerInv
<1>1. outbox[i] \in Row
  BY <1>0 DEF TypeOK
<1>2. /\ row \in Row
      /\ row.op = outbox[i].op /\ row.event = outbox[i].event /\ row.owner = outbox[i].owner
  BY <1>1 DEF Row
<1>3. outbox' = [outbox EXCEPT ![i] = row]
  BY DEF LeaseExpires
<1> HIDE DEF row
<1>4. /\ outbox' \in Seq(Row)
      /\ \A j \in DOMAIN outbox' : Kept(j)
  BY <1>0, <1>2, <1>3, OutboxRewrite DEF TypeOK, Kept
<1>u. UNCHANGED <<session, opVars, receipts, revoked>>
  BY DEF LeaseExpires
<1> USE DEF opVars
<1>5. TypeOK'
  BY <1>0, <1>4, <1>u DEF TypeOK
<1>6. ApprovedByAnother' /\ AppliedAfterMerge'
  BY <1>u DEF LedgerInv, ApprovedByAnother, IndependentOf, AppliedAfterMerge
<1>7. DispatchedAfterApproval'
  BY <1>0, <1>4, <1>u, DispatchedIsStable DEF LedgerInv, TypeOK
<1>8. ClaimedAfterMerge'
  BY <1>0, <1>4, <1>u, ClaimedIsStable DEF LedgerInv, TypeOK
<1>9. VerifiedIsJustified'
  BY <1>u DEF LedgerInv, VerifiedIsJustified, Justified
<1> QED
  BY <1>5, <1>6, <1>7, <1>8, <1>9 DEF LedgerInv

\* A worker that passes the fence works for a request that was authorized and merged.
LEMMA HeldClaim ==
    ASSUME LedgerInv, NEW w \in Workers, NEW i \in DOMAIN outbox, NEW e, NEW event,
           ClaimHeld(w, i, e, event)
    PROVE  /\ outbox[i].op \in Requests
           /\ e \in Nat
           /\ outbox[i].uid \in Uids \cup {NoUid}
           /\ state[outbox[i].op] \notin {"None", "Planned"}
           /\ outbox[i].op.git => merged[outbox[i].op]
<1>1. outbox[i] \in Row
  BY DEF LedgerInv, TypeOK
<1>2. outbox[i].owner # NoWorker
  BY WorkersAssumption DEF ClaimHeld
<1> QED
  BY <1>1, <1>2 DEF ClaimHeld, LedgerInv, ClaimedAfterMerge, DispatchedAfterApproval, Row

\* What the three apply functions have in common.
LEMMA AppliedStep ==
    ASSUME LedgerInv, NEW w \in Workers, NEW i \in DOMAIN outbox, NEW e,
           ClaimHeld(w, i, e, "OperationReadyForDispatch"),
           Applicable(outbox[i].op),
           BecomesApplied(outbox[i].op),
           NEW uid \in Uids \cup {NoUid},
           AddReceipt(outbox[i].op, e, "Applied", uid, "present"),
           outbox' \in Seq(Row),
           \A j \in DOMAIN outbox' :
              Kept(j) \/ (outbox'[j].op = outbox[i].op /\ outbox'[j].owner = NoWorker),
           revoked' \in [Images -> Revocation],
           \A image \in Images : IsRevoked(image) => revoked'[image] = revoked[image],
           UNCHANGED <<session, approver, proposed, merged, verifier>>
    PROVE  LedgerInv'
<1> DEFINE r == outbox[i].op
<1>0. TypeOK
  BY DEF LedgerInv
<1>1. /\ r \in Requests
      /\ e \in Nat
      /\ state[r] \notin {"None", "Planned"}
      /\ r.git => merged[r]
  BY HeldClaim
<1>2. /\ state' = [state EXCEPT ![r] = "Applied"]
      /\ version' = [version EXCEPT ![r] = @ + (IF state[r] = "Reconciling" THEN 1 ELSE 2)]
  BY DEF BecomesApplied
<1>3. /\ receipts' \subseteq Receipt
      /\ receipts \subseteq receipts'
  BY <1>0, <1>1 DEF AddReceipt, Receipt, TypeOK, SideEffects
<1> HIDE DEF r
<1>4. TypeOK'
  <2>1. version' \in [Requests -> Nat]
    BY <1>0, <1>1, <1>2 DEF TypeOK
  <2>2. state' \in [Requests -> States \cup {"None"}]
    BY <1>0, <1>1, <1>2 DEF TypeOK, States
  <2> QED
    BY <1>0, <1>3, <2>1, <2>2 DEF TypeOK
<1>5. ApprovedByAnother'
  BY <1>0, <1>1, <1>2 DEF LedgerInv, ApprovedByAnother, IndependentOf, TypeOK
<1>6. \A q \in Requests \ {r} : EvidenceGrows(q)
  <2>1. \A q \in Requests : q.image \in Images
    BY RequestsAssumption DEF Request
  <2> QED
    BY <1>3, <2>1 DEF EvidenceGrows
<1>7. "Applied" \in States \ {"Planned"}
  BY DEF States
<1>8. \A j \in DOMAIN outbox' :
          Kept(j) \/ (outbox'[j].op = r /\ outbox'[j].owner = NoWorker)
  BY DEF r
<1>9. /\ \A q \in Requests : merged[q] => merged'[q]
      /\ r.git => merged'[r]
  BY <1>1
<1> QED
  BY <1>1, <1>2, <1>4, <1>5, <1>6, <1>7, <1>8, <1>9, OperationStep

\* apply_revocation: applied under a held claim.
LEMMA ApplyRevocationKeepsLedgerInv ==
    ASSUME LedgerInv, NEW w \in Workers, NEW i \in DOMAIN outbox, NEW e,
           ApplyRevocation(w, i, e)
    PROVE  LedgerInv'
<1> DEFINE r == outbox[i].op
<1>0. TypeOK
  BY DEF LedgerInv
<1>1. r \in Requests /\ e \in Nat
  BY HeldClaim DEF ApplyRevocation
<1>2. r.image \in Images
  BY <1>1, RequestsAssumption DEF Request
<1>3. outbox' \in Seq(Row) /\ \A j \in DOMAIN outbox' : Kept(j)
  BY <1>0, OutboxDeliver DEF TypeOK, ApplyRevocation
<1>4. /\ revoked' \in [Images -> Revocation]
      /\ \A image \in Images : IsRevoked(image) => revoked'[image] = revoked[image]
  <2>1. [op |-> r, epoch |-> e] \in Revocation
    BY <1>1 DEF Revocation
  <2>2. revoked' = IF IsRevoked(r.image) THEN revoked
                   ELSE [revoked EXCEPT ![r.image] = [op |-> r, epoch |-> e]]
    BY DEF ApplyRevocation
  <2>3. revoked \in [Images -> Revocation]
    BY <1>0 DEF TypeOK
  <2> QED
    BY <1>2, <2>1, <2>2, <2>3 DEF IsRevoked
<1> QED
  BY <1>3, <1>4, AppliedStep DEF ApplyRevocation

\* apply_install_registration: applied under a held claim, observation queued.
LEMMA ApplyInstallKeepsLedgerInv ==
    ASSUME LedgerInv, NEW w \in Workers, NEW i \in DOMAIN outbox, NEW e,
           NEW uid \in Uids, ApplyInstallRegistration(w, i, e, uid)
    PROVE  LedgerInv'
<1> DEFINE r == outbox[i].op
           row == NewRow(r, ObservationOf("install"), uid)
<1>0. TypeOK
  BY DEF LedgerInv
<1>1. r \in Requests
  BY HeldClaim DEF ApplyInstallRegistration
<1>2. row \in Row /\ row.op = r /\ row.owner = NoWorker
  BY <1>1, NewRowType DEF NewRow, ObservationOf, Events
<1> HIDE DEF row
<1>3. /\ outbox' \in Seq(Row)
      /\ \A j \in DOMAIN outbox' : Kept(j) \/ outbox'[j] = row
  BY <1>0, <1>2, OutboxDeliverAppend DEF TypeOK, ApplyInstallRegistration, row
<1>4. \A j \in DOMAIN outbox' :
          Kept(j) \/ (outbox'[j].op = r /\ outbox'[j].owner = NoWorker)
  BY <1>2, <1>3
<1>5. /\ revoked' \in [Images -> Revocation]
      /\ \A image \in Images : IsRevoked(image) => revoked'[image] = revoked[image]
  BY <1>0 DEF TypeOK, ApplyInstallRegistration
<1> QED
  BY <1>3, <1>4, <1>5, AppliedStep DEF ApplyInstallRegistration

\* apply_remove_registration: applied under a held claim, observation queued.
LEMMA ApplyRemoveKeepsLedgerInv ==
    ASSUME LedgerInv, NEW w \in Workers, NEW i \in DOMAIN outbox, NEW e,
           NEW uid \in Uids, ApplyRemoveRegistration(w, i, e, uid)
    PROVE  LedgerInv'
<1> DEFINE r == outbox[i].op
           row == NewRow(r, ObservationOf("remove"), uid)
<1>0. TypeOK
  BY DEF LedgerInv
<1>1. r \in Requests
  BY HeldClaim DEF ApplyRemoveRegistration
<1>2. row \in Row /\ row.op = r /\ row.owner = NoWorker
  BY <1>1, NewRowType DEF NewRow, ObservationOf, Events
<1> HIDE DEF row
<1>3. /\ outbox' \in Seq(Row)
      /\ \A j \in DOMAIN outbox' : Kept(j) \/ outbox'[j] = row
  BY <1>0, <1>2, OutboxDeliverAppend DEF TypeOK, ApplyRemoveRegistration, row
<1>4. \A j \in DOMAIN outbox' :
          Kept(j) \/ (outbox'[j].op = r /\ outbox'[j].owner = NoWorker)
  BY <1>2, <1>3
<1>5. /\ revoked' \in [Images -> Revocation]
      /\ \A image \in Images : IsRevoked(image) => revoked'[image] = revoked[image]
  BY <1>0 DEF TypeOK, ApplyRemoveRegistration
<1> QED
  BY <1>3, <1>4, <1>5, AppliedStep DEF ApplyRemoveRegistration

\* What the functions that write a second receipt have in common.
LEMMA ObservedStep ==
    ASSUME LedgerInv, NEW w \in Workers, NEW i \in DOMAIN outbox, NEW e, NEW event,
           ClaimHeld(w, i, e, event),
           NEW r \in Requests, r = outbox[i].op,
           NEW to \in States \ {"Planned"},
           state' = [state EXCEPT ![r] = to],
           version' \in [Requests -> Nat],
           NEW phase \in {"Applied", "Verified", "Failed", "Unknown"},
           NEW uid \in Uids \cup {NoUid}, NEW sideEffect \in SideEffects,
           AddReceipt(r, e, phase, uid, sideEffect),
           outbox' = Deliver(i),
           UNCHANGED <<session, approver, proposed, merged, verifier, revoked>>,
           to = "Verified" => Justified(r)'
    PROVE  LedgerInv'
<1>0. TypeOK
  BY DEF LedgerInv
<1>1. /\ e \in Nat
      /\ state[r] \notin {"None", "Planned"}
      /\ r.git => merged[r]
  BY HeldClaim
<1>2. /\ receipts' \subseteq Receipt
      /\ receipts \subseteq receipts'
  BY <1>0, <1>1 DEF AddReceipt, Receipt, TypeOK
<1>3. outbox' \in Seq(Row) /\ \A j \in DOMAIN outbox' : Kept(j)
  BY <1>0, OutboxDeliver DEF TypeOK
<1>4. TypeOK'
  <2>1. state' \in [Requests -> States \cup {"None"}]
    BY <1>0, <1>1 DEF TypeOK
  <2> QED
    BY <1>0, <1>2, <1>3, <2>1 DEF TypeOK
<1>5. ApprovedByAnother'
  BY <1>0, <1>1 DEF LedgerInv, ApprovedByAnother, IndependentOf, TypeOK
<1>6. \A q \in Requests \ {r} : EvidenceGrows(q)
  BY <1>2 DEF EvidenceGrows
<1> QED
  BY <1>1, <1>3, <1>4, <1>5, <1>6, OperationStep

\* record_install_observation: a direct install closes on the receipts it names.
LEMMA InstallObservationKeepsLedgerInv ==
    ASSUME LedgerInv, NEW w \in Workers, NEW i \in DOMAIN outbox, NEW e,
           NEW uid \in Uids, RecordInstallObservation(w, i, e, uid)
    PROVE  LedgerInv'
<1>1. PICK r \in Requests : r = outbox[i].op
  BY HeldClaim DEF RecordInstallObservation
<1> DEFINE to == IF ~ r.approval /\ ~ r.git THEN "Verified" ELSE "Applied"
<1>0. TypeOK
  BY DEF LedgerInv
<1>2. to \in States \ {"Planned"}
  BY DEF States
<1>3. state' = [state EXCEPT ![r] = to]
  BY <1>0, <1>1 DEF RecordInstallObservation, TypeOK
<1>4. version' \in [Requests -> Nat]
  BY <1>0, <1>1 DEF RecordInstallObservation, TypeOK
<1>5. ASSUME to = "Verified" PROVE Justified(r)'
  <2>1. ~ r.approval /\ ~ r.git /\ r.action = "install"
    BY <1>1, <1>5 DEF RecordInstallObservation
  <2>2. PICK a \in receipts : a.op = r /\ a.phase = "Applied" /\ a.uid = uid
    BY <1>1 DEF RecordInstallObservation, AppliedWith
  <2> DEFINE v == [op |-> r, epoch |-> e, phase |-> "Verified", uid |-> uid,
                   sideEffect |-> "present"]
  <2>3. a \in receipts' /\ v \in receipts'
    BY <1>1, <2>2 DEF RecordInstallObservation, AddReceipt
  <2>4. v.op = r /\ v.phase = "Verified" /\ v.uid = a.uid
    BY <2>2
  <2> QED
    BY <2>1, <2>2, <2>3, <2>4 DEF Justified
<1>6. "Verified" \in {"Applied", "Verified", "Failed", "Unknown"} /\ "present" \in SideEffects
  BY DEF SideEffects
<1> HIDE DEF to
<1> QED
  BY <1>1, <1>2, <1>3, <1>4, <1>5, <1>6, ObservedStep DEF RecordInstallObservation

\* record_remove_observation adds evidence and leaves the state.
LEMMA RemoveObservationKeepsLedgerInv ==
    ASSUME LedgerInv, NEW w \in Workers, NEW i \in DOMAIN outbox, NEW e,
           NEW uid \in Uids, RecordRemoveObservation(w, i, e, uid)
    PROVE  LedgerInv'
<1>p. PICK r \in Requests : r = outbox[i].op
  BY HeldClaim DEF RecordRemoveObservation
<1>0. TypeOK
  BY DEF LedgerInv
<1>1. "Applied" \in States \ {"Planned", "Verified"} /\ "present" \in SideEffects
  BY DEF States, SideEffects
<1>2. state' = [state EXCEPT ![r] = "Applied"]
  BY <1>0, <1>p DEF RecordRemoveObservation, TypeOK, opVars
<1>3. version' \in [Requests -> Nat]
  BY <1>0 DEF RecordRemoveObservation, TypeOK, opVars
<1> QED
  BY <1>p, <1>1, <1>2, <1>3, ObservedStep DEF RecordRemoveObservation, opVars

\* record_execution_failure closes an operation as Failed or Unknown.
LEMMA FailureKeepsLedgerInv ==
    ASSUME LedgerInv, NEW w \in Workers, NEW i \in DOMAIN outbox, NEW e,
           NEW sideEffect \in SideEffects, RecordExecutionFailure(w, i, e, sideEffect)
    PROVE  LedgerInv'
<1> DEFINE phase == FailurePhase(sideEffect)
<1>0. TypeOK
  BY DEF LedgerInv
<1>1. PICK event : ClaimHeld(w, i, e, event)
  BY DEF RecordExecutionFailure
<1>2. PICK r \in Requests : r = outbox[i].op
  BY <1>1, HeldClaim
<1>3. phase \in {"Failed", "Unknown"} /\ phase \in States \ {"Planned", "Verified"}
  BY DEF FailurePhase, States
<1>4. version' \in [Requests -> Nat]
  BY <1>0, <1>2 DEF RecordExecutionFailure, TypeOK
<1>5. /\ state' = [state EXCEPT ![r] = phase]
      /\ AddReceipt(r, e, phase, NoUid, sideEffect)
      /\ outbox' = Deliver(i)
      /\ UNCHANGED <<session, approver, proposed, merged, verifier, revoked>>
  BY <1>2 DEF RecordExecutionFailure
<1>6. /\ phase \in States \ {"Planned"}
      /\ phase \in {"Applied", "Verified", "Failed", "Unknown"}
      /\ phase # "Verified"
      /\ NoUid \in Uids \cup {NoUid}
  BY <1>3
<1> HIDE DEF phase
<1> QED
  BY <1>1, <1>2, <1>4, <1>5, <1>6, ObservedStep

\* verify_extension_operation closes an operation on matching evidence.
LEMMA VerifyKeepsLedgerInv ==
    ASSUME LedgerInv, NEW s \in Subjects, NEW r \in Requests, VerifyExtensionOperation(s, r)
    PROVE  LedgerInv'
<1>0. TypeOK /\ s # NoSubject
  BY SubjectsAssumption DEF LedgerInv
<1>1. /\ state[r] = "Applied"
      /\ state' = [state EXCEPT ![r] = "Verified"]
      /\ verifier' = [verifier EXCEPT ![r] = s]
      /\ EvidenceMatches(r)
      /\ UNCHANGED <<session, approver, proposed, merged, ledgerVars>>
  BY DEF VerifyExtensionOperation
<1> USE DEF ledgerVars
<1>2. TypeOK'
  <2>1. version' \in [Requests -> Nat]
    BY <1>0 DEF VerifyExtensionOperation, TypeOK
  <2> QED
    BY <1>0, <1>1, <2>1 DEF TypeOK, States
<1>3. ApprovedByAnother'
  BY <1>0, <1>1 DEF LedgerInv, ApprovedByAnother, IndependentOf, TypeOK
<1>4. Justified(r)'
  <2>1. \E a \in receipts :
          /\ a.op = r /\ a.phase = "Applied"
          /\ r.action # "revoke" =>
                \E v \in receipts : v.op = r /\ v.phase = "Verified" /\ v.uid = a.uid
    BY <1>1 DEF EvidenceMatches, ReceiptOf
  <2>2. r.action = "revoke" => revoked[r.image].op = r
    BY <1>1 DEF EvidenceMatches
  <2>3. r.approval => approver[r] # NoSubject /\ Person[approver[r]] # Person[r.actor]
    BY <1>1 DEF LedgerInv, ApprovedByAnother, IndependentOf
  <2>4. r.git => merged[r]
    BY <1>1 DEF LedgerInv, AppliedAfterMerge
  <2>5. verifier'[r] # NoSubject
    BY <1>0, <1>1 DEF TypeOK
  <2>6. /\ receipts' = receipts /\ revoked' = revoked
        /\ approver' = approver /\ merged' = merged
    BY <1>1
  <2> QED
    BY <2>1, <2>2, <2>3, <2>4, <2>5, <2>6 DEF Justified
<1>5. \A j \in DOMAIN outbox' : Kept(j)
  BY <1>1 DEF Kept
<1>6. \A q \in Requests \ {r} : EvidenceGrows(q)
  BY <1>0, <1>1 DEF EvidenceGrows, TypeOK
<1>7. "Verified" \in States \ {"Planned"}
  BY DEF States
<1>8. /\ \A q \in Requests : merged[q] => merged'[q]
      /\ r.git => merged'[r]
  BY <1>1 DEF LedgerInv, AppliedAfterMerge
<1> QED
  BY <1>1, <1>2, <1>3, <1>4, <1>5, <1>6, <1>7, <1>8, OperationStep

\* Every transaction keeps the invariant.
LEMMA NextKeepsLedgerInv ==
    ASSUME LedgerInv, [Next]_vars
    PROVE  LedgerInv'
<1>1. ASSUME UNCHANGED vars PROVE LedgerInv'
  <2> USE <1>1 DEF vars, opVars, ledgerVars, LedgerInv
  <2>1. TypeOK' /\ ApprovedByAnother'
    BY DEF TypeOK, ApprovedByAnother, IndependentOf
  <2>2. DispatchedAfterApproval' /\ ClaimedAfterMerge' /\ AppliedAfterMerge'
    BY DEF DispatchedAfterApproval, ClaimedAfterMerge, AppliedAfterMerge
  <2>3. VerifiedIsJustified'
    BY DEF VerifiedIsJustified, Justified
  <2> QED
    BY <2>1, <2>2, <2>3
<1>2. ASSUME NEW s \in Subjects, NEW aal \in {"none", "aal1", "aal2"}, SessionChanges(s, aal)
      PROVE  LedgerInv'
  BY <1>2, SessionChangesKeepsLedgerInv
<1>3. ASSUME NEW r \in Requests, Accept(r) \/ RecordProposal(r) \/ RecordMerge(r)
      PROVE  LedgerInv'
  BY <1>3, AcceptKeepsLedgerInv, RecordProposalKeepsLedgerInv, RecordMergeKeepsLedgerInv
<1>4. ASSUME NEW s \in Subjects, NEW r \in Requests,
             Approve(s, r) \/ VerifyExtensionOperation(s, r)
      PROVE  LedgerInv'
  BY <1>4, ApproveKeepsLedgerInv, VerifyKeepsLedgerInv
<1>5. ASSUME NEW i \in DOMAIN outbox, LeaseExpires(i) PROVE LedgerInv'
  BY <1>5, LeaseExpiresKeepsLedgerInv
<1>6. ASSUME NEW w \in Workers, NEW i \in DOMAIN outbox, Claim(w, i) PROVE LedgerInv'
  BY <1>6, ClaimKeepsLedgerInv
<1>7. ASSUME NEW w \in Workers, NEW i \in DOMAIN outbox, NEW e \in 1 .. MaxClaims,
             OwnerCall(w, i, e)
      PROVE  LedgerInv'
  BY <1>7, ApplyRevocationKeepsLedgerInv, ApplyInstallKeepsLedgerInv,
     ApplyRemoveKeepsLedgerInv, InstallObservationKeepsLedgerInv,
     RemoveObservationKeepsLedgerInv, FailureKeepsLedgerInv DEF OwnerCall
<1> QED
  BY <1>1, <1>2, <1>3, <1>4, <1>5, <1>6, <1>7 DEF Next

-----------------------------------------------------------------------------
(* The theorems.                                                            *)

\* The inductive invariant holds of every reachable ledger: the approver is another
\* person, dispatch follows approval, a claim follows the merge, and Verified is
\* earned (accept_operation to verify_extension_operation).
THEOREM LedgerInvariant == Spec => []LedgerInv
BY InitEstablishesLedgerInv, NextKeepsLedgerInv, PTL DEF Spec

\* The ledger's rows have the shape the tables' constraints give them, whatever
\* functions run in whatever order.
THEOREM TypeCorrectness == Spec => []TypeOK
<1>1. LedgerInv => TypeOK
  BY DEF LedgerInv
<1> QED
  BY <1>1, LedgerInvariant, PTL

\* No owner ever works for a request before the approval, by another person, and
\* the merge that its policy asks for (claim_owner_operation).
THEOREM Authorization == Spec => []ClaimedOnlyWhenAuthorized
<1>1. LedgerInv => ClaimedOnlyWhenAuthorized
  <2> SUFFICES ASSUME LedgerInv, NEW i \in DOMAIN outbox, outbox[i].owner # NoWorker
               PROVE  LET r == outbox[i].op IN
                      /\ r.approval => /\ approver[r] # NoSubject
                                       /\ Person[approver[r]] # Person[r.actor]
                      /\ r.git => merged[r]
    BY DEF ClaimedOnlyWhenAuthorized
  <2>1. outbox[i] \in Row
    BY DEF LedgerInv, TypeOK
  <2>2. outbox[i].op \in Requests
    BY <2>1 DEF Row
  <2>3. /\ outbox[i].event \in DispatchEvents
        /\ outbox[i].op.git => merged[outbox[i].op]
    BY DEF LedgerInv, ClaimedAfterMerge
  <2>4. state[outbox[i].op] \notin {"None", "Planned"}
    BY <2>3 DEF LedgerInv, DispatchedAfterApproval
  <2> QED
    BY <2>2, <2>3, <2>4 DEF LedgerInv, ApprovedByAnother, IndependentOf
<1> QED
  BY <1>1, LedgerInvariant, PTL

\* A Verified operation carries the owner's evidence, the approval, the merge and
\* the verifying subject it should (verify_extension_operation).
THEOREM Justification == Spec => []VerifiedIsJustified
<1>1. LedgerInv => VerifiedIsJustified
  BY DEF LedgerInv
<1> QED
  BY <1>1, LedgerInvariant, PTL

-----------------------------------------------------------------------------
(* Refinement of the domain's transition table.                             *)

Moves(r) == Lifecycle!Transit(r) \/ Lifecycle!TransitTwice(r)

\* accept_operation creates an operation.
LEMMA CreateStep ==
    ASSUME NEW r \in Requests, Accept(r)
    PROVE  Lifecycle!Create(r)
BY DEF Accept, KeyIsFree, Lifecycle!Create

\* A step along one edge of the table, counted.
LEMMA OneMove ==
    ASSUME NEW r \in Requests, state[r] # "None",
           NEW to \in Lifecycle!Transitions[state[r]],
           state' = [state EXCEPT ![r] = to],
           version' = [version EXCEPT ![r] = @ + 1]
    PROVE  Moves(r)
BY DEF Moves, Lifecycle!Transit

\* An apply function passes through Reconciling, or is already there.
LEMMA AppliedMove ==
    ASSUME NEW r \in Requests, Applicable(r), BecomesApplied(r)
    PROVE  Moves(r)
<1>1. CASE state[r] = "Reconciling"
  <2>1. "Applied" \in Lifecycle!Transitions[state[r]]
    BY <1>1 DEF Lifecycle!Transitions
  <2>2. /\ state' = [state EXCEPT ![r] = "Applied"]
        /\ version' = [version EXCEPT ![r] = @ + 1]
    BY <1>1 DEF BecomesApplied
  <2> QED
    BY <1>1, <2>1, <2>2, OneMove
<1>2. CASE state[r] \in {"Submitted", "Unknown"}
  <2>1. /\ "Reconciling" \in Lifecycle!Transitions[state[r]]
        /\ "Applied" \in Lifecycle!Transitions["Reconciling"]
    BY <1>2 DEF Lifecycle!Transitions
  <2>2. /\ state' = [state EXCEPT ![r] = "Applied"]
        /\ version' = [version EXCEPT ![r] = @ + 2]
    BY <1>2 DEF BecomesApplied
  <2> QED
    BY <1>2, <2>1, <2>2 DEF Moves, Lifecycle!TransitTwice
<1> QED
  BY <1>1, <1>2 DEF Applicable

\* Every owner call follows the table.
LEMMA OwnerCallMoves ==
    ASSUME LedgerInv, NEW w \in Workers, NEW i \in DOMAIN outbox, NEW e, OwnerCall(w, i, e)
    PROVE  UNCHANGED <<state, version>> \/ \E r \in Requests : Moves(r)
<1>1. PICK r \in Requests : r = outbox[i].op
  BY HeldClaim DEF OwnerCall, ApplyRevocation, ApplyInstallRegistration,
     ApplyRemoveRegistration, RecordInstallObservation, RecordRemoveObservation,
     RecordExecutionFailure
<1>2. ASSUME \/ ApplyRevocation(w, i, e)
             \/ \E uid \in Uids : \/ ApplyInstallRegistration(w, i, e, uid)
                                  \/ ApplyRemoveRegistration(w, i, e, uid)
      PROVE  Moves(r)
  <2>1. Applicable(r) /\ BecomesApplied(r)
    BY <1>1, <1>2 DEF ApplyRevocation, ApplyInstallRegistration, ApplyRemoveRegistration
  <2> QED
    BY <2>1, AppliedMove
<1>3. ASSUME NEW uid \in Uids, RecordInstallObservation(w, i, e, uid)
      PROVE  UNCHANGED <<state, version>> \/ Moves(r)
  <2>1. "Verified" \in Lifecycle!Transitions["Applied"]
    BY DEF Lifecycle!Transitions
  <2> QED
    BY <1>1, <1>3, <2>1, OneMove DEF RecordInstallObservation
<1>4. ASSUME NEW uid \in Uids, RecordRemoveObservation(w, i, e, uid)
      PROVE  UNCHANGED <<state, version>>
  BY <1>4 DEF RecordRemoveObservation, opVars
<1>5. ASSUME NEW sideEffect \in SideEffects, RecordExecutionFailure(w, i, e, sideEffect)
      PROVE  Moves(r)
  <2>1. state[r] \in {"Submitted", "Reconciling", "Applied"}
    BY <1>1, <1>5 DEF RecordExecutionFailure
  <2>2. FailurePhase(sideEffect) \in Lifecycle!Transitions[state[r]]
    BY <2>1 DEF FailurePhase, Lifecycle!Transitions
  <2>3. /\ state' = [state EXCEPT ![r] = FailurePhase(sideEffect)]
        /\ version' = [version EXCEPT ![r] = @ + 1]
    BY <1>1, <1>5 DEF RecordExecutionFailure
  <2> QED
    BY <2>1, <2>2, <2>3, OneMove
<1> QED
  BY <1>2, <1>3, <1>4, <1>5 DEF OwnerCall

\* Every step accepts an operation, moves one along the table, or leaves all
\* states and versions alone.
LEMMA StateSteps ==
    ASSUME LedgerInv, [Next]_vars
    PROVE  \/ UNCHANGED <<state, version>>
           \/ \E r \in Requests : Accept(r) \/ Moves(r)
<1>1. ASSUME UNCHANGED vars PROVE UNCHANGED <<state, version>>
  BY <1>1 DEF vars, opVars
<1>2. ASSUME NEW s \in Subjects, NEW aal \in {"none", "aal1", "aal2"}, SessionChanges(s, aal)
      PROVE  UNCHANGED <<state, version>>
  BY <1>2 DEF SessionChanges, opVars
<1>3. ASSUME NEW r \in Requests, RecordProposal(r) PROVE UNCHANGED <<state, version>>
  BY <1>3 DEF RecordProposal
<1>4. ASSUME NEW r \in Requests, RecordMerge(r) PROVE Moves(r)
  <2>1. "Submitted" \in Lifecycle!Transitions["Authorized"]
    BY DEF Lifecycle!Transitions
  <2> QED
    BY <1>4, <2>1, OneMove DEF RecordMerge
<1>5. ASSUME NEW s \in Subjects, NEW r \in Requests, Approve(s, r) PROVE Moves(r)
  <2>1. "Authorized" \in Lifecycle!Transitions["Planned"]
    BY DEF Lifecycle!Transitions
  <2> QED
    BY <1>5, <2>1, OneMove DEF Approve
<1>6. ASSUME NEW s \in Subjects, NEW r \in Requests, VerifyExtensionOperation(s, r)
      PROVE  Moves(r)
  <2>1. "Verified" \in Lifecycle!Transitions["Applied"]
    BY DEF Lifecycle!Transitions
  <2> QED
    BY <1>6, <2>1, OneMove DEF VerifyExtensionOperation
<1>7. ASSUME NEW i \in DOMAIN outbox, LeaseExpires(i) PROVE UNCHANGED <<state, version>>
  BY <1>7 DEF LeaseExpires, opVars
<1>8. ASSUME NEW w \in Workers, NEW i \in DOMAIN outbox, Claim(w, i)
      PROVE  UNCHANGED <<state, version>> \/ \E r \in Requests : Moves(r)
  <2>0. outbox[i] \in Row
    BY DEF LedgerInv, TypeOK
  <2>1. PICK r \in Requests : r = outbox[i].op
    BY <2>0 DEF Row
  <2>2. "Submitted" \in Lifecycle!Transitions["Authorized"]
    BY DEF Lifecycle!Transitions
  <2> QED
    BY <1>8, <2>1, <2>2, OneMove DEF Claim
<1>9. ASSUME NEW w \in Workers, NEW i \in DOMAIN outbox, NEW e \in 1 .. MaxClaims,
             OwnerCall(w, i, e)
      PROVE  UNCHANGED <<state, version>> \/ \E r \in Requests : Moves(r)
  BY <1>9, OwnerCallMoves
<1> QED
  BY <1>1, <1>2, <1>3, <1>4, <1>5, <1>6, <1>7, <1>8, <1>9 DEF Next

\* The PL/pgSQL functions implement the closed transition table of the domain
\* package, and state_version counts every transition they commit.
THEOREM LifecycleRefinement == Spec => ImplementsLifecycle
<1>1. Init => Lifecycle!Init
  BY DEF Init, Lifecycle!Init
<1>2. ASSUME LedgerInv, [Next]_vars PROVE [Lifecycle!Next]_(Lifecycle!vars)
  <2>1. CASE UNCHANGED <<state, version>>
    BY <2>1 DEF Lifecycle!vars
  <2>2. ASSUME NEW r \in Requests, Accept(r) \/ Moves(r) PROVE Lifecycle!Next
    BY <2>2, CreateStep DEF Lifecycle!Next, Moves
  <2> QED
    BY <1>2, <2>1, <2>2, StateSteps
<1> QED
  BY <1>1, <1>2, LedgerInvariant, PTL DEF Spec, ImplementsLifecycle, Lifecycle!Spec

\* An actor's idempotency key names at most one operation (accept_operation).
THEOREM Idempotency == Spec => []OneOperationPerKey
<1>1. Init => OneOperationPerKey
  BY DEF Init, OneOperationPerKey
<1>2. ASSUME LedgerInv, OneOperationPerKey, [Next]_vars PROVE OneOperationPerKey'
  <2>0. state \in [Requests -> States \cup {"None"}]
    BY <1>2 DEF LedgerInv, TypeOK
  <2>1. CASE UNCHANGED <<state, version>>
    BY <1>2, <2>1 DEF OneOperationPerKey
  <2>2. ASSUME NEW r \in Requests, Moves(r) PROVE OneOperationPerKey'
    <3>1. \A q \in Requests : state[q] = "None" => state'[q] = "None"
      BY <2>0, <2>2 DEF Moves, Lifecycle!Transit, Lifecycle!TransitTwice
    <3> QED
      BY <1>2, <3>1 DEF OneOperationPerKey
  <2>3. ASSUME NEW r \in Requests, Accept(r) PROVE OneOperationPerKey'
    <3>1. \A q \in Requests \ {r} : state'[q] = state[q]
      BY <2>0, <2>3 DEF Accept
    <3>2. \A q \in Requests : (q.actor = r.actor /\ q.key = r.key) => state[q] = "None"
      BY <2>3 DEF Accept, KeyIsFree
    <3> QED
      BY <1>2, <3>1, <3>2 DEF OneOperationPerKey
  <2> QED
    BY <1>2, <2>1, <2>2, <2>3, StateSteps
<1> QED
  BY <1>1, <1>2, LedgerInvariant, PTL DEF Spec

\* Once an image is revoked, no install of it gains evidence or becomes Verified,
\* whichever of apply_install_registration, record_install_observation and
\* verify_extension_operation was already on its way.
THEOREM RevocationHolds == Spec => RevokedImageGainsNothing
<1> DEFINE Gains(r) == \/ state'[r] = "Verified" /\ state[r] # "Verified"
                       \/ \E x \in receipts' \ receipts :
                             x.op = r /\ x.phase \notin {"Failed", "Unknown"}
<1>1. ASSUME LedgerInv, [Next]_vars, NEW r \in Requests, r.action = "install",
             IsRevoked(r.image)
      PROVE  ~ Gains(r)
  <2>0. state \in [Requests -> States \cup {"None"}]
    BY <1>1 DEF LedgerInv, TypeOK
  <2>2. ASSUME UNCHANGED vars PROVE ~ Gains(r)
    BY <2>2 DEF vars, opVars, ledgerVars
  <2>3. ASSUME NEW s \in Subjects, NEW aal \in {"none", "aal1", "aal2"}, SessionChanges(s, aal)
        PROVE  ~ Gains(r)
    BY <2>3 DEF SessionChanges, opVars, ledgerVars
  <2>4. ASSUME NEW q \in Requests, Accept(q) \/ RecordProposal(q) \/ RecordMerge(q)
        PROVE  ~ Gains(r)
    BY <2>0, <2>4 DEF Accept, RecordProposal, RecordMerge, ledgerVars
  <2>5. ASSUME NEW s \in Subjects, NEW q \in Requests, Approve(s, q) PROVE ~ Gains(r)
    BY <2>0, <2>5 DEF Approve
  <2>6. ASSUME NEW s \in Subjects, NEW q \in Requests, VerifyExtensionOperation(s, q)
        PROVE  ~ Gains(r)
    <3>1. q # r
      BY <1>1, <2>6 DEF VerifyExtensionOperation, EvidenceMatches, MayInstall
    <3> QED
      BY <2>0, <2>6, <3>1 DEF VerifyExtensionOperation, ledgerVars
  <2>7. ASSUME NEW i \in DOMAIN outbox, LeaseExpires(i) PROVE ~ Gains(r)
    BY <2>7 DEF LeaseExpires, opVars
  <2>8. ASSUME NEW w \in Workers, NEW i \in DOMAIN outbox, Claim(w, i) PROVE ~ Gains(r)
    <3>1. state'[r] = state[r] \/ state'[r] = "Submitted"
      BY <2>0, <2>8 DEF Claim
    <3> QED
      BY <2>8, <3>1 DEF Claim
  <2>9. ASSUME NEW w \in Workers, NEW i \in DOMAIN outbox, NEW e \in 1 .. MaxClaims,
               OwnerCall(w, i, e)
        PROVE  ~ Gains(r)
    <3>1. ASSUME ApplyRevocation(w, i, e) PROVE ~ Gains(r)
      <4>1. outbox[i].op # r
        BY <1>1, <3>1 DEF ApplyRevocation
      <4> QED
        BY <2>0, <3>1, <4>1 DEF ApplyRevocation, BecomesApplied, AddReceipt
    <3>2. ASSUME NEW uid \in Uids, ApplyInstallRegistration(w, i, e, uid) PROVE ~ Gains(r)
      <4>1. outbox[i].op # r
        BY <1>1, <3>2 DEF ApplyInstallRegistration, MayInstall
      <4> QED
        BY <2>0, <3>2, <4>1 DEF ApplyInstallRegistration, BecomesApplied, AddReceipt
    <3>3. ASSUME NEW uid \in Uids, ApplyRemoveRegistration(w, i, e, uid) PROVE ~ Gains(r)
      <4>1. outbox[i].op # r
        BY <1>1, <3>3 DEF ApplyRemoveRegistration
      <4> QED
        BY <2>0, <3>3, <4>1 DEF ApplyRemoveRegistration, BecomesApplied, AddReceipt
    <3>4. ASSUME NEW uid \in Uids, RecordInstallObservation(w, i, e, uid) PROVE ~ Gains(r)
      <4>1. outbox[i].op # r
        BY <1>1, <3>4 DEF RecordInstallObservation, MayInstall
      <4>2. state'[r] = state[r]
        BY <2>0, <3>4, <4>1 DEF RecordInstallObservation
      <4> QED
        BY <3>4, <4>1, <4>2 DEF RecordInstallObservation, AddReceipt
    <3>5. ASSUME NEW uid \in Uids, RecordRemoveObservation(w, i, e, uid) PROVE ~ Gains(r)
      <4>1. outbox[i].op # r
        BY <1>1, <3>5 DEF RecordRemoveObservation
      <4> QED
        BY <3>5, <4>1 DEF RecordRemoveObservation, opVars, AddReceipt
    <3>6. ASSUME NEW sideEffect \in SideEffects, RecordExecutionFailure(w, i, e, sideEffect)
          PROVE  ~ Gains(r)
      <4>1. FailurePhase(sideEffect) \in {"Failed", "Unknown"}
        BY DEF FailurePhase
      <4>2. /\ state' = [state EXCEPT ![outbox[i].op] = FailurePhase(sideEffect)]
            /\ AddReceipt(outbox[i].op, e, FailurePhase(sideEffect), NoUid, sideEffect)
        BY <3>6 DEF RecordExecutionFailure
      <4> QED
        BY <2>0, <4>1, <4>2 DEF AddReceipt
    <3> QED
      BY <2>9, <3>1, <3>2, <3>3, <3>4, <3>5, <3>6 DEF OwnerCall
  <2> QED
    BY <1>1, <2>2, <2>3, <2>4, <2>5, <2>6, <2>7, <2>8, <2>9 DEF Next
<1>2. ASSUME LedgerInv, [Next]_vars
      PROVE  \A r \in Requests : (r.action = "install" /\ IsRevoked(r.image)) =>
                /\ state'[r] = "Verified" => state[r] = "Verified"
                /\ \A x \in receipts' \ receipts : x.op = r => x.phase \in {"Failed", "Unknown"}
  BY <1>1, <1>2
<1> QED
  BY <1>2, LedgerInvariant, PTL DEF Spec, RevokedImageGainsNothing

-----------------------------------------------------------------------------
(* Rows, receipts and states of an operation agree: DispatchMatchesState    *)
(* and ReceiptsAreFenced.  What a function does to the outbox is a delivery *)
(* of row d (or of none: d = 0), at most one new row, and nothing else that *)
(* the argument reads.                                                      *)

\* Every row stays what it is about; d is delivered, and a delivered row keeps the
\* epoch it was delivered under.
RowsCarry(d) ==
    \A j \in DOMAIN outbox :
        /\ j \in DOMAIN outbox'
        /\ outbox'[j].op = outbox[j].op
        /\ outbox'[j].event = outbox[j].event
        /\ outbox'[j].delivered = (outbox[j].delivered \/ j = d)
        /\ (outbox[j].delivered \/ j = d) => outbox'[j].epoch = outbox[j].epoch

\* Row n is the only new one.
RowIsNew(n, row) ==
    /\ DOMAIN outbox' = DOMAIN outbox \cup {n}
    /\ n \notin DOMAIN outbox
    /\ outbox'[n] = row

\* No function delivers row 0.
LEMMA RowsAreCounted ==
    ASSUME outbox \in Seq(Row)
    PROVE  /\ 0 \notin DOMAIN outbox
           /\ \A j \in DOMAIN outbox : /\ outbox[j] \in Row
                                       /\ outbox[j].op \in Requests /\ outbox[j].event \in Events
                                       /\ outbox[j].delivered \in BOOLEAN /\ outbox[j].epoch \in Nat
<1>1. \A j \in DOMAIN outbox : outbox[j] \in Row
  OBVIOUS
<1>2. 0 \notin DOMAIN outbox
  OBVIOUS
<1> QED BY <1>1, <1>2 DEF Row

\* INSERT INTO outbox.
LEMMA CarryAppend ==
    ASSUME outbox \in Seq(Row), NEW row \in Row, outbox' = Append(outbox, row)
    PROVE  RowsCarry(0) /\ \E n : RowIsNew(n, row)
<1> DEFINE n == Len(outbox) + 1
<1>1. /\ DOMAIN outbox = 1 .. Len(outbox) /\ Len(outbox) \in Nat /\ DOMAIN outbox' = 1 .. n
      /\ \A j \in DOMAIN outbox : outbox'[j] = outbox[j]
      /\ outbox'[n] = row
  BY AppendRow
<1>2. n \notin DOMAIN outbox /\ DOMAIN outbox' = DOMAIN outbox \cup {n}
  BY <1>1
<1>3. RowIsNew(n, row)
  BY <1>1, <1>2 DEF RowIsNew
<1> HIDE DEF n
<1>4. RowsCarry(0)
  BY <1>1, <1>2, RowsAreCounted DEF RowsCarry
<1> QED BY <1>3, <1>4

\* UPDATE of the lease of an open row.
LEMMA CarryRewrite ==
    ASSUME outbox \in Seq(Row), NEW i \in DOMAIN outbox, NEW row \in Row,
           outbox' = [outbox EXCEPT ![i] = row],
           row.op = outbox[i].op, row.event = outbox[i].event,
           ~ row.delivered, ~ outbox[i].delivered
    PROVE  RowsCarry(0) /\ DOMAIN outbox' = DOMAIN outbox
<1>1. /\ DOMAIN outbox' = DOMAIN outbox /\ outbox'[i] = row
      /\ \A j \in DOMAIN outbox : j # i => outbox'[j] = outbox[j]
  BY RewriteRow
<1>2. row.delivered = FALSE /\ outbox[i].delivered = FALSE
  BY RowsAreCounted DEF Row
<1> QED BY <1>1, <1>2, RowsAreCounted DEF RowsCarry

\* UPDATE of delivered_at.
LEMMA CarryDeliver ==
    ASSUME outbox \in Seq(Row), NEW i \in DOMAIN outbox
    PROVE  /\ Deliver(i) \in Seq(Row) /\ DOMAIN Deliver(i) = DOMAIN outbox
           /\ Deliver(i)[i].op = outbox[i].op /\ Deliver(i)[i].event = outbox[i].event
           /\ Deliver(i)[i].epoch = outbox[i].epoch /\ Deliver(i)[i].delivered = TRUE
           /\ \A j \in DOMAIN outbox : j # i => Deliver(i)[j] = outbox[j]
<1> DEFINE row == [outbox[i] EXCEPT !.delivered = TRUE]
<1>1. outbox[i] \in Row
  OBVIOUS
<1>2. /\ row \in Row /\ row.delivered = TRUE
      /\ row.op = outbox[i].op /\ row.event = outbox[i].event /\ row.epoch = outbox[i].epoch
  BY <1>1 DEF Row
<1>3. Deliver(i) = [outbox EXCEPT ![i] = row]
  BY DEF Deliver
<1> HIDE DEF row
<1> QED
  BY <1>2, <1>3, RewriteRow

\* The functions that record an observation or a failure.
LEMMA CarryDelivered ==
    ASSUME outbox \in Seq(Row), NEW i \in DOMAIN outbox, outbox' = Deliver(i)
    PROVE  RowsCarry(i) /\ DOMAIN outbox' = DOMAIN outbox
BY CarryDeliver, RowsAreCounted DEF RowsCarry

\* The functions that apply an install or a removal.
LEMMA CarryDeliveredAppend ==
    ASSUME outbox \in Seq(Row), NEW i \in DOMAIN outbox, NEW row \in Row,
           outbox' = Append(Deliver(i), row)
    PROVE  RowsCarry(i) /\ \E n : RowIsNew(n, row)
<1> DEFINE q == Deliver(i)
           n == Len(q) + 1
<1>1. /\ q \in Seq(Row) /\ DOMAIN q = DOMAIN outbox
      /\ q[i].op = outbox[i].op /\ q[i].event = outbox[i].event
      /\ q[i].epoch = outbox[i].epoch /\ q[i].delivered = TRUE
      /\ \A j \in DOMAIN outbox : j # i => q[j] = outbox[j]
  BY CarryDeliver
<1> HIDE DEF q
<1>2. outbox' = Append(q, row)
  BY DEF q
<1>3. /\ DOMAIN q = 1 .. Len(q) /\ Len(q) \in Nat /\ DOMAIN outbox' = 1 .. n
      /\ \A j \in DOMAIN q : outbox'[j] = q[j]
      /\ outbox'[n] = row
  BY <1>1, <1>2, AppendRow
<1>4. n \notin DOMAIN q /\ DOMAIN outbox' = DOMAIN q \cup {n}
  BY <1>3
<1>5. RowIsNew(n, row)
  BY <1>1, <1>3, <1>4 DEF RowIsNew
<1> HIDE DEF n
<1>6. RowsCarry(i)
  BY <1>1, <1>3, <1>4, RowsAreCounted DEF RowsCarry
<1> QED BY <1>5, <1>6

\* An operation whose state, receipts and dispatch rows a step leaves alone.
LEMMA OtherOperation ==
    ASSUME NEW q \in Requests, OperationMatches(q), outbox \in Seq(Row), NEW d, RowsCarry(d),
           d \in DOMAIN outbox => outbox[d].op # q,
           \A j \in DOMAIN outbox' : \/ j \in DOMAIN outbox
                                     \/ outbox'[j].op # q
                                     \/ outbox'[j].event = "OperationAwaitingApproval",
           state'[q] = state[q],
           \A x : x.op = q => (x \in receipts' <=> x \in receipts)
    PROVE  OperationMatches(q)'
<1>1. \A phase : ReceiptOf(q, phase)' = ReceiptOf(q, phase)
  BY DEF ReceiptOf
<1>2. \A j \in DOMAIN outbox : /\ outbox'[j].op = outbox[j].op /\ outbox'[j].event = outbox[j].event
                               /\ j \in DOMAIN outbox'
                               /\ outbox[j].op = q => outbox'[j].delivered = outbox[j].delivered
  BY RowsAreCounted DEF RowsCarry
<1>3. \A j \in DOMAIN outbox' :
          (outbox'[j].op = q /\ outbox'[j].event # "OperationAwaitingApproval") => j \in DOMAIN outbox
  OBVIOUS
<1>4. "OperationAwaitingApproval" \notin Observations
      /\ "OperationReadyForDispatch" # "OperationAwaitingApproval"
  BY DEF Observations, ObservationOf
<1>5. DispatchedOnce(q)'
  <2>1. \A j \in DOMAIN outbox' : (outbox'[j].op = q /\ outbox'[j].event = "OperationReadyForDispatch") =>
           /\ j \in DOMAIN outbox /\ outbox[j].op = q /\ outbox[j].event = "OperationReadyForDispatch"
           /\ outbox'[j].delivered = outbox[j].delivered
    BY <1>2, <1>3
  <2> QED BY <1>2, <2>1 DEF OperationMatches, DispatchedOnce
<1>6. ObservedOnce(q)'
  <2>1. \A j \in DOMAIN outbox' : (outbox'[j].op = q /\ outbox'[j].event \in Observations) =>
           /\ j \in DOMAIN outbox /\ outbox[j].op = q /\ outbox[j].event \in Observations
           /\ outbox'[j].delivered = outbox[j].delivered
    BY <1>2, <1>3, <1>4
  <2> QED BY <1>1, <1>2, <2>1 DEF OperationMatches, ObservedOnce
<1>7. ReceiptsMatchState(q)'
  BY <1>1 DEF OperationMatches, ReceiptsMatchState
<1> QED BY <1>5, <1>6, <1>7 DEF OperationMatches

\* A step that writes no receipt keeps the rows of the receipts there are.
LEMMA NoReceiptStep ==
    ASSUME ReceiptsAreFenced, outbox \in Seq(Row), NEW d, RowsCarry(d), receipts' = receipts
    PROVE  ReceiptsAreFenced'
<1>1. \A j \in DOMAIN outbox : outbox[j].delivered =>
          /\ j \in DOMAIN outbox' /\ outbox'[j].op = outbox[j].op /\ outbox'[j].event = outbox[j].event
          /\ outbox'[j].delivered /\ outbox'[j].epoch = outbox[j].epoch
  BY RowsAreCounted DEF RowsCarry
<1> QED BY <1>1 DEF ReceiptsAreFenced, OneReceiptPerPhase

\* The phases of which an operation gets one receipt.
Closing == {"Verified", "Failed", "Unknown"}

\* A receipt written with the delivery of a row, under the row's epoch, where none of
\* its phase (or, if it closes the owner's work, none that does) was written before.
LEMMA ReceiptStep ==
    ASSUME ReceiptsAreFenced, outbox \in Seq(Row), NEW d \in DOMAIN outbox, RowsCarry(d),
           outbox[d].event \in DispatchEvents,
           NEW phase \in {"Applied"} \cup Closing, NEW uid, NEW sideEffect,
           AddReceipt(outbox[d].op, outbox[d].epoch, phase, uid, sideEffect),
           phase = "Applied" => ReceiptOf(outbox[d].op, "Applied") = {},
           phase \in Closing => \A p \in Closing : ReceiptOf(outbox[d].op, p) = {}
    PROVE  ReceiptsAreFenced'
<1> DEFINE x == [op |-> outbox[d].op, epoch |-> outbox[d].epoch, phase |-> phase,
                 uid |-> uid, sideEffect |-> sideEffect]
<1>1. receipts' = receipts \cup {x} /\ x.op = outbox[d].op /\ x.epoch = outbox[d].epoch /\ x.phase = phase
  BY DEF AddReceipt
<1> HIDE DEF x
<1>2. \A j \in DOMAIN outbox : (outbox[j].delivered \/ j = d) =>
          /\ j \in DOMAIN outbox' /\ outbox'[j].op = outbox[j].op /\ outbox'[j].event = outbox[j].event
          /\ outbox'[j].delivered /\ outbox'[j].epoch = outbox[j].epoch
  BY RowsAreCounted DEF RowsCarry
<1>3. \A y \in receipts' : \E i \in DOMAIN outbox' :
          /\ outbox'[i].op = y.op /\ outbox'[i].event \in DispatchEvents
          /\ outbox'[i].delivered /\ outbox'[i].epoch = y.epoch
  <2>1. ASSUME NEW y \in receipts
        PROVE \E i \in DOMAIN outbox' :
                 /\ outbox'[i].op = y.op /\ outbox'[i].event \in DispatchEvents
                 /\ outbox'[i].delivered /\ outbox'[i].epoch = y.epoch
    <3>1. PICK i \in DOMAIN outbox : /\ outbox[i].op = y.op /\ outbox[i].event \in DispatchEvents
                                     /\ outbox[i].delivered /\ outbox[i].epoch = y.epoch
      BY DEF ReceiptsAreFenced
    <3> QED BY <1>2, <3>1
  <2> QED BY <1>1, <1>2, <2>1
<1>4. \A y \in receipts : y.op = x.op =>
          /\ y.phase # x.phase
          /\ ~ ({x.phase, y.phase} \subseteq Closing)
  BY <1>1 DEF ReceiptOf, Closing
<1>5. OneReceiptPerPhase'
  BY <1>1, <1>4 DEF ReceiptsAreFenced, OneReceiptPerPhase, Closing
<1> QED BY <1>3, <1>5 DEF ReceiptsAreFenced, DispatchEvents, Events

\* Sessions and Git proposals are read by none of this.
LEMMA QuietKeepsDispatchInv ==
    ASSUME DispatchInv, UNCHANGED <<state, outbox, receipts>>
    PROVE  DispatchInv'
BY DEF DispatchInv, ReceiptsAreFenced, OneReceiptPerPhase, OperationMatches, DispatchedOnce,
       ObservedOnce, ReceiptsMatchState, ReceiptOf

\* An operation that was not dispatched yet has no dispatch row and no receipt.
LEMMA NotDispatchedYet ==
    ASSUME NEW r \in Requests, OperationMatches(r), state[r] \in {"None", "Planned"}
    PROVE  /\ \A j \in DOMAIN outbox : outbox[j].op = r =>
                 outbox[j].event # "OperationReadyForDispatch" /\ outbox[j].event \notin Observations
           /\ \A phase \in {"Applied"} \cup Closing : ReceiptOf(r, phase) = {}
<1>1. \A phase \in {"Applied"} \cup Closing : ReceiptOf(r, phase) = {}
  BY DEF OperationMatches, ReceiptsMatchState, Closing
<1> QED BY <1>1 DEF OperationMatches, DispatchedOnce, ObservedOnce

\* The first row of an operation: it awaits an approval, or is its dispatch.
LEMMA OperationOpens ==
    ASSUME DispatchInv, outbox \in Seq(Row), NEW r \in Requests, state[r] \in {"None", "Planned"},
           NEW event \in {"OperationAwaitingApproval", "OperationReadyForDispatch"},
           NEW to, to = IF event = "OperationReadyForDispatch" THEN "Authorized" ELSE "Planned",
           state \in [Requests -> States \cup {"None"}],
           state' = [state EXCEPT ![r] = to],
           outbox' = Append(outbox, NewRow(r, event, NoUid)), receipts' = receipts
    PROVE  DispatchInv'
<1> DEFINE row == NewRow(r, event, NoUid)
<1>1. row \in Row /\ row.op = r /\ row.event = event /\ row.delivered = FALSE
  <2>1. event \in Events
    BY DEF Events
  <2> QED BY <2>1, NewRowType DEF NewRow
<1> HIDE DEF row
<1>2. RowsCarry(0) /\ \E n : RowIsNew(n, row)
  BY <1>1, CarryAppend DEF row
<1>3. PICK n : RowIsNew(n, row)
  BY <1>2
<1>4. 0 \notin DOMAIN outbox
  BY RowsAreCounted
<1>5. ReceiptsAreFenced'
  BY <1>2, NoReceiptStep DEF DispatchInv
<1>6. \A q \in Requests \ {r} : OperationMatches(q)'
  BY <1>1, <1>2, <1>3, <1>4, OtherOperation DEF DispatchInv, RowIsNew
<1>7. OperationMatches(r)'
  <2>1. /\ \A j \in DOMAIN outbox : outbox[j].op = r =>
              outbox[j].event # "OperationReadyForDispatch" /\ outbox[j].event \notin Observations
        /\ \A phase \in {"Applied"} \cup Closing : ReceiptOf(r, phase) = {}
    BY NotDispatchedYet DEF DispatchInv
  <2>2. \A phase \in {"Applied"} \cup Closing : ReceiptOf(r, phase)' = {}
    BY <2>1 DEF ReceiptOf
  <2>3. \A j \in DOMAIN outbox' : outbox'[j].op = r =>
            /\ j # n => outbox'[j].event # "OperationReadyForDispatch" /\ outbox'[j].event \notin Observations
            /\ j = n => outbox'[j].event = event /\ outbox'[j].delivered = FALSE
    BY <1>1, <1>2, <1>3, <2>1 DEF RowIsNew, RowsCarry
  <2>4. event \notin Observations /\ n \in DOMAIN outbox' /\ outbox'[n].op = r /\ outbox'[n].event = event
    BY <1>1, <1>3 DEF RowIsNew, Observations, ObservationOf
  <2>5. state'[r] = to
    OBVIOUS
  <2>6. DispatchedOnce(r)'
    BY <2>3, <2>4, <2>5 DEF DispatchedOnce
  <2>7. ObservedOnce(r)'
    BY <2>3, <2>4, <2>5 DEF ObservedOnce
  <2>8. ReceiptsMatchState(r)'
    BY <2>2 DEF ReceiptsMatchState, Closing
  <2> QED BY <2>6, <2>7, <2>8 DEF OperationMatches
<1> QED BY <1>5, <1>6, <1>7 DEF DispatchInv

\* accept_operation and approve_operation open the first rows.
LEMMA IntakeKeepsDispatchInv ==
    ASSUME LedgerInv, DispatchInv, NEW r \in Requests,
           Accept(r) \/ \E s \in Subjects : Approve(s, r)
    PROVE  DispatchInv'
<1>0. outbox \in Seq(Row) /\ state \in [Requests -> States \cup {"None"}]
  BY DEF LedgerInv, TypeOK
<1>1. CASE Accept(r) /\ r.approval
  <2>1. /\ state[r] \in {"None", "Planned"} /\ state' = [state EXCEPT ![r] = "Planned"]
        /\ outbox' = Append(outbox, NewRow(r, "OperationAwaitingApproval", NoUid))
        /\ receipts' = receipts
    BY <1>1 DEF Accept, KeyIsFree
  <2> QED BY <1>0, <2>1, OperationOpens
<1>2. CASE Accept(r) /\ ~ r.approval
  <2>1. /\ state[r] \in {"None", "Planned"} /\ state' = [state EXCEPT ![r] = "Authorized"]
        /\ outbox' = Append(outbox, NewRow(r, "OperationReadyForDispatch", NoUid))
        /\ receipts' = receipts
    BY <1>2 DEF Accept, KeyIsFree
  <2> QED BY <1>0, <2>1, OperationOpens
<1>3. CASE \E s \in Subjects : Approve(s, r)
  <2>1. /\ state[r] \in {"None", "Planned"} /\ state' = [state EXCEPT ![r] = "Authorized"]
        /\ outbox' = Append(outbox, NewRow(r, "OperationReadyForDispatch", NoUid))
        /\ receipts' = receipts
    BY <1>3 DEF Approve
  <2> QED BY <1>0, <2>1, OperationOpens
<1> QED BY <1>1, <1>2, <1>3

\* A merge or a claim submits an authorized operation; its row stays open.
LEMMA SubmitKeepsDispatchInv ==
    ASSUME DispatchInv, outbox \in Seq(Row), state \in [Requests -> States \cup {"None"}],
           NEW r \in Requests, RowsCarry(0), DOMAIN outbox' = DOMAIN outbox, receipts' = receipts,
           state' = state \/ (state[r] = "Authorized" /\ state' = [state EXCEPT ![r] = "Submitted"])
    PROVE  DispatchInv'
<1>1. 0 \notin DOMAIN outbox
  BY RowsAreCounted
<1>2. ReceiptsAreFenced'
  BY NoReceiptStep DEF DispatchInv
<1>3. ASSUME NEW q \in Requests, state'[q] = state[q] PROVE OperationMatches(q)'
  BY <1>1, <1>3, OtherOperation DEF DispatchInv
<1>4. CASE state' = state
  BY <1>2, <1>3, <1>4 DEF DispatchInv
<1>5. CASE state[r] = "Authorized" /\ state' = [state EXCEPT ![r] = "Submitted"]
  <2>1. state'[r] = "Submitted" /\ \A q \in Requests \ {r} : state'[q] = state[q]
    BY <1>5
  <2>2. \A j \in DOMAIN outbox : /\ outbox'[j].op = outbox[j].op /\ outbox'[j].event = outbox[j].event
                                 /\ outbox'[j].delivered = outbox[j].delivered
    BY <1>1, RowsAreCounted DEF RowsCarry
  <2>3. \A phase : ReceiptOf(r, phase)' = ReceiptOf(r, phase)
    BY DEF ReceiptOf
  <2>4. DispatchedOnce(r)'
    BY <1>5, <2>1, <2>2 DEF DispatchInv, OperationMatches, DispatchedOnce
  <2>5. ReceiptOf(r, "Applied") = {} /\ ReceiptsMatchState(r)'
    BY <1>5, <2>1, <2>3 DEF DispatchInv, OperationMatches, ReceiptsMatchState
  <2>6. ObservedOnce(r)'
    BY <2>1, <2>2, <2>3, <2>5 DEF DispatchInv, OperationMatches, ObservedOnce
  <2> QED BY <1>2, <1>3, <2>1, <2>4, <2>5, <2>6 DEF DispatchInv, OperationMatches
<1> QED BY <1>4, <1>5

\* record_gitea_merge, claim_outbox and the passing of a lease.
LEMMA ClaimsKeepDispatchInv ==
    ASSUME LedgerInv, DispatchInv,
           \/ \E r \in Requests : RecordMerge(r)
           \/ \E i \in DOMAIN outbox : LeaseExpires(i) \/ \E w \in Workers : Claim(w, i)
    PROVE  DispatchInv'
<1>0. outbox \in Seq(Row) /\ state \in [Requests -> States \cup {"None"}]
  BY DEF LedgerInv, TypeOK
<1>1. ASSUME NEW r \in Requests, RecordMerge(r) PROVE DispatchInv'
  <2>1. /\ state[r] = "Authorized" /\ state' = [state EXCEPT ![r] = "Submitted"]
        /\ outbox' = outbox /\ receipts' = receipts
    BY <1>1 DEF RecordMerge, ledgerVars
  <2>2. RowsCarry(0)
    BY <1>0, <2>1, RowsAreCounted DEF RowsCarry
  <2> QED BY <1>0, <2>1, <2>2, SubmitKeepsDispatchInv
<1>2. ASSUME NEW i \in DOMAIN outbox, LeaseExpires(i) PROVE DispatchInv'
  <2> DEFINE row == [outbox[i] EXCEPT !.leased = FALSE]
  <2>1. /\ outbox[i] \in Row /\ ~ outbox[i].delivered /\ outbox[i].op \in Requests
        /\ outbox' = [outbox EXCEPT ![i] = row] /\ state' = state /\ receipts' = receipts
    BY <1>0, <1>2, RowsAreCounted DEF LeaseExpires, opVars
  <2>2. row \in Row /\ row.op = outbox[i].op /\ row.event = outbox[i].event
        /\ row.delivered = outbox[i].delivered
    BY <2>1 DEF Row
  <2> HIDE DEF row
  <2>3. RowsCarry(0) /\ DOMAIN outbox' = DOMAIN outbox
    BY <1>0, <2>1, <2>2, CarryRewrite
  <2> QED BY <1>0, <2>1, <2>3, SubmitKeepsDispatchInv
<1>3. ASSUME NEW i \in DOMAIN outbox, NEW w \in Workers, Claim(w, i) PROVE DispatchInv'
  <2> DEFINE row == TakenBy(outbox[i], w)
  <2>1. /\ outbox[i] \in Row /\ ~ outbox[i].delivered /\ outbox[i].op \in Requests
        /\ outbox' = [outbox EXCEPT ![i] = row] /\ receipts' = receipts
        /\ \/ state' = state
           \/ state[outbox[i].op] = "Authorized" /\ state' = [state EXCEPT ![outbox[i].op] = "Submitted"]
    BY <1>0, <1>3, RowsAreCounted DEF Claim, Claimable
  <2>2. row \in Row /\ row.op = outbox[i].op /\ row.event = outbox[i].event
        /\ row.delivered = outbox[i].delivered
    <3>1. row = [outbox[i] EXCEPT !.owner = w, !.epoch = outbox[i].epoch + 1, !.leased = TRUE]
      BY DEF TakenBy
    <3>2. outbox[i].epoch + 1 \in Nat
      BY <2>1 DEF Row
    <3> HIDE DEF row
    <3>3. row \in Row
      BY <2>1, <3>1, <3>2 DEF Row
    <3> QED BY <2>1, <3>1, <3>3 DEF Row
  <2> HIDE DEF row
  <2>3. RowsCarry(0) /\ DOMAIN outbox' = DOMAIN outbox
    BY <1>0, <2>1, <2>2, CarryRewrite
  <2> QED BY <1>0, <2>1, <2>3, SubmitKeepsDispatchInv
<1> QED BY <1>1, <1>2, <1>3

\* While its dispatch row is open, an operation has no receipt and no observation row.
LEMMA OpenReady ==
    ASSUME NEW r \in Requests, OperationMatches(r), NEW d \in DOMAIN outbox, outbox[d].op = r,
           outbox[d].event = "OperationReadyForDispatch", ~ outbox[d].delivered
    PROVE  /\ state[r] \in {"Authorized", "Submitted"}
           /\ \A phase \in {"Applied"} \cup Closing : ReceiptOf(r, phase) = {}
           /\ \A j \in DOMAIN outbox : outbox[j].op = r =>
                 /\ outbox[j].event \notin Observations
                 /\ outbox[j].event = "OperationReadyForDispatch" => j = d
<1>1. state[r] \in {"Authorized", "Submitted"}
  BY DEF OperationMatches, DispatchedOnce
<1>2. \A phase \in {"Applied"} \cup Closing : ReceiptOf(r, phase) = {}
  BY <1>1 DEF OperationMatches, ReceiptsMatchState, Closing
<1> QED BY <1>1, <1>2 DEF OperationMatches, DispatchedOnce, ObservedOnce

\* While its observation row is open, an operation is Applied and nothing closed it.
LEMMA OpenObservation ==
    ASSUME NEW r \in Requests, OperationMatches(r), NEW d \in DOMAIN outbox, outbox[d].op = r,
           outbox[d].event \in Observations, ~ outbox[d].delivered
    PROVE  /\ state[r] = "Applied" /\ r.action # "revoke" /\ ReceiptOf(r, "Applied") # {}
           /\ \A phase \in Closing : ReceiptOf(r, phase) = {}
           /\ \A j \in DOMAIN outbox : outbox[j].op = r =>
                 /\ outbox[j].event \in Observations => j = d
                 /\ outbox[j].event = "OperationReadyForDispatch" => outbox[j].delivered
           /\ \E j \in DOMAIN outbox : outbox[j].op = r /\ outbox[j].event = "OperationReadyForDispatch"
<1>1. state[r] = "Applied" /\ r.action # "revoke" /\ ReceiptOf(r, "Applied") # {}
      /\ ReceiptOf(r, "Verified") = {}
  BY DEF OperationMatches, ObservedOnce
<1>2. \A phase \in Closing : ReceiptOf(r, phase) = {}
  BY <1>1 DEF OperationMatches, ReceiptsMatchState, Closing
<1> QED BY <1>1, <1>2 DEF OperationMatches, DispatchedOnce, ObservedOnce

\* What a written receipt does to the receipts of its operation.
LEMMA ReceiptAdded ==
    ASSUME NEW r, NEW e, NEW phase, NEW uid, NEW sideEffect, AddReceipt(r, e, phase, uid, sideEffect)
    PROVE  /\ ReceiptOf(r, phase)' # {}
           /\ \A p : p # phase => ReceiptOf(r, p)' = ReceiptOf(r, p)
           /\ \A x : x.op # r => (x \in receipts' <=> x \in receipts)
<1> DEFINE x == [op |-> r, epoch |-> e, phase |-> phase, uid |-> uid, sideEffect |-> sideEffect]
<1>1. receipts' = receipts \cup {x} /\ x.op = r /\ x.phase = phase
  BY DEF AddReceipt
<1> HIDE DEF x
<1> QED BY <1>1 DEF ReceiptOf

\* An owner call that records under row d and opens rows for no other operation.
LEMMA OwnerRecords ==
    ASSUME DispatchInv, outbox \in Seq(Row), NEW d \in DOMAIN outbox, NEW r \in Requests, r = outbox[d].op,
           outbox[d].event \in DispatchEvents, RowsCarry(d),
           \A j \in DOMAIN outbox' : j \in DOMAIN outbox \/ outbox'[j].op = r,
           \A q \in Requests : q # r => state'[q] = state[q],
           NEW phase \in {"Applied"} \cup Closing, NEW uid, NEW sideEffect,
           AddReceipt(r, outbox[d].epoch, phase, uid, sideEffect),
           phase = "Applied" => ReceiptOf(r, "Applied") = {},
           phase \in Closing => \A p \in Closing : ReceiptOf(r, p) = {},
           OperationMatches(r)'
    PROVE  DispatchInv'
<1>1. ReceiptsAreFenced'
  BY ReceiptStep DEF DispatchInv
<1>2. ASSUME NEW q \in Requests, q # r PROVE OperationMatches(q)'
  <2>1. \A x : x.op = q => (x \in receipts' <=> x \in receipts)
    BY <1>2, ReceiptAdded
  <2> QED BY <1>2, <2>1, OtherOperation DEF DispatchInv
<1> QED BY <1>1, <1>2 DEF DispatchInv

\* The three functions that apply: the dispatch row is delivered, and an install or a
\* removal gets its observation row.
LEMMA ApplyKeepsDispatchInv ==
    ASSUME LedgerInv, DispatchInv, NEW i \in DOMAIN outbox, NEW w, NEW e,
           NEW r \in Requests, r = outbox[i].op,
           \/ ApplyRevocation(w, i, e)
           \/ \E uid \in Uids : \/ ApplyInstallRegistration(w, i, e, uid)
                                \/ ApplyRemoveRegistration(w, i, e, uid)
    PROVE  DispatchInv'
<1>0. /\ outbox \in Seq(Row) /\ state \in [Requests -> States \cup {"None"}] /\ OperationMatches(r)
  BY DEF LedgerInv, TypeOK, DispatchInv
<1>1. /\ outbox[i].event = "OperationReadyForDispatch" /\ ~ outbox[i].delivered /\ e = outbox[i].epoch
      /\ state' = [state EXCEPT ![r] = "Applied"]
  BY DEF ApplyRevocation, ApplyInstallRegistration, ApplyRemoveRegistration, ClaimHeld, BecomesApplied
<1>2. PICK uid : AddReceipt(r, outbox[i].epoch, "Applied", uid, "present")
  BY <1>1 DEF ApplyRevocation, ApplyInstallRegistration, ApplyRemoveRegistration
<1>3. /\ RowsCarry(i)
      /\ \/ r.action = "revoke" /\ DOMAIN outbox' = DOMAIN outbox
         \/ /\ r.action # "revoke"
            /\ \E n, row : /\ RowIsNew(n, row) /\ row.op = r /\ row.event \in Observations
                           /\ row.delivered = FALSE
  <2>1. CASE ApplyRevocation(w, i, e)
    <3>1. outbox' = Deliver(i) /\ r.action = "revoke"
      BY <2>1 DEF ApplyRevocation
    <3> QED BY <1>0, <3>1, CarryDelivered
  <2>2. ASSUME NEW u \in Uids, NEW kind \in {"install", "remove"}, r.action = kind,
               outbox' = Append(Deliver(i), NewRow(r, ObservationOf(kind), u))
        PROVE  /\ RowsCarry(i) /\ r.action # "revoke"
               /\ \E n, row : /\ RowIsNew(n, row) /\ row.op = r /\ row.event \in Observations
                              /\ row.delivered = FALSE
    <3> DEFINE row == NewRow(r, ObservationOf(kind), u)
    <3>1. ObservationOf(kind) \in Events /\ ObservationOf(kind) \in Observations
      BY DEF ObservationOf, Events, Observations
    <3>2. row \in Row /\ row.op = r /\ row.event \in Observations /\ row.delivered = FALSE
      BY <1>0, <3>1, NewRowType DEF NewRow
    <3> HIDE DEF row
    <3>3. RowsCarry(i) /\ \E n : RowIsNew(n, row)
      BY <1>0, <2>2, <3>2, CarryDeliveredAppend DEF row
    <3> QED BY <2>2, <3>2, <3>3
  <2>3. ASSUME NEW u \in Uids, ApplyInstallRegistration(w, i, e, u)
        PROVE  r.action = "install" /\ outbox' = Append(Deliver(i), NewRow(r, ObservationOf("install"), u))
    BY <2>3 DEF ApplyInstallRegistration
  <2>4. ASSUME NEW u \in Uids, ApplyRemoveRegistration(w, i, e, u)
        PROVE  r.action = "remove" /\ outbox' = Append(Deliver(i), NewRow(r, ObservationOf("remove"), u))
    BY <2>4 DEF ApplyRemoveRegistration
  <2> QED BY <2>1, <2>2, <2>3, <2>4
<1>4. /\ \A phase \in {"Applied"} \cup Closing : ReceiptOf(r, phase) = {}
      /\ \A j \in DOMAIN outbox : outbox[j].op = r =>
            /\ outbox[j].event \notin Observations
            /\ outbox[j].event = "OperationReadyForDispatch" => j = i
  BY <1>0, <1>1, OpenReady
<1>5. /\ \A j \in DOMAIN outbox : /\ j \in DOMAIN outbox' /\ outbox'[j].op = outbox[j].op
                                  /\ outbox'[j].event = outbox[j].event
      /\ i \in DOMAIN outbox' /\ outbox'[i].delivered = TRUE /\ outbox'[i].op = r
      /\ outbox'[i].event = "OperationReadyForDispatch"
  BY <1>1, <1>3 DEF RowsCarry
<1>6. state'[r] = "Applied" /\ \A q \in Requests : q # r => state'[q] = state[q]
  BY <1>0, <1>1
<1>7. /\ ReceiptOf(r, "Applied")' # {}
      /\ \A phase \in Closing : ReceiptOf(r, phase)' = {}
  BY <1>2, <1>4, ReceiptAdded DEF Closing
<1>8. "OperationReadyForDispatch" \notin Observations
  BY DEF Observations, ObservationOf
<1>9. DispatchedOnce(r)' /\ ObservedOnce(r)'
  <2>1. CASE r.action = "revoke" /\ DOMAIN outbox' = DOMAIN outbox
    <3>1. \A j \in DOMAIN outbox' : outbox'[j].op = r =>
              /\ outbox'[j].event \notin Observations
              /\ outbox'[j].event = "OperationReadyForDispatch" => j = i
      BY <1>4, <1>5, <2>1
    <3>2. DispatchedOnce(r)'
      BY <1>5, <1>6, <3>1 DEF DispatchedOnce
    <3>3. ObservedOnce(r)'
      BY <2>1, <3>1 DEF ObservedOnce
    <3> QED BY <3>2, <3>3
  <2>2. ASSUME NEW n, NEW row, RowIsNew(n, row), row.op = r, row.event \in Observations,
               row.delivered = FALSE, r.action # "revoke"
        PROVE  DispatchedOnce(r)' /\ ObservedOnce(r)'
    <3>1. /\ n \in DOMAIN outbox' /\ outbox'[n].op = r /\ outbox'[n].event \in Observations
          /\ outbox'[n].delivered = FALSE
          /\ \A j \in DOMAIN outbox' : outbox'[j].op = r =>
                /\ outbox'[j].event \in Observations => j = n
                /\ outbox'[j].event = "OperationReadyForDispatch" => j = i
      BY <1>4, <1>5, <1>8, <2>2 DEF RowIsNew
    <3>2. DispatchedOnce(r)'
      BY <1>5, <1>6, <3>1 DEF DispatchedOnce
    <3>3. ObservedOnce(r)'
      BY <1>6, <1>7, <2>2, <3>1 DEF ObservedOnce, Closing
    <3> QED BY <3>2, <3>3
  <2> QED BY <1>3, <2>1, <2>2
<1>10. ReceiptsMatchState(r)'
  BY <1>6, <1>7 DEF ReceiptsMatchState, Closing
<1>11. OperationMatches(r)'
  BY <1>9, <1>10 DEF OperationMatches
<1>12. \A j \in DOMAIN outbox' : j \in DOMAIN outbox \/ outbox'[j].op = r
  BY <1>3 DEF RowIsNew
<1>13. outbox[i].event \in DispatchEvents /\ "Applied" \notin Closing
  BY <1>1 DEF DispatchEvents, Events, Closing
<1>14. ReceiptOf(r, "Applied") = {}
  BY <1>4
<1> QED BY <1>0, <1>2, <1>3, <1>6, <1>11, <1>12, <1>13, <1>14, OwnerRecords

\* The functions that close the owner's work: an observation, or a failure under the
\* row that is open.
LEMMA CloseKeepsDispatchInv ==
    ASSUME LedgerInv, DispatchInv, NEW i \in DOMAIN outbox, NEW w, NEW e, NEW r \in Requests,
           r = outbox[i].op, ClaimHeld(w, i, e, outbox[i].event),
           outbox[i].event = "OperationReadyForDispatch" \/ outbox[i].event \in Observations,
           NEW phase \in Closing, NEW to, NEW uid, NEW sideEffect,
           AddReceipt(r, e, phase, uid, sideEffect), outbox' = Deliver(i),
           \/ state' = [state EXCEPT ![r] = to]
           \/ state' = state /\ to = state[r],
           phase = "Verified" => outbox[i].event \in Observations /\ to \in {"Applied", "Verified"},
           phase \in {"Failed", "Unknown"} => to = phase
    PROVE  DispatchInv'
<1>0. /\ outbox \in Seq(Row) /\ state \in [Requests -> States \cup {"None"}] /\ OperationMatches(r)
      /\ ~ outbox[i].delivered /\ outbox[i].epoch = e
  BY DEF LedgerInv, TypeOK, DispatchInv, ClaimHeld
<1>1. RowsCarry(i) /\ DOMAIN outbox' = DOMAIN outbox
  BY <1>0, CarryDelivered
<1>2. \A j \in DOMAIN outbox : /\ outbox'[j].op = outbox[j].op /\ outbox'[j].event = outbox[j].event
                               /\ outbox'[j].delivered = (outbox[j].delivered \/ j = i)
  BY <1>1 DEF RowsCarry
<1>3. state'[r] = to /\ \A q \in Requests : q # r => state'[q] = state[q]
  BY <1>0
<1>4. to \in {"Applied", "Verified", "Failed", "Unknown"}
  BY DEF Closing
<1>5. /\ ReceiptOf(r, phase)' # {}
      /\ \A p : p # phase => ReceiptOf(r, p)' = ReceiptOf(r, p)
  BY ReceiptAdded
<1>6. "OperationReadyForDispatch" \notin Observations
  BY DEF Observations, ObservationOf
<1>7. CASE outbox[i].event = "OperationReadyForDispatch"
  <2>1. /\ \A p \in {"Applied"} \cup Closing : ReceiptOf(r, p) = {}
        /\ \A j \in DOMAIN outbox : outbox[j].op = r =>
              /\ outbox[j].event \notin Observations
              /\ outbox[j].event = "OperationReadyForDispatch" => j = i
    BY <1>0, <1>7, OpenReady
  <2>2. phase \in {"Failed", "Unknown"} /\ to = phase
    BY <1>6, <1>7 DEF Closing
  <2>3. ReceiptsMatchState(r)'
    BY <1>3, <1>5, <2>1, <2>2 DEF ReceiptsMatchState, Closing
  <2>4. DispatchedOnce(r)'
    <3>1. /\ i \in DOMAIN outbox' /\ outbox'[i].op = r /\ outbox'[i].event = "OperationReadyForDispatch"
          /\ outbox'[i].delivered = TRUE
      BY <1>1, <1>2, <1>7
    <3>2. \A j \in DOMAIN outbox' :
              (outbox'[j].op = r /\ outbox'[j].event = "OperationReadyForDispatch") => j = i
      BY <1>1, <1>2, <2>1
    <3>3. state'[r] \in {"Failed", "Unknown"}
      BY <1>3, <2>2
    <3> QED BY <3>1, <3>2, <3>3 DEF DispatchedOnce
  <2>5. ObservedOnce(r)'
    BY <1>1, <1>2, <1>3, <2>1, <2>2 DEF ObservedOnce
  <2>6. OperationMatches(r)'
    BY <2>3, <2>4, <2>5 DEF OperationMatches
  <2>7. outbox[i].event \in DispatchEvents /\ "Applied" \notin Closing
    BY <1>7 DEF DispatchEvents, Events, Closing
  <2>8. phase # "Applied" /\ \A p \in Closing : ReceiptOf(r, p) = {}
    BY <2>1, <2>7
  <2> QED BY <1>0, <1>1, <1>3, <2>6, <2>7, <2>8, OwnerRecords
<1>8. CASE outbox[i].event \in Observations
  <2>1. /\ state[r] = "Applied" /\ r.action # "revoke" /\ ReceiptOf(r, "Applied") # {}
        /\ \A p \in Closing : ReceiptOf(r, p) = {}
        /\ \A j \in DOMAIN outbox : outbox[j].op = r =>
              /\ outbox[j].event \in Observations => j = i
              /\ outbox[j].event = "OperationReadyForDispatch" => outbox[j].delivered
        /\ \E j \in DOMAIN outbox : outbox[j].op = r /\ outbox[j].event = "OperationReadyForDispatch"
    BY <1>0, <1>8, OpenObservation
  <2>2. "Applied" \notin Closing /\ ReceiptOf(r, "Applied")' # {}
    BY <1>5, <2>1 DEF Closing
  <2>3. ReceiptsMatchState(r)'
    BY <1>3, <1>4, <1>5, <2>1, <2>2 DEF ReceiptsMatchState, Closing
  <2>4. DispatchedOnce(r)'
    <3>1. \A j, k \in DOMAIN outbox' :
              (/\ outbox'[j].op = r /\ outbox'[j].event = "OperationReadyForDispatch"
               /\ outbox'[k].op = r /\ outbox'[k].event = "OperationReadyForDispatch") => j = k
      BY <1>0, <1>1, <1>2 DEF DispatchedOnce, OperationMatches
    <3>2. \A j \in DOMAIN outbox' :
              (outbox'[j].op = r /\ outbox'[j].event = "OperationReadyForDispatch") => outbox'[j].delivered
      BY <1>1, <1>2, <2>1
    <3>3. \E j \in DOMAIN outbox' : outbox'[j].op = r /\ outbox'[j].event = "OperationReadyForDispatch"
      BY <1>1, <1>2, <2>1
    <3>4. state'[r] \notin {"None", "Planned", "Authorized", "Submitted"}
      BY <1>3, <1>4
    <3> QED BY <3>1, <3>2, <3>3, <3>4 DEF DispatchedOnce
  <2>5. ~ (to = "Applied" /\ ReceiptOf(r, "Verified")' = {})
    BY <1>5 DEF Closing
  <2>6. ObservedOnce(r)'
    <3>1. /\ i \in DOMAIN outbox' /\ outbox'[i].op = r /\ outbox'[i].event \in Observations
          /\ outbox'[i].delivered = TRUE
      BY <1>1, <1>2, <1>8
    <3>2. \A j \in DOMAIN outbox' : (outbox'[j].op = r /\ outbox'[j].event \in Observations) => j = i
      BY <1>1, <1>2, <2>1
    <3>3. ~ (state'[r] = "Applied" /\ ReceiptOf(r, "Verified")' = {})
      BY <1>3, <2>5
    <3>4. r.action # "revoke" /\ ReceiptOf(r, "Applied")' # {}
      BY <2>1, <2>2
    <3> QED BY <3>1, <3>2, <3>3, <3>4 DEF ObservedOnce
  <2>7. OperationMatches(r)'
    BY <2>3, <2>4, <2>6 DEF OperationMatches
  <2>8. outbox[i].event \in DispatchEvents
    BY <1>8 DEF DispatchEvents, Events, Observations, ObservationOf
  <2> QED BY <1>0, <1>1, <1>3, <2>1, <2>2, <2>7, <2>8, OwnerRecords
<1> QED BY <1>7, <1>8

\* Every call a worker makes under a claim.
LEMMA OwnerCallKeepsDispatchInv ==
    ASSUME LedgerInv, DispatchInv, NEW i \in DOMAIN outbox, NEW w, NEW e, OwnerCall(w, i, e)
    PROVE  DispatchInv'
<1>0. /\ outbox \in Seq(Row) /\ state \in [Requests -> States \cup {"None"}]
      /\ outbox[i].op \in Requests
  BY RowsAreCounted DEF LedgerInv, TypeOK
<1>1. PICK r \in Requests : r = outbox[i].op
  BY <1>0
<1>2. ASSUME \/ ApplyRevocation(w, i, e)
             \/ \E uid \in Uids : \/ ApplyInstallRegistration(w, i, e, uid)
                                  \/ ApplyRemoveRegistration(w, i, e, uid)
      PROVE  DispatchInv'
  BY <1>1, <1>2, ApplyKeepsDispatchInv
<1>3. ASSUME NEW uid \in Uids, RecordInstallObservation(w, i, e, uid) PROVE DispatchInv'
  <2>1. /\ ClaimHeld(w, i, e, outbox[i].event) /\ outbox[i].event \in Observations
        /\ AddReceipt(r, e, "Verified", uid, "present") /\ outbox' = Deliver(i)
        /\ state[r] = "Applied"
    BY <1>1, <1>3 DEF RecordInstallObservation, ClaimHeld, Observations
  <2>2. state' = [state EXCEPT ![r] = "Verified"] \/ state' = state
    BY <1>1, <1>3 DEF RecordInstallObservation
  <2>3. CASE state' = state
    BY <1>1, <2>1, <2>3, CloseKeepsDispatchInv DEF Closing
  <2>4. CASE state' = [state EXCEPT ![r] = "Verified"]
    BY <1>1, <2>1, <2>4, CloseKeepsDispatchInv DEF Closing
  <2> QED BY <2>2, <2>3, <2>4
<1>4. ASSUME NEW uid \in Uids, RecordRemoveObservation(w, i, e, uid) PROVE DispatchInv'
  <2>1. /\ ClaimHeld(w, i, e, outbox[i].event) /\ outbox[i].event \in Observations
        /\ AddReceipt(r, e, "Verified", uid, "present") /\ outbox' = Deliver(i)
        /\ state[r] = "Applied" /\ state' = state
    BY <1>1, <1>4 DEF RecordRemoveObservation, ClaimHeld, Observations, opVars
  <2> QED BY <1>1, <2>1, CloseKeepsDispatchInv DEF Closing
<1>5. ASSUME NEW sideEffect \in SideEffects, RecordExecutionFailure(w, i, e, sideEffect)
      PROVE  DispatchInv'
  <2>1. PICK phase \in {"Failed", "Unknown"} : phase = FailurePhase(sideEffect)
    BY DEF FailurePhase
  <2>2. /\ AddReceipt(r, e, phase, NoUid, sideEffect) /\ outbox' = Deliver(i)
        /\ state' = [state EXCEPT ![r] = phase]
    BY <1>1, <1>5, <2>1 DEF RecordExecutionFailure
  <2>3. /\ ClaimHeld(w, i, e, outbox[i].event)
        /\ outbox[i].event = "OperationReadyForDispatch" \/ outbox[i].event \in Observations
    BY <1>1, <1>5 DEF RecordExecutionFailure, ClaimHeld, Observations
  <2>4. phase \in Closing /\ phase # "Verified"
    BY <2>1 DEF Closing
  <2> QED BY <1>1, <2>1, <2>2, <2>3, <2>4, CloseKeepsDispatchInv
<1> QED BY <1>2, <1>3, <1>4, <1>5 DEF OwnerCall

\* verify_extension_operation finds no open row: the observation was recorded.
LEMMA VerifyKeepsDispatchInv ==
    ASSUME LedgerInv, DispatchInv, NEW s, NEW r \in Requests, VerifyExtensionOperation(s, r)
    PROVE  DispatchInv'
<1>0. /\ outbox \in Seq(Row) /\ state \in [Requests -> States \cup {"None"}]
      /\ OperationMatches(r) /\ ReceiptsAreFenced
  BY DEF LedgerInv, TypeOK, DispatchInv
<1>1. /\ state[r] = "Applied" /\ state' = [state EXCEPT ![r] = "Verified"]
      /\ outbox' = outbox /\ receipts' = receipts
  BY DEF VerifyExtensionOperation, ledgerVars
<1>2. state'[r] = "Verified" /\ \A q \in Requests : q # r => state'[q] = state[q]
  BY <1>0, <1>1
<1>3. r.action # "revoke" => ReceiptOf(r, "Verified") # {}
  BY DEF VerifyExtensionOperation, EvidenceMatches
<1>4. \A phase : ReceiptOf(r, phase)' = ReceiptOf(r, phase)
  BY <1>1 DEF ReceiptOf
<1>5. DispatchedOnce(r)'
  BY <1>0, <1>1, <1>2 DEF OperationMatches, DispatchedOnce
<1>6. ObservedOnce(r)'
  BY <1>0, <1>1, <1>2, <1>3, <1>4 DEF OperationMatches, ObservedOnce
<1>7. ReceiptsMatchState(r)'
  BY <1>0, <1>1, <1>2, <1>4 DEF OperationMatches, ReceiptsMatchState
<1>8. ReceiptsAreFenced'
  BY <1>0, <1>1 DEF ReceiptsAreFenced, OneReceiptPerPhase
<1>9. ASSUME NEW q \in Requests, q # r PROVE OperationMatches(q)'
  BY <1>1, <1>2, <1>9 DEF DispatchInv, OperationMatches, DispatchedOnce, ObservedOnce,
                          ReceiptsMatchState, ReceiptOf
<1> QED BY <1>5, <1>6, <1>7, <1>8, <1>9 DEF DispatchInv, OperationMatches

\* Every step keeps the rows, the receipts and the states in agreement.
LEMMA NextKeepsDispatchInv ==
    ASSUME LedgerInv, DispatchInv, [Next]_vars
    PROVE  DispatchInv'
<1>1. CASE UNCHANGED vars
  BY <1>1, QuietKeepsDispatchInv DEF vars, opVars, ledgerVars
<1>2. ASSUME NEW s \in Subjects, NEW aal, SessionChanges(s, aal) PROVE DispatchInv'
  BY <1>2, QuietKeepsDispatchInv DEF SessionChanges, opVars, ledgerVars
<1>3. ASSUME NEW r \in Requests, RecordProposal(r) PROVE DispatchInv'
  BY <1>3, QuietKeepsDispatchInv DEF RecordProposal, ledgerVars
<1>4. ASSUME NEW r \in Requests, Accept(r) \/ \E s \in Subjects : Approve(s, r) PROVE DispatchInv'
  BY <1>4, IntakeKeepsDispatchInv
<1>5. ASSUME \/ \E r \in Requests : RecordMerge(r)
             \/ \E i \in DOMAIN outbox : LeaseExpires(i) \/ \E w \in Workers : Claim(w, i)
      PROVE  DispatchInv'
  BY <1>5, ClaimsKeepDispatchInv
<1>6. ASSUME NEW i \in DOMAIN outbox, NEW w \in Workers, NEW e \in 1 .. MaxClaims, OwnerCall(w, i, e)
      PROVE  DispatchInv'
  BY <1>6, OwnerCallKeepsDispatchInv
<1>7. ASSUME NEW s \in Subjects, NEW r \in Requests, VerifyExtensionOperation(s, r) PROVE DispatchInv'
  BY <1>7, VerifyKeepsDispatchInv
<1> QED BY <1>1, <1>2, <1>3, <1>4, <1>5, <1>6, <1>7 DEF Next

\* An empty ledger has nothing to disagree.
LEMMA InitEstablishesDispatchInv == Init => DispatchInv
BY DEF Init, DispatchInv, ReceiptsAreFenced, OneReceiptPerPhase, OperationMatches, DispatchedOnce,
       ObservedOnce, ReceiptsMatchState, ReceiptOf

\* The outbox, the receipts and the state of every operation agree in every
\* reachable state, whatever workers, leases and late calls do.
THEOREM DispatchInvariant == Spec => []DispatchInv
<1>1. Init => DispatchInv
  BY InitEstablishesDispatchInv
<1>2. LedgerInv /\ DispatchInv /\ [Next]_vars => DispatchInv'
  BY NextKeepsDispatchInv
<1> QED BY <1>1, <1>2, LedgerInvariant, PTL DEF Spec

\* An operation with owner work left has exactly one open dispatch row, of the
\* kind its state calls for, and one without has none: work is neither lost nor
\* handed out twice by an expiring lease, a repeated claim or a late owner call.
THEOREM DispatchAgreement == Spec => []DispatchMatchesState
<1>1. ASSUME TypeOK, DispatchInv PROVE DispatchMatchesState
  <2> SUFFICES ASSUME NEW r \in Requests, NEW open, open = {i \in DOMAIN outbox : OpenDispatch(i, r)}
               PROVE  /\ \A i, j \in open : i = j
                      /\ state[r] \in {"Authorized", "Submitted"} <=>
                            \E i \in open : outbox[i].event = "OperationReadyForDispatch"
                      /\ (state[r] = "Applied" /\ r.action # "revoke" /\ ReceiptOf(r, "Verified") = {}) <=>
                            \E i \in open : outbox[i].event # "OperationReadyForDispatch"
    BY DEF DispatchMatchesState
  <2>1. DispatchedOnce(r) /\ ObservedOnce(r)
    BY <1>1 DEF DispatchInv, OperationMatches
  <2>2. \A i : i \in open <=> /\ i \in DOMAIN outbox /\ outbox[i].op = r /\ ~ outbox[i].delivered
                              /\ \/ outbox[i].event = "OperationReadyForDispatch"
                                 \/ outbox[i].event \in Observations
    BY DEF OpenDispatch, DispatchEvents, Events, Observations, ObservationOf
  <2>3. "OperationReadyForDispatch" \notin Observations
    BY DEF Observations, ObservationOf
  <2>4. \A i \in open : outbox[i].event = "OperationReadyForDispatch" => state[r] \in {"Authorized", "Submitted"}
    BY <2>1, <2>2 DEF DispatchedOnce
  <2>5. \A i \in open : outbox[i].event # "OperationReadyForDispatch" =>
            state[r] = "Applied" /\ r.action # "revoke" /\ ReceiptOf(r, "Verified") = {}
    BY <2>1, <2>2 DEF ObservedOnce
  <2>6. \A i, j \in open : i = j
    <3>1. ASSUME NEW i \in open, NEW j \in open,
                 outbox[i].event = "OperationReadyForDispatch", outbox[j].event = "OperationReadyForDispatch"
          PROVE  i = j
      BY <2>1, <2>2, <3>1 DEF DispatchedOnce
    <3>2. ASSUME NEW i \in open, NEW j \in open,
                 outbox[i].event # "OperationReadyForDispatch", outbox[j].event # "OperationReadyForDispatch"
          PROVE  i = j
      BY <2>1, <2>2, <3>2 DEF ObservedOnce
    <3> QED BY <2>4, <2>5, <3>1, <3>2
  <2>7. state[r] \in {"Authorized", "Submitted"} =>
            \E i \in open : outbox[i].event = "OperationReadyForDispatch"
    BY <2>1, <2>2 DEF DispatchedOnce
  <2>8. (state[r] = "Applied" /\ r.action # "revoke" /\ ReceiptOf(r, "Verified") = {}) =>
            \E i \in open : outbox[i].event # "OperationReadyForDispatch"
    BY <2>1, <2>2, <2>3 DEF ObservedOnce
  <2> QED BY <2>4, <2>5, <2>6, <2>7, <2>8
<1> QED BY <1>1, TypeCorrectness, DispatchInvariant, PTL

\* Every receipt was written under the last claim of a delivered row, one for each
\* phase, and one at most closes the owner's work: a worker whose lease expired
\* records nothing once another claim exists.
THEOREM Fencing == Spec => []ReceiptsAreFenced
<1>1. DispatchInv => ReceiptsAreFenced
  BY DEF DispatchInv
<1> QED BY <1>1, DispatchInvariant, PTL

=============================================================================
