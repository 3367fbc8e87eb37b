---------------------- MODULE ExtensionController_proofs ----------------------
(***************************************************************************)
(* Theorems about ExtensionController, for every number of workers,        *)
(* extensions, images and requests, every scene of faults and every bound  *)
(* on the claims: the workers use the ledger as its specification says, so *)
(* that whatever OperationLedger_proofs proves of the ledger holds with    *)
(* the workers, the cluster and their faults around it; and a removal that *)
(* is recorded is real.                                                    *)
(***************************************************************************)
EXTENDS ExtensionController, OperationLedger_proofs

-----------------------------------------------------------------------------
(* The inductive invariant.                                                 *)

\* A row that can be claimed has a claim left under the bound.
EpochsAreBounded ==
    \A i \in DOMAIN outbox :
        outbox[i].epoch <= MaxClaims /\ (~ outbox[i].leased => outbox[i].epoch < MaxClaims)

\* The API server gave uid out, and to an object named x only.
Belongs(uid, x) ==
    /\ uid \in uidsUsed
    /\ \A y \in Extensions : (y # x /\ reg[y] # NoReg) => reg[y].uid # uid

\* The API server gave uid out, and its object does not exist any more.
Gone(uid) ==
    /\ uid \in uidsUsed
    /\ \A y \in Extensions : reg[y] # NoReg => reg[y].uid # uid

\* No two objects share a UID.
UidsAreUnique == \A x \in Extensions : reg[x] # NoReg => Belongs(reg[x].uid, x)

\* An observation row names a UID of the Registration of its operation.
ObservedUidsAreBound ==
    \A i \in DOMAIN outbox : outbox[i].event \in Observations =>
        Belongs(outbox[i].uid, Extension[outbox[i].op.image])

\* A worker in the middle of runOnce works on a dispatch row under an epoch that
\* was given to it once.
JobIsClaimed(w) ==
    job[w].pc # "idle" => /\ job[w].row \in DOMAIN outbox
                          /\ job[w].epoch \in 1 .. MaxClaims
                          /\ Row_(w).event \in DispatchEvents

Sees(r, seen) == seen \in Registration /\ Belongs(seen.uid, Extension[r.image])

\* What a worker knows where it is: which kind of row it works on, and, when it is
\* about to patch, to close or to record, the Registration it read or that the one
\* it was to remove is gone.
Informed(r, event, uid, pc, seen) ==
    /\ pc \in {"assert", "package", "read", "create", "patch"} => event = "OperationReadyForDispatch"
    /\ pc \in {"observe", "observePackage", "assertReady"} => event \in Observations
    /\ pc = "assertReady" => r.action = "install"
    /\ pc \in {"patch", "assertReady"} => Sees(r, seen)
    /\ pc = "record" =>
          \/ r.action = "revoke"
          \/ r.action = "remove" /\ event \in Observations /\ Gone(uid)
          \/ /\ ~ (r.action = "remove" /\ event \in Observations)
             /\ Sees(r, seen)

JobIsInformed(w) == Informed(Op(w), Row_(w).event, Row_(w).uid, job[w].pc, job[w].seen)

\* RemovalIsReal, for good: the UID is one that was given out and will not return.
RemovalsAreFinal ==
    \A x \in receipts : (x.phase = "Verified" /\ x.op.action = "remove") => Gone(x.uid)

ControllerInv ==
    /\ LedgerInv
    /\ ControllerTypeOK
    /\ EpochsAreBounded
    /\ UidsAreUnique
    /\ ObservedUidsAreBound
    /\ \A w \in Workers : JobIsClaimed(w) /\ JobIsInformed(w)
    /\ RemovalsAreFinal

-----------------------------------------------------------------------------
(* What a step does to the outbox.                                          *)

\* Every row stays what it is about.
RowsStay ==
    \A j \in DOMAIN outbox : /\ j \in DOMAIN outbox' /\ outbox'[j].op = outbox[j].op
                             /\ outbox'[j].event = outbox[j].event /\ outbox'[j].uid = outbox[j].uid

\* The new rows ask for a dispatch or an approval.
NoNewObservation ==
    \A j \in DOMAIN outbox' : j \in DOMAIN outbox \/ outbox'[j].event \notin Observations

\* They do, or observe uid for r.
NewRowsObserve(r, uid) ==
    \A j \in DOMAIN outbox' : \/ j \in DOMAIN outbox
                              \/ outbox'[j].event \notin Observations
                              \/ outbox'[j].op = r /\ outbox'[j].uid = uid

\* A new row can be claimed.
LEMMA NewRowIsBounded ==
    ASSUME NEW r, NEW event, NEW uid
    PROVE  /\ NewRow(r, event, uid).op = r /\ NewRow(r, event, uid).event = event
           /\ NewRow(r, event, uid).uid = uid
           /\ NewRow(r, event, uid).epoch <= MaxClaims /\ NewRow(r, event, uid).epoch < MaxClaims
<1>1. MaxClaims \in Nat /\ 0 < MaxClaims
  BY MaxClaimsAssumption, MaxAttemptsAssumption
<1> QED BY <1>1 DEF NewRow

\* INSERT INTO outbox.
LEMMA StayAppend ==
    ASSUME EpochsAreBounded, NEW q \in Seq(Row), DOMAIN q = DOMAIN outbox,
           \A j \in DOMAIN outbox : /\ q[j].op = outbox[j].op /\ q[j].event = outbox[j].event
                                    /\ q[j].uid = outbox[j].uid /\ q[j].epoch = outbox[j].epoch
                                    /\ q[j].leased = outbox[j].leased,
           NEW r \in Requests, NEW event \in Events, NEW uid \in Uids \cup {NoUid},
           outbox' = Append(q, NewRow(r, event, uid))
    PROVE  RowsStay /\ EpochsAreBounded' /\ NewRowsObserve(r, uid)
           /\ (event \notin Observations => NoNewObservation)
<1> DEFINE row == NewRow(r, event, uid)
<1>1. /\ row \in Row /\ row.op = r /\ row.event = event /\ row.uid = uid
      /\ row.epoch <= MaxClaims /\ row.epoch < MaxClaims
  BY NewRowType, NewRowIsBounded
<1> HIDE DEF row
<1>2. /\ DOMAIN outbox' = 1 .. Len(q) + 1 /\ DOMAIN q = 1 .. Len(q) /\ Len(q) \in Nat
      /\ \A j \in DOMAIN q : outbox'[j] = q[j]
      /\ outbox'[Len(q) + 1] = row
  BY <1>1, AppendRow DEF row
<1>3. \A j \in DOMAIN outbox' : j \in DOMAIN q \/ outbox'[j] = row
  BY <1>2
<1>4. \A j \in DOMAIN q : j \in DOMAIN outbox'
  BY <1>2
<1>5. RowsStay
  BY <1>2, <1>4 DEF RowsStay
<1>6. EpochsAreBounded'
  BY <1>1, <1>2, <1>3 DEF EpochsAreBounded
<1>7. NewRowsObserve(r, uid)
  BY <1>1, <1>3 DEF NewRowsObserve
<1>8. event \notin Observations => NoNewObservation
  BY <1>1, <1>3 DEF NoNewObservation
<1> QED BY <1>5, <1>6, <1>7, <1>8

\* UPDATE of one row.
LEMMA StayRewrite ==
    ASSUME EpochsAreBounded, outbox \in Seq(Row), NEW i \in DOMAIN outbox, NEW row \in Row,
           outbox' = [outbox EXCEPT ![i] = row],
           row.op = outbox[i].op, row.event = outbox[i].event, row.uid = outbox[i].uid,
           row.epoch <= MaxClaims, ~ row.leased => row.epoch < MaxClaims
    PROVE  RowsStay /\ EpochsAreBounded' /\ NoNewObservation
<1>1. /\ DOMAIN outbox' = DOMAIN outbox /\ outbox'[i] = row
      /\ \A j \in DOMAIN outbox : j # i => outbox'[j] = outbox[j]
  BY RewriteRow
<1> QED BY <1>1 DEF RowsStay, EpochsAreBounded, NoNewObservation

\* UPDATE of delivered_at.
LEMMA DeliverStays ==
    ASSUME outbox \in Seq(Row), NEW i \in DOMAIN outbox
    PROVE  /\ Deliver(i) \in Seq(Row) /\ DOMAIN Deliver(i) = DOMAIN outbox
           /\ \A j \in DOMAIN outbox :
                 /\ Deliver(i)[j].op = outbox[j].op /\ Deliver(i)[j].event = outbox[j].event
                 /\ Deliver(i)[j].uid = outbox[j].uid /\ Deliver(i)[j].epoch = outbox[j].epoch
                 /\ Deliver(i)[j].leased = outbox[j].leased
<1> DEFINE row == [outbox[i] EXCEPT !.delivered = TRUE]
<1>1. outbox[i] \in Row
  OBVIOUS
<1>2. /\ row \in Row /\ row.op = outbox[i].op /\ row.event = outbox[i].event
      /\ row.uid = outbox[i].uid /\ row.epoch = outbox[i].epoch /\ row.leased = outbox[i].leased
  BY <1>1 DEF Row
<1>3. Deliver(i) = [outbox EXCEPT ![i] = row]
  BY DEF Deliver
<1> HIDE DEF row
<1> QED
  BY <1>2, <1>3, RewriteRow

\* The functions that record an observation or a failure, and the revocation.
LEMMA StayDelivered ==
    ASSUME EpochsAreBounded, outbox \in Seq(Row), NEW i \in DOMAIN outbox, outbox' = Deliver(i)
    PROVE  RowsStay /\ EpochsAreBounded' /\ NoNewObservation
BY DeliverStays DEF RowsStay, EpochsAreBounded, NoNewObservation

\* The steps that leave the outbox alone.
LEMMA StayQuiet ==
    ASSUME EpochsAreBounded, outbox' = outbox
    PROVE  RowsStay /\ EpochsAreBounded' /\ NoNewObservation
BY DEF RowsStay, EpochsAreBounded, NoNewObservation

-----------------------------------------------------------------------------
(* What a step does to the cluster, and what every worker, row and receipt  *)
(* still knows after it.                                                    *)

\* A UID is never given out twice: an object keeps its own or has a fresh one.
UidsGrow ==
    /\ uidsUsed \subseteq uidsUsed'
    /\ \A y \in Extensions : reg'[y] # NoReg =>
          \/ reg[y] # NoReg /\ reg'[y].uid = reg[y].uid
          \/ reg'[y].uid \notin uidsUsed

\* A UID belongs to one name for ever.
LEMMA BelongsStays ==
    ASSUME UidsGrow, NEW uid, NEW x, Belongs(uid, x)
    PROVE  Belongs(uid, x)'
BY DEF UidsGrow, Belongs

\* What is gone stays gone.
LEMMA GoneStays ==
    ASSUME UidsGrow, NEW uid, Gone(uid)
    PROVE  Gone(uid)'
BY DEF UidsGrow, Gone

\* What a worker knows stays true.
LEMMA InformedStays ==
    ASSUME UidsGrow, NEW r, NEW event, NEW uid, NEW pc, NEW seen, Informed(r, event, uid, pc, seen)
    PROVE  Informed(r, event, uid, pc, seen)'
<1>1. Gone(uid) => Gone(uid)'
  BY GoneStays
<1>2. Sees(r, seen) => Sees(r, seen)'
  BY BelongsStays DEF Sees
<1> QED BY <1>1, <1>2 DEF Informed

\* The cluster does not change.
LEMMA UidsStay ==
    ASSUME reg' = reg, uidsUsed' = uidsUsed
    PROVE  UidsGrow
BY DEF UidsGrow

\* A worker that does not move.
LEMMA JobStays ==
    ASSUME ControllerInv, RowsStay, UidsGrow, NEW v \in Workers, job'[v] = job[v]
    PROVE  JobIsClaimed(v)' /\ JobIsInformed(v)'
<1>0. JobIsClaimed(v) /\ JobIsInformed(v)
  BY DEF ControllerInv
<1>1. CASE job[v].pc = "idle"
  BY <1>1 DEF JobIsClaimed, JobIsInformed, Informed
<1>2. CASE job[v].pc # "idle"
  <2>1. job[v].row \in DOMAIN outbox
    BY <1>0, <1>2 DEF JobIsClaimed
  <2>2. PICK j : j = job[v].row
    OBVIOUS
  <2>3. /\ j \in DOMAIN outbox' /\ outbox'[j].op = outbox[j].op
        /\ outbox'[j].event = outbox[j].event /\ outbox'[j].uid = outbox[j].uid
    BY <2>1, <2>2 DEF RowsStay
  <2>4. PICK r, event, uid, pc, seen :
             /\ r = outbox[j].op /\ event = outbox[j].event /\ uid = outbox[j].uid
             /\ pc = job[v].pc /\ seen = job[v].seen
    OBVIOUS
  <2>5. Informed(r, event, uid, pc, seen)
    BY <1>0, <2>2, <2>4 DEF JobIsInformed, Op, Row_
  <2>6. Informed(r, event, uid, pc, seen)'
    BY <2>5, InformedStays
  <2>7. /\ job'[v].row = j /\ job'[v].pc = pc /\ job'[v].seen = seen
        /\ outbox'[j].op = r /\ outbox'[j].event = event /\ outbox'[j].uid = uid
    BY <2>2, <2>3, <2>4
  <2>8. JobIsInformed(v)'
    BY <2>6, <2>7 DEF JobIsInformed, Op, Row_
  <2>9. JobIsClaimed(v)'
    BY <1>0, <1>2, <2>2, <2>3 DEF JobIsClaimed, Row_
  <2> QED BY <2>8, <2>9
<1> QED BY <1>1, <1>2

\* The next step of a worker's runOnce.
JobStep(w, pc, seen) ==
    /\ job[w].pc # "idle"
    /\ job'[w].pc = pc /\ job'[w].seen = seen
    /\ job'[w].row = job[w].row /\ job'[w].epoch = job[w].epoch

\* A worker that moves on under its claim.
LEMMA JobMoves ==
    ASSUME ControllerInv, RowsStay, NEW w \in Workers, NEW pc, NEW seen, JobStep(w, pc, seen),
           NEW r, NEW event, NEW uid, r = Op(w), event = Row_(w).event, uid = Row_(w).uid,
           Informed(r, event, uid, pc, seen)'
    PROVE  JobIsClaimed(w)' /\ JobIsInformed(w)'
<1>0. JobIsClaimed(w)
  BY DEF ControllerInv
<1>1. PICK j : j = job[w].row
  OBVIOUS
<1>2. /\ j \in DOMAIN outbox /\ job[w].epoch \in 1 .. MaxClaims /\ event \in DispatchEvents
      /\ r = outbox[j].op /\ event = outbox[j].event /\ uid = outbox[j].uid
  BY <1>0, <1>1 DEF JobIsClaimed, Row_, Op, JobStep
<1>3. /\ j \in DOMAIN outbox' /\ outbox'[j].op = r
      /\ outbox'[j].event = event /\ outbox'[j].uid = uid
  BY <1>2 DEF RowsStay
<1>4. /\ job'[w].row = j /\ job'[w].pc = pc /\ job'[w].seen = seen /\ job'[w].epoch = job[w].epoch
  BY <1>1 DEF JobStep
<1>5. JobIsInformed(w)'
  BY <1>3, <1>4 DEF JobIsInformed, Op, Row_
<1>6. JobIsClaimed(w)'
  BY <1>2, <1>3, <1>4 DEF JobIsClaimed, Row_
<1> QED BY <1>5, <1>6

\* A worker that returns.
LEMMA JobEnds ==
    ASSUME NEW w, job'[w].pc = "idle"
    PROVE  JobIsClaimed(w)' /\ JobIsInformed(w)'
BY DEF JobIsClaimed, JobIsInformed, Informed

\* The observation rows keep the UIDs they name.
LEMMA ObservationsStay ==
    ASSUME ObservedUidsAreBound, RowsStay, UidsGrow,
           \/ NoNewObservation
           \/ \E r, uid : NewRowsObserve(r, uid) /\ Belongs(uid, Extension[r.image])'
    PROVE  ObservedUidsAreBound'
<1> SUFFICES ASSUME NEW j \in DOMAIN outbox', outbox'[j].event \in Observations
             PROVE  Belongs(outbox[j].uid, Extension[outbox[j].op.image])'
  BY DEF ObservedUidsAreBound, Observations, ObservationOf
<1>1. CASE j \in DOMAIN outbox
  <2>1. PICK r, uid : r = outbox[j].op /\ uid = outbox[j].uid
    OBVIOUS
  <2>2. Belongs(uid, Extension[r.image]) /\ outbox'[j].op = r /\ outbox'[j].uid = uid
    BY <1>1, <2>1 DEF ObservedUidsAreBound, RowsStay
  <2>3. Belongs(uid, Extension[r.image])'
    BY <2>2, BelongsStays
  <2> QED BY <2>2, <2>3 DEF Belongs
<1>2. CASE j \notin DOMAIN outbox
  <2>1. PICK r, uid : NewRowsObserve(r, uid) /\ Belongs(uid, Extension[r.image])'
    BY <1>2 DEF NoNewObservation
  <2>2. outbox'[j].op = r /\ outbox'[j].uid = uid
    BY <1>2, <2>1 DEF NewRowsObserve
  <2> QED BY <2>1, <2>2 DEF Belongs
<1> QED BY <1>1, <1>2

\* The recorded removals stay real; a new record is of a UID that is gone.
LEMMA RemovalsStay ==
    ASSUME RemovalsAreFinal, UidsGrow, NEW new, receipts' \subseteq receipts \cup new,
           \A x \in new : (x.phase = "Verified" /\ x.op.action = "remove") => Gone(x.uid)
    PROVE  RemovalsAreFinal'
<1>1. \A uid : Gone(uid) => Gone(uid)'
  BY GoneStays
<1> QED BY <1>1 DEF RemovalsAreFinal

-----------------------------------------------------------------------------
(* The steps of a worker that change neither the ledger nor the cluster.    *)

\* The parts of ControllerTypeOK that are not the ledger's.
ClusterTypeOK ==
    /\ reg \in [Extensions -> Registration \cup {NoReg}]
    /\ uidsUsed \subseteq Uids
    /\ current \subseteq Images
    /\ pinned \subseteq Extensions
    /\ wrote \subseteq Requests
    /\ scene \in Scenes

\* The variables of the ledger are the same.
LEMMA LedgerUnchanged ==
    ASSUME ControllerInv, UNCHANGED vars
    PROVE  /\ RowsStay /\ EpochsAreBounded' /\ NoNewObservation /\ receipts' = receipts
           /\ LedgerInv' /\ outbox' = outbox
<1>1. outbox' = outbox /\ receipts' = receipts
  BY DEF vars, ledgerVars
<1>2. LedgerInv'
  BY NextKeepsLedgerInv DEF ControllerInv
<1> QED BY <1>1, <1>2, StayQuiet DEF ControllerInv

\* A step that leaves the ledger alone.
LEMMA OutsideStep ==
    ASSUME ControllerInv, UNCHANGED vars, UidsGrow, UidsAreUnique', ClusterTypeOK',
           job' \in [Workers -> Job],
           \A v \in Workers : job'[v] = job[v] \/ (JobIsClaimed(v)' /\ JobIsInformed(v)')
    PROVE  ControllerInv'
<1>1. /\ RowsStay /\ EpochsAreBounded' /\ NoNewObservation /\ receipts' = receipts /\ LedgerInv'
  BY LedgerUnchanged
<1>2. ObservedUidsAreBound'
  BY <1>1, ObservationsStay DEF ControllerInv
<1>3. RemovalsAreFinal'
  <2>1. PICK new : new = {}
    OBVIOUS
  <2>2. receipts' \subseteq receipts \cup new /\ \A x \in new : FALSE
    BY <1>1, <2>1
  <2> QED BY <2>2, RemovalsStay DEF ControllerInv
<1>4. \A v \in Workers : JobIsClaimed(v)' /\ JobIsInformed(v)'
  BY <1>1, JobStays
<1>5. ControllerTypeOK'
  BY <1>1 DEF ControllerTypeOK, ClusterTypeOK, LedgerInv
<1> QED BY <1>1, <1>2, <1>3, <1>4, <1>5 DEF ControllerInv

\* What a worker that is somewhere in its runOnce does to job: it returns,
LEMMA ReturnUpdate ==
    ASSUME job \in [Workers -> Job], NEW w \in Workers, Return(w)
    PROVE  /\ job' \in [Workers -> Job] /\ job'[w].pc = "idle"
           /\ \A v \in Workers : v # w => job'[v] = job[v]
<1>1. Idle \in Job /\ Idle.pc = "idle"
  BY DEF Idle, Job, Pcs, SideEffects
<1> QED BY <1>1 DEF Return

\* or goes on,
LEMMA GotoUpdate ==
    ASSUME job \in [Workers -> Job], NEW w \in Workers, job[w].pc # "idle", NEW pc \in Pcs, Goto(w, pc)
    PROVE  /\ job' \in [Workers -> Job] /\ JobStep(w, pc, job[w].seen)
           /\ \A v \in Workers : v # w => job'[v] = job[v]
<1> DEFINE new == [job[w] EXCEPT !.pc = pc]
<1>1. /\ new \in Job /\ new.pc = pc /\ new.seen = job[w].seen /\ new.row = job[w].row
      /\ new.epoch = job[w].epoch
  BY DEF Job
<1>2. job' = [job EXCEPT ![w] = new]
  BY DEF Goto
<1> HIDE DEF new
<1> QED BY <1>1, <1>2 DEF JobStep

\* or fails,
LEMMA FailUpdate ==
    ASSUME job \in [Workers -> Job], NEW w \in Workers, job[w].pc # "idle",
           NEW sideEffect \in SideEffects, FailWith(w, sideEffect)
    PROVE  /\ job' \in [Workers -> Job] /\ JobStep(w, "fail", job[w].seen)
           /\ \A v \in Workers : v # w => job'[v] = job[v]
<1> DEFINE new == [job[w] EXCEPT !.pc = "fail", !.sideEffect = sideEffect]
<1>1. /\ new \in Job /\ new.pc = "fail" /\ new.seen = job[w].seen /\ new.row = job[w].row
      /\ new.epoch = job[w].epoch
  BY DEF Job, Pcs
<1>2. job' = [job EXCEPT ![w] = new]
  BY DEF FailWith
<1> HIDE DEF new
<1> QED BY <1>1, <1>2 DEF JobStep

\* or goes on with the object it read.
LEMMA SawUpdate ==
    ASSUME job \in [Workers -> Job], NEW w \in Workers, job[w].pc # "idle",
           NEW pc \in Pcs, NEW object \in Registration, Saw(w, pc, object)
    PROVE  /\ job' \in [Workers -> Job] /\ JobStep(w, pc, object)
           /\ \A v \in Workers : v # w => job'[v] = job[v]
<1> DEFINE new == [job[w] EXCEPT !.pc = pc, !.seen = object]
<1>1. /\ new \in Job /\ new.pc = pc /\ new.seen = object /\ new.row = job[w].row
      /\ new.epoch = job[w].epoch
  BY DEF Job
<1>2. job' = [job EXCEPT ![w] = new]
  BY DEF Saw
<1> HIDE DEF new
<1> QED BY <1>1, <1>2 DEF JobStep

\* A worker step that reads, or gives up: it keeps the invariant when the worker
\* knows what its next place asks for.
LEMMA QuietWorker ==
    ASSUME ControllerInv, NEW w \in Workers, job[w].pc # "idle",
           UNCHANGED <<vars, k8sVars, scene>>,
           \/ Return(w)
           \/ \E sideEffect \in SideEffects : FailWith(w, sideEffect)
           \/ \E pc \in Pcs : /\ Goto(w, pc)
                              /\ Informed(Op(w), Row_(w).event, Row_(w).uid, pc, job[w].seen)
           \/ \E pc \in Pcs, object \in Registration :
                  /\ Saw(w, pc, object)
                  /\ Informed(Op(w), Row_(w).event, Row_(w).uid, pc, object)
    PROVE  ControllerInv'
<1>0. job \in [Workers -> Job] /\ UNCHANGED vars
  BY DEF ControllerInv, ControllerTypeOK
<1>1. UidsGrow /\ RowsStay
  BY UidsStay, LedgerUnchanged DEF k8sVars
<1>2. UidsAreUnique' /\ ClusterTypeOK'
  BY DEF ControllerInv, UidsAreUnique, Belongs, ControllerTypeOK, ClusterTypeOK, k8sVars
<1>3. CASE Return(w)
  <2>1. job' \in [Workers -> Job] /\ job'[w].pc = "idle" /\ \A v \in Workers : v # w => job'[v] = job[v]
    BY <1>0, <1>3, ReturnUpdate
  <2>2. JobIsClaimed(w)' /\ JobIsInformed(w)'
    BY <2>1, JobEnds
  <2> QED BY <1>0, <1>1, <1>2, <2>1, <2>2, OutsideStep
<1>4. ASSUME NEW pc, NEW seen, JobStep(w, pc, seen),
             Informed(Op(w), Row_(w).event, Row_(w).uid, pc, seen),
             job' \in [Workers -> Job], \A v \in Workers : v # w => job'[v] = job[v]
      PROVE  ControllerInv'
  <2>1. PICK r, event, uid : r = Op(w) /\ event = Row_(w).event /\ uid = Row_(w).uid
    OBVIOUS
  <2>2. Informed(r, event, uid, pc, seen)'
    BY <1>1, <1>4, <2>1, InformedStays
  <2>3. JobIsClaimed(w)' /\ JobIsInformed(w)'
    BY <1>1, <1>4, <2>1, <2>2, JobMoves
  <2> QED BY <1>0, <1>1, <1>2, <1>4, <2>3, OutsideStep
<1>5. ASSUME NEW sideEffect \in SideEffects, FailWith(w, sideEffect) PROVE ControllerInv'
  <2>1. /\ job' \in [Workers -> Job] /\ JobStep(w, "fail", job[w].seen)
        /\ \A v \in Workers : v # w => job'[v] = job[v]
    BY <1>0, <1>5, FailUpdate
  <2>2. Informed(Op(w), Row_(w).event, Row_(w).uid, "fail", job[w].seen)
    BY DEF Informed
  <2> QED BY <1>4, <2>1, <2>2
<1>6. ASSUME NEW pc \in Pcs, Goto(w, pc), Informed(Op(w), Row_(w).event, Row_(w).uid, pc, job[w].seen)
      PROVE  ControllerInv'
  <2>1. /\ job' \in [Workers -> Job] /\ JobStep(w, pc, job[w].seen)
        /\ \A v \in Workers : v # w => job'[v] = job[v]
    BY <1>0, <1>6, GotoUpdate
  <2> QED BY <1>4, <1>6, <2>1
<1>7. ASSUME NEW pc \in Pcs, NEW object \in Registration, Saw(w, pc, object),
             Informed(Op(w), Row_(w).event, Row_(w).uid, pc, object)
      PROVE  ControllerInv'
  <2>1. /\ job' \in [Workers -> Job] /\ JobStep(w, pc, object)
        /\ \A v \in Workers : v # w => job'[v] = job[v]
    BY <1>0, <1>7, SawUpdate
  <2> QED BY <1>4, <1>7, <2>1
<1> QED BY <1>3, <1>5, <1>6, <1>7

\* The row and the operation of a worker in the middle of runOnce.
LEMMA WorkerRow ==
    ASSUME ControllerInv, NEW w \in Workers, job[w].pc # "idle"
    PROVE  /\ job[w].row \in DOMAIN outbox /\ Row_(w) = outbox[job[w].row] /\ Row_(w) \in Row
           /\ Op(w) \in Requests /\ Op(w).action \in Actions /\ Op(w).image \in Images
           /\ Ext(w) = Extension[Op(w).image] /\ Ext(w) \in Extensions
           /\ job[w].epoch \in 1 .. MaxClaims
           /\ Observing(w) <=> Row_(w).event \in Observations
           /\ Informed(Op(w), Row_(w).event, Row_(w).uid, job[w].pc, job[w].seen)
<1>1. /\ job[w].row \in DOMAIN outbox /\ job[w].epoch \in 1 .. MaxClaims
      /\ Row_(w).event \in DispatchEvents /\ JobIsInformed(w) /\ outbox \in Seq(Row)
  BY DEF ControllerInv, JobIsClaimed, LedgerInv, TypeOK
<1>2. Row_(w) = outbox[job[w].row] /\ Row_(w) \in Row
  BY <1>1 DEF Row_
<1>3. Op(w) \in Requests /\ Op(w).action \in Actions /\ Op(w).image \in Images
  BY <1>2, RequestsAssumption DEF Op, Row, Request
<1>4. Ext(w) = Extension[Op(w).image] /\ Ext(w) \in Extensions
  BY <1>3, ExtensionAssumption DEF Ext
<1>5. Observing(w) <=> Row_(w).event \in Observations
  BY <1>1 DEF Observing, DispatchEvents, Events, Observations, ObservationOf
<1> QED BY <1>1, <1>2, <1>3, <1>4, <1>5 DEF JobIsInformed

\* Places that ask nothing of a worker.
LEMMA NothingToKnow ==
    ASSUME NEW r, NEW event, NEW uid, NEW seen, NEW pc \in {"resolve", "renew", "fail", "idle"}
    PROVE  Informed(r, event, uid, pc, seen)
BY DEF Informed

\* The Registration a worker reads is its own.
LEMMA ReadsOwn ==
    ASSUME ControllerInv, NEW w \in Workers, job[w].pc # "idle", reg[Ext(w)] # NoReg
    PROVE  reg[Ext(w)] \in Registration /\ Sees(Op(w), reg[Ext(w)])
<1>1. Ext(w) = Extension[Op(w).image] /\ Ext(w) \in Extensions
  BY WorkerRow
<1>2. reg[Ext(w)] \in Registration
  BY <1>1 DEF ControllerInv, ControllerTypeOK
<1> QED BY <1>1, <1>2 DEF ControllerInv, UidsAreUnique, Sees

\* The steps before the write: the candidate, the lease, the revocations, the package.
LEMMA BeforeWriteKeepsInv ==
    ASSUME ControllerInv, NEW w \in Workers, UNCHANGED scene,
           \/ Resolve(w) \/ Renew(w) \/ AssertInstallNotRevoked(w)
           \/ InstallGetsPackage(w) \/ RemoveGetsPackage(w)
    PROVE  ControllerInv'
<1> USE DEF Pcs, SideEffects
<1>1. CASE Resolve(w)
  <2>1. /\ job[w].pc # "idle" /\ UNCHANGED <<vars, k8sVars, scene>>
        /\ Return(w) \/ Goto(w, "renew")
    BY <1>1 DEF Resolve, At
  <2> QED BY <2>1, NothingToKnow, QuietWorker
<1>2. CASE Renew(w)
  <2>1. /\ job[w].pc # "idle" /\ UNCHANGED <<vars, k8sVars, scene>>
        /\ Return(w) \/ Goto(w, AfterRenew(w))
    BY <1>2 DEF Renew, At, RenewOwnerClaim
  <2>2. /\ Op(w).action \in Actions
        /\ Observing(w) <=> Row_(w).event \in Observations
    BY <2>1, WorkerRow
  <2>3. PICK pc : pc = AfterRenew(w)
    OBVIOUS
  <2>4. CASE Observing(w)
    <3>1. pc \in {"observe", "observePackage"}
      BY <2>3, <2>4 DEF AfterRenew, Observing
    <3>2. Informed(Op(w), Row_(w).event, Row_(w).uid, pc, job[w].seen)
      BY <2>2, <2>4, <3>1 DEF Informed
    <3> QED BY <2>1, <2>3, <3>1, <3>2, QuietWorker
  <2>5. CASE ~ Observing(w)
    <3>1. \/ pc = "assert" \/ pc = "package"
          \/ pc = "record" /\ Op(w).action = "revoke"
      BY <2>2, <2>3, <2>5 DEF AfterRenew, Actions, Observing
    <3>2. Row_(w).event = "OperationReadyForDispatch"
      BY <2>5 DEF Observing
    <3>3. Informed(Op(w), Row_(w).event, Row_(w).uid, pc, job[w].seen)
      BY <3>1, <3>2 DEF Informed
    <3> QED BY <2>1, <2>3, <3>1, <3>3, QuietWorker
  <2> QED BY <2>4, <2>5
<1>3. CASE AssertInstallNotRevoked(w)
  <2>1. /\ job[w].pc \in {"assert", "assertReady"} /\ UNCHANGED <<vars, k8sVars, scene>>
        /\ \/ Return(w)
           \/ FailWith(w, "none")
           \/ FailWith(w, "present")
           \/ job[w].pc = "assert" /\ Goto(w, "package")
           \/ job[w].pc = "assertReady" /\ Goto(w, "record")
    BY <1>3 DEF AssertInstallNotRevoked, At
  <2>2. Informed(Op(w), Row_(w).event, Row_(w).uid, job[w].pc, job[w].seen)
    BY <2>1, WorkerRow
  <2>3. CASE job[w].pc = "assert" /\ Goto(w, "package")
    <3>1. Informed(Op(w), Row_(w).event, Row_(w).uid, "package", job[w].seen)
      BY <2>2, <2>3 DEF Informed
    <3> QED BY <2>1, <2>3, <3>1, QuietWorker
  <2>4. CASE job[w].pc = "assertReady" /\ Goto(w, "record")
    <3>1. Informed(Op(w), Row_(w).event, Row_(w).uid, "record", job[w].seen)
      BY <2>2, <2>4 DEF Informed
    <3> QED BY <2>1, <2>4, <3>1, QuietWorker
  <2>5. CASE Return(w) \/ FailWith(w, "none") \/ FailWith(w, "present")
    BY <2>1, <2>5, QuietWorker
  <2> QED BY <2>1, <2>3, <2>4, <2>5
<1>4. CASE InstallGetsPackage(w) \/ RemoveGetsPackage(w)
  <2>1. /\ job[w].pc = "package" /\ UNCHANGED <<vars, k8sVars, scene>>
        /\ Return(w) \/ FailWith(w, "none") \/ Goto(w, "read")
    BY <1>4 DEF InstallGetsPackage, RemoveGetsPackage, At
  <2>2. Informed(Op(w), Row_(w).event, Row_(w).uid, job[w].pc, job[w].seen)
    BY <2>1, WorkerRow
  <2>3. Informed(Op(w), Row_(w).event, Row_(w).uid, "read", job[w].seen)
    BY <2>1, <2>2 DEF Informed
  <2> QED BY <2>1, <2>3, QuietWorker
<1> QED BY <1>1, <1>2, <1>3, <1>4

\* The reads of the Registration.
LEMMA ReadKeepsInv ==
    ASSUME ControllerInv, NEW w \in Workers, UNCHANGED scene,
           InstallGetsRegistration(w) \/ RemoveGetsRegistration(w)
    PROVE  ControllerInv'
<1> USE DEF Pcs, SideEffects
<1>1. /\ job[w].pc = "read" /\ UNCHANGED <<vars, k8sVars, scene>>
      /\ \/ Return(w) \/ FailWith(w, "none") \/ Goto(w, "create")
         \/ /\ reg[Ext(w)] # NoReg
            /\ Saw(w, "record", reg[Ext(w)]) \/ Saw(w, "patch", reg[Ext(w)])
  BY DEF InstallGetsRegistration, RemoveGetsRegistration, At
<1>2. Row_(w).event = "OperationReadyForDispatch"
  BY <1>1, WorkerRow DEF Informed
<1>3. "OperationReadyForDispatch" \notin Observations
  BY DEF Observations, ObservationOf
<1>4. Informed(Op(w), Row_(w).event, Row_(w).uid, "create", job[w].seen)
  BY <1>2 DEF Informed
<1>5. ASSUME NEW pc \in {"record", "patch"}, reg[Ext(w)] # NoReg, Saw(w, pc, reg[Ext(w)])
      PROVE  ControllerInv'
  <2>1. reg[Ext(w)] \in Registration /\ Sees(Op(w), reg[Ext(w)])
    BY <1>1, <1>5, ReadsOwn
  <2>2. Informed(Op(w), Row_(w).event, Row_(w).uid, pc, reg[Ext(w)])
    BY <1>2, <1>3, <2>1 DEF Informed
  <2> QED BY <1>1, <1>5, <2>1, <2>2, QuietWorker
<1>6. CASE Return(w) \/ FailWith(w, "none") \/ Goto(w, "create")
  BY <1>1, <1>4, <1>6, QuietWorker
<1> QED BY <1>1, <1>5, <1>6

\* The observations.
LEMMA ObservationKeepsInv ==
    ASSUME ControllerInv, NEW w \in Workers, UNCHANGED scene,
           \/ ObserveInstallGetsPackage(w) \/ ObserveInstall(w) \/ ObserveRemove(w)
           \/ ObservationThrows(w)
    PROVE  ControllerInv'
<1> USE DEF Pcs, SideEffects
<1>1. /\ job[w].pc \in {"observe", "observePackage"} /\ UNCHANGED <<vars, k8sVars, scene>>
      /\ \/ Return(w) \/ FailWith(w, "unknown") \/ FailWith(w, "present") \/ Goto(w, "observe")
         \/ /\ job[w].pc = "observe" /\ Op(w).action = "remove" /\ reg[Ext(w)] = NoReg
            /\ Goto(w, "record")
         \/ /\ job[w].pc = "observe" /\ Op(w).action = "install" /\ reg[Ext(w)] # NoReg
            /\ Saw(w, "assertReady", reg[Ext(w)])
  <2>1. ASSUME NotYet(w) PROVE Return(w) \/ FailWith(w, "unknown")
    BY <2>1 DEF NotYet
  <2>2. CASE ObserveInstallGetsPackage(w)
    BY <2>2 DEF ObserveInstallGetsPackage, At
  <2>3. CASE ObserveInstall(w)
    <3>1. job[w].pc # "idle" /\ job[w].pc = "observe" /\ Op(w).action = "install"
      BY <2>3 DEF ObserveInstall, At
    <3>2. reg[Ext(w)] # NoReg => reg[Ext(w)].phase \in {"Pending", "Ready", "Failed"}
      BY <3>1, ReadsOwn DEF Registration
    <3> QED BY <2>1, <2>3, <3>1, <3>2 DEF ObserveInstall
  <2>4. CASE ObserveRemove(w)
    BY <2>1, <2>4 DEF ObserveRemove, At
  <2>5. CASE ObservationThrows(w)
    BY <2>1, <2>5 DEF ObservationThrows, At
  <2> QED BY <2>2, <2>3, <2>4, <2>5
<1>2. /\ Row_(w).event \in Observations /\ job[w].row \in DOMAIN outbox /\ Row_(w) = outbox[job[w].row]
      /\ Ext(w) = Extension[Op(w).image]
  BY <1>1, WorkerRow DEF Informed
<1>3. Informed(Op(w), Row_(w).event, Row_(w).uid, "observe", job[w].seen)
  BY <1>2 DEF Informed
<1>4. CASE Return(w) \/ FailWith(w, "unknown") \/ FailWith(w, "present") \/ Goto(w, "observe")
  BY <1>1, <1>3, <1>4, QuietWorker
<1>5. CASE Op(w).action = "remove" /\ reg[Ext(w)] = NoReg /\ Goto(w, "record")
  <2>1. Belongs(Row_(w).uid, Ext(w))
    BY <1>2 DEF ControllerInv, ObservedUidsAreBound, Op
  <2>2. Gone(Row_(w).uid)
    BY <1>5, <2>1 DEF Belongs, Gone
  <2>3. Informed(Op(w), Row_(w).event, Row_(w).uid, "record", job[w].seen)
    BY <1>2, <1>5, <2>2 DEF Informed
  <2> QED BY <1>1, <1>5, <2>3, QuietWorker
<1>6. CASE Op(w).action = "install" /\ reg[Ext(w)] # NoReg /\ Saw(w, "assertReady", reg[Ext(w)])
  <2>1. reg[Ext(w)] \in Registration /\ Sees(Op(w), reg[Ext(w)])
    BY <1>1, <1>6, ReadsOwn
  <2>2. Informed(Op(w), Row_(w).event, Row_(w).uid, "assertReady", reg[Ext(w)])
    BY <1>2, <1>6, <2>1 DEF Informed
  <2> QED BY <1>1, <1>6, <2>1, <2>2, QuietWorker
<1> QED BY <1>1, <1>4, <1>5, <1>6

\* The process dies.
LEMMA CrashKeepsInv ==
    ASSUME ControllerInv, NEW w \in Workers, UNCHANGED scene, Crash(w)
    PROVE  ControllerInv'
BY QuietWorker DEF Crash, At

-----------------------------------------------------------------------------
(* The steps that write to the cluster.                                     *)

\* A Registration that keeps its UID, or goes.
LEMMA RegistrationRewritten ==
    ASSUME ControllerInv, NEW x \in Extensions, NEW object \in Registration \cup {NoReg},
           reg[x] # NoReg, object # NoReg => object.uid = reg[x].uid,
           reg' = [reg EXCEPT ![x] = object], uidsUsed' = uidsUsed
    PROVE  UidsGrow /\ UidsAreUnique' /\ reg' \in [Extensions -> Registration \cup {NoReg}]
<1>1. reg \in [Extensions -> Registration \cup {NoReg}] /\ UidsAreUnique
  BY DEF ControllerInv, ControllerTypeOK
<1>2. /\ reg' \in [Extensions -> Registration \cup {NoReg}]
      /\ \A y \in Extensions : reg'[y] # NoReg => reg[y] # NoReg /\ reg'[y].uid = reg[y].uid
  BY <1>1
<1> QED BY <1>1, <1>2 DEF UidsGrow, UidsAreUnique, Belongs

\* The reconciler, extension management and a release of the package.
LEMMA ClusterKeepsInv ==
    ASSUME ControllerInv, UNCHANGED scene,
           \/ \E image \in Images : PackageChanges(image)
           \/ \E x \in Extensions : Reconcile(x)
           \/ \E x \in Extensions, desired \in {"Installed", "Disabled", "Uninstalled"} :
                 SetDesiredState(x, desired)
    PROVE  ControllerInv'
<1>0. job \in [Workers -> Job] /\ ClusterTypeOK
  BY DEF ControllerInv, ControllerTypeOK, ClusterTypeOK
<1>1. ASSUME NEW image \in Images, PackageChanges(image) PROVE ControllerInv'
  <2>1. UNCHANGED <<vars, job, reg, uidsUsed>> /\ ClusterTypeOK'
    BY <1>0, <1>1 DEF PackageChanges, ClusterTypeOK
  <2>2. UidsGrow /\ UidsAreUnique'
    BY <2>1, UidsStay DEF ControllerInv, UidsAreUnique, Belongs
  <2> QED BY <1>0, <2>1, <2>2, OutsideStep
<1>2. ASSUME NEW x \in Extensions, NEW object \in Registration \cup {NoReg}, reg[x] # NoReg,
             object # NoReg => object.uid = reg[x].uid, reg' = [reg EXCEPT ![x] = object],
             UNCHANGED <<vars, job, uidsUsed, current, pinned, wrote>>
      PROVE  ControllerInv'
  <2>1. UidsGrow /\ UidsAreUnique' /\ reg' \in [Extensions -> Registration \cup {NoReg}]
    BY <1>2, RegistrationRewritten
  <2>2. ClusterTypeOK'
    BY <1>0, <1>2, <2>1 DEF ClusterTypeOK
  <2> QED BY <1>0, <1>2, <2>1, <2>2, OutsideStep
<1>3. ASSUME NEW x \in Extensions, reg[x] # NoReg PROVE reg[x] \in Registration
  BY <1>0, <1>3 DEF ClusterTypeOK
<1>4. ASSUME NEW x \in Extensions, Reconcile(x) PROVE ControllerInv'
  <2>1. reg[x] # NoReg /\ reg[x] \in Registration /\ UNCHANGED <<vars, job, uidsUsed, current, pinned, wrote>>
    BY <1>3, <1>4 DEF Reconcile
  <2>2. ASSUME NEW phase \in {"Pending", "Ready", "Failed"}, reg' = [reg EXCEPT ![x].phase = phase]
        PROVE  ControllerInv'
    <3>1. PICK object : object = [reg[x] EXCEPT !.phase = phase]
      OBVIOUS
    <3>2. object \in Registration /\ object.uid = reg[x].uid
      BY <2>1, <3>1 DEF Registration
    <3>3. reg' = [reg EXCEPT ![x] = object]
      BY <2>2, <3>1
    <3> QED BY <1>2, <2>1, <3>2, <3>3
  <2>3. CASE reg' = [reg EXCEPT ![x] = NoReg]
    BY <1>2, <2>1, <2>3
  <2> QED BY <1>4, <2>2, <2>3 DEF Reconcile
<1>5. ASSUME NEW x \in Extensions, NEW desired \in {"Installed", "Disabled", "Uninstalled"},
             SetDesiredState(x, desired)
      PROVE  ControllerInv'
  <2>1. reg[x] # NoReg /\ reg[x] \in Registration /\ UNCHANGED <<vars, job, uidsUsed, current, pinned, wrote>>
    BY <1>3, <1>5 DEF SetDesiredState
  <2>2. PICK object : object = [reg[x] EXCEPT !.desired = desired]
    OBVIOUS
  <2>3. object \in Registration /\ object.uid = reg[x].uid
    BY <2>1, <2>2 DEF Registration
  <2>4. reg' = [reg EXCEPT ![x] = object]
    BY <1>5, <2>2 DEF SetDesiredState
  <2> QED BY <1>2, <2>1, <2>3, <2>4
<1> QED BY <1>1, <1>4, <1>5

\* POST: the object gets a UID that nobody had.
LEMMA CreateKeepsInv ==
    ASSUME ControllerInv, NEW w \in Workers, UNCHANGED scene, CreateRegistration(w)
    PROVE  ControllerInv'
<1> USE DEF Pcs
<1>0. job \in [Workers -> Job] /\ ClusterTypeOK /\ UidsAreUnique /\ UNCHANGED vars
  BY DEF ControllerInv, ControllerTypeOK, ClusterTypeOK, CreateRegistration
<1>1. /\ job[w].pc = "create" /\ Op(w) \in Requests /\ Ext(w) \in Extensions
      /\ Ext(w) = Extension[Op(w).image]
      /\ Row_(w).event = "OperationReadyForDispatch"
  BY WorkerRow DEF CreateRegistration, At, Informed
<1>2. CASE Return(w) /\ UNCHANGED k8sVars
  BY <1>0, <1>1, <1>2, QuietWorker
<1>3. CASE reg[Ext(w)] = NoReg
  <2>1. PICK r, x, event, rowUid : /\ r = Op(w) /\ x = Ext(w) /\ event = Row_(w).event /\ rowUid = Row_(w).uid
    OBVIOUS
  <2>2. PICK uid, object :
            /\ uid \in Uids \ uidsUsed
            /\ object = [uid |-> uid, op |-> Op(w), desired |-> "Installed", phase |-> "Pending"]
            /\ reg' = [reg EXCEPT ![x] = object]
            /\ uidsUsed' = uidsUsed \cup {uid}
            /\ wrote' = wrote \cup {r}
            /\ Saw(w, "record", object)
            /\ UNCHANGED <<current, pinned>>
    BY <1>3, <2>1 DEF CreateRegistration
  <2>3. object \in Registration /\ object.uid = uid
    BY <1>1, <2>2 DEF Registration
  <2>4. ClusterTypeOK'
    <3>1. reg' \in [Extensions -> Registration \cup {NoReg}]
      BY <1>0, <2>2, <2>3 DEF ClusterTypeOK
    <3> QED BY <1>0, <1>1, <2>1, <2>2, <3>1 DEF ClusterTypeOK
  <2>5. reg'[x] = object /\ \A y \in Extensions : y # x => reg'[y] = reg[y]
    BY <1>0, <1>1, <2>1, <2>2 DEF ClusterTypeOK
  <2>6. \A y \in Extensions : reg[y] # NoReg => reg[y].uid \in uidsUsed /\ reg[y].uid # uid
    BY <1>0, <2>2 DEF UidsAreUnique, Belongs
  <2>7. UidsGrow
    BY <2>2, <2>3, <2>5, <2>6 DEF UidsGrow
  <2>8. Belongs(uid, x)'
    BY <2>2, <2>5, <2>6 DEF Belongs
  <2>9. UidsAreUnique'
    BY <1>0, <2>2, <2>3, <2>5, <2>6, <2>8 DEF UidsAreUnique, Belongs
  <2>10. /\ job' \in [Workers -> Job] /\ JobStep(w, "record", object)
         /\ \A v \in Workers : v # w => job'[v] = job[v]
    BY <1>0, <1>1, <2>2, <2>3, SawUpdate
  <2>11. Informed(r, event, rowUid, "record", object)'
    <3>1. event \notin Observations
      BY <1>1, <2>1 DEF Observations, ObservationOf
    <3>2. Sees(r, object)'
      BY <1>1, <2>1, <2>3, <2>8 DEF Sees
    <3> QED BY <3>1, <3>2 DEF Informed
  <2>12. JobIsClaimed(w)' /\ JobIsInformed(w)'
    BY <1>0, <2>1, <2>10, <2>11, LedgerUnchanged, JobMoves
  <2> QED BY <1>0, <2>4, <2>7, <2>9, <2>10, <2>12, OutsideStep
<1> QED BY <1>2, <1>3 DEF CreateRegistration

\* PATCH: the object that was read is marked for removal.
LEMMA PatchKeepsInv ==
    ASSUME ControllerInv, NEW w \in Workers, UNCHANGED scene, PatchUninstalled(w)
    PROVE  ControllerInv'
<1> USE DEF Pcs
<1>0. job \in [Workers -> Job] /\ ClusterTypeOK /\ UNCHANGED vars
  BY DEF ControllerInv, ControllerTypeOK, ClusterTypeOK, PatchUninstalled
<1>1. /\ job[w].pc = "patch" /\ Op(w) \in Requests /\ Ext(w) \in Extensions
      /\ Row_(w).event = "OperationReadyForDispatch"
      /\ job[w].seen \in Registration /\ Sees(Op(w), job[w].seen)
  BY WorkerRow DEF PatchUninstalled, At, Informed, Sees
<1>2. CASE Return(w) /\ UNCHANGED k8sVars
  BY <1>0, <1>1, <1>2, QuietWorker
<1>3. CASE reg[Ext(w)] = job[w].seen
  <2>1. PICK r, x, event, uid, seen : /\ r = Op(w) /\ x = Ext(w) /\ event = Row_(w).event /\ uid = Row_(w).uid
                                      /\ seen = job[w].seen
    OBVIOUS
  <2>2. PICK object : object = [reg[x] EXCEPT !.desired = "Uninstalled"]
    OBVIOUS
  <2>3. /\ reg' = [reg EXCEPT ![x] = object] /\ wrote' = wrote \cup {r} /\ Goto(w, "record")
        /\ UNCHANGED <<uidsUsed, current, pinned>>
    BY <1>3, <2>1, <2>2 DEF PatchUninstalled
  <2>4. object \in Registration /\ object.uid = reg[x].uid
    BY <1>1, <1>3, <2>1, <2>2 DEF Registration
  <2>5. UidsGrow /\ UidsAreUnique' /\ ClusterTypeOK'
    <3>1. reg[x] # NoReg
      BY <1>1, <1>3, <2>1, NoRegAssumption
    <3>2. UidsGrow /\ UidsAreUnique' /\ reg' \in [Extensions -> Registration \cup {NoReg}]
      BY <1>1, <2>1, <2>3, <2>4, <3>1, RegistrationRewritten
    <3> QED BY <1>0, <1>1, <2>1, <2>3, <3>2 DEF ClusterTypeOK
  <2>6. /\ job' \in [Workers -> Job] /\ JobStep(w, "record", seen)
        /\ \A v \in Workers : v # w => job'[v] = job[v]
    BY <1>0, <1>1, <2>1, <2>3, GotoUpdate
  <2>7. Informed(r, event, uid, "record", seen)
    BY <1>1, <2>1 DEF Informed, Observations, ObservationOf
  <2>8. Informed(r, event, uid, "record", seen)'
    BY <2>5, <2>7, InformedStays
  <2>9. JobIsClaimed(w)' /\ JobIsInformed(w)'
    BY <1>0, <2>1, <2>6, <2>8, LedgerUnchanged, JobMoves
  <2> QED BY <1>0, <2>5, <2>6, <2>9, OutsideStep
<1> QED BY <1>2, <1>3 DEF PatchUninstalled

-----------------------------------------------------------------------------
(* The steps that call the ledger.                                          *)

\* A step of the ledger, with a cluster that does not change.
LEMMA LedgerStep ==
    ASSUME ControllerInv, [Next]_vars, UNCHANGED <<k8sVars, scene>>, RowsStay, EpochsAreBounded',
           job' \in [Workers -> Job],
           \A v \in Workers : job'[v] = job[v] \/ (JobIsClaimed(v)' /\ JobIsInformed(v)'),
           \/ NoNewObservation
           \/ \E r, uid : NewRowsObserve(r, uid) /\ Belongs(uid, Extension[r.image]),
           NEW new, receipts' \subseteq receipts \cup new,
           \A x \in new : (x.phase = "Verified" /\ x.op.action = "remove") => Gone(x.uid)
    PROVE  ControllerInv'
<1>1. UidsGrow
  BY UidsStay DEF k8sVars
<1>2. LedgerInv'
  BY NextKeepsLedgerInv DEF ControllerInv
<1>3. UidsAreUnique' /\ ClusterTypeOK'
  BY DEF ControllerInv, UidsAreUnique, Belongs, ControllerTypeOK, ClusterTypeOK, k8sVars
<1>4. ObservedUidsAreBound'
  <2>1. ASSUME NEW uid, NEW x, Belongs(uid, x) PROVE Belongs(uid, x)'
    BY <1>1, <2>1, BelongsStays
  <2> QED BY <1>1, <2>1, ObservationsStay DEF ControllerInv
<1>5. RemovalsAreFinal'
  BY <1>1, RemovalsStay DEF ControllerInv
<1>6. \A v \in Workers : JobIsClaimed(v)' /\ JobIsInformed(v)'
  BY <1>1, JobStays
<1>7. ControllerTypeOK'
  BY <1>2, <1>3 DEF ControllerTypeOK, ClusterTypeOK, LedgerInv
<1> QED BY <1>2, <1>3, <1>4, <1>5, <1>6, <1>7 DEF ControllerInv

\* No receipt is written.
LEMMA LedgerStepWithoutReceipt ==
    ASSUME ControllerInv, [Next]_vars, UNCHANGED <<k8sVars, scene>>, RowsStay, EpochsAreBounded',
           job' \in [Workers -> Job],
           \A v \in Workers : job'[v] = job[v] \/ (JobIsClaimed(v)' /\ JobIsInformed(v)'),
           NoNewObservation, receipts' = receipts
    PROVE  ControllerInv'
<1>1. PICK new : new = {}
  OBVIOUS
<1>2. receipts' \subseteq receipts \cup new /\ \A x \in new : FALSE
  BY <1>1
<1> QED BY <1>2, LedgerStep

\* C_API's side.
LEMMA GovernanceKeepsInv ==
    ASSUME ControllerInv, UNCHANGED scene, Governance
    PROVE  Next /\ ControllerInv'
<1>0. job' \in [Workers -> Job] /\ job' = job /\ outbox \in Seq(Row) /\ EpochsAreBounded
  BY DEF ControllerInv, ControllerTypeOK, Governance, LedgerInv, TypeOK
<1>1. Next
  BY DEF Governance, Next
<1>2. RowsStay /\ EpochsAreBounded' /\ NoNewObservation /\ receipts' = receipts
  <2>1. ASSUME NEW r \in Requests, NEW event \in {"OperationAwaitingApproval", "OperationReadyForDispatch"},
               outbox' = Append(outbox, NewRow(r, event, NoUid))
        PROVE  RowsStay /\ EpochsAreBounded' /\ NoNewObservation
    <3>1. event \in Events /\ event \notin Observations
      BY DEF Events, Observations, ObservationOf
    <3> QED BY <1>0, <2>1, <3>1, StayAppend
  <2>2. CASE outbox' = outbox /\ receipts' = receipts
    BY <1>0, <2>2, StayQuiet
  <2>3. ASSUME NEW r \in Requests, Accept(r)
        PROVE  RowsStay /\ EpochsAreBounded' /\ NoNewObservation /\ receipts' = receipts
    <3>1. PICK event \in {"OperationAwaitingApproval", "OperationReadyForDispatch"} :
              outbox' = Append(outbox, NewRow(r, event, NoUid))
      BY <2>3 DEF Accept
    <3> QED BY <2>1, <2>3, <3>1 DEF Accept
  <2>4. ASSUME NEW s \in Subjects, NEW r \in Requests, Approve(s, r)
        PROVE  RowsStay /\ EpochsAreBounded' /\ NoNewObservation /\ receipts' = receipts
    BY <2>1, <2>4 DEF Approve
  <2>5. ASSUME NEW s \in Subjects, NEW r \in Requests,
               RecordProposal(r) \/ RecordMerge(r) \/ VerifyExtensionOperation(s, r)
        PROVE  outbox' = outbox /\ receipts' = receipts
    BY <2>5 DEF RecordProposal, RecordMerge, VerifyExtensionOperation, ledgerVars
  <2>6. ASSUME NEW r \in Requests, RecordProposal(r) \/ RecordMerge(r)
        PROVE  outbox' = outbox /\ receipts' = receipts
    BY <2>6 DEF RecordProposal, RecordMerge, ledgerVars
  <2> QED BY <2>2, <2>3, <2>4, <2>5, <2>6 DEF Governance
<1>3. ControllerInv'
  BY <1>0, <1>1, <1>2, LedgerStepWithoutReceipt DEF Governance
<1> QED BY <1>1, <1>3

\* A lease runs out.
LEMMA LeaseKeepsInv ==
    ASSUME ControllerInv, UNCHANGED scene, NEW i \in DOMAIN outbox, LeaseRunsOut(i)
    PROVE  Next /\ ControllerInv'
<1>0. job' \in [Workers -> Job] /\ job' = job /\ outbox \in Seq(Row) /\ EpochsAreBounded
  BY DEF ControllerInv, ControllerTypeOK, LeaseRunsOut, LedgerInv, TypeOK
<1>1. Next
  BY DEF LeaseRunsOut, Next
<1>2. PICK new : new = [outbox[i] EXCEPT !.leased = FALSE]
  OBVIOUS
<1>3. /\ new \in Row /\ new.op = outbox[i].op /\ new.event = outbox[i].event /\ new.uid = outbox[i].uid
      /\ new.epoch = outbox[i].epoch
  <2>1. outbox[i] \in Row
    BY <1>0
  <2> QED BY <1>2, <2>1 DEF Row
<1>4. /\ outbox' = [outbox EXCEPT ![i] = new] /\ receipts' = receipts /\ outbox[i].epoch < MaxClaims
  BY <1>2 DEF LeaseRunsOut, LeaseExpires
<1>5. RowsStay /\ EpochsAreBounded' /\ NoNewObservation
  <2>1. new.epoch <= MaxClaims /\ new.epoch < MaxClaims
    BY <1>0, <1>3, <1>4 DEF EpochsAreBounded
  <2> QED BY <1>0, <1>3, <1>4, <2>1, StayRewrite
<1>6. ControllerInv'
  BY <1>0, <1>1, <1>4, <1>5, LedgerStepWithoutReceipt DEF LeaseRunsOut
<1> QED BY <1>1, <1>6

\* A claim: the epoch the worker works under is the row's new one.
LEMMA ClaimKeepsInv ==
    ASSUME ControllerInv, UNCHANGED scene, NEW w \in Workers, ClaimWork(w)
    PROVE  Next /\ ControllerInv'
<1>0. job \in [Workers -> Job] /\ outbox \in Seq(Row) /\ EpochsAreBounded
  BY DEF ControllerInv, ControllerTypeOK, LedgerInv, TypeOK
<1>1. PICK i \in DOMAIN outbox :
          /\ Claim(w, i) /\ UNCHANGED k8sVars
          /\ job' = [job EXCEPT ![w] =
                [Idle EXCEPT !.row = i, !.epoch = outbox[i].epoch + 1,
                             !.pc = IF outbox[i].event = "OperationReadyForDispatch"
                                       /\ outbox[i].op.action = "install"
                                    THEN "resolve" ELSE "renew"]]
  BY DEF ClaimWork
<1>2. Next
  BY <1>1 DEF Next
<1>3. /\ outbox[i] \in Row /\ outbox[i].epoch \in Nat /\ outbox[i].epoch < MaxClaims /\ i \in Nat
      /\ outbox[i].event \in DispatchEvents
  <2>1. outbox[i] \in Row /\ i \in Nat
    BY <1>0
  <2>2. ~ outbox[i].leased /\ outbox[i].event \in DispatchEvents
    BY <1>1 DEF Claim, Claimable, DispatchEvents, Events, ObservationOf
  <2> QED BY <1>0, <2>1, <2>2 DEF EpochsAreBounded, Row
<1>4. PICK new : new = TakenBy(outbox[i], w)
  OBVIOUS
<1>5. /\ new \in Row /\ new.op = outbox[i].op /\ new.event = outbox[i].event /\ new.uid = outbox[i].uid
      /\ new.epoch = outbox[i].epoch + 1 /\ new.leased = TRUE
  <2>1. outbox[i].epoch + 1 \in Nat
    BY <1>3
  <2>2. new = [outbox[i] EXCEPT !.owner = w, !.epoch = outbox[i].epoch + 1, !.leased = TRUE]
    BY <1>4 DEF TakenBy
  <2>3. new \in Row
    BY <1>3, <2>1, <2>2 DEF Row
  <2> QED BY <1>3, <2>2, <2>3 DEF Row
<1>6. outbox' = [outbox EXCEPT ![i] = new] /\ receipts' = receipts
  BY <1>1, <1>4 DEF Claim
<1>7. RowsStay /\ EpochsAreBounded' /\ NoNewObservation
  <2>1. new.epoch <= MaxClaims
    BY <1>3, <1>5, MaxClaimsAssumption
  <2> QED BY <1>0, <1>5, <1>6, <2>1, StayRewrite
<1>15. PICK pc \in {"resolve", "renew"} :
          job' = [job EXCEPT ![w] = [Idle EXCEPT !.row = i, !.epoch = outbox[i].epoch + 1, !.pc = pc]]
  BY <1>1
<1>8. PICK e, mine :
          /\ e = outbox[i].epoch + 1
          /\ mine = [Idle EXCEPT !.row = i, !.epoch = e, !.pc = pc]
          /\ job' = [job EXCEPT ![w] = mine]
  BY <1>15
<1>9. Idle \in Job /\ e \in 1 .. MaxClaims /\ e \in Nat
  BY <1>3, <1>8, MaxClaimsAssumption DEF Idle, Job, Pcs, SideEffects
<1>10. mine \in Job /\ mine.pc = pc /\ mine.row = i /\ mine.epoch = e /\ e \in 1 .. MaxClaims
  BY <1>3, <1>8, <1>9 DEF Job, Pcs
<1>11. /\ job' \in [Workers -> Job] /\ job'[w] = mine
       /\ \A v \in Workers : v # w => job'[v] = job[v]
  BY <1>0, <1>8, <1>10
<1>12. JobIsInformed(w)'
  BY <1>8, <1>10, <1>11 DEF JobIsInformed, Informed
<1>13. JobIsClaimed(w)'
  BY <1>3, <1>7, <1>10, <1>11 DEF JobIsClaimed, Row_, RowsStay
<1>14. ControllerInv'
  BY <1>1, <1>2, <1>6, <1>7, <1>11, <1>12, <1>13, LedgerStepWithoutReceipt
<1> QED BY <1>2, <1>14

\* A receipt: the worker returns, its row is delivered and perhaps observed.
LEMMA ReceiptKeepsInv ==
    ASSUME ControllerInv, UNCHANGED <<k8sVars, scene>>, NEW w \in Workers, job[w].pc # "idle",
           Return(w), Next, NEW i \in DOMAIN outbox, NEW r \in Requests, NEW e, NEW phase, NEW uid, NEW sideEffect,
           AddReceipt(r, e, phase, uid, sideEffect),
           (phase = "Verified" /\ r.action = "remove") => Gone(uid),
           \/ outbox' = Deliver(i)
           \/ \E event \in Observations : /\ outbox' = Append(Deliver(i), NewRow(r, event, uid))
                                          /\ uid \in Uids /\ Belongs(uid, Extension[r.image])
    PROVE  ControllerInv'
<1>0. job \in [Workers -> Job] /\ outbox \in Seq(Row) /\ EpochsAreBounded
  BY DEF ControllerInv, ControllerTypeOK, LedgerInv, TypeOK
<1>1. job' \in [Workers -> Job] /\ job'[w].pc = "idle" /\ \A v \in Workers : v # w => job'[v] = job[v]
  BY <1>0, ReturnUpdate
<1>2. JobIsClaimed(w)' /\ JobIsInformed(w)'
  BY <1>1, JobEnds
<1>3. PICK new : new = {[op |-> r, epoch |-> e, phase |-> phase, uid |-> uid, sideEffect |-> sideEffect]}
  OBVIOUS
<1>4. /\ receipts' \subseteq receipts \cup new
      /\ \A x \in new : (x.phase = "Verified" /\ x.op.action = "remove") => Gone(x.uid)
  BY <1>3 DEF AddReceipt
<1>5. CASE outbox' = Deliver(i)
  <2>1. RowsStay /\ EpochsAreBounded' /\ NoNewObservation
    BY <1>0, <1>5, StayDelivered
  <2> QED BY <1>1, <1>2, <1>4, <2>1, LedgerStep
<1>6. ASSUME NEW event \in Observations, outbox' = Append(Deliver(i), NewRow(r, event, uid)),
             uid \in Uids, Belongs(uid, Extension[r.image])
      PROVE  ControllerInv'
  <2>1. event \in Events
    BY DEF Events, Observations, ObservationOf
  <2>2. RowsStay /\ EpochsAreBounded' /\ NewRowsObserve(r, uid)
    BY <1>0, <1>6, <2>1, DeliverStays, StayAppend
  <2> QED BY <1>1, <1>2, <1>4, <1>6, <2>2, LedgerStep
<1> QED BY <1>5, <1>6

\* The receipt of an operation that went well.
LEMMA RecordKeepsInv ==
    ASSUME ControllerInv, UNCHANGED scene, NEW w \in Workers, Record(w)
    PROVE  [Next]_vars /\ ControllerInv'
<1> USE DEF SideEffects
<1>0. job[w].pc = "record" /\ job[w].pc # "idle" /\ UNCHANGED <<k8sVars, scene>>
  BY DEF Record, At
<1>1. /\ job[w].row \in DOMAIN outbox /\ Row_(w) = outbox[job[w].row]
      /\ Op(w) \in Requests /\ job[w].epoch \in 1 .. MaxClaims
      /\ Observing(w) <=> Row_(w).event \in Observations
      /\ Informed(Op(w), Row_(w).event, Row_(w).uid, "record", job[w].seen)
      /\ uidsUsed \subseteq Uids
  BY <1>0, WorkerRow DEF ControllerInv, ControllerTypeOK
<1>2. CASE UNCHANGED vars /\ (Return(w) \/ FailWith(w, "present"))
  BY <1>0, <1>2, QuietWorker
<1>3. CASE RecordReceipt(w) /\ Return(w)
  <2>1. PICK i \in DOMAIN outbox, e \in 1 .. MaxClaims, r \in Requests :
            i = job[w].row /\ e = job[w].epoch /\ r = Op(w) /\ r = outbox[i].op
    BY <1>1 DEF Op
  <2>2. OwnerCall(w, i, e) => Next
    BY DEF Next
  <2>3. ASSUME ~ (r.action = "remove" /\ Row_(w).event \in Observations), r.action # "revoke"
        PROVE  job[w].seen.uid \in Uids /\ Belongs(job[w].seen.uid, Extension[r.image])
    BY <1>1, <2>1, <2>3 DEF Informed, Sees, Registration
  <2>4. CASE ApplyRevocation(w, i, e)
    <3>1. Next
      BY <2>2, <2>4 DEF OwnerCall
    <3>2. AddReceipt(r, e, "Applied", NoUid, "present") /\ outbox' = Deliver(i)
      BY <2>1, <2>4 DEF ApplyRevocation
    <3> QED BY <1>0, <1>3, <3>1, <3>2, ReceiptKeepsInv
  <2>5. CASE ~ Observing(w) /\ ApplyInstallRegistration(w, i, e, job[w].seen.uid)
    <3>1. PICK uid : uid = job[w].seen.uid
      OBVIOUS
    <3>2. /\ r.action = "install" /\ AddReceipt(r, e, "Applied", uid, "present")
          /\ outbox' = Append(Deliver(i), NewRow(r, ObservationOf("install"), uid))
      BY <2>1, <2>5, <3>1 DEF ApplyInstallRegistration
    <3>3. uid \in Uids /\ Belongs(uid, Extension[r.image])
      BY <2>3, <3>1, <3>2
    <3>4. Next
      BY <2>2, <2>5, <3>1, <3>3 DEF OwnerCall
    <3>5. ObservationOf("install") \in Observations
      BY DEF Observations
    <3> QED BY <1>0, <1>3, <3>2, <3>3, <3>4, <3>5, ReceiptKeepsInv
  <2>6. CASE ~ Observing(w) /\ ApplyRemoveRegistration(w, i, e, job[w].seen.uid)
    <3>1. PICK uid : uid = job[w].seen.uid
      OBVIOUS
    <3>2. /\ r.action = "remove" /\ AddReceipt(r, e, "Applied", uid, "present")
          /\ outbox' = Append(Deliver(i), NewRow(r, ObservationOf("remove"), uid))
      BY <2>1, <2>6, <3>1 DEF ApplyRemoveRegistration
    <3>3. uid \in Uids /\ Belongs(uid, Extension[r.image])
      BY <1>1, <2>3, <2>6, <3>1, <3>2
    <3>4. Next
      BY <2>2, <2>6, <3>1, <3>3 DEF OwnerCall
    <3>5. ObservationOf("remove") \in Observations
      BY DEF Observations
    <3> QED BY <1>0, <1>3, <3>2, <3>3, <3>4, <3>5, ReceiptKeepsInv
  <2>7. CASE Observing(w) /\ RecordInstallObservation(w, i, e, job[w].seen.uid)
    <3>1. PICK uid : uid = job[w].seen.uid
      OBVIOUS
    <3>2. /\ r.action = "install" /\ AddReceipt(r, e, "Verified", uid, "present")
          /\ outbox' = Deliver(i)
      BY <2>1, <2>7, <3>1 DEF RecordInstallObservation
    <3>3. uid \in Uids
      BY <2>3, <3>1, <3>2
    <3>4. Next
      BY <2>2, <2>7, <3>1, <3>3 DEF OwnerCall
    <3> QED BY <1>0, <1>3, <3>2, <3>4, ReceiptKeepsInv
  <2>8. CASE Observing(w) /\ RecordRemoveObservation(w, i, e, Row_(w).uid)
    <3>1. PICK uid : uid = Row_(w).uid
      OBVIOUS
    <3>2. /\ r.action = "remove" /\ AddReceipt(r, e, "Verified", uid, "present")
          /\ outbox' = Deliver(i)
      BY <2>1, <2>8, <3>1 DEF RecordRemoveObservation
    <3>3. Gone(uid)
      BY <1>1, <2>1, <2>8, <3>1, <3>2 DEF Informed
    <3>4. uid \in Uids
      BY <1>1, <3>3 DEF Gone
    <3>5. Next
      BY <2>2, <2>8, <3>1, <3>4 DEF OwnerCall
    <3> QED BY <1>0, <1>3, <3>2, <3>3, <3>5, ReceiptKeepsInv
  <2> QED BY <1>3, <2>1, <2>4, <2>5, <2>6, <2>7, <2>8 DEF RecordReceipt
<1> QED BY <1>2, <1>3 DEF Record

\* The receipt of a failure.
LEMMA RecordFailureKeepsInv ==
    ASSUME ControllerInv, UNCHANGED scene, NEW w \in Workers, RecordFailure(w)
    PROVE  [Next]_vars /\ ControllerInv'
<1>0. job[w].pc # "idle" /\ UNCHANGED <<k8sVars, scene>> /\ Return(w)
  BY DEF RecordFailure, At
<1>1. PICK i \in DOMAIN outbox, e \in 1 .. MaxClaims, r \in Requests, sideEffect \in SideEffects :
          i = job[w].row /\ e = job[w].epoch /\ r = outbox[i].op /\ sideEffect = job[w].sideEffect
  <2>1. job[w] \in Job
    BY DEF ControllerInv, ControllerTypeOK
  <2> QED BY <1>0, <2>1, WorkerRow DEF Op, Job
<1>2. CASE UNCHANGED vars
  BY <1>0, <1>2, QuietWorker
<1>3. CASE RecordExecutionFailure(w, i, e, sideEffect)
  <2>1. Next
    BY <1>3 DEF Next, OwnerCall
  <2>2. PICK phase : phase = FailurePhase(sideEffect)
    OBVIOUS
  <2>3. AddReceipt(r, e, phase, NoUid, sideEffect) /\ outbox' = Deliver(i) /\ phase # "Verified"
    BY <1>1, <1>3, <2>2 DEF RecordExecutionFailure, FailurePhase
  <2> QED BY <1>0, <2>1, <2>3, ReceiptKeepsInv
<1> QED BY <1>1, <1>2, <1>3 DEF RecordFailure

-----------------------------------------------------------------------------
(* The theorems.                                                            *)

\* No step leaves the invariant, and each is a step of the ledger or leaves it alone.
LEMMA ControllerStepIsLedgerStep ==
    ASSUME ControllerInv, [ControllerNext]_allVars
    PROVE  [Next]_vars /\ ControllerInv'
<1>1. CASE UNCHANGED allVars
  <2>1. UNCHANGED <<vars, job, k8sVars, scene>> /\ UNCHANGED vars /\ UNCHANGED scene
    BY <1>1 DEF allVars
  <2>2. UidsGrow /\ UidsAreUnique' /\ ClusterTypeOK' /\ job' \in [Workers -> Job]
    BY <2>1, UidsStay DEF ControllerInv, UidsAreUnique, Belongs, ControllerTypeOK, ClusterTypeOK, k8sVars
  <2> QED BY <2>1, <2>2, OutsideStep
<1>2. CASE ControllerNext
  <2>0. UNCHANGED scene
    BY <1>2 DEF ControllerNext
  <2>1. CASE Governance
    BY <2>0, <2>1, GovernanceKeepsInv
  <2>2. ASSUME NEW i \in DOMAIN outbox, LeaseRunsOut(i) PROVE [Next]_vars /\ ControllerInv'
    BY <2>0, <2>2, LeaseKeepsInv
  <2>3. CASE \/ \E image \in Images : PackageChanges(image)
             \/ \E x \in Extensions : Reconcile(x)
             \/ \E x \in Extensions, desired \in {"Installed", "Disabled", "Uninstalled"} :
                   SetDesiredState(x, desired)
    <3>1. UNCHANGED vars
      BY <2>3 DEF PackageChanges, Reconcile, SetDesiredState
    <3> QED BY <2>0, <2>3, <3>1, ClusterKeepsInv
  <2>4. ASSUME NEW w \in Workers, Process(w) PROVE [Next]_vars /\ ControllerInv'
    <3>1. CASE ClaimWork(w)
      BY <2>0, <3>1, ClaimKeepsInv
    <3>2. CASE Record(w)
      BY <2>0, <3>2, RecordKeepsInv
    <3>3. CASE RecordFailure(w)
      BY <2>0, <3>3, RecordFailureKeepsInv
    <3>4. CASE \/ Resolve(w) \/ Renew(w) \/ AssertInstallNotRevoked(w)
               \/ InstallGetsPackage(w) \/ RemoveGetsPackage(w)
      <4>1. UNCHANGED vars
        BY <3>4 DEF Resolve, Renew, RenewOwnerClaim, AssertInstallNotRevoked, InstallGetsPackage,
                    RemoveGetsPackage
      <4> QED BY <2>0, <3>4, <4>1, BeforeWriteKeepsInv
    <3>5. CASE InstallGetsRegistration(w) \/ RemoveGetsRegistration(w)
      <4>1. UNCHANGED vars
        BY <3>5 DEF InstallGetsRegistration, RemoveGetsRegistration
      <4> QED BY <2>0, <3>5, <4>1, ReadKeepsInv
    <3>6. CASE \/ ObserveInstallGetsPackage(w) \/ ObserveInstall(w) \/ ObserveRemove(w)
               \/ ObservationThrows(w)
      <4>1. UNCHANGED vars
        BY <3>6 DEF ObserveInstallGetsPackage, ObserveInstall, ObserveRemove, ObservationThrows
      <4> QED BY <2>0, <3>6, <4>1, ObservationKeepsInv
    <3>7. CASE CreateRegistration(w)
      <4>1. UNCHANGED vars
        BY <3>7 DEF CreateRegistration
      <4> QED BY <2>0, <3>7, <4>1, CreateKeepsInv
    <3>8. CASE PatchUninstalled(w)
      <4>1. UNCHANGED vars
        BY <3>8 DEF PatchUninstalled
      <4> QED BY <2>0, <3>8, <4>1, PatchKeepsInv
    <3>9. CASE Crash(w)
      <4>1. UNCHANGED vars
        BY <3>9 DEF Crash
      <4> QED BY <2>0, <3>9, <4>1, CrashKeepsInv
    <3> QED BY <2>4, <3>1, <3>2, <3>3, <3>4, <3>5, <3>6, <3>7, <3>8, <3>9 DEF Process, WorkerStep
  <2> QED BY <1>2, <2>1, <2>2, <2>3, <2>4 DEF ControllerNext
<1> QED BY <1>1, <1>2

\* An empty ledger, an empty namespace and idle workers.
LEMMA InitEstablishesControllerInv == ControllerInit => ControllerInv
<1> SUFFICES ASSUME ControllerInit PROVE ControllerInv
  OBVIOUS
<1>1. LedgerInv
  BY InitEstablishesLedgerInv DEF ControllerInit
<1>2. Idle \in Job /\ Idle.pc = "idle"
  BY DEF Idle, Job, Pcs, SideEffects
<1>3. ControllerTypeOK
  BY <1>1, <1>2 DEF ControllerInit, ControllerTypeOK, LedgerInv
<1>4. outbox = <<>> /\ receipts = {}
  BY DEF ControllerInit, Init
<1>5. \A w \in Workers : JobIsClaimed(w) /\ JobIsInformed(w)
  BY <1>2 DEF ControllerInit, JobIsClaimed, JobIsInformed, Informed
<1>6. EpochsAreBounded /\ ObservedUidsAreBound /\ RemovalsAreFinal
  BY <1>4 DEF EpochsAreBounded, ObservedUidsAreBound, RemovalsAreFinal
<1>7. UidsAreUnique
  BY DEF ControllerInit, UidsAreUnique
<1> QED BY <1>1, <1>3, <1>5, <1>6, <1>7 DEF ControllerInv

\* Whatever leases, crashes, timeouts, releases and the rest of the cluster do, every
\* worker keeps working on a row it claimed and records what it read of its own
\* Registration.
THEOREM ControllerInvariant == ControllerSpec => []ControllerInv
<1>1. ControllerInit => ControllerInv
  BY InitEstablishesControllerInv
<1>2. ControllerInv /\ [ControllerNext]_allVars => ControllerInv'
  BY ControllerStepIsLedgerStep
<1> QED BY <1>1, <1>2, PTL DEF ControllerSpec

\* The workers use the ledger as its specification says: seen from the ledger, every
\* behaviour of the workers and the cluster is a behaviour of OperationLedger.
THEOREM LedgerRefinement == ControllerSpec => Spec
<1>1. ControllerInit => Init
  BY DEF ControllerInit
<1>2. ControllerInv /\ [ControllerNext]_allVars => [Next]_vars
  BY ControllerStepIsLedgerStep
<1> QED BY <1>1, <1>2, ControllerInvariant, PTL DEF ControllerSpec, Spec

\* So everything proved of the ledger holds with the workers around it: no work is
\* lost or handed out twice, receipts are fenced, what is Verified is justified, what
\* is claimed was authorized.
THEOREM LedgerHoldsUnderWorkers ==
    ControllerSpec => [](/\ DispatchMatchesState /\ ReceiptsAreFenced
                         /\ VerifiedIsJustified /\ ClaimedOnlyWhenAuthorized)
BY LedgerRefinement, DispatchAgreement, Fencing, Justification, Authorization, PTL

\* RegistrationAbsent is recorded of a UID that no Registration has, or will have.
THEOREM RealRemoval == ControllerSpec => []RemovalIsReal
<1>1. ControllerInv => RemovalIsReal
  BY DEF ControllerInv, RemovalsAreFinal, Gone, RemovalIsReal
<1> QED BY <1>1, ControllerInvariant, PTL

=============================================================================
