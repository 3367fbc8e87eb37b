----------------------- MODULE RegistryCredential_proofs -----------------------
(***************************************************************************)
(* Proofs about the registry credential broker, for any replicas,          *)
(* requests and namespaces.  What a process holds of the Secret is what    *)
(* is there while it is fresh; what it has done to the pull Secrets stays  *)
(* done when it is not, because no pull Secret goes back.                  *)
(***************************************************************************)
EXTENDS RegistryCredential, TLAPS

Asking == {"oauth", "replace", "remove"}
Starting == {"start", "startFailed"}
Polling == {"device-poll", "granted"}
Presenting == {"refresh", "redeem"}
Propagating == {"propagate", "get", "fence", "put", "check", "final", "success", "finish"}
Passing == {"get", "fence", "put"}
Passed == {"check", "final", "success", "finish"}

\* The Secret a fresh process would swap is the one it works for.
FreshOK(q) ==
    proc[q].fresh =>
        /\ proc[q].snap.gen = secret.gen /\ proc[q].snap.op = secret.op
        /\ proc[q].pc \in Asking => Available
        /\ proc[q].pc \in Starting => secret.work = "device-start"
        /\ proc[q].pc \in Polling => secret.pending /\ secret.gen < MaxCredential
        /\ proc[q].pc \in Presenting \cup {"redeemed"} =>
              ~ secret.pending /\ secret.work = "refresh" /\ secret.gen < MaxCredential
        /\ proc[q].pc \in Propagating \cup {"failed", "degrade"} =>
              /\ ~ secret.pending /\ secret.work = "propagate"
              /\ secret.phase # "ReauthorizationRequired"

\* The namespaces a propagation has passed carry its generation or a later
\* one, and the pull Secret it may still replace is not newer.
LoopOK(q) ==
    /\ proc[q].snap.gen <= secret.gen
    /\ proc[q].pc \in Passing \cup {"check"} => proc[q].at \in 1..Namespaces
    /\ proc[q].pc \in Passing => \A n \in 1..Namespaces : n < proc[q].at => proc[q].snap.gen <= pull[n]
    /\ proc[q].pc \in Passed => \A n \in 1..Namespaces : proc[q].snap.gen <= pull[n]
    /\ proc[q].pc = "put" /\ proc[q].old => pull[proc[q].at] <= proc[q].snap.gen

\* What is propagated for a request has been stored.
OpOK(q) ==
    /\ proc[q].pc \in Starting => proc[q].snap.op = q
    /\ \A r \in Requests : proc[q].pc \in Propagating /\ proc[q].snap.op = r => made[r] \in 1..proc[q].snap.gen

SecretOK ==
    /\ \A n \in 1..Namespaces : pull[n] <= secret.gen
    /\ secret.phase = "Ready" => \A n \in 1..Namespaces : pull[n] = secret.gen
    /\ secret.pending => secret.op \in Requests
    /\ \A r \in Requests : secret.op = r => IF secret.pending \/ secret.work = "device-start" THEN made[r] = 0
                                            ELSE made[r] \in 1..secret.gen

\* A request that has not written the Secret is named nowhere.
RequestOK(r) ==
    /\ ops[r] = "none" \/ proc[r].pc \in Asking =>
          made[r] = 0 /\ secret.op # r /\ \A q \in Procs : proc[q].snap.op # r
    /\ proc[r].pc \in Asking => ops[r] # "none"
    /\ ops[r] = "Applied" => made[r] # 0 /\ \A n \in 1..Namespaces : made[r] <= pull[n]

RegistryInv ==
    /\ RegistryTypeOK
    /\ \A q \in Procs : FreshOK(q)
    /\ \A q \in Procs : LoopOK(q)
    /\ \A q \in Procs : OpOK(q)
    /\ SecretOK
    /\ \A r \in Requests : RequestOK(r)

\* The refresh token of the current generation was presented, or is about to be.
Spent == redeemed[secret.gen] # 0 \/ \E q \in Procs : proc[q].pc \in Presenting /\ proc[q].snap.gen = secret.gen

\* What keeps a tick from presenting the current token.
Guarded == secret.phase = "ReauthorizationRequired" \/ secret.work = "refresh" \/ secret.pending

RefreshInv ==
    /\ RefreshOnce
    /\ \A q \in Procs : proc[q].pc \in Presenting => redeemed[proc[q].snap.gen] = 0
    /\ \A q, u \in Procs : proc[q].pc \in Presenting /\ proc[u].pc \in Presenting /\ proc[q].snap.gen = proc[u].snap.gen => q = u
    /\ \A g \in Generations : g > secret.gen => redeemed[g] = 0
    /\ Spent => secret.cred = "device" /\ Guarded

\* No reconnection fails to start while a device credential is connected.
ReconnectionsStart == [][\A r \in Requests : GiveUpStart(r) /\ proc[r].fresh => secret.cred # "device"]_registryVars

-----------------------------------------------------------------------------
(* What the helpers of the model make.                                     *)

\* A process at rest holds nothing.
LEMMA IdleType ==
    /\ Idle \in Process /\ Idle.pc = "idle" /\ Idle.fresh = FALSE /\ Idle.old = FALSE /\ Idle.at = 0
    /\ Idle.snap \in Snap /\ Idle.snap.gen = 0 /\ Idle.snap.op = NoRequest
<1>1. 0 \in Generations /\ 0 \in 0..Namespaces
  BY MaxCredentialAssumption, NamespacesAssumption DEF Generations
<1>2. [gen |-> 0, cred |-> "none", op |-> NoRequest, rot |-> 0] \in Snap
  BY <1>1 DEF Snap, Credentials
<1>3. QED
  BY <1>1, <1>2 DEF Idle, Process, Snap

\* What a process keeps of the Secret it reads or has just written.
LEMMA HoldingType ==
    ASSUME NEW s \in Secret, NEW pc \in Asking \cup {"start", "interrupted", "device-poll", "refresh", "propagate"}
    PROVE  /\ Holding(pc, s) \in Process
           /\ Holding(pc, s).pc = pc /\ Holding(pc, s).fresh = TRUE
           /\ Holding(pc, s).snap.gen = s.gen /\ Holding(pc, s).snap.op = s.op
           /\ Snapshot(s) \in Snap /\ Snapshot(s).gen = s.gen /\ Snapshot(s).op = s.op
<1>1. Event(s) \in Generations /\ s.gen \in Generations
  BY MaxCredentialAssumption DEF Event, Secret, Generations
<1>2. PICK snap : snap = [gen |-> s.gen, cred |-> s.cred, op |-> s.op, rot |-> Event(s)]
  OBVIOUS
<1>3. snap \in Snap /\ snap.gen = s.gen /\ snap.op = s.op
  BY <1>1, <1>2 DEF Snap, Secret
<1>4. Holding(pc, s) = [Idle EXCEPT !.pc = pc, !.fresh = TRUE, !.snap = snap]
  BY <1>2 DEF Holding, Snapshot
<1>5. QED
  BY <1>2, <1>3, <1>4, IdleType DEF Process, Asking, Snapshot

\* A process that only moves on.
LEMMA GoesEffect ==
    ASSUME RegistryTypeOK, NEW p \in Procs, NEW pc, Goes(p, pc),
           [proc[p] EXCEPT !.pc = pc] \in Process
    PROVE  /\ proc' \in [Procs -> Process]
           /\ \A q \in Procs : q # p => proc'[q] = proc[q]
           /\ proc'[p].pc = pc /\ proc'[p].fresh = proc[p].fresh /\ proc'[p].snap = proc[p].snap
           /\ proc'[p].at = proc[p].at /\ proc'[p].old = proc[p].old
<1>1. proc' = [proc EXCEPT ![p] = [proc[p] EXCEPT !.pc = pc]]
  BY DEF Goes
<1>2. proc[p] \in Process /\ proc \in [Procs -> Process]
  BY DEF RegistryTypeOK
<1>3. QED
  BY <1>1, <1>2 DEF Process

\* A process that gives up.
LEMMA EndsEffect ==
    ASSUME RegistryTypeOK, NEW p \in Procs, Ends(p)
    PROVE  /\ proc' \in [Procs -> Process]
           /\ \A q \in Procs : q # p => proc'[q] = proc[q]
           /\ proc'[p] = Idle
<1>1. proc \in [Procs -> Process]
  BY DEF RegistryTypeOK
<1>2. QED
  BY <1>1, IdleType DEF Ends

\* The other processes may find that the Secret is not theirs any more.
Yields(p) ==
    \A q \in Procs : q # p =>
        /\ proc'[q].pc = proc[q].pc /\ proc'[q].snap = proc[q].snap /\ proc'[q].at = proc[q].at
        /\ proc'[q].fresh => proc[q].fresh
        /\ proc'[q].old => proc[q].old

Staled(p) == \A q \in Procs : q # p => ~ proc'[q].fresh

\* A write of the Secret.
LEMMA WriteEffect ==
    ASSUME RegistryTypeOK, NEW p \in Procs, NEW s \in Secret, NEW next \in Process, Write(p, s, next)
    PROVE  /\ secret' = s /\ env' \in Surroundings
           /\ proc' \in [Procs -> Process] /\ proc'[p] = next
           /\ Yields(p) /\ Staled(p)
<1>1. proc \in [Procs -> Process] /\ env \in Surroundings
  BY DEF RegistryTypeOK
<1>2. env' \in Surroundings
  <2>1. PICK b : b = (env.due /\ s.gen = secret.gen)
    OBVIOUS
  <2>2. b \in BOOLEAN
    BY <1>1, <2>1 DEF Surroundings
  <2>3. env' = [env EXCEPT !.overdue = FALSE, !.due = b]
    BY <2>1 DEF Write
  <2>4. QED
    BY <1>1, <2>2, <2>3 DEF Surroundings
<1>3. \A q \in Procs : [proc[q] EXCEPT !.fresh = FALSE] \in Process
  BY <1>1 DEF Process
<1>4. proc' = [q \in Procs |-> IF q = p THEN next ELSE [proc[q] EXCEPT !.fresh = FALSE]]
  BY DEF Write
<1>5. proc' \in [Procs -> Process] /\ proc'[p] = next
  BY <1>3, <1>4
<1>6. \A q \in Procs : q # p => proc'[q] = [proc[q] EXCEPT !.fresh = FALSE]
  BY <1>4
<1>7. Yields(p) /\ Staled(p)
  <2>1. ASSUME NEW q \in Procs, q # p
        PROVE  /\ proc'[q].pc = proc[q].pc /\ proc'[q].snap = proc[q].snap /\ proc'[q].at = proc[q].at
               /\ proc'[q].old = proc[q].old /\ proc'[q].fresh = FALSE
    <3>1. proc'[q] = [proc[q] EXCEPT !.fresh = FALSE] /\ proc[q] \in Process
      BY <1>1, <1>6, <2>1
    <3>2. QED
      BY <3>1 DEF Process
  <2>2. QED
    BY <2>1 DEF Yields, Staled
<1>8. QED
  BY <1>2, <1>5, <1>7 DEF Write

\* What the audit ledger makes of a result: an applied operation stays, and
\* only a success applies one, the one it was recorded for.
LEMMA ResultEffect ==
    ASSUME RegistryTypeOK, NEW snap \in Snap, NEW o \in {"accepted", "succeeded", "failed", "unknown"}, Result(snap, o)
    PROVE  /\ ops' \in [Requests -> {"none", "Authorized", "Applied", "Unknown", "Reconciling"}]
           /\ recorded' \subseteq Generations \X {"accepted", "succeeded", "failed", "unknown"}
           /\ \A r \in Requests : ops'[r] = "none" => ops[r] = "none"
           /\ \A r \in Requests : ops'[r] = "Applied" => ops[r] = "Applied" \/ (o = "succeeded" /\ snap.op = r)
<1>1. ops \in [Requests -> {"none", "Authorized", "Applied", "Unknown", "Reconciling"}]
  BY DEF RegistryTypeOK
<1>2. Outcome(o) \in {"Applied", "Unknown", "Reconciling"} /\ (Outcome(o) = "Applied" => o = "succeeded")
  BY DEF Outcome
<1>3. ops' \in {ops, [ops EXCEPT ![snap.op] = Outcome(o)]} /\ (snap.op = NoRequest => ops' = ops)
  BY DEF Result
<1>4. snap.op \in Requests \cup {NoRequest} /\ snap.rot \in Generations
  BY DEF Snap
<1>5. recorded' \in {recorded, recorded \cup {<<snap.rot, o>>}}
  BY DEF Result
<1>6. recorded' \subseteq Generations \X {"accepted", "succeeded", "failed", "unknown"}
  BY <1>4, <1>5 DEF RegistryTypeOK
<1>7. QED
  BY <1>1, <1>2, <1>3, <1>4, <1>6

-----------------------------------------------------------------------------
(* What a step of one process leaves to the others.                        *)

\* The Secret but for the observation's age.
SameClaim == /\ secret'.gen = secret.gen /\ secret'.op = secret.op /\ secret'.work = secret.work
             /\ secret'.pending = secret.pending /\ secret'.phase = secret.phase

\* Generations and pull Secrets go forward, what a request made stays.
Forward ==
    /\ secret.gen <= secret'.gen
    /\ \A n \in 1..Namespaces : pull[n] <= pull'[n]
    /\ \A r \in Requests : made[r] # 0 => made'[r] = made[r]

\* Numbers of a state of the right shape.
LEMMA Numbers ==
    ASSUME RegistryTypeOK
    PROVE  /\ secret \in Secret /\ secret.gen \in Nat /\ secret.gen > 0
           /\ \A n \in 1..Namespaces : pull[n] \in Nat
           /\ \A r \in Requests : made[r] \in Nat
           /\ \A q \in Procs : proc[q] \in Process /\ proc[q].snap \in Snap /\ proc[q].snap.gen \in Nat
<1>1. \A q \in Procs : proc[q] \in Process
  BY DEF RegistryTypeOK
<1>2. \A q \in Procs : proc[q].snap \in Snap /\ proc[q].snap.gen \in Nat
  BY <1>1, MaxCredentialAssumption DEF Process, Snap, Generations
<1>3. secret \in Secret /\ secret.gen \in Nat /\ secret.gen > 0
  BY MaxCredentialAssumption DEF RegistryTypeOK, Secret
<1>4. \A n \in 1..Namespaces : pull[n] \in Nat
  BY MaxCredentialAssumption DEF RegistryTypeOK
<1>5. \A r \in Requests : made[r] \in Nat
  BY MaxCredentialAssumption DEF RegistryTypeOK, Generations
<1>6. QED
  BY <1>1, <1>2, <1>3, <1>4, <1>5

\* The others keep what they hold, or find it stale.
LEMMA OthersOK ==
    ASSUME RegistryInv, RegistryTypeOK', NEW p, Yields(p), SameClaim \/ Staled(p), Forward,
           \A q \in Procs : q # p /\ proc[q].pc = "put" /\ proc'[q].old => pull'[proc[q].at] = pull[proc[q].at],
           NEW q \in Procs, q # p
    PROVE  FreshOK(q)' /\ LoopOK(q)' /\ OpOK(q)'
<1>1. /\ proc'[q].pc = proc[q].pc /\ proc'[q].snap = proc[q].snap /\ proc'[q].at = proc[q].at
      /\ proc'[q].fresh => proc[q].fresh
      /\ proc'[q].old => proc[q].old
  BY DEF Yields
<1>2. FreshOK(q) /\ LoopOK(q) /\ OpOK(q) /\ RegistryTypeOK
  BY DEF RegistryInv
<1>3. FreshOK(q)'
  BY <1>1, <1>2 DEF FreshOK, SameClaim, Staled, Available
<1>4. /\ secret.gen \in Nat /\ secret'.gen \in Nat /\ proc[q].snap.gen \in Nat
      /\ \A n \in 1..Namespaces : pull[n] \in Nat /\ pull'[n] \in Nat
  <2>1. secret.gen \in Nat /\ proc[q].snap.gen \in Nat /\ \A n \in 1..Namespaces : pull[n] \in Nat
    BY <1>2, Numbers
  <2>2. secret' \in Secret /\ pull' \in [1..Namespaces -> 1..MaxCredential]
    BY DEF RegistryTypeOK
  <2>3. secret'.gen \in Nat /\ \A n \in 1..Namespaces : pull'[n] \in Nat
    BY <2>2, MaxCredentialAssumption DEF Secret
  <2>4. QED
    BY <2>1, <2>3
<1>5. LoopOK(q)'
  BY <1>1, <1>2, <1>4 DEF LoopOK, Forward
<1>6. OpOK(q)'
  <2>1. \A r \in Requests : proc[q].pc \in Propagating /\ proc[q].snap.op = r => made[r] \in 1..proc[q].snap.gen
    BY <1>2 DEF OpOK
  <2>2. \A r \in Requests : proc[q].pc \in Propagating /\ proc[q].snap.op = r => made'[r] \in 1..proc[q].snap.gen
    BY <2>1, <1>4 DEF Forward
  <2>3. QED
    BY <1>1, <1>2, <2>2 DEF OpOK
<1>7. QED
  BY <1>3, <1>5, <1>6

\* A process moves on and the Secret, the pull Secrets and what was made stay.
QuietStep(p) ==
    /\ UNCHANGED <<secret, pull, made>>
    /\ \A q \in Procs : q # p => proc'[q] = proc[q]
    /\ \A r \in Requests : ops'[r] = "none" => ops[r] = "none"

\* It may ask for a request that is new, take up the request of the Secret,
\* and report one as applied that is everywhere.
LEMMA QuietOK ==
    ASSUME RegistryInv, RegistryTypeOK', NEW p \in Procs, QuietStep(p),
           FreshOK(p)', LoopOK(p)', OpOK(p)',
           proc'[p].snap.op \in {proc[p].snap.op, secret.op, NoRequest},
           proc'[p].pc \in Asking => /\ proc[p].pc \in Asking \/ (p \in Requests /\ ops[p] = "none")
                                     /\ p \in Requests => ops'[p] # "none",
           \A r \in Requests : ops'[r] = "Applied" => made[r] # 0 /\ \A n \in 1..Namespaces : made[r] <= pull[n]
    PROVE  RegistryInv'
<1>1. RegistryTypeOK /\ SecretOK /\ \A r \in Requests : RequestOK(r)
  BY DEF RegistryInv
<1>2. /\ secret' = secret /\ pull' = pull /\ made' = made
      /\ \A q \in Procs : q # p => proc'[q] = proc[q]
      /\ \A r \in Requests : ops'[r] = "none" => ops[r] = "none"
  BY DEF QuietStep
<1>3. Yields(p) /\ SameClaim
  BY <1>2 DEF Yields, SameClaim
<1>4. Forward
  BY <1>1, <1>2, Numbers DEF Forward
<1>5. \A q \in Procs : q # p => FreshOK(q)' /\ LoopOK(q)' /\ OpOK(q)'
  BY <1>2, <1>3, <1>4, OthersOK
<1>6. SecretOK'
  BY <1>1, <1>2 DEF SecretOK
<1>7. ASSUME NEW r \in Requests
      PROVE  RequestOK(r)'
  <2>1. r \in Procs /\ RequestOK(r) /\ r # NoRequest
    BY <1>1, NoRequestAssumption DEF Procs
  <2>2. proc'[r].pc \in Asking => (proc[r].pc \in Asking \/ ops[r] = "none") /\ ops'[r] # "none"
    BY <1>2, <2>1 DEF RequestOK
  <2>3. ASSUME ops'[r] = "none" \/ proc'[r].pc \in Asking
        PROVE  made[r] = 0 /\ secret.op # r /\ \A q \in Procs : proc'[q].snap.op # r
    <3>1. made[r] = 0 /\ secret.op # r /\ \A q \in Procs : proc[q].snap.op # r
      BY <1>2, <2>1, <2>2, <2>3 DEF RequestOK
    <3>2. QED
      BY <1>2, <2>1, <3>1
  <2>4. QED
    BY <1>2, <2>2, <2>3 DEF RequestOK
<1>8. QED
  BY <1>5, <1>6, <1>7 DEF RegistryInv

\* The same for a process whose result is neither a request nor a success.
LEMMA QuietMove ==
    ASSUME RegistryInv, NEW p \in Procs, UNCHANGED <<secret, pull, made>>,
           proc' \in [Procs -> Process], env' \in Surroundings, redeemed' \in [Generations -> Nat],
           \A q \in Procs : q # p => proc'[q] = proc[q],
           \/ UNCHANGED <<ops, recorded>>
           \/ \E snap \in Snap, o \in {"accepted", "failed", "unknown"} : Result(snap, o),
           FreshOK(p)', LoopOK(p)', OpOK(p)',
           proc'[p].snap.op \in {proc[p].snap.op, secret.op, NoRequest},
           proc'[p].pc \notin Asking
    PROVE  RegistryInv'
<1>1. RegistryTypeOK /\ \A r \in Requests : RequestOK(r)
  BY DEF RegistryInv
<1>2. /\ ops' \in [Requests -> {"none", "Authorized", "Applied", "Unknown", "Reconciling"}]
      /\ recorded' \subseteq Generations \X {"accepted", "succeeded", "failed", "unknown"}
      /\ \A r \in Requests : ops'[r] = "none" => ops[r] = "none"
      /\ \A r \in Requests : ops'[r] = "Applied" => ops[r] = "Applied"
  <2>1. CASE UNCHANGED <<ops, recorded>>
    BY <1>1, <2>1 DEF RegistryTypeOK
  <2>2. ASSUME NEW snap \in Snap, NEW o \in {"accepted", "failed", "unknown"}, Result(snap, o)
        PROVE  <1>2
    <3>1. o \in {"accepted", "succeeded", "failed", "unknown"} /\ o # "succeeded"
      OBVIOUS
    <3>2. QED
      BY <1>1, <2>2, <3>1, ResultEffect
  <2>3. QED
    BY <2>1, <2>2
<1>3. RegistryTypeOK'
  BY <1>1, <1>2 DEF RegistryTypeOK
<1>4. QuietStep(p)
  BY <1>2 DEF QuietStep
<1>5. \A r \in Requests : ops'[r] = "Applied" => made[r] # 0 /\ \A n \in 1..Namespaces : made[r] <= pull[n]
  BY <1>1, <1>2 DEF RequestOK
<1>6. QED
  BY <1>3, <1>4, <1>5, QuietOK

\* A process that gives up is no trouble.
LEMMA IdleOK ==
    ASSUME secret' \in Secret, NEW p \in Procs, \/ proc'[p] = Idle
                                            \/ proc'[p] = [Idle EXCEPT !.pc = "reject"]
    PROVE  /\ FreshOK(p)' /\ LoopOK(p)' /\ OpOK(p)'
           /\ proc'[p].snap.op = NoRequest /\ proc'[p].pc \in {"idle", "reject"} /\ proc'[p].snap.gen = 0
<1>1. /\ proc'[p].pc \in {"idle", "reject"} /\ proc'[p].fresh = FALSE
      /\ proc'[p].snap.op = NoRequest /\ proc'[p].snap.gen = 0
  BY IdleType DEF Process
<1>2. FreshOK(p)'
  BY <1>1 DEF FreshOK
<1>3. secret'.gen \in Nat
  BY MaxCredentialAssumption DEF Secret
<1>4. LoopOK(p)'
  BY <1>1, <1>3 DEF LoopOK, Passing, Passed
<1>5. OpOK(p)'
  BY <1>1 DEF OpOK, Starting, Propagating
<1>6. QED
  BY <1>1, <1>2, <1>4, <1>5

\* A quiet step with which a process gives up, and nothing but a result happens.
LEMMA QuietEnd ==
    ASSUME RegistryInv, NEW p \in Procs, UNCHANGED <<secret, pull, made>>,
           env' \in Surroundings, redeemed' \in [Generations -> Nat],
           \/ UNCHANGED <<ops, recorded>>
           \/ \E snap \in Snap, o \in {"accepted", "failed", "unknown"} : Result(snap, o),
           Ends(p)
    PROVE  RegistryInv'
<1>1. RegistryTypeOK
  BY DEF RegistryInv
<1>2. /\ proc' \in [Procs -> Process] /\ proc'[p] = Idle
      /\ \A q \in Procs : q # p => proc'[q] = proc[q]
  BY <1>1, EndsEffect
<1>3. secret' \in Secret
  BY <1>1 DEF RegistryTypeOK
<1>4. /\ FreshOK(p)' /\ LoopOK(p)' /\ OpOK(p)'
      /\ proc'[p].snap.op = NoRequest /\ proc'[p].pc \in {"idle", "reject"}
  BY <1>2, <1>3, IdleOK
<1>5. proc'[p].pc \notin Asking /\ proc'[p].snap.op \in {proc[p].snap.op, secret.op, NoRequest}
  BY <1>4 DEF Asking
<1>6. QED
  BY <1>2, <1>4, <1>5, QuietMove

\* A quiet step with which a process goes from one place to another that asks no more of it.
LEMMA QuietGo ==
    ASSUME RegistryInv, NEW p \in Procs, UNCHANGED <<secret, pull, made>>,
           env' \in Surroundings, redeemed' \in [Generations -> Nat],
           \/ UNCHANGED <<ops, recorded>>
           \/ \E snap \in Snap, o \in {"accepted", "failed", "unknown"} : Result(snap, o),
           NEW pc, Goes(p, pc), [proc[p] EXCEPT !.pc = pc] \in Process,
           pc \in {"lost", "reject", "reauthorize", "startFailed", "granted", "redeem", "redeemed", "failed", "degrade"},
           pc = "startFailed" => proc[p].pc = "start",
           pc = "granted" => proc[p].pc = "device-poll",
           pc \in {"redeem", "redeemed"} => proc[p].pc \in {"refresh", "redeem"},
           pc \in {"failed", "degrade"} => proc[p].pc \in Propagating \cup {"failed"}
    PROVE  RegistryInv'
<1>1. RegistryTypeOK /\ FreshOK(p) /\ LoopOK(p) /\ OpOK(p)
  BY DEF RegistryInv
<1>2. /\ proc' \in [Procs -> Process]
      /\ \A q \in Procs : q # p => proc'[q] = proc[q]
      /\ proc'[p].pc = pc /\ proc'[p].fresh = proc[p].fresh /\ proc'[p].snap = proc[p].snap
      /\ proc'[p].at = proc[p].at /\ proc'[p].old = proc[p].old
  BY <1>1, GoesEffect
<1>3. FreshOK(p)'
  BY <1>1, <1>2 DEF FreshOK, Asking, Starting, Polling, Presenting, Propagating, Available
<1>4. LoopOK(p)'
  BY <1>1, <1>2 DEF LoopOK, Passing, Passed
<1>5. OpOK(p)'
  BY <1>1, <1>2 DEF OpOK, Starting, Propagating
<1>6. proc'[p].pc \notin Asking /\ proc'[p].snap.op \in {proc[p].snap.op, secret.op, NoRequest}
  BY <1>2 DEF Asking
<1>7. QED
  BY <1>2, <1>3, <1>4, <1>5, <1>6, QuietMove

\* A write of the Secret, by a request that is still asking or in the name of the one there is.
LEMMA WriteOK ==
    ASSUME RegistryInv, NEW p \in Procs, NEW s \in Secret, NEW next \in Process, Write(p, s, next),
           UNCHANGED <<pull, ops, recorded, redeemed>>, made' \in [Requests -> Generations],
           secret.gen <= s.gen,
           s.op \in {secret.op, NoRequest, p},
           \A r \in Requests : made'[r] # made[r] => made[r] = 0 /\ r \in {secret.op, p},
           \/ proc[p].pc \in Asking
           \/ s.op \in {secret.op, NoRequest} /\ \A r \in Requests : made'[r] # made[r] => r = secret.op,
           next.pc \notin Asking, next.snap.op \in {NoRequest, s.op},
           FreshOK(p)', LoopOK(p)', OpOK(p)', SecretOK'
    PROVE  RegistryInv'
<1>1. RegistryTypeOK /\ \A r \in Requests : RequestOK(r)
  BY DEF RegistryInv
<1>2. /\ secret' = s /\ env' \in Surroundings
      /\ proc' \in [Procs -> Process] /\ proc'[p] = next
      /\ Yields(p) /\ Staled(p)
  BY <1>1, WriteEffect
<1>3. RegistryTypeOK'
  BY <1>1, <1>2 DEF RegistryTypeOK
<1>4. Forward
  BY <1>1, <1>2, Numbers DEF Forward
<1>5. \A q \in Procs : FreshOK(q)' /\ LoopOK(q)' /\ OpOK(q)'
  BY <1>2, <1>3, <1>4, OthersOK
<1>6. ASSUME NEW r \in Requests
      PROVE  RequestOK(r)'
  <2>1. r \in Procs /\ RequestOK(r) /\ r # NoRequest
    BY <1>1, NoRequestAssumption DEF Procs
  <2>2. proc'[r].pc \in Asking => proc[r].pc \in Asking /\ r # p
    BY <1>2, <2>1 DEF Yields
  <2>3. ASSUME ops[r] = "none" \/ proc'[r].pc \in Asking
        PROVE  made'[r] = 0 /\ s.op # r /\ \A q \in Procs : proc'[q].snap.op # r
    <3>1. made[r] = 0 /\ secret.op # r /\ \A q \in Procs : proc[q].snap.op # r
      BY <2>1, <2>2, <2>3 DEF RequestOK
    <3>2. r = p => proc[p].pc \notin Asking
      BY <2>1, <2>2, <2>3 DEF RequestOK
    <3>3. s.op # r /\ made'[r] = 0
      BY <2>1, <3>1, <3>2
    <3>4. \A q \in Procs : proc'[q].snap.op # r
      BY <1>2, <2>1, <3>1, <3>3 DEF Yields
    <3>5. QED
      BY <3>3, <3>4
  <2>4. ops[r] = "Applied" => made'[r] # 0 /\ \A n \in 1..Namespaces : made'[r] <= pull[n]
    BY <2>1 DEF RequestOK
  <2>5. proc'[r].pc \in Asking => ops[r] # "none"
    BY <2>1, <2>2 DEF RequestOK
  <2>6. QED
    BY <1>2, <2>3, <2>4, <2>5 DEF RequestOK
<1>7. QED
  BY <1>3, <1>5, <1>6 DEF RegistryInv

\* A write with which a process is done.
LEMMA WriteAndEnd ==
    ASSUME RegistryInv, NEW p \in Procs, NEW s \in Secret, Write(p, s, Idle) \/ Write(p, s, [Idle EXCEPT !.pc = "reject"]),
           UNCHANGED <<pull, ops, recorded, redeemed>>, made' \in [Requests -> Generations],
           secret.gen <= s.gen,
           s.op \in {secret.op, NoRequest, p},
           \A r \in Requests : made'[r] # made[r] => made[r] = 0 /\ r \in {secret.op, p},
           \/ proc[p].pc \in Asking
           \/ s.op \in {secret.op, NoRequest} /\ \A r \in Requests : made'[r] # made[r] => r = secret.op,
           secret' = s => SecretOK'
    PROVE  RegistryInv'
<1>1. RegistryTypeOK
  BY DEF RegistryInv
<1>2. PICK next \in {Idle, [Idle EXCEPT !.pc = "reject"]} : Write(p, s, next)
  OBVIOUS
<1>3. next \in Process /\ next.pc \in {"idle", "reject"} /\ next.snap.op = NoRequest
  BY <1>2, IdleType DEF Process
<1>4. secret' = s /\ proc'[p] = next
  BY <1>1, <1>2, <1>3, WriteEffect
<1>5. FreshOK(p)' /\ LoopOK(p)' /\ OpOK(p)'
  BY <1>2, <1>4, IdleOK
<1>6. next.pc \notin Asking /\ next.snap.op \in {NoRequest, s.op}
  BY <1>3 DEF Asking
<1>7. QED
  BY <1>2, <1>3, <1>4, <1>5, <1>6, WriteOK

\* The swap that ends a tick, fresh or not.
LEMMA SwapAndEnd ==
    ASSUME RegistryInv, NEW p \in Procs, NEW s \in Secret, Swap(p, s, Idle),
           UNCHANGED <<pull, ops, recorded, redeemed, made>>,
           secret.gen <= s.gen,
           s.op \in {secret.op, NoRequest},
           proc[p].fresh /\ secret' = s => SecretOK'
    PROVE  RegistryInv'
<1>1. RegistryTypeOK
  BY DEF RegistryInv
<1>2. env \in Surroundings /\ redeemed \in [Generations -> Nat] /\ made' \in [Requests -> Generations]
  BY <1>1 DEF RegistryTypeOK
<1>3. CASE ~ proc[p].fresh /\ Ends(p) /\ UNCHANGED <<secret, env>>
  BY <1>2, <1>3, QuietEnd
<1>4. CASE proc[p].fresh /\ Write(p, s, Idle)
  BY <1>2, <1>4, WriteAndEnd
<1>5. QED
  BY <1>3, <1>4 DEF Swap

-----------------------------------------------------------------------------
(* Request handlers.                                                       *)

\* A request is accepted once, and reads a Secret that is nobody's.
LEMMA AcceptRequestStep ==
    ASSUME RegistryInv, NEW r \in Requests, AcceptRequest(r)
    PROVE  RegistryInv'
<1>1. /\ r \in Procs /\ ops[r] = "none" /\ RegistryTypeOK /\ secret \in Secret
      /\ UNCHANGED <<secret, pull, recorded, env, redeemed, made>>
      /\ Kind[r] \in Asking
  BY KindAssumption DEF AcceptRequest, Procs, RegistryInv, RegistryTypeOK, Asking
<1>2. PICK next : next = IF Available THEN Holding(Kind[r], secret) ELSE [Idle EXCEPT !.pc = "reject"]
  OBVIOUS
<1>3. /\ next \in Process
      /\ \/ /\ Available /\ next.pc = Kind[r] /\ next.fresh = TRUE
            /\ next.snap.gen = secret.gen /\ next.snap.op = secret.op
         \/ next = [Idle EXCEPT !.pc = "reject"]
  <2>1. [Idle EXCEPT !.pc = "reject"] \in Process
    BY IdleType DEF Process
  <2>2. Kind[r] \in Asking \cup {"start", "interrupted", "device-poll", "refresh", "propagate"}
    BY <1>1
  <2>3. QED
    BY <1>1, <1>2, <2>1, <2>2, HoldingType
<1>4. /\ proc' \in [Procs -> Process] /\ proc'[r] = next
      /\ \A q \in Procs : q # r => proc'[q] = proc[q]
  BY <1>1, <1>2, <1>3 DEF AcceptRequest, RegistryTypeOK
<1>5. /\ ops' \in [Requests -> {"none", "Authorized", "Applied", "Unknown", "Reconciling"}]
      /\ ops'[r] = "Authorized" /\ \A u \in Requests : u # r => ops'[u] = ops[u]
  BY <1>1 DEF AcceptRequest, RegistryTypeOK
<1>6. RegistryTypeOK' /\ QuietStep(r)
  BY <1>1, <1>4, <1>5 DEF RegistryTypeOK, QuietStep
<1>7. FreshOK(r)' /\ LoopOK(r)' /\ OpOK(r)' /\ proc'[r].snap.op \in {secret.op, NoRequest}
  <2>1. CASE next = [Idle EXCEPT !.pc = "reject"]
    BY <1>1, <1>4, <2>1, IdleOK
  <2>2. CASE /\ Available /\ next.pc = Kind[r] /\ next.fresh = TRUE
             /\ next.snap.gen = secret.gen /\ next.snap.op = secret.op
    <3>1. FreshOK(r)'
      BY <1>1, <1>4, <2>2 DEF FreshOK, Available, Asking, Starting, Polling, Presenting, Propagating
    <3>2. secret.gen \in Nat
      BY <1>1, Numbers
    <3>3. LoopOK(r)'
      BY <1>1, <1>4, <2>2, <3>2 DEF LoopOK, Asking, Passing, Passed
    <3>4. OpOK(r)'
      BY <1>1, <1>4, <2>2 DEF OpOK, Asking, Starting, Propagating
    <3>5. QED
      BY <1>4, <2>2, <3>1, <3>3, <3>4
  <2>3. QED
    BY <1>3, <2>1, <2>2
<1>8. \A u \in Requests : ops'[u] = "Applied" => made[u] # 0 /\ \A n \in 1..Namespaces : made[u] <= pull[n]
  BY <1>5 DEF RegistryInv, RequestOK
<1>9. QED
  BY <1>1, <1>5, <1>6, <1>7, <1>8, QuietOK

\* The mark of a connection names a request that has stored nothing yet.
LEMMA BeginOAuthStep ==
    ASSUME RegistryInv, NEW r \in Requests, BeginOAuth(r)
    PROVE  RegistryInv'
<1>1. /\ r \in Procs /\ proc[r].pc = "oauth" /\ RegistryTypeOK /\ secret \in Secret /\ proc[r] \in Process
      /\ env \in Surroundings /\ redeemed \in [Generations -> Nat] /\ made \in [Requests -> Generations]
      /\ UNCHANGED <<pull, ops, recorded, redeemed, made>>
      /\ FreshOK(r) /\ RequestOK(r) /\ SecretOK
  BY DEF BeginOAuth, Procs, RegistryInv, RegistryTypeOK
<1>2. CASE ~ proc[r].fresh /\ Goes(r, "reject") /\ UNCHANGED <<secret, env>>
  <2>1. [proc[r] EXCEPT !.pc = "reject"] \in Process
    BY <1>1 DEF Process
  <2>2. QED
    BY <1>1, <1>2, <2>1, QuietGo
<1>3. CASE LET s == [secret EXCEPT !.op = r, !.work = "device-start"]
           IN  proc[r].fresh /\ Write(r, s, Holding("start", s))
  <2>1. PICK s : s = [secret EXCEPT !.op = r, !.work = "device-start"]
    OBVIOUS
  <2>2. proc[r].fresh /\ Write(r, s, Holding("start", s))
    BY <1>3, <2>1
  <2>3. /\ s \in Secret /\ s.op = r /\ s.work = "device-start" /\ s.gen = secret.gen /\ s.phase = secret.phase
        /\ s.pending = secret.pending
    BY <1>1, <2>1 DEF Secret, Works
  <2>4. PICK next : next = Holding("start", s)
    OBVIOUS
  <2>5. next \in Process /\ next.pc = "start" /\ next.fresh = TRUE /\ next.snap.gen = s.gen /\ next.snap.op = s.op
    BY <2>3, <2>4, HoldingType
  <2>6. Write(r, s, next)
    BY <2>2, <2>4
  <2>7. secret' = s /\ proc'[r] = next
    BY <1>1, <2>3, <2>5, <2>6, WriteEffect
  <2>8. proc[r].pc \in Asking /\ next.pc \notin Asking
    BY <1>1, <2>5 DEF Asking
  <2>9. made[r] = 0 /\ ~ secret.pending
    BY <1>1, <2>2, <2>8 DEF RequestOK, FreshOK, Available
  <2>10. FreshOK(r)' /\ OpOK(r)'
    BY <2>3, <2>5, <2>7 DEF FreshOK, OpOK, Asking, Starting, Polling, Presenting, Propagating
  <2>11. secret.gen \in Nat
    BY <1>1, Numbers
  <2>12. LoopOK(r)'
    BY <2>3, <2>5, <2>7, <2>11 DEF LoopOK, Passing, Passed
  <2>13. SecretOK'
    BY <1>1, <2>3, <2>7, <2>9 DEF SecretOK
  <2>14. QED
    BY <1>1, <2>3, <2>5, <2>6, <2>8, <2>10, <2>11, <2>12, <2>13, WriteOK
<1>4. QED
  BY <1>2, <1>3 DEF BeginOAuth

\* The code is stored with the request that asked for it.
LEMMA AwaitAuthorizationStep ==
    ASSUME RegistryInv, NEW r \in Requests, AwaitAuthorization(r)
    PROVE  RegistryInv'
<1>1. /\ r \in Procs /\ proc[r].pc = "start" /\ RegistryTypeOK /\ secret \in Secret
      /\ made \in [Requests -> Generations]
      /\ UNCHANGED <<pull, ops, recorded, redeemed, made>> /\ proc[r].fresh
      /\ FreshOK(r) /\ OpOK(r) /\ SecretOK
  BY DEF AwaitAuthorization, Procs, RegistryInv, RegistryTypeOK
<1>2. PICK s : s = [secret EXCEPT !.work = "none", !.pending = TRUE, !.phase = "AwaitingAuthorization"]
  OBVIOUS
<1>3. /\ s \in Secret /\ s.op = secret.op /\ s.work = "none" /\ s.gen = secret.gen
      /\ s.phase = "AwaitingAuthorization" /\ s.pending = TRUE
  BY <1>1, <1>2 DEF Secret, Works, Phases
<1>4. secret.op = r /\ made[r] = 0
  BY <1>1 DEF FreshOK, OpOK, SecretOK, Starting
<1>5. secret' = s => SecretOK'
  BY <1>1, <1>3, <1>4 DEF SecretOK
<1>6. Write(r, s, Idle) /\ secret.gen <= s.gen
  BY <1>1, <1>2, <1>3, Numbers DEF AwaitAuthorization
<1>7. QED
  BY <1>1, <1>3, <1>5, <1>6, WriteAndEnd

\* A failed start is recorded and nothing else changes.
LEMMA StartFailsStep ==
    ASSUME RegistryInv, NEW r \in Requests, StartFails(r)
    PROVE  RegistryInv'
<1>1. /\ r \in Procs /\ proc[r].pc = "start" /\ RegistryTypeOK /\ proc[r] \in Process /\ proc[r].snap \in Snap
      /\ env \in Surroundings /\ redeemed \in [Generations -> Nat]
      /\ UNCHANGED <<secret, pull, env, redeemed, made>>
      /\ Result(proc[r].snap, "failed") /\ Goes(r, "startFailed")
  BY Numbers DEF StartFails, Procs, RegistryInv, RegistryTypeOK
<1>2. [proc[r] EXCEPT !.pc = "startFailed"] \in Process
  BY <1>1 DEF Process
<1>3. QED
  BY <1>1, <1>2, QuietGo

\* The mark is taken back, with the request's name.
LEMMA GiveUpStartStep ==
    ASSUME RegistryInv, NEW r \in Requests, GiveUpStart(r)
    PROVE  RegistryInv'
<1>1. /\ r \in Procs /\ proc[r].pc = "startFailed" /\ RegistryTypeOK /\ secret \in Secret /\ proc[r] \in Process
      /\ env \in Surroundings /\ redeemed \in [Generations -> Nat] /\ made \in [Requests -> Generations]
      /\ UNCHANGED <<pull, ops, recorded, redeemed, made>> /\ SecretOK
  BY DEF GiveUpStart, Procs, RegistryInv, RegistryTypeOK
<1>2. CASE ~ proc[r].fresh /\ Goes(r, "reject") /\ UNCHANGED <<secret, env>>
  <2>1. [proc[r] EXCEPT !.pc = "reject"] \in Process
    BY <1>1 DEF Process
  <2>2. QED
    BY <1>1, <1>2, <2>1, QuietGo
<1>3. CASE /\ proc[r].fresh
           /\ Write(r, [secret EXCEPT !.work = "none", !.pending = FALSE, !.op = NoRequest,
                         !.phase = IF secret.cred = "none" THEN "ReauthorizationRequired" ELSE "Degraded"],
                    [Idle EXCEPT !.pc = "reject"])
  <2>1. PICK s : s = [secret EXCEPT !.work = "none", !.pending = FALSE, !.op = NoRequest,
                         !.phase = IF secret.cred = "none" THEN "ReauthorizationRequired" ELSE "Degraded"]
    OBVIOUS
  <2>2. /\ s \in Secret /\ s.op = NoRequest /\ s.work = "none" /\ s.gen = secret.gen
        /\ s.phase # "Ready" /\ s.pending = FALSE
    BY <1>1, <2>1 DEF Secret, Works, Phases
  <2>3. secret' = s => SecretOK'
    BY <1>1, <2>2, NoRequestAssumption DEF SecretOK
  <2>4. Write(r, s, [Idle EXCEPT !.pc = "reject"]) /\ secret.gen <= s.gen
    BY <1>1, <1>3, <2>1, <2>2, Numbers
  <2>5. QED
    BY <1>1, <2>2, <2>3, <2>4, WriteAndEnd
<1>4. QED
  BY <1>2, <1>3 DEF GiveUpStart

\* The new credential is stored under a generation of its own.
LEMMA ChangeCredentialStep ==
    ASSUME RegistryInv, NEW r \in Requests, ChangeCredential(r)
    PROVE  RegistryInv'
<1>1. /\ r \in Procs /\ proc[r].pc \in {"replace", "remove"} /\ RegistryTypeOK /\ secret \in Secret /\ proc[r] \in Process
      /\ env \in Surroundings /\ redeemed \in [Generations -> Nat] /\ made \in [Requests -> Generations]
      /\ UNCHANGED <<pull, ops, recorded, redeemed>>
      /\ FreshOK(r) /\ RequestOK(r) /\ SecretOK
  BY DEF ChangeCredential, Procs, RegistryInv, RegistryTypeOK
<1>2. CASE Goes(r, "reject") /\ UNCHANGED <<secret, env, made>>
  <2>1. [proc[r] EXCEPT !.pc = "reject"] \in Process
    BY <1>1 DEF Process
  <2>2. QED
    BY <1>1, <1>2, <2>1, QuietGo
<1>3. PICK s : s = [secret EXCEPT !.cred = IF Kind[r] = "remove" THEN "none" ELSE "pat", !.gen = @ + 1, !.op = r,
                         !.phase = IF Kind[r] = "remove" THEN "Removing" ELSE "Pending", !.seen = FALSE]
  OBVIOUS
<1>4. CASE /\ proc[r].fresh /\ secret.gen < MaxCredential
           /\ Write(r, s, Idle) \/ Write(r, s, [Idle EXCEPT !.pc = "reject"])
           /\ made' = [made EXCEPT ![r] = secret.gen + 1]
  <2>1. /\ s \in Secret /\ s.op = r /\ s.work = secret.work /\ s.gen = secret.gen + 1
        /\ s.phase # "Ready" /\ s.pending = secret.pending
    <3>1. PICK cred, phase : /\ cred = IF Kind[r] = "remove" THEN "none" ELSE "pat"
                             /\ phase = IF Kind[r] = "remove" THEN "Removing" ELSE "Pending"
      OBVIOUS
    <3>2. cred \in Credentials /\ phase \in Phases /\ phase # "Ready"
      BY <3>1 DEF Credentials, Phases
    <3>3. secret.gen + 1 \in 1..MaxCredential
      BY <1>1, <1>4, MaxCredentialAssumption DEF Secret
    <3>4. s = [secret EXCEPT !.cred = cred, !.gen = secret.gen + 1, !.op = r, !.phase = phase, !.seen = FALSE]
      BY <1>3, <3>1
    <3>5. QED
      BY <1>1, <3>2, <3>3, <3>4 DEF Secret
  <2>2. proc[r].pc \in Asking
    BY <1>1 DEF Asking
  <2>3. made[r] = 0 /\ ~ secret.pending /\ secret.work = "none"
    BY <1>1, <1>4, <2>2 DEF RequestOK, FreshOK, Available
  <2>4. /\ made' \in [Requests -> Generations] /\ made'[r] = secret.gen + 1
        /\ \A u \in Requests : u # r => made'[u] = made[u]
    BY <1>1, <1>4, MaxCredentialAssumption DEF Generations, Secret
  <2>5. secret.gen \in Nat /\ \A n \in 1..Namespaces : pull[n] \in Nat
    BY <1>1, Numbers
  <2>6. secret' = s => SecretOK'
    <3>1. ASSUME secret' = s PROVE SecretOK'
      <4>1. \A n \in 1..Namespaces : pull'[n] <= secret'.gen
        BY <1>1, <2>1, <2>5, <3>1 DEF SecretOK
      <4>2. secret.gen + 1 \in 1..(secret.gen + 1)
        BY <2>5
      <4>3. QED
        BY <2>1, <2>3, <2>4, <3>1, <4>1, <4>2 DEF SecretOK
    <3>2. QED
      BY <3>1
  <2>7. secret.gen <= s.gen
    BY <2>1, <2>5
  <2>8. QED
    BY <1>1, <1>4, <2>1, <2>2, <2>3, <2>4, <2>6, <2>7, WriteAndEnd
<1>5. QED
  BY <1>2, <1>3, <1>4 DEF ChangeCredential

\* A rejected intent is closed as unknown.
LEMMA RejectIntentStep ==
    ASSUME RegistryInv, NEW r \in Requests, RejectIntent(r)
    PROVE  RegistryInv'
<1>1. /\ r \in Procs /\ RegistryTypeOK /\ secret \in Secret
      /\ env \in Surroundings /\ redeemed \in [Generations -> Nat]
      /\ UNCHANGED <<secret, pull, env, redeemed, made>> /\ Ends(r)
  BY DEF RejectIntent, Procs, RegistryInv, RegistryTypeOK
<1>2. PICK snap : snap = [Idle.snap EXCEPT !.op = r, !.rot = secret.rot]
  OBVIOUS
<1>3. snap \in Snap
  BY <1>1, <1>2, IdleType DEF Snap, Secret
<1>4. Result(snap, "unknown")
  BY <1>2 DEF RejectIntent
<1>5. QED
  BY <1>1, <1>3, <1>4, QuietEnd

-----------------------------------------------------------------------------
(* Ticks.                                                                  *)

\* Adopting the release images makes every process stale.
LEMMA AdoptImagesStep ==
    ASSUME RegistryInv, NEW p \in Procs, AdoptImages(p)
    PROVE  RegistryInv'
<1>1. /\ proc[p].pc = "idle" /\ RegistryTypeOK /\ secret \in Secret /\ env \in Surroundings
      /\ proc \in [Procs -> Process] /\ secret.work = "none" /\ ~ secret.pending
      /\ UNCHANGED <<pull, ops, recorded, redeemed, made>>
      /\ LoopOK(p) /\ SecretOK /\ \A r \in Requests : RequestOK(r)
  BY DEF AdoptImages, RegistryInv, RegistryTypeOK
<1>2. /\ secret' \in Secret /\ secret'.op = secret.op /\ secret'.work = "none" /\ secret'.gen = secret.gen
      /\ secret'.phase # "Ready" /\ secret'.pending = secret.pending
  BY <1>1 DEF AdoptImages, Secret, Phases
<1>3. env' \in Surroundings
  BY <1>1 DEF AdoptImages, Surroundings
<1>4. ASSUME NEW q \in Procs
      PROVE  /\ proc'[q] \in Process
             /\ proc'[q].pc = proc[q].pc /\ proc'[q].snap = proc[q].snap /\ proc'[q].at = proc[q].at
             /\ proc'[q].old = proc[q].old /\ proc'[q].fresh = FALSE
  <2>1. proc'[q] = [proc[q] EXCEPT !.fresh = FALSE] /\ proc[q] \in Process
    BY <1>1 DEF AdoptImages
  <2>2. QED
    BY <2>1 DEF Process
<1>5. proc' \in [Procs -> Process]
  BY <1>4 DEF AdoptImages
<1>6. RegistryTypeOK'
  BY <1>1, <1>2, <1>3, <1>5 DEF RegistryTypeOK
<1>7. Forward
  BY <1>1, <1>2, Numbers DEF Forward
<1>8. ASSUME NEW q \in Procs
      PROVE  FreshOK(q)' /\ LoopOK(q)' /\ OpOK(q)'
  <2>1. Yields(NoRequest) /\ Staled(NoRequest) /\ Yields(p) /\ Staled(p)
    BY <1>4 DEF Yields, Staled
  <2>2. CASE q # p
    BY <1>1, <1>6, <1>7, <2>1, <2>2, OthersOK
  <2>3. CASE q = p
    <3>1. FreshOK(q)'
      BY <1>4 DEF FreshOK
    <3>2. LoopOK(q)' /\ OpOK(q)'
      BY <1>1, <1>2, <1>4, <2>3 DEF LoopOK, OpOK, Passing, Passed, Starting, Propagating
    <3>3. QED
      BY <3>1, <3>2
  <2>4. QED
    BY <2>2, <2>3
<1>9. SecretOK'
  BY <1>1, <1>2 DEF SecretOK
<1>10. ASSUME NEW r \in Requests
       PROVE  RequestOK(r)'
  <2>1. r \in Procs /\ RequestOK(r)
    BY <1>1 DEF Procs
  <2>2. QED
    BY <1>1, <1>2, <1>4, <2>1 DEF RequestOK
<1>11. QED
  BY <1>6, <1>8, <1>9, <1>10 DEF RegistryInv

\* Interrupted work is recorded as unknown by whoever finds it.
LEMMA RecordInterruptedStep ==
    ASSUME RegistryInv, NEW p \in Procs, RecordInterrupted(p)
    PROVE  RegistryInv'
<1>1. /\ RegistryTypeOK /\ secret \in Secret /\ proc \in [Procs -> Process]
      /\ env \in Surroundings /\ redeemed \in [Generations -> Nat]
      /\ UNCHANGED <<secret, pull, env, redeemed, made>>
      /\ Result(Snapshot(secret), "unknown")
  BY DEF RecordInterrupted, RegistryInv, RegistryTypeOK
<1>2. PICK next : next = Holding("interrupted", secret)
  OBVIOUS
<1>3. /\ next \in Process /\ next.pc = "interrupted" /\ next.fresh = TRUE
      /\ next.snap.gen = secret.gen /\ next.snap.op = secret.op /\ Snapshot(secret) \in Snap
  BY <1>1, <1>2, HoldingType
<1>4. /\ proc' \in [Procs -> Process] /\ proc'[p] = next
      /\ \A q \in Procs : q # p => proc'[q] = proc[q]
  BY <1>1, <1>2, <1>3 DEF RecordInterrupted
<1>5. FreshOK(p)' /\ OpOK(p)'
  BY <1>1, <1>3, <1>4 DEF FreshOK, OpOK, Asking, Starting, Polling, Presenting, Propagating
<1>6. LoopOK(p)'
  BY <1>1, <1>3, <1>4, Numbers DEF LoopOK, Passing, Passed
<1>7. proc'[p].pc \notin Asking /\ proc'[p].snap.op \in {proc[p].snap.op, secret.op, NoRequest}
  BY <1>3, <1>4 DEF Asking
<1>8. QED
  BY <1>1, <1>3, <1>4, <1>5, <1>6, <1>7, QuietMove

\* Released work leaves no request and asks for a new authorization.
LEMMA ReleaseInterruptedStep ==
    ASSUME RegistryInv, NEW p \in Procs, ReleaseInterrupted(p)
    PROVE  RegistryInv'
<1>1. RegistryTypeOK /\ secret \in Secret /\ SecretOK /\ UNCHANGED <<pull, ops, recorded, redeemed, made>>
  BY DEF ReleaseInterrupted, RegistryInv, RegistryTypeOK
<1>2. PICK s : s = [secret EXCEPT !.phase = "ReauthorizationRequired", !.work = "none", !.pending = FALSE, !.op = NoRequest]
  OBVIOUS
<1>3. /\ s \in Secret /\ s.op = NoRequest /\ s.gen = secret.gen
      /\ s.phase # "Ready" /\ s.pending = FALSE
  BY <1>1, <1>2 DEF Secret, Works, Phases
<1>4. secret' = s => SecretOK'
  BY <1>1, <1>3, NoRequestAssumption DEF SecretOK
<1>5. Swap(p, s, Idle) /\ secret.gen <= s.gen
  BY <1>1, <1>2, <1>3, Numbers DEF ReleaseInterrupted
<1>6. QED
  BY <1>1, <1>3, <1>4, <1>5, SwapAndEnd

\* A claim marks the Secret with the work it is for.
LEMMA ClaimStep ==
    ASSUME RegistryInv, NEW p \in Procs, Claim(p)
    PROVE  RegistryInv'
<1>1. /\ proc[p].pc = "idle" /\ RegistryTypeOK /\ secret \in Secret /\ SecretOK
      /\ secret.work = "none" /\ secret.phase # "ReauthorizationRequired"
      /\ secret.gen < MaxCredential \/ ~ (secret.pending \/ RefreshDue)
      /\ made \in [Requests -> Generations]
      /\ UNCHANGED <<pull, ops, recorded, redeemed, made>>
  BY DEF Claim, RegistryInv, RegistryTypeOK
<1>2. PICK kind : kind = IF secret.pending THEN "device-poll" ELSE IF RefreshDue THEN "refresh" ELSE "propagate"
  OBVIOUS
<1>3. /\ kind \in {"device-poll", "refresh", "propagate"}
      /\ kind = "device-poll" => secret.pending /\ secret.gen < MaxCredential
      /\ kind = "refresh" => ~ secret.pending /\ secret.gen < MaxCredential
      /\ kind = "propagate" => ~ secret.pending
  BY <1>1, <1>2 DEF RefreshDue
<1>4. PICK s : s = [secret EXCEPT !.work = kind]
  OBVIOUS
<1>5. /\ s \in Secret /\ s.op = secret.op /\ s.work = kind /\ s.gen = secret.gen /\ s.phase = secret.phase
      /\ s.pending = secret.pending
  BY <1>1, <1>3, <1>4 DEF Secret, Works
<1>6. PICK next : next = Holding(kind, s)
  OBVIOUS
<1>7. next \in Process /\ next.pc = kind /\ next.fresh = TRUE /\ next.snap.gen = s.gen /\ next.snap.op = s.op
  BY <1>3, <1>5, <1>6, HoldingType
<1>8. Write(p, s, next)
  BY <1>2, <1>4, <1>6 DEF Claim
<1>9. secret' = s /\ proc'[p] = next
  BY <1>1, <1>5, <1>7, <1>8, WriteEffect
<1>10. FreshOK(p)'
  BY <1>1, <1>3, <1>5, <1>7, <1>9 DEF FreshOK, Asking, Starting, Polling, Presenting, Propagating
<1>11. secret.gen \in Nat
  BY <1>1, Numbers
<1>12. LoopOK(p)'
  BY <1>3, <1>5, <1>7, <1>9, <1>11 DEF LoopOK, Passing, Passed
<1>13. OpOK(p)'
  BY <1>1, <1>3, <1>5, <1>7, <1>9 DEF OpOK, SecretOK, Starting, Propagating
<1>14. SecretOK'
  BY <1>1, <1>3, <1>5, <1>9 DEF SecretOK
<1>15. next.pc \notin Asking
  BY <1>3, <1>7 DEF Asking
<1>16. QED
  BY <1>1, <1>5, <1>7, <1>8, <1>10, <1>11, <1>12, <1>13, <1>14, <1>15, WriteOK

\* A poll that is not answered, or is granted.
LEMMA PollStep ==
    ASSUME RegistryInv, NEW p \in Procs, Poll(p)
    PROVE  RegistryInv'
<1>1. /\ RegistryTypeOK /\ secret \in Secret /\ SecretOK /\ FreshOK(p) /\ proc[p] \in Process
      /\ env \in Surroundings /\ redeemed \in [Generations -> Nat]
      /\ UNCHANGED <<pull, ops, recorded, redeemed, made>> /\ proc[p].pc = "device-poll"
  BY DEF Poll, RegistryInv, RegistryTypeOK
<1>2. CASE Goes(p, "granted") /\ UNCHANGED <<secret, env>>
  <2>1. [proc[p] EXCEPT !.pc = "granted"] \in Process
    BY <1>1 DEF Process
  <2>2. QED
    BY <1>1, <1>2, <2>1, QuietGo
<1>3. CASE Swap(p, [secret EXCEPT !.work = "none"], Idle)
  <2>1. PICK s : s = [secret EXCEPT !.work = "none"]
    OBVIOUS
  <2>2. /\ s \in Secret /\ s.op = secret.op /\ s.gen = secret.gen
        /\ s.phase = secret.phase /\ s.pending = secret.pending /\ s.work = "none"
    BY <1>1, <2>1 DEF Secret, Works
  <2>3. proc[p].fresh => secret.pending
    BY <1>1 DEF FreshOK, Polling
  <2>4. proc[p].fresh /\ secret' = s => SecretOK'
    BY <1>1, <2>2, <2>3 DEF SecretOK
  <2>5. Swap(p, s, Idle) /\ secret.gen <= s.gen
    BY <1>1, <1>3, <2>1, <2>2, Numbers
  <2>6. QED
    BY <1>1, <2>2, <2>4, <2>5, SwapAndEnd
<1>4. QED
  BY <1>2, <1>3 DEF Poll

\* What was granted is stored for the request the Secret names.
LEMMA StorePolledStep ==
    ASSUME RegistryInv, NEW p \in Procs, StorePolled(p)
    PROVE  RegistryInv'
<1>1. /\ RegistryTypeOK /\ secret \in Secret /\ SecretOK /\ FreshOK(p)
      /\ env \in Surroundings /\ redeemed \in [Generations -> Nat] /\ made \in [Requests -> Generations]
      /\ UNCHANGED <<pull, ops, recorded, redeemed>> /\ proc[p].pc = "granted"
      /\ made' = IF proc[p].fresh THEN [made EXCEPT ![secret.op] = secret.gen + 1] ELSE made
  BY DEF StorePolled, RegistryInv, RegistryTypeOK
<1>2. CASE ~ proc[p].fresh
  <2>1. Ends(p) /\ UNCHANGED <<secret, env, made>>
    BY <1>1, <1>2 DEF StorePolled, Swap
  <2>2. QED
    BY <1>1, <2>1, QuietEnd
<1>3. CASE proc[p].fresh
  <2>1. PICK s : s = [secret EXCEPT !.work = "none", !.pending = FALSE, !.cred = "device", !.gen = secret.gen + 1,
                  !.phase = "Pending", !.seen = FALSE]
    OBVIOUS
  <2>2. secret.pending /\ secret.gen < MaxCredential
    BY <1>1, <1>3 DEF FreshOK, Polling
  <2>3. secret.gen + 1 \in 1..MaxCredential /\ secret.gen + 1 \in Generations
    BY <1>1, <2>2, MaxCredentialAssumption DEF Secret, Generations
  <2>4. /\ s \in Secret /\ s.op = secret.op /\ s.gen = secret.gen + 1
        /\ s.phase = "Pending" /\ s.pending = FALSE /\ s.work = "none"
    BY <1>1, <2>1, <2>3 DEF Secret, Works, Phases, Credentials
  <2>5. secret.op \in Requests /\ made[secret.op] = 0
    BY <1>1, <2>2 DEF SecretOK
  <2>6. /\ made' \in [Requests -> Generations] /\ made'[secret.op] = secret.gen + 1
        /\ \A u \in Requests : u # secret.op => made'[u] = made[u]
    BY <1>1, <1>3, <2>3, <2>5
  <2>7. secret.gen \in Nat /\ \A n \in 1..Namespaces : pull[n] \in Nat
    BY <1>1, Numbers
  <2>8. ASSUME secret' = s PROVE SecretOK'
    <3>1. \A n \in 1..Namespaces : pull'[n] <= secret'.gen
      BY <1>1, <2>4, <2>7, <2>8 DEF SecretOK
    <3>2. secret.gen + 1 \in 1..(secret.gen + 1)
      BY <2>7
    <3>3. QED
      BY <2>4, <2>6, <2>8, <3>1, <3>2 DEF SecretOK
  <2>9. Write(p, s, Idle) /\ secret.gen <= s.gen
    BY <1>3, <2>1, <2>4, <2>7 DEF StorePolled, Swap
  <2>10. \A r \in Requests : made'[r] # made[r] => made[r] = 0 /\ r = secret.op
    BY <2>5, <2>6
  <2>11. QED
    BY <1>1, <2>4, <2>6, <2>8, <2>9, <2>10, WriteAndEnd
<1>4. QED
  BY <1>2, <1>3

\* The audit comes before the token is presented.
LEMMA AuditRefreshStep ==
    ASSUME RegistryInv, NEW p \in Procs, AuditRefresh(p)
    PROVE  RegistryInv'
<1>1. /\ RegistryTypeOK /\ proc[p] \in Process /\ proc[p].snap \in Snap
      /\ env \in Surroundings /\ redeemed \in [Generations -> Nat]
      /\ UNCHANGED <<secret, pull, env, redeemed, made>> /\ proc[p].pc = "refresh"
      /\ Result(proc[p].snap, "accepted") /\ Goes(p, "redeem")
  BY Numbers DEF AuditRefresh, RegistryInv, RegistryTypeOK
<1>2. [proc[p] EXCEPT !.pc = "redeem"] \in Process
  BY <1>1 DEF Process
<1>3. QED
  BY <1>1, <1>2, QuietGo

\* Presenting the token changes nothing in the cluster.
LEMMA RedeemStep ==
    ASSUME RegistryInv, NEW p \in Procs, Redeem(p)
    PROVE  RegistryInv'
<1>1. /\ RegistryTypeOK /\ proc[p] \in Process /\ proc[p].snap.gen \in Generations
      /\ env \in Surroundings /\ redeemed \in [Generations -> Nat]
      /\ UNCHANGED <<secret, pull, ops, recorded, env, made>> /\ proc[p].pc = "redeem"
      /\ redeemed' = [redeemed EXCEPT ![proc[p].snap.gen] = @ + 1]
  BY DEF Redeem, RegistryInv, RegistryTypeOK, Process, Snap
<1>2. redeemed' \in [Generations -> Nat]
  BY <1>1
<1>3. [proc[p] EXCEPT !.pc = "redeemed"] \in Process /\ [proc[p] EXCEPT !.pc = "lost"] \in Process
  BY <1>1 DEF Process
<1>4. CASE Goes(p, "redeemed")
  BY <1>1, <1>2, <1>3, <1>4, QuietGo
<1>5. CASE Goes(p, "lost")
  BY <1>1, <1>2, <1>3, <1>5, QuietGo
<1>6. QED
  BY <1>4, <1>5 DEF Redeem

\* The new pair is a new generation of the same request, if there is one.
LEMMA StoreRefreshedStep ==
    ASSUME RegistryInv, NEW p \in Procs, StoreRefreshed(p)
    PROVE  RegistryInv'
<1>1. /\ RegistryTypeOK /\ secret \in Secret /\ SecretOK /\ FreshOK(p)
      /\ env \in Surroundings /\ redeemed \in [Generations -> Nat]
      /\ UNCHANGED <<pull, ops, recorded, redeemed, made>> /\ proc[p].pc = "redeemed"
  BY DEF StoreRefreshed, RegistryInv, RegistryTypeOK
<1>2. CASE ~ proc[p].fresh
  <2>1. Ends(p) /\ UNCHANGED <<secret, env>>
    BY <1>2 DEF StoreRefreshed, Swap
  <2>2. QED
    BY <1>1, <2>1, QuietEnd
<1>3. CASE proc[p].fresh
  <2>1. PICK s : s = [secret EXCEPT !.work = "none", !.gen = secret.gen + 1, !.rot = secret.gen, !.phase = "Pending",
                         !.seen = FALSE]
    OBVIOUS
  <2>2. ~ secret.pending /\ secret.gen < MaxCredential /\ secret.work = "refresh"
    BY <1>1, <1>3 DEF FreshOK, Presenting
  <2>3. secret.gen + 1 \in 1..MaxCredential /\ secret.gen \in Generations
    BY <1>1, <2>2, MaxCredentialAssumption DEF Secret, Generations
  <2>4. /\ s \in Secret /\ s.op = secret.op /\ s.gen = secret.gen + 1
        /\ s.phase = "Pending" /\ s.pending = secret.pending /\ s.work = "none"
    BY <1>1, <2>1, <2>3 DEF Secret, Works, Phases
  <2>5. /\ secret.gen \in Nat /\ (\A n \in 1..Namespaces : pull[n] \in Nat)
        /\ \A r \in Requests : made[r] \in Nat
    BY <1>1, Numbers
  <2>6. ASSUME secret' = s PROVE SecretOK'
    <3>1. \A n \in 1..Namespaces : pull'[n] <= secret'.gen
      BY <1>1, <2>4, <2>5, <2>6 DEF SecretOK
    <3>2. \A r \in Requests : secret.op = r => made[r] \in 1..(secret.gen + 1)
      BY <1>1, <2>2, <2>5 DEF SecretOK
    <3>3. QED
      BY <1>1, <2>2, <2>4, <2>6, <3>1, <3>2 DEF SecretOK
  <2>7. Swap(p, s, Idle) /\ secret.gen <= s.gen
    BY <2>1, <2>4, <2>5 DEF StoreRefreshed
  <2>8. QED
    BY <1>1, <2>4, <2>6, <2>7, SwapAndEnd
<1>4. QED
  BY <1>2, <1>3

-----------------------------------------------------------------------------
(* Propagation.                                                            *)

\* The loop goes to the next namespace, or past the last one.
LEMMA AfterEffect ==
    ASSUME NEW c \in Process, c.at \in 1..Namespaces,
           NEW here \in {"get", "check"}, NEW next \in {"check", "final"}
    PROVE  /\ After(c, here, next) \in Process
           /\ After(c, here, next).snap = c.snap /\ After(c, here, next).fresh = c.fresh
           /\ After(c, here, next).at \in 1..Namespaces
           /\ \/ /\ After(c, here, next).pc = here /\ After(c, here, next).at = c.at + 1 /\ c.at < Namespaces
              \/ After(c, here, next).pc = next /\ c.at = Namespaces
<1>1. c.at + 1 \in Nat /\ 1 \in 0..Namespaces /\ 1 \in 1..Namespaces
  BY NamespacesAssumption
<1>2. CASE c.at < Namespaces
  <2>1. c.at + 1 \in 0..Namespaces /\ c.at + 1 \in 1..Namespaces
    BY <1>2, NamespacesAssumption
  <2>2. PICK a : a = c.at + 1
    OBVIOUS
  <2>3. After(c, here, next) = [c EXCEPT !.pc = here, !.at = a]
    BY <1>2, <2>2 DEF After
  <2>4. QED
    BY <1>2, <2>1, <2>2, <2>3 DEF Process
<1>3. CASE ~ (c.at < Namespaces)
  <2>1. c.at = Namespaces
    BY <1>3, NamespacesAssumption
  <2>2. After(c, here, next) = [c EXCEPT !.pc = next, !.at = 1]
    BY <1>3 DEF After
  <2>3. QED
    BY <1>1, <2>1, <2>2 DEF Process
<1>4. QED
  BY <1>2, <1>3

\* A propagation that goes on with its loop keeps what it holds.
LEMMA PropagationMove ==
    ASSUME RegistryInv, NEW p \in Procs, UNCHANGED <<secret, pull, ops, recorded, env, redeemed, made>>,
           proc[p].pc \in Propagating,
           proc' \in [Procs -> Process], \A q \in Procs : q # p => proc'[q] = proc[q],
           proc'[p].snap = proc[p].snap, proc'[p].fresh = proc[p].fresh,
           proc'[p].pc \in Propagating, LoopOK(p)'
    PROVE  RegistryInv'
<1>1. RegistryTypeOK /\ FreshOK(p) /\ OpOK(p) /\ env \in Surroundings /\ redeemed \in [Generations -> Nat]
  BY DEF RegistryInv, RegistryTypeOK
<1>2. FreshOK(p)'
  BY <1>1 DEF FreshOK, Asking, Starting, Polling, Presenting, Propagating, Available
<1>3. OpOK(p)'
  BY <1>1 DEF OpOK, Starting, Propagating
<1>4. proc'[p].pc \notin Asking /\ proc'[p].snap.op \in {proc[p].snap.op, secret.op, NoRequest}
  BY DEF Asking, Propagating
<1>5. QED
  BY <1>1, <1>2, <1>3, <1>4, QuietMove

\* The loop starts with nothing behind it.
LEMMA InspectStep ==
    ASSUME RegistryInv, NEW p \in Procs, Inspect(p)
    PROVE  RegistryInv'
<1>1. /\ RegistryTypeOK /\ proc[p] \in Process /\ proc \in [Procs -> Process] /\ LoopOK(p)
      /\ UNCHANGED <<secret, pull, ops, recorded, env, redeemed, made>> /\ proc[p].pc = "propagate"
  BY DEF Inspect, RegistryInv, RegistryTypeOK
<1>2. 1 \in 0..Namespaces /\ 1 \in 1..Namespaces
  BY NamespacesAssumption
<1>3. PICK next : next = [proc[p] EXCEPT !.pc = "get", !.at = 1]
  OBVIOUS
<1>4. next \in Process /\ next.pc = "get" /\ next.at = 1 /\ next.snap = proc[p].snap /\ next.fresh = proc[p].fresh
  BY <1>1, <1>2, <1>3 DEF Process
<1>5. /\ proc' \in [Procs -> Process] /\ proc'[p] = next
      /\ \A q \in Procs : q # p => proc'[q] = proc[q]
  BY <1>1, <1>3, <1>4 DEF Inspect
<1>6. LoopOK(p)'
  <2>1. \A n \in 1..Namespaces : ~ (n < 1)
    BY NamespacesAssumption
  <2>2. QED
    BY <1>1, <1>2, <1>4, <1>5, <2>1 DEF LoopOK, Passing, Passed
<1>7. proc[p].pc \in Propagating /\ proc'[p].pc \in Propagating
  BY <1>1, <1>4, <1>5 DEF Propagating
<1>8. QED
  BY <1>1, <1>4, <1>5, <1>6, <1>7, PropagationMove

\* A pull Secret that carries the generation is passed.
LEMMA GetPullStep ==
    ASSUME RegistryInv, NEW p \in Procs, GetPull(p)
    PROVE  RegistryInv'
<1>1. /\ RegistryTypeOK /\ proc[p] \in Process /\ proc \in [Procs -> Process] /\ LoopOK(p)
      /\ UNCHANGED <<secret, pull, ops, recorded, env, redeemed, made>> /\ proc[p].pc = "get"
      /\ proc[p].snap.gen \in Nat
  BY Numbers DEF GetPull, RegistryInv, RegistryTypeOK
<1>2. proc[p].at \in 1..Namespaces /\ \A n \in 1..Namespaces : n < proc[p].at => proc[p].snap.gen <= pull[n]
  BY <1>1 DEF LoopOK, Passing
<1>3. proc[p].pc \in Propagating
  BY <1>1 DEF Propagating
<1>4. CASE pull[proc[p].at] = proc[p].snap.gen
  <2>1. PICK next : next = After(proc[p], "get", "check")
    OBVIOUS
  <2>2. /\ next \in Process /\ next.snap = proc[p].snap /\ next.fresh = proc[p].fresh /\ next.at \in 1..Namespaces
        /\ \/ next.pc = "get" /\ next.at = proc[p].at + 1 /\ proc[p].at < Namespaces
           \/ next.pc = "check" /\ proc[p].at = Namespaces
    BY <1>1, <1>2, <2>1, AfterEffect
  <2>3. /\ proc' \in [Procs -> Process] /\ proc'[p] = next
        /\ \A q \in Procs : q # p => proc'[q] = proc[q]
    BY <1>1, <1>4, <2>1, <2>2 DEF GetPull
  <2>4. \A n \in 1..Namespaces : n <= proc[p].at => proc[p].snap.gen <= pull[n]
    <3>1. ASSUME NEW n \in 1..Namespaces, n <= proc[p].at
          PROVE  proc[p].snap.gen <= pull[n]
      <4>1. n < proc[p].at \/ n = proc[p].at
        BY <1>2, <3>1
      <4>2. QED
        BY <1>1, <1>2, <1>4, <4>1
    <3>2. QED
      BY <3>1
  <2>5. LoopOK(p)'
    <3>1. CASE next.pc = "get" /\ next.at = proc[p].at + 1
      <4>1. \A n \in 1..Namespaces : n < next.at => proc[p].snap.gen <= pull[n]
        <5>1. \A n \in 1..Namespaces : n < proc[p].at + 1 => n <= proc[p].at
          BY <1>2
        <5>2. QED
          BY <2>4, <3>1, <5>1
      <4>2. QED
        BY <1>1, <2>2, <2>3, <3>1, <4>1 DEF LoopOK, Passing, Passed
    <3>2. CASE next.pc = "check" /\ proc[p].at = Namespaces
      <4>1. \A n \in 1..Namespaces : proc[p].snap.gen <= pull[n]
        BY <2>4, <3>2, NamespacesAssumption
      <4>2. QED
        BY <1>1, <2>2, <2>3, <3>2, <4>1 DEF LoopOK, Passing, Passed
    <3>3. QED
      BY <2>2, <3>1, <3>2
  <2>6. proc'[p].pc \in Propagating
    BY <2>2, <2>3 DEF Propagating
  <2>7. QED
    BY <1>1, <1>3, <2>2, <2>3, <2>5, <2>6, PropagationMove
<1>5. CASE pull[proc[p].at] # proc[p].snap.gen
  <2>1. PICK next : next = [proc[p] EXCEPT !.pc = "fence", !.old = TRUE]
    OBVIOUS
  <2>2. /\ next \in Process /\ next.pc = "fence" /\ next.at = proc[p].at /\ next.snap = proc[p].snap
        /\ next.fresh = proc[p].fresh
    BY <1>1, <2>1 DEF Process
  <2>3. /\ proc' \in [Procs -> Process] /\ proc'[p] = next
        /\ \A q \in Procs : q # p => proc'[q] = proc[q]
    BY <1>1, <1>5, <2>1, <2>2 DEF GetPull
  <2>4. LoopOK(p)' /\ proc'[p].pc \in Propagating
    BY <1>1, <2>2, <2>3 DEF LoopOK, Passing, Passed, Propagating
  <2>5. QED
    BY <1>1, <1>3, <2>2, <2>3, <2>4, PropagationMove
<1>6. QED
  BY <1>4, <1>5

\* Behind the fence the Secret is still the one that was read, so no pull
\* Secret can be newer.
LEMMA AssertFenceStep ==
    ASSUME RegistryInv, NEW p \in Procs, AssertFence(p)
    PROVE  RegistryInv'
<1>1. /\ RegistryTypeOK /\ proc[p] \in Process /\ proc \in [Procs -> Process] /\ LoopOK(p) /\ FreshOK(p) /\ SecretOK
      /\ env \in Surroundings /\ redeemed \in [Generations -> Nat]
      /\ UNCHANGED <<secret, pull, ops, recorded, env, redeemed, made>> /\ proc[p].pc \in {"fence", "final"}
  BY DEF AssertFence, RegistryInv, RegistryTypeOK
<1>2. CASE ~ proc[p].fresh
  BY <1>1, <1>2, QuietEnd DEF AssertFence
<1>3. CASE proc[p].fresh
  <2>1. PICK pc : pc = IF proc[p].pc = "fence" THEN "put" ELSE "success"
    OBVIOUS
  <2>2. pc \in {"put", "success"} /\ [proc[p] EXCEPT !.pc = pc] \in Process /\ Goes(p, pc)
    BY <1>1, <1>3, <2>1 DEF Process, AssertFence
  <2>3. /\ proc' \in [Procs -> Process]
        /\ \A q \in Procs : q # p => proc'[q] = proc[q]
        /\ proc'[p].pc = pc /\ proc'[p].fresh = proc[p].fresh /\ proc'[p].snap = proc[p].snap
        /\ proc'[p].at = proc[p].at /\ proc'[p].old = proc[p].old
    BY <1>1, <2>2, GoesEffect
  <2>4. proc[p].snap.gen = secret.gen
    BY <1>1, <1>3 DEF FreshOK
  <2>5. \A n \in 1..Namespaces : pull[n] <= proc[p].snap.gen
    BY <1>1, <2>4 DEF SecretOK
  <2>6. LoopOK(p)'
    <3>1. CASE proc[p].pc = "fence"
      BY <1>1, <2>1, <2>3, <2>5, <3>1 DEF LoopOK, Passing, Passed
    <3>2. CASE proc[p].pc = "final"
      BY <1>1, <2>1, <2>3, <3>2 DEF LoopOK, Passing, Passed
    <3>3. QED
      BY <1>1, <3>1, <3>2
  <2>7. proc[p].pc \in Propagating /\ proc'[p].pc \in Propagating
    BY <1>1, <2>2, <2>3 DEF Propagating
  <2>8. QED
    BY <1>1, <2>3, <2>6, <2>7, PropagationMove
<1>4. QED
  BY <1>2, <1>3

\* The second loop looks at every namespace again.
LEMMA CheckPullStep ==
    ASSUME RegistryInv, NEW p \in Procs, CheckPull(p)
    PROVE  RegistryInv'
<1>1. /\ RegistryTypeOK /\ proc[p] \in Process /\ proc \in [Procs -> Process] /\ LoopOK(p)
      /\ env \in Surroundings /\ redeemed \in [Generations -> Nat]
      /\ UNCHANGED <<secret, pull, ops, recorded, env, redeemed, made>> /\ proc[p].pc = "check"
  BY DEF CheckPull, RegistryInv, RegistryTypeOK
<1>2. proc[p].pc \in Propagating /\ proc[p].at \in 1..Namespaces
  BY <1>1 DEF Propagating, LoopOK, Passing
<1>3. CASE pull[proc[p].at] = proc[p].snap.gen
  <2>1. PICK next : next = After(proc[p], "check", "final")
    OBVIOUS
  <2>2. /\ next \in Process /\ next.snap = proc[p].snap /\ next.fresh = proc[p].fresh /\ next.at \in 1..Namespaces
        /\ next.pc \in {"check", "final"}
    BY <1>1, <1>2, <2>1, AfterEffect
  <2>3. /\ proc' \in [Procs -> Process] /\ proc'[p] = next
        /\ \A q \in Procs : q # p => proc'[q] = proc[q]
    BY <1>1, <1>3, <2>1, <2>2 DEF CheckPull
  <2>4. LoopOK(p)' /\ proc'[p].pc \in Propagating
    BY <1>1, <2>2, <2>3 DEF LoopOK, Passing, Passed, Propagating
  <2>5. QED
    BY <1>1, <1>2, <2>2, <2>3, <2>4, PropagationMove
<1>4. CASE pull[proc[p].at] # proc[p].snap.gen
  <2>1. Goes(p, "failed") /\ [proc[p] EXCEPT !.pc = "failed"] \in Process
    BY <1>1, <1>4 DEF CheckPull, Process
  <2>2. QED
    BY <1>1, <1>2, <2>1, QuietGo
<1>5. QED
  BY <1>3, <1>4

\* A pull Secret is replaced by one that is not older, and whoever read it
\* before cannot replace it any more.
LEMMA PutPullStep ==
    ASSUME RegistryInv, NEW p \in Procs, PutPull(p)
    PROVE  RegistryInv' /\ \A n \in 1..Namespaces : pull[n] <= pull'[n]
<1>1. /\ RegistryTypeOK /\ proc[p] \in Process /\ proc \in [Procs -> Process]
      /\ LoopOK(p) /\ FreshOK(p) /\ OpOK(p) /\ SecretOK /\ \A r \in Requests : RequestOK(r)
      /\ env \in Surroundings /\ redeemed \in [Generations -> Nat]
      /\ UNCHANGED <<secret, ops, recorded, env, redeemed, made>> /\ proc[p].pc = "put"
  BY DEF PutPull, RegistryInv, RegistryTypeOK
<1>2. /\ secret.gen \in Nat /\ proc[p].snap.gen \in Nat /\ (\A n \in 1..Namespaces : pull[n] \in Nat)
      /\ \A r \in Requests : made[r] \in Nat
  BY <1>1, Numbers
<1>3. CASE ~ proc[p].old
  <2>1. Ends(p) /\ pull' = pull
    BY <1>3 DEF PutPull
  <2>2. QED
    BY <1>1, <1>2, <2>1, QuietEnd
<1>4. CASE proc[p].old
  <2>1. proc[p].at \in 1..Namespaces /\ pull[proc[p].at] <= proc[p].snap.gen /\ proc[p].snap.gen <= secret.gen
        /\ \A n \in 1..Namespaces : n < proc[p].at => proc[p].snap.gen <= pull[n]
    BY <1>1, <1>4 DEF LoopOK, Passing
  <2>2. proc[p].snap.gen \in 1..MaxCredential
    BY <1>1, <1>2, <2>1, MaxCredentialAssumption DEF RegistryTypeOK, Secret
  <2>3. /\ pull' \in [1..Namespaces -> 1..MaxCredential] /\ pull'[proc[p].at] = proc[p].snap.gen
        /\ \A n \in 1..Namespaces : n # proc[p].at => pull'[n] = pull[n]
    BY <1>1, <1>4, <2>1, <2>2 DEF PutPull, RegistryTypeOK
  <2>4. \A n \in 1..Namespaces : pull[n] <= pull'[n] /\ pull'[n] \in Nat
    BY <1>2, <2>1, <2>3
  <2>5. PICK here : here = [proc[p] EXCEPT !.old = FALSE]
    OBVIOUS
  <2>6. PICK next : next = After(here, "get", "check")
    OBVIOUS
  <2>7. here \in Process /\ here.at = proc[p].at /\ here.snap = proc[p].snap /\ here.fresh = proc[p].fresh
    BY <1>1, <2>5 DEF Process
  <2>8. /\ next \in Process /\ next.snap = proc[p].snap /\ next.fresh = proc[p].fresh /\ next.at \in 1..Namespaces
        /\ \/ next.pc = "get" /\ next.at = proc[p].at + 1 /\ proc[p].at < Namespaces
           \/ next.pc = "check" /\ proc[p].at = Namespaces
    BY <2>1, <2>6, <2>7, AfterEffect
  <2>9. proc' = [q \in Procs |-> IF q = p THEN next ELSE [proc[q] EXCEPT !.old = @ /\ proc[q].at # proc[p].at]]
    BY <1>4, <2>5, <2>6 DEF PutPull
  <2>10. ASSUME NEW q \in Procs, q # p
         PROVE  /\ proc'[q] \in Process
                /\ proc'[q].pc = proc[q].pc /\ proc'[q].snap = proc[q].snap /\ proc'[q].at = proc[q].at
                /\ proc'[q].fresh = proc[q].fresh
                /\ proc'[q].old => proc[q].old /\ proc[q].at # proc[p].at
    <3>1. PICK b : b = (proc[q].old /\ proc[q].at # proc[p].at)
      OBVIOUS
    <3>2. proc[q] \in Process /\ proc'[q] = [proc[q] EXCEPT !.old = b]
      BY <1>1, <2>9, <2>10, <3>1
    <3>3. b \in BOOLEAN
      BY <3>1, <3>2 DEF Process
    <3>4. /\ proc'[q] \in Process /\ proc'[q].pc = proc[q].pc /\ proc'[q].snap = proc[q].snap
          /\ proc'[q].at = proc[q].at /\ proc'[q].fresh = proc[q].fresh /\ proc'[q].old = b
      BY <3>2, <3>3 DEF Process
    <3>5. QED
      BY <3>1, <3>4
  <2>11. proc' \in [Procs -> Process] /\ proc'[p] = next
    BY <2>8, <2>9, <2>10
  <2>12. RegistryTypeOK'
    BY <1>1, <2>3, <2>11 DEF RegistryTypeOK
  <2>13. Yields(p) /\ SameClaim /\ Forward
    BY <1>1, <1>2, <2>4, <2>10 DEF Yields, SameClaim, Forward
  <2>14. \A q \in Procs : q # p /\ proc[q].pc = "put" /\ proc'[q].old => pull'[proc[q].at] = pull[proc[q].at]
    <3>1. ASSUME NEW q \in Procs, q # p, proc[q].pc = "put", proc'[q].old
          PROVE  pull'[proc[q].at] = pull[proc[q].at]
      <4>1. proc[q].at # proc[p].at
        BY <2>10, <3>1
      <4>2. proc[q].at \in 1..Namespaces
        BY <3>1 DEF RegistryInv, LoopOK, Passing
      <4>3. QED
        BY <2>3, <4>1, <4>2
    <3>2. QED
      BY <3>1
  <2>15. \A q \in Procs : q # p => FreshOK(q)' /\ LoopOK(q)' /\ OpOK(q)'
    BY <2>12, <2>13, <2>14, OthersOK
  <2>16. FreshOK(p)' /\ OpOK(p)'
    BY <1>1, <2>8, <2>11 DEF FreshOK, OpOK, Asking, Starting, Polling, Presenting, Propagating, Available
  <2>17. \A n \in 1..Namespaces : n <= proc[p].at => proc[p].snap.gen <= pull'[n]
    <3>1. ASSUME NEW n \in 1..Namespaces, n <= proc[p].at
          PROVE  proc[p].snap.gen <= pull'[n]
      <4>1. n < proc[p].at \/ n = proc[p].at
        BY <2>1, <3>1
      <4>2. CASE n < proc[p].at
        BY <2>1, <2>3, <4>2
      <4>3. CASE n = proc[p].at
        BY <1>2, <2>3, <4>3
      <4>4. QED
        BY <4>1, <4>2, <4>3
    <3>2. QED
      BY <3>1
  <2>18. LoopOK(p)'
    <3>1. CASE next.pc = "get" /\ next.at = proc[p].at + 1
      <4>1. \A n \in 1..Namespaces : n < proc[p].at + 1 => n <= proc[p].at
        BY <2>1
      <4>2. \A n \in 1..Namespaces : n < next.at => proc[p].snap.gen <= pull'[n]
        BY <2>17, <3>1, <4>1
      <4>3. QED
        BY <1>1, <2>1, <2>8, <2>11, <3>1, <4>2 DEF LoopOK, Passing, Passed
    <3>2. CASE next.pc = "check" /\ proc[p].at = Namespaces
      <4>1. \A n \in 1..Namespaces : proc[p].snap.gen <= pull'[n]
        BY <2>17, <3>2, NamespacesAssumption
      <4>2. QED
        BY <1>1, <2>1, <2>8, <2>11, <3>2, <4>1 DEF LoopOK, Passing, Passed
    <3>3. QED
      BY <2>8, <3>1, <3>2
  <2>19. SecretOK'
    <3>1. \A n \in 1..Namespaces : pull'[n] <= secret.gen
      BY <1>1, <2>1, <2>3 DEF SecretOK
    <3>2. ASSUME secret.phase = "Ready", NEW n \in 1..Namespaces
          PROVE  pull'[n] = secret.gen
      <4>1. pull[n] = secret.gen /\ pull[n] <= pull'[n] /\ pull'[n] <= secret.gen
        BY <1>1, <2>4, <3>1, <3>2 DEF SecretOK
      <4>2. QED
        BY <1>2, <2>4, <4>1
    <3>3. QED
      BY <1>1, <3>1, <3>2 DEF SecretOK
  <2>20. ASSUME NEW r \in Requests
         PROVE  RequestOK(r)'
    <3>1. r \in Procs /\ RequestOK(r)
      BY <1>1 DEF Procs
    <3>2. \A q \in Procs : proc'[q].snap = proc[q].snap
      BY <2>8, <2>10, <2>11
    <3>3. proc'[r].pc \in Asking => proc[r].pc \in Asking
      BY <2>8, <2>10, <2>11, <3>1 DEF Asking
    <3>4. ops[r] = "Applied" => made[r] # 0 /\ \A n \in 1..Namespaces : made[r] <= pull'[n]
      BY <1>2, <2>4, <3>1 DEF RequestOK
    <3>5. QED
      BY <1>1, <3>1, <3>2, <3>3, <3>4 DEF RequestOK
  <2>21. RegistryInv'
    BY <2>12, <2>15, <2>16, <2>18, <2>19, <2>20 DEF RegistryInv
  <2>22. QED
    BY <2>4, <2>21
<1>5. QED
  BY <1>3, <1>4

\* A success is recorded when every namespace carries the generation.
LEMMA RecordSuccessStep ==
    ASSUME RegistryInv, NEW p \in Procs, RecordSuccess(p)
    PROVE  RegistryInv'
<1>1. /\ RegistryTypeOK /\ proc[p] \in Process /\ proc[p].snap \in Snap
      /\ LoopOK(p) /\ FreshOK(p) /\ OpOK(p) /\ \A r \in Requests : RequestOK(r)
      /\ UNCHANGED <<secret, pull, env, redeemed, made>> /\ proc[p].pc = "success"
      /\ Result(proc[p].snap, "succeeded") /\ Goes(p, "finish")
  BY Numbers DEF RecordSuccess, RegistryInv, RegistryTypeOK
<1>2. [proc[p] EXCEPT !.pc = "finish"] \in Process
  BY <1>1 DEF Process
<1>3. /\ proc' \in [Procs -> Process]
      /\ \A q \in Procs : q # p => proc'[q] = proc[q]
      /\ proc'[p].pc = "finish" /\ proc'[p].fresh = proc[p].fresh /\ proc'[p].snap = proc[p].snap
      /\ proc'[p].at = proc[p].at /\ proc'[p].old = proc[p].old
  BY <1>1, <1>2, GoesEffect
<1>4. /\ ops' \in [Requests -> {"none", "Authorized", "Applied", "Unknown", "Reconciling"}]
      /\ recorded' \subseteq Generations \X {"accepted", "succeeded", "failed", "unknown"}
      /\ \A r \in Requests : ops'[r] = "none" => ops[r] = "none"
      /\ \A r \in Requests : ops'[r] = "Applied" => ops[r] = "Applied" \/ proc[p].snap.op = r
  BY <1>1, ResultEffect
<1>5. RegistryTypeOK' /\ QuietStep(p)
  BY <1>1, <1>3, <1>4 DEF RegistryTypeOK, QuietStep
<1>6. FreshOK(p)' /\ LoopOK(p)' /\ OpOK(p)'
  BY <1>1, <1>3 DEF FreshOK, LoopOK, OpOK, Asking, Starting, Polling, Presenting, Propagating, Passing, Passed, Available
<1>7. ASSUME NEW r \in Requests, ops'[r] = "Applied"
      PROVE  made[r] # 0 /\ \A n \in 1..Namespaces : made[r] <= pull[n]
  <2>1. CASE ops[r] = "Applied"
    BY <1>1, <2>1 DEF RequestOK
  <2>2. CASE proc[p].snap.op = r
    <3>1. made[r] \in 1..proc[p].snap.gen /\ \A n \in 1..Namespaces : proc[p].snap.gen <= pull[n]
      BY <1>1, <2>2 DEF OpOK, LoopOK, Propagating, Passed
    <3>2. proc[p].snap.gen \in Nat /\ \A n \in 1..Namespaces : pull[n] \in Nat
      BY <1>1, Numbers
    <3>3. QED
      BY <3>1, <3>2
  <2>3. QED
    BY <1>4, <1>7, <2>1, <2>2
<1>8. proc'[p].pc \notin Asking /\ proc'[p].snap.op \in {proc[p].snap.op, secret.op, NoRequest}
  BY <1>3 DEF Asking
<1>9. QED
  BY <1>5, <1>6, <1>7, <1>8, QuietOK

\* The connection is Ready when its propagation ends on the Secret it began with.
LEMMA FinishPropagationStep ==
    ASSUME RegistryInv, NEW p \in Procs, FinishPropagation(p)
    PROVE  RegistryInv'
<1>1. /\ RegistryTypeOK /\ secret \in Secret /\ SecretOK /\ FreshOK(p) /\ LoopOK(p)
      /\ UNCHANGED <<pull, ops, recorded, redeemed, made>> /\ proc[p].pc = "finish"
  BY DEF FinishPropagation, RegistryInv, RegistryTypeOK
<1>2. PICK phase : phase = IF secret.cred = "none" THEN "Anonymous" ELSE "Ready"
  OBVIOUS
<1>3. PICK s : s = [secret EXCEPT !.phase = phase, !.work = "none", !.pending = FALSE, !.op = NoRequest, !.rot = 0, !.seen = TRUE]
  OBVIOUS
<1>4. phase \in Phases /\ 0 \in Generations
  BY <1>2, MaxCredentialAssumption DEF Phases, Generations
<1>5. s \in Secret /\ s.op = NoRequest /\ s.gen = secret.gen /\ s.pending = FALSE
  BY <1>1, <1>3, <1>4 DEF Secret, Works
<1>6. ASSUME proc[p].fresh, secret' = s
      PROVE  SecretOK'
  <2>1. \A n \in 1..Namespaces : pull[n] = secret.gen
    <3>1. proc[p].snap.gen = secret.gen /\ \A n \in 1..Namespaces : proc[p].snap.gen <= pull[n] /\ pull[n] <= secret.gen
      BY <1>1, <1>6 DEF FreshOK, LoopOK, SecretOK, Passed
    <3>2. secret.gen \in Nat /\ \A n \in 1..Namespaces : pull[n] \in Nat
      BY <1>1, Numbers
    <3>3. QED
      BY <3>1, <3>2
  <2>2. QED
    BY <1>1, <1>5, <1>6, <2>1, NoRequestAssumption DEF SecretOK
<1>7. Swap(p, s, Idle) /\ secret.gen <= s.gen
  BY <1>1, <1>2, <1>3, <1>5, Numbers DEF FinishPropagation
<1>8. QED
  BY <1>1, <1>5, <1>6, <1>7, SwapAndEnd

-----------------------------------------------------------------------------
(* Failures, and what is around the processes.                             *)

\* A call that fails leaves the work to be recorded.
LEMMA CallFailsStep ==
    ASSUME RegistryInv, NEW p \in Procs, CallFails(p)
    PROVE  RegistryInv'
<1>1. /\ RegistryTypeOK /\ proc[p] \in Process /\ env \in Surroundings /\ redeemed \in [Generations -> Nat]
      /\ UNCHANGED <<secret, pull, ops, recorded, env, redeemed, made>>
  BY DEF CallFails, RegistryInv, RegistryTypeOK
<1>2. [proc[p] EXCEPT !.pc = "lost"] \in Process /\ [proc[p] EXCEPT !.pc = "failed"] \in Process
  BY <1>1 DEF Process
<1>3. CASE Goes(p, "lost")
  BY <1>1, <1>2, <1>3, QuietGo
<1>4. CASE Goes(p, "failed") /\ proc[p].pc \in {"propagate", "get", "put", "check"}
  <2>1. proc[p].pc \in Propagating
    BY <1>4 DEF Propagating
  <2>2. QED
    BY <1>1, <1>2, <1>4, <2>1, QuietGo
<1>5. QED
  BY <1>3, <1>4 DEF CallFails

\* A failure is recorded, or left to be found as interrupted work.
LEMMA RecordFailureStep ==
    ASSUME RegistryInv, NEW p \in Procs, RecordFailure(p)
    PROVE  RegistryInv'
<1>1. /\ RegistryTypeOK /\ proc[p] \in Process /\ proc[p].snap \in Snap /\ env \in Surroundings /\ redeemed \in [Generations -> Nat]
      /\ UNCHANGED <<secret, pull, env, redeemed, made>> /\ proc[p].pc \in {"lost", "failed"}
  BY Numbers DEF RecordFailure, RegistryInv, RegistryTypeOK
<1>2. CASE Ends(p) /\ UNCHANGED <<ops, recorded>>
  BY <1>1, <1>2, QuietEnd
<1>3. CASE /\ Result(proc[p].snap, IF proc[p].pc = "lost" THEN "unknown" ELSE "failed")
           /\ Goes(p, IF proc[p].pc = "lost" THEN "reauthorize" ELSE "degrade")
  <2>1. [proc[p] EXCEPT !.pc = "reauthorize"] \in Process /\ [proc[p] EXCEPT !.pc = "degrade"] \in Process
    BY <1>1 DEF Process
  <2>2. CASE proc[p].pc = "lost"
    BY <1>1, <1>3, <2>1, <2>2, QuietGo
  <2>3. CASE proc[p].pc = "failed"
    BY <1>1, <1>3, <2>1, <2>3, QuietGo
  <2>4. QED
    BY <1>1, <2>2, <2>3
<1>4. QED
  BY <1>2, <1>3 DEF RecordFailure

\* A propagation that failed is tried again for the same request.
LEMMA SettleFailureStep ==
    ASSUME RegistryInv, NEW p \in Procs, SettleFailure(p)
    PROVE  RegistryInv'
<1>1. /\ RegistryTypeOK /\ secret \in Secret /\ SecretOK /\ FreshOK(p)
      /\ UNCHANGED <<pull, ops, recorded, redeemed, made>> /\ proc[p].pc \in {"reauthorize", "degrade"}
  BY DEF SettleFailure, RegistryInv, RegistryTypeOK
<1>2. PICK phase, op : /\ phase = IF proc[p].pc = "reauthorize" THEN "ReauthorizationRequired" ELSE "Degraded"
                       /\ op = IF proc[p].pc = "reauthorize" THEN NoRequest ELSE secret.op
  OBVIOUS
<1>3. PICK s : s = [secret EXCEPT !.phase = phase, !.work = "none", !.pending = FALSE, !.op = op]
  OBVIOUS
<1>4. phase \in Phases /\ phase # "Ready" /\ op \in Requests \cup {NoRequest} /\ op \in {secret.op, NoRequest}
  BY <1>1, <1>2 DEF Phases, Secret
<1>5. s \in Secret /\ s.op = op /\ s.gen = secret.gen /\ s.phase = phase /\ s.pending = FALSE /\ s.work = "none"
  BY <1>1, <1>3, <1>4 DEF Secret, Works
<1>6. ASSUME proc[p].fresh, secret' = s
      PROVE  SecretOK'
  <2>1. CASE proc[p].pc = "reauthorize"
    BY <1>1, <1>2, <1>4, <1>5, <1>6, <2>1, NoRequestAssumption DEF SecretOK
  <2>2. CASE proc[p].pc = "degrade"
    <3>1. ~ secret.pending /\ secret.work = "propagate"
      BY <1>1, <1>6, <2>2 DEF FreshOK
    <3>2. op = secret.op
      BY <1>2, <2>2
    <3>3. QED
      BY <1>1, <1>4, <1>5, <1>6, <3>1, <3>2 DEF SecretOK
  <2>3. QED
    BY <1>1, <2>1, <2>2
<1>7. Swap(p, s, Idle) /\ secret.gen <= s.gen
  <2>1. Swap(p, s, Idle)
    BY <1>2, <1>3 DEF SettleFailure
  <2>2. QED
    BY <1>1, <1>5, <2>1, Numbers
<1>8. QED
  BY <1>1, <1>4, <1>5, <1>6, <1>7, SwapAndEnd

\* A process that stops takes nothing with it.
LEMMA StopStep ==
    ASSUME RegistryInv, NEW p \in Procs, Stop(p)
    PROVE  RegistryInv'
<1>1. /\ RegistryTypeOK /\ env \in Surroundings /\ redeemed \in [Generations -> Nat] /\ Ends(p)
      /\ UNCHANGED <<secret, pull, ops, recorded, redeemed, made>>
  BY DEF Stop, RegistryInv, RegistryTypeOK
<1>2. env' \in Surroundings
  BY <1>1 DEF Stop, Surroundings
<1>3. QED
  BY <1>1, <1>2, QuietEnd

\* The clock, a release, a session that ends, and a step that changes nothing.
LEMMA SurroundingsStep ==
    ASSUME RegistryInv, \/ RefreshComesDue \/ ObservationAges \/ WorkAges \/ ReleaseChanges \/ AuthorityLapses
                        \/ UNCHANGED registryVars
    PROVE  RegistryInv' /\ pull' = pull
<1>1. RegistryTypeOK /\ env \in Surroundings /\ secret \in Secret
  BY DEF RegistryInv, RegistryTypeOK
<1>2. UNCHANGED <<pull, ops, recorded, proc, redeemed, made>>
  BY DEF RefreshComesDue, ObservationAges, WorkAges, ReleaseChanges, AuthorityLapses, registryVars
<1>3. env' \in Surroundings
  <2>1. CASE env' = env
    BY <1>1, <2>1
  <2>2. CASE RefreshComesDue \/ WorkAges \/ AuthorityLapses
    BY <1>1, <2>2 DEF RefreshComesDue, WorkAges, AuthorityLapses, Surroundings
  <2>3. CASE ReleaseChanges
    BY <1>1, <2>3 DEF ReleaseChanges, Surroundings
  <2>4. QED
    BY <2>1, <2>2, <2>3 DEF ObservationAges, registryVars
<1>4. secret' \in Secret /\ SameClaim
  <2>1. CASE secret' = secret
    BY <1>1, <2>1 DEF SameClaim
  <2>2. CASE ObservationAges
    BY <1>1, <2>2 DEF ObservationAges, Secret, SameClaim
  <2>3. QED
    BY <2>1, <2>2 DEF RefreshComesDue, WorkAges, ReleaseChanges, AuthorityLapses, registryVars
<1>5. RegistryTypeOK'
  BY <1>1, <1>2, <1>3, <1>4 DEF RegistryTypeOK
<1>6. ASSUME NEW q \in Procs
      PROVE  FreshOK(q)' /\ LoopOK(q)' /\ OpOK(q)'
  BY <1>2, <1>4 DEF RegistryInv, SameClaim, FreshOK, LoopOK, OpOK, Available
<1>7. SecretOK'
  BY <1>2, <1>4 DEF RegistryInv, SameClaim, SecretOK
<1>8. ASSUME NEW r \in Requests
      PROVE  RequestOK(r)'
  BY <1>2, <1>4 DEF RegistryInv, SameClaim, RequestOK
<1>9. QED
  BY <1>2, <1>5, <1>6, <1>7, <1>8 DEF RegistryInv

-----------------------------------------------------------------------------
(* Theorems about propagation.                                             *)

\* At the start every namespace carries the one generation there is.
LEMMA RegistryInit ==
    ASSUME NEW sc \in RegistryScenes, RegistryStart(sc)
    PROVE  RegistryInv /\ RefreshInv
<1>1. sc \in [cred : Credentials, requests : SUBSET Requests, faults : SUBSET Faults]
  BY RegistryScenesAssumption
<1>2. 0 \in Generations /\ 1 \in 1..MaxCredential /\ 1 \in Nat
  BY MaxCredentialAssumption DEF Generations
<1>3. /\ secret \in Secret /\ secret.gen = 1 /\ secret.op = NoRequest /\ secret.phase # "Ready"
      /\ secret.pending = FALSE /\ secret.work = "none"
  BY <1>1, <1>2 DEF RegistryStart, Secret, Phases, Works
<1>4. \A q \in Procs : proc[q] = Idle
  BY DEF RegistryStart
<1>5. /\ pull \in [1..Namespaces -> 1..MaxCredential] /\ \A n \in 1..Namespaces : pull[n] = 1
  BY <1>2 DEF RegistryStart
<1>6. env \in Surroundings
  BY <1>1 DEF RegistryStart, Surroundings
<1>7. /\ redeemed \in [Generations -> Nat] /\ (\A g \in Generations : redeemed[g] = 0)
      /\ made \in [Requests -> Generations] /\ \A r \in Requests : made[r] = 0 /\ ops[r] = "none"
  BY <1>2 DEF RegistryStart
<1>8. RegistryTypeOK
  BY <1>3, <1>5, <1>6, <1>7, IdleType DEF RegistryStart, RegistryTypeOK
<1>9. ASSUME NEW q \in Procs
      PROVE  FreshOK(q) /\ LoopOK(q) /\ OpOK(q)
  BY <1>3, <1>4, IdleType DEF FreshOK, LoopOK, OpOK, Passing, Passed, Starting, Propagating
<1>10. SecretOK
  BY <1>3, <1>5, NoRequestAssumption DEF SecretOK
<1>11. ASSUME NEW r \in Requests
       PROVE  RequestOK(r)
  <2>1. r \in Procs /\ r # NoRequest
    BY NoRequestAssumption DEF Procs
  <2>2. QED
    BY <1>3, <1>4, <1>7, <2>1, IdleType DEF RequestOK, Asking
<1>12. RegistryInv
  BY <1>8, <1>9, <1>10, <1>11 DEF RegistryInv
<1>13. secret.gen \in Generations
  BY <1>3, MaxCredentialAssumption DEF Generations
<1>14. RefreshInv
  BY <1>3, <1>4, <1>7, <1>13, IdleType DEF RefreshInv, RefreshOnce, Presenting, Spent
<1>15. QED
  BY <1>12, <1>14

\* Every step of a handler, a tick or the surroundings keeps the invariant.
LEMMA RegistryStep ==
    ASSUME RegistryInv, [RegistryNext]_registryVars
    PROVE  RegistryInv'
<1>1. ASSUME NEW r \in Requests, Handle(r)
      PROVE  RegistryInv'
  BY <1>1, AcceptRequestStep, BeginOAuthStep, AwaitAuthorizationStep, StartFailsStep, GiveUpStartStep,
     ChangeCredentialStep, RejectIntentStep DEF Handle
<1>2. ASSUME NEW p \in Replicas, Tick(p)
      PROVE  RegistryInv'
  <2>1. p \in Procs
    BY DEF Procs
  <2>2. QED
    BY <1>2, <2>1, AdoptImagesStep, RecordInterruptedStep, ReleaseInterruptedStep, ClaimStep, PollStep,
       StorePolledStep, AuditRefreshStep, RedeemStep, StoreRefreshedStep, InspectStep, GetPullStep,
       AssertFenceStep, PutPullStep, CheckPullStep, RecordSuccessStep, FinishPropagationStep,
       CallFailsStep, RecordFailureStep, SettleFailureStep DEF Tick
<1>3. QED
  BY <1>1, <1>2, StopStep, SurroundingsStep DEF RegistryNext

\* The inductive invariant: a fresh process holds the Secret there is, and
\* what a propagation has passed stays passed.
THEOREM RegistryInvariant == RegistrySpec => []RegistryInv
<1>1. (\E sc \in RegistryScenes : RegistryStart(sc)) => RegistryInv
  BY RegistryInit
<1>2. RegistryInv /\ [RegistryNext]_registryVars => RegistryInv'
  BY RegistryStep
<1>3. QED
  BY <1>1, <1>2, PTL DEF RegistrySpec

\* The Secret, the pull Secrets, the operations and the processes keep their shapes.
THEOREM RegistryTypeCorrectness == RegistrySpec => []RegistryTypeOK
<1>1. RegistryInv => RegistryTypeOK
  BY DEF RegistryInv
<1>2. QED
  BY <1>1, RegistryInvariant, PTL

\* A Ready connection is in every namespace; an Applied operation stored its
\* credential, and no namespace carries an older one.
THEOREM RealPropagation == RegistrySpec => []PropagationIsReal
<1>1. RegistryInv => PropagationIsReal
  <2>1. SUFFICES ASSUME RegistryInv PROVE PropagationIsReal
    OBVIOUS
  <2>2. RegistryTypeOK /\ SecretOK /\ \A r \in Requests : RequestOK(r)
    BY <2>1 DEF RegistryInv
  <2>3. ASSUME NEW r \in Requests, ops[r] = "Applied", NEW n \in 1..Namespaces
        PROVE  made[r] # 0 /\ pull[n] >= made[r]
    <3>1. made[r] # 0 /\ made[r] <= pull[n]
      BY <2>2, <2>3 DEF RequestOK
    <3>2. made[r] \in Nat /\ pull[n] \in Nat
      BY <2>2, Numbers
    <3>3. QED
      BY <3>1, <3>2
  <2>4. \A r \in Requests : ops[r] = "Applied" => made[r] # 0
    BY <2>2 DEF RequestOK
  <2>5. QED
    BY <2>2, <2>3, <2>4 DEF PropagationIsReal, SecretOK
<1>2. QED
  BY <1>1, RegistryInvariant, PTL

\* A pull Secret never returns to an older credential, whatever a replica that
\* lost its claim still writes.
THEOREM ForwardPull == RegistrySpec => PullNeverGoesBack
<1>1. ASSUME RegistryInv, [RegistryNext]_registryVars
      PROVE  [\A n \in 1..Namespaces : pull'[n] >= pull[n]]_registryVars
  <2>1. SUFFICES ASSUME RegistryNext, NEW n \in 1..Namespaces
                 PROVE  pull'[n] >= pull[n]
    BY <1>1
  <2>2. RegistryTypeOK /\ pull[n] \in Nat
    BY <1>1, Numbers DEF RegistryInv
  <2>3. CASE pull' = pull
    BY <2>2, <2>3
  <2>4. ASSUME NEW p \in Replicas, PutPull(p)
        PROVE  pull'[n] >= pull[n]
    <3>1. p \in Procs
      BY DEF Procs
    <3>2. RegistryInv' /\ pull[n] <= pull'[n]
      BY <1>1, <2>1, <2>4, <3>1, PutPullStep
    <3>3. pull' \in [1..Namespaces -> 1..MaxCredential]
      BY <3>2 DEF RegistryInv, RegistryTypeOK
    <3>4. pull'[n] \in Nat
      BY <3>3, MaxCredentialAssumption
    <3>5. QED
      BY <2>2, <3>2, <3>4
  <2>5. ASSUME NEW r \in Requests, Handle(r)
        PROVE  pull' = pull
    BY <2>5 DEF Handle, AcceptRequest, BeginOAuth, AwaitAuthorization, StartFails, GiveUpStart, ChangeCredential,
                RejectIntent
  <2>6. ASSUME NEW p \in Replicas, Tick(p), ~ PutPull(p)
        PROVE  pull' = pull
    BY <2>6 DEF Tick, AdoptImages, RecordInterrupted, ReleaseInterrupted, Claim, Poll, StorePolled, AuditRefresh,
                Redeem, StoreRefreshed, Inspect, GetPull, AssertFence, CheckPull, RecordSuccess,
                FinishPropagation, CallFails, RecordFailure, SettleFailure
  <2>7. ASSUME NEW p \in Procs, Stop(p)
        PROVE  pull' = pull
    BY <2>7 DEF Stop
  <2>8. QED
    BY <1>1, <2>1, <2>3, <2>4, <2>5, <2>6, <2>7, SurroundingsStep DEF RegistryNext
<1>2. QED
  BY <1>1, RegistryInvariant, PTL DEF RegistrySpec, PullNeverGoesBack

-----------------------------------------------------------------------------
(* A refresh token is presented once.                                      *)

\* No process comes to present a token.
NobodyNew == \A q \in Procs : proc'[q].pc \in Presenting => /\ proc[q].pc \in Presenting
                                                            /\ proc'[q].snap = proc[q].snap

\* The generation is a new one, or what guards it stays.
GuardStays(s) == \/ s.gen > secret.gen
                 \/ /\ s.gen = secret.gen /\ s.cred = secret.cred
                    /\ Spent =>
                          s.phase = "ReauthorizationRequired" \/ s.work = "refresh" \/ s.pending

\* Steps that present nothing.
LEMMA RefreshFrame ==
    ASSUME RegistryInv, RefreshInv, secret' \in Secret, redeemed' = redeemed, NobodyNew, GuardStays(secret')
    PROVE  RefreshInv'
<1>1. /\ RegistryTypeOK /\ (\A q \in Procs : LoopOK(q)) /\ redeemed \in [Generations -> Nat]
      /\ secret.gen \in Nat /\ (\A q \in Procs : proc[q].snap.gen \in Nat)
  BY Numbers DEF RegistryInv, RegistryTypeOK
<1>2. secret'.gen \in Nat /\ secret'.gen \in Generations
  BY MaxCredentialAssumption DEF Secret, Generations
<1>3. RefreshOnce'
  BY DEF RefreshInv, RefreshOnce
<1>4. \A q, u \in Procs : proc'[q].pc \in Presenting /\ proc'[u].pc \in Presenting /\ proc'[q].snap.gen = proc'[u].snap.gen => q = u
  BY DEF RefreshInv, NobodyNew
<1>5. \A q \in Procs : proc'[q].pc \in Presenting => redeemed'[proc'[q].snap.gen] = 0
  BY DEF RefreshInv, NobodyNew
<1>6. \A g \in Generations : g > secret'.gen => redeemed'[g] = 0
  <2>1. secret.gen <= secret'.gen
    BY <1>1, <1>2 DEF GuardStays
  <2>2. \A g \in Generations : g > secret'.gen => g > secret.gen
    BY <1>1, <1>2, <2>1, MaxCredentialAssumption DEF Generations
  <2>3. QED
    BY <2>2 DEF RefreshInv
<1>7. ASSUME Spent'
      PROVE  secret'.cred = "device" /\ Guarded'
  <2>1. redeemed[secret'.gen] # 0 \/ \E q \in Procs : proc[q].pc \in Presenting /\ proc[q].snap.gen = secret'.gen
    <3>1. redeemed'[secret'.gen] # 0 \/ \E q \in Procs : proc'[q].pc \in Presenting /\ proc'[q].snap.gen = secret'.gen
      BY <1>7 DEF Spent
    <3>2. QED
      BY <3>1 DEF NobodyNew
  <2>2. CASE secret'.gen > secret.gen
    <3>1. redeemed[secret'.gen] = 0
      BY <1>2, <2>2 DEF RefreshInv
    <3>2. \A q \in Procs : proc[q].snap.gen # secret'.gen
      BY <1>1, <1>2, <2>2 DEF LoopOK
    <3>3. QED
      BY <2>1, <3>1, <3>2
  <2>3. CASE /\ secret'.gen = secret.gen /\ secret'.cred = secret.cred
             /\ Spent =>
                   secret'.phase = "ReauthorizationRequired" \/ secret'.work = "refresh" \/ secret'.pending
    <3>1. Spent
      BY <2>1, <2>3 DEF Spent
    <3>2. QED
      BY <2>3, <3>1 DEF RefreshInv, Guarded
  <2>4. QED
    BY <2>2, <2>3 DEF GuardStays
<1>8. QED
  BY <1>3, <1>4, <1>5, <1>6, <1>7 DEF RefreshInv

\* A step that leaves the Secret as it is presents no token.
LEMMA RefreshQuiet ==
    ASSUME RegistryInv, RefreshInv, secret' = secret, redeemed' = redeemed, NobodyNew
    PROVE  RefreshInv'
<1>1. secret \in Secret
  BY DEF RegistryInv, RegistryTypeOK
<1>2. GuardStays(secret')
  BY DEF GuardStays, RefreshInv, Guarded
<1>3. QED
  BY <1>1, <1>2, RefreshFrame

\* One process moves, and not to present a token.
LEMMA NobodyNewGoes ==
    ASSUME RegistryInv, NEW p \in Procs,
           \/ Ends(p)
           \/ \E pc : /\ Goes(p, pc) /\ [proc[p] EXCEPT !.pc = pc] \in Process
                      /\ pc \in Presenting => proc[p].pc \in Presenting
    PROVE  NobodyNew
<1>1. RegistryTypeOK
  BY DEF RegistryInv
<1>2. CASE Ends(p)
  BY <1>1, <1>2, EndsEffect, IdleType DEF NobodyNew, Presenting
<1>3. ASSUME NEW pc, Goes(p, pc), [proc[p] EXCEPT !.pc = pc] \in Process,
             pc \in Presenting => proc[p].pc \in Presenting
      PROVE  NobodyNew
  BY <1>1, <1>3, GoesEffect DEF NobodyNew
<1>4. QED
  BY <1>2, <1>3

\* A write of the Secret by a process that does not present a token.
LEMMA RefreshWrite ==
    ASSUME RegistryInv, RefreshInv, NEW p \in Procs, NEW s \in Secret, NEW next \in Process, Write(p, s, next),
           next.pc \notin Presenting, redeemed' = redeemed, GuardStays(s)
    PROVE  RefreshInv'
<1>1. secret' = s /\ proc'[p] = next /\ Yields(p)
  BY WriteEffect DEF RegistryInv
<1>2. NobodyNew
  BY <1>1 DEF NobodyNew, Yields
<1>3. QED
  BY <1>1, <1>2, RefreshFrame

\* The swap that ends a tick.
LEMMA RefreshSwap ==
    ASSUME RegistryInv, RefreshInv, NEW p \in Procs, NEW s \in Secret, Swap(p, s, Idle),
           redeemed' = redeemed, proc[p].fresh => GuardStays(s)
    PROVE  RefreshInv'
<1>1. CASE ~ proc[p].fresh /\ Ends(p) /\ secret' = secret
  BY <1>1, NobodyNewGoes, RefreshQuiet
<1>2. CASE proc[p].fresh /\ Write(p, s, Idle)
  <2>1. Idle \in Process /\ Idle.pc \notin Presenting
    BY IdleType DEF Presenting
  <2>2. QED
    BY <1>2, <2>1, RefreshWrite
<1>3. QED
  BY <1>1, <1>2 DEF Swap

\* The steps that do not write the Secret, the presentation of a token apart.
LEMMA RefreshQuietSteps ==
    ASSUME RegistryInv, RefreshInv, NEW p \in Procs,
           \/ StartFails(p) \/ RejectIntent(p) \/ AuditRefresh(p)
           \/ AssertFence(p) \/ RecordSuccess(p) \/ CallFails(p) \/ RecordFailure(p) \/ Stop(p)
    PROVE  RefreshInv'
<1>1. secret' = secret /\ redeemed' = redeemed
  BY DEF StartFails, RejectIntent, AuditRefresh, AssertFence, RecordSuccess, CallFails, RecordFailure, Stop
<1>2. proc[p] \in Process
  BY DEF RegistryInv, RegistryTypeOK
<1>3. \/ Ends(p)
      \/ \E pc : /\ Goes(p, pc) /\ pc \in {"startFailed", "redeem", "put", "success", "finish", "lost", "failed",
                                         "reauthorize", "degrade"}
                 /\ pc = "redeem" => proc[p].pc = "refresh"
  BY DEF StartFails, RejectIntent, AuditRefresh, AssertFence, RecordSuccess, CallFails, RecordFailure, Stop
<1>4. NobodyNew
  BY <1>2, <1>3, NobodyNewGoes DEF Presenting, Process
<1>5. QED
  BY <1>1, <1>4, RefreshQuiet

\* So do the steps of a propagation and those that take up a request or interrupted work.
LEMMA RefreshPropagationSteps ==
    ASSUME RegistryInv, RefreshInv, NEW p \in Procs,
           Inspect(p) \/ GetPull(p) \/ PutPull(p) \/ CheckPull(p) \/ RecordInterrupted(p)
    PROVE  RefreshInv'
<1>1. secret' = secret /\ redeemed' = redeemed
  BY DEF Inspect, GetPull, PutPull, CheckPull, RecordInterrupted
<1>2. proc \in [Procs -> Process] /\ proc[p] \in Process /\ LoopOK(p) /\ secret \in Secret
  BY DEF RegistryInv, RegistryTypeOK
<1>3. CASE Inspect(p)
  <2>1. NobodyNew
    BY <1>2, <1>3 DEF Inspect, NobodyNew, Presenting
  <2>2. QED
    BY <1>1, <2>1, RefreshQuiet
<1>4. CASE RecordInterrupted(p)
  <2>1. Holding("interrupted", secret).pc = "interrupted"
    BY <1>2, HoldingType
  <2>2. NobodyNew
    BY <1>2, <1>4, <2>1 DEF RecordInterrupted, NobodyNew, Presenting
  <2>3. QED
    BY <1>1, <2>2, RefreshQuiet
<1>5. CASE GetPull(p) \/ CheckPull(p)
  <2>1. proc[p].at \in 1..Namespaces
    BY <1>2, <1>5 DEF GetPull, CheckPull, LoopOK, Passing
  <2>2. After(proc[p], "get", "check").pc \in {"get", "check"} /\ After(proc[p], "check", "final").pc \in {"check", "final"}
    BY <1>2, <2>1, AfterEffect
  <2>3. NobodyNew
    <3>1. /\ \A q \in Procs : q # p => proc'[q] = proc[q]
          /\ proc'[p].pc \in {"get", "check", "final", "fence", "failed"}
      <4>1. CASE GetPull(p)
        <5>1. CASE pull[proc[p].at] = proc[p].snap.gen
          BY <1>2, <2>2, <4>1, <5>1 DEF GetPull
        <5>2. CASE pull[proc[p].at] # proc[p].snap.gen
          BY <1>2, <4>1, <5>2 DEF GetPull, Process
        <5>3. QED
          BY <5>1, <5>2
      <4>2. CASE CheckPull(p) /\ pull[proc[p].at] = proc[p].snap.gen
        BY <1>2, <2>2, <4>2 DEF CheckPull
      <4>3. CASE CheckPull(p) /\ pull[proc[p].at] # proc[p].snap.gen
        BY <1>2, <4>3 DEF CheckPull, Goes, Process
      <4>4. QED
        BY <1>5, <4>1, <4>2, <4>3
    <3>2. QED
      BY <3>1 DEF NobodyNew, Presenting
  <2>4. QED
    BY <1>1, <2>3, RefreshQuiet
<1>6. CASE PutPull(p)
  <2>1. CASE ~ proc[p].old
    BY <1>1, <1>6, <2>1, NobodyNewGoes, RefreshQuiet DEF PutPull
  <2>2. CASE proc[p].old
    <3>1. proc[p].at \in 1..Namespaces
      BY <1>2, <1>6 DEF PutPull, LoopOK, Passing
    <3>2. PICK here : here = [proc[p] EXCEPT !.old = FALSE]
      OBVIOUS
    <3>3. here \in Process /\ here.at = proc[p].at
      BY <1>2, <3>2 DEF Process
    <3>4. After(here, "get", "check").pc \in {"get", "check"}
      BY <3>1, <3>3, AfterEffect
    <3>5. proc' = [q \in Procs |-> IF q = p THEN After(here, "get", "check")
                                   ELSE [proc[q] EXCEPT !.old = @ /\ proc[q].at # proc[p].at]]
      BY <1>6, <2>2, <3>2 DEF PutPull
    <3>6. ASSUME NEW q \in Procs, q # p
          PROVE  proc'[q].pc = proc[q].pc /\ proc'[q].snap = proc[q].snap
      <4>1. PICK b : b = (proc[q].old /\ proc[q].at # proc[p].at)
        OBVIOUS
      <4>2. proc[q] \in Process /\ proc'[q] = [proc[q] EXCEPT !.old = b]
        BY <1>2, <3>5, <3>6, <4>1
      <4>3. QED
        BY <4>2 DEF Process
    <3>7. proc'[p].pc \in {"get", "check"}
      BY <3>4, <3>5
    <3>8. NobodyNew
      BY <3>6, <3>7 DEF NobodyNew, Presenting
    <3>9. QED
      BY <1>1, <3>8, RefreshQuiet
  <2>3. QED
    BY <2>1, <2>2
<1>7. QED
  BY <1>3, <1>4, <1>5, <1>6

\* A handler does not make the token presentable again, unless a reconnection
\* fails to start while a device credential is connected.
LEMMA RefreshHandle ==
    ASSUME RegistryInv, RefreshInv, NEW r \in Requests, Handle(r),
           GiveUpStart(r) /\ proc[r].fresh => secret.cred # "device"
    PROVE  RefreshInv'
<1>1. /\ r \in Procs /\ secret \in Secret /\ proc \in [Procs -> Process] /\ proc[r] \in Process
      /\ FreshOK(r) /\ secret.gen \in Nat
  BY Numbers DEF RegistryInv, RegistryTypeOK, Procs
<1>2. [Idle EXCEPT !.pc = "reject"] \in Process /\ [Idle EXCEPT !.pc = "reject"].pc = "reject" /\ "reject" \notin Presenting
      /\ [proc[r] EXCEPT !.pc = "reject"] \in Process /\ Idle \in Process /\ Idle.pc \notin Presenting
  BY <1>1, IdleType DEF Process, Presenting
<1>3. CASE AcceptRequest(r)
  <2>1. Holding(Kind[r], secret).pc = Kind[r] /\ Kind[r] \notin Presenting
    <3>1. Kind[r] \in Asking \cup {"start", "interrupted", "device-poll", "refresh", "propagate"} /\ Kind[r] \notin Presenting
      BY KindAssumption DEF Asking, Presenting
    <3>2. QED
      BY <1>1, <3>1, HoldingType
  <2>2. NobodyNew
    BY <1>1, <1>2, <1>3, <2>1 DEF AcceptRequest, NobodyNew
  <2>3. secret' = secret /\ redeemed' = redeemed
    BY <1>3 DEF AcceptRequest
  <2>4. QED
    BY <2>2, <2>3, RefreshQuiet
<1>4. CASE StartFails(r) \/ RejectIntent(r)
  BY <1>1, <1>4, RefreshQuietSteps
<1>5. CASE Goes(r, "reject") /\ secret' = secret /\ redeemed' = redeemed
  BY <1>1, <1>2, <1>5, NobodyNewGoes, RefreshQuiet
<1>6. CASE BeginOAuth(r) /\ proc[r].fresh
  <2>1. PICK s : s = [secret EXCEPT !.op = r, !.work = "device-start"]
    OBVIOUS
  <2>2. proc[r].fresh /\ Write(r, s, Holding("start", s)) /\ proc[r].pc = "oauth" /\ redeemed' = redeemed
    BY <1>6, <2>1 DEF BeginOAuth
  <2>3. /\ s \in Secret /\ s.gen = secret.gen /\ s.cred = secret.cred /\ s.phase = secret.phase
        /\ s.pending = secret.pending
    BY <1>1, <2>1 DEF Secret, Works
  <2>4. Holding("start", s) \in Process /\ Holding("start", s).pc \notin Presenting
    <3>1. Holding("start", s) \in Process /\ Holding("start", s).pc = "start"
      BY <2>3, HoldingType
    <3>2. QED
      BY <3>1 DEF Presenting
  <2>5. secret.work = "none"
    BY <1>1, <2>2 DEF FreshOK, Asking, Available
  <2>6. GuardStays(s)
    BY <2>3, <2>5 DEF GuardStays, RefreshInv, Guarded
  <2>7. QED
    BY <1>1, <2>2, <2>3, <2>4, <2>6, RefreshWrite
<1>7. CASE AwaitAuthorization(r)
  <2>1. PICK s : s = [secret EXCEPT !.work = "none", !.pending = TRUE, !.phase = "AwaitingAuthorization"]
    OBVIOUS
  <2>2. Write(r, s, Idle) /\ redeemed' = redeemed
    BY <1>7, <2>1 DEF AwaitAuthorization
  <2>3. s \in Secret /\ s.gen = secret.gen /\ s.cred = secret.cred /\ s.pending = TRUE
    BY <1>1, <2>1 DEF Secret, Works, Phases
  <2>4. GuardStays(s)
    BY <2>3 DEF GuardStays
  <2>5. QED
    BY <1>1, <1>2, <2>2, <2>3, <2>4, RefreshWrite
<1>8. CASE GiveUpStart(r) /\ proc[r].fresh
  <2>1. PICK phase : phase = IF secret.cred = "none" THEN "ReauthorizationRequired" ELSE "Degraded"
    OBVIOUS
  <2>2. PICK s : s = [secret EXCEPT !.work = "none", !.pending = FALSE, !.op = NoRequest, !.phase = phase]
    OBVIOUS
  <2>3. proc[r].fresh /\ Write(r, s, [Idle EXCEPT !.pc = "reject"]) /\ redeemed' = redeemed
    BY <1>8, <2>1, <2>2 DEF GiveUpStart
  <2>4. phase \in Phases
    BY <2>1 DEF Phases
  <2>5. s \in Secret /\ s.gen = secret.gen /\ s.cred = secret.cred
    BY <1>1, <2>2, <2>4 DEF Secret, Works
  <2>6. ~ Spent
    BY <1>8, <2>3 DEF RefreshInv
  <2>7. GuardStays(s)
    BY <2>5, <2>6 DEF GuardStays
  <2>8. QED
    BY <1>1, <1>2, <2>3, <2>5, <2>7, RefreshWrite
<1>9. CASE ChangeCredential(r) /\ ~ (Goes(r, "reject") /\ secret' = secret)
  <2>1. PICK cred, phase : /\ cred = IF Kind[r] = "remove" THEN "none" ELSE "pat"
                           /\ phase = IF Kind[r] = "remove" THEN "Removing" ELSE "Pending"
    OBVIOUS
  <2>2. PICK s : s = [secret EXCEPT !.cred = cred, !.gen = secret.gen + 1, !.op = r, !.phase = phase, !.seen = FALSE]
    OBVIOUS
  <2>3. /\ secret.gen < MaxCredential /\ redeemed' = redeemed
        /\ Write(r, s, Idle) \/ Write(r, s, [Idle EXCEPT !.pc = "reject"])
    BY <1>9, <2>1, <2>2 DEF ChangeCredential
  <2>4. cred \in Credentials /\ phase \in Phases /\ secret.gen + 1 \in 1..MaxCredential
    BY <1>1, <2>1, <2>3, MaxCredentialAssumption DEF Credentials, Phases, Secret
  <2>5. s \in Secret /\ s.gen = secret.gen + 1
    BY <1>1, <2>2, <2>4 DEF Secret
  <2>6. GuardStays(s)
    BY <1>1, <2>5 DEF GuardStays
  <2>7. QED
    BY <1>1, <1>2, <2>3, <2>5, <2>6, RefreshWrite
<1>10. \/ (BeginOAuth(r) \/ GiveUpStart(r)) /\ ~ proc[r].fresh
       \/ ChangeCredential(r) /\ Goes(r, "reject") /\ secret' = secret
       => Goes(r, "reject") /\ secret' = secret /\ redeemed' = redeemed
  BY DEF BeginOAuth, GiveUpStart, ChangeCredential
<1>11. QED
  BY <1>3, <1>4, <1>5, <1>6, <1>7, <1>8, <1>9, <1>10 DEF Handle
\* A tick that settles its work does not make the token presentable again: it
\* stores a new generation, asks for a new authorization, or was no refresh.
LEMMA RefreshSettles ==
    ASSUME RegistryInv, RefreshInv, NEW p \in Procs,
           \/ ReleaseInterrupted(p) \/ StorePolled(p) \/ StoreRefreshed(p) \/ FinishPropagation(p) \/ SettleFailure(p)
    PROVE  RefreshInv'
<1>1. /\ secret \in Secret /\ FreshOK(p) /\ secret.gen \in Nat /\ redeemed' = redeemed
      /\ proc[p] \in Process
  BY Numbers DEF RegistryInv, RegistryTypeOK, ReleaseInterrupted, StorePolled, StoreRefreshed, FinishPropagation,
                 SettleFailure
<1>2. ASSUME proc[p].fresh, proc[p].pc \in {"granted", "redeemed"}
      PROVE  secret.gen + 1 \in 1..MaxCredential /\ secret.gen \in Generations
  BY <1>1, <1>2, MaxCredentialAssumption DEF FreshOK, Polling, Secret, Generations
<1>3. ASSUME proc[p].fresh, proc[p].pc \in {"finish", "degrade"}
      PROVE  ~ Spent
  BY <1>1, <1>3 DEF FreshOK, Propagating, RefreshInv, Guarded
<1>4. CASE ReleaseInterrupted(p)
  <2>1. PICK s : s = [secret EXCEPT !.phase = "ReauthorizationRequired", !.work = "none", !.pending = FALSE, !.op = NoRequest]
    OBVIOUS
  <2>2. Swap(p, s, Idle)
    BY <1>4, <2>1 DEF ReleaseInterrupted
  <2>3. s \in Secret /\ s.gen = secret.gen /\ s.cred = secret.cred /\ s.phase = "ReauthorizationRequired"
    BY <1>1, <2>1 DEF Secret, Works, Phases
  <2>4. GuardStays(s)
    BY <2>3 DEF GuardStays
  <2>5. QED
    BY <1>1, <2>2, <2>3, <2>4, RefreshSwap
<1>5. ASSUME Ends(p), secret' = secret
      PROVE  RefreshInv'
  BY <1>1, <1>5, NobodyNewGoes, RefreshQuiet
<1>6. CASE StorePolled(p) /\ proc[p].fresh
  <2>1. PICK s : s = [secret EXCEPT !.work = "none", !.pending = FALSE, !.cred = "device", !.gen = secret.gen + 1,
                  !.phase = "Pending", !.seen = FALSE]
    OBVIOUS
  <2>2. Swap(p, s, Idle) /\ proc[p].pc = "granted"
    BY <1>6, <2>1 DEF StorePolled
  <2>3. s \in Secret /\ s.gen = secret.gen + 1
    BY <1>1, <1>2, <1>6, <2>1, <2>2 DEF Secret, Works, Phases, Credentials
  <2>4. GuardStays(s)
    BY <1>1, <2>3 DEF GuardStays
  <2>5. QED
    BY <1>1, <2>2, <2>3, <2>4, RefreshSwap
<1>7. CASE StoreRefreshed(p) /\ proc[p].fresh
  <2>1. PICK s : s = [secret EXCEPT !.work = "none", !.gen = secret.gen + 1, !.rot = secret.gen, !.phase = "Pending",
                         !.seen = FALSE]
    OBVIOUS
  <2>2. Swap(p, s, Idle) /\ proc[p].pc = "redeemed"
    BY <1>7, <2>1 DEF StoreRefreshed
  <2>3. s \in Secret /\ s.gen = secret.gen + 1
    BY <1>1, <1>2, <1>7, <2>1, <2>2 DEF Secret, Works, Phases
  <2>4. GuardStays(s)
    BY <1>1, <2>3 DEF GuardStays
  <2>5. QED
    BY <1>1, <2>2, <2>3, <2>4, RefreshSwap
<1>8. CASE FinishPropagation(p)
  <2>1. PICK phase : phase = IF secret.cred = "none" THEN "Anonymous" ELSE "Ready"
    OBVIOUS
  <2>2. PICK s : s = [secret EXCEPT !.phase = phase, !.work = "none", !.pending = FALSE, !.op = NoRequest, !.rot = 0,
                         !.seen = TRUE]
    OBVIOUS
  <2>3. Swap(p, s, Idle) /\ proc[p].pc = "finish"
    BY <1>8, <2>1, <2>2 DEF FinishPropagation
  <2>4. phase \in Phases /\ 0 \in Generations
    BY <2>1, MaxCredentialAssumption DEF Phases, Generations
  <2>5. s \in Secret /\ s.gen = secret.gen /\ s.cred = secret.cred
    BY <1>1, <2>2, <2>4 DEF Secret, Works
  <2>6. proc[p].fresh => GuardStays(s)
    BY <1>3, <2>3, <2>5 DEF GuardStays
  <2>7. QED
    BY <1>1, <2>3, <2>5, <2>6, RefreshSwap
<1>9. CASE SettleFailure(p)
  <2>1. PICK phase, op : /\ phase = IF proc[p].pc = "reauthorize" THEN "ReauthorizationRequired" ELSE "Degraded"
                         /\ op = IF proc[p].pc = "reauthorize" THEN NoRequest ELSE secret.op
    OBVIOUS
  <2>2. PICK s : s = [secret EXCEPT !.phase = phase, !.work = "none", !.pending = FALSE, !.op = op]
    OBVIOUS
  <2>3. Swap(p, s, Idle) /\ proc[p].pc \in {"reauthorize", "degrade"}
    BY <1>9, <2>1, <2>2 DEF SettleFailure
  <2>4. phase \in Phases /\ op \in Requests \cup {NoRequest}
    BY <1>1, <2>1 DEF Phases, Secret
  <2>5. s \in Secret /\ s.gen = secret.gen /\ s.cred = secret.cred /\ s.phase = phase
    BY <1>1, <2>2, <2>4 DEF Secret, Works
  <2>6. proc[p].fresh => GuardStays(s)
    BY <1>3, <2>1, <2>3, <2>5 DEF GuardStays
  <2>7. QED
    BY <1>1, <2>3, <2>5, <2>6, RefreshSwap
<1>10. QED
  BY <1>4, <1>5, <1>6, <1>7, <1>8, <1>9 DEF StorePolled, StoreRefreshed, Swap

\* A poll that is not answered keeps the authorization it waits for.
LEMMA RefreshPoll ==
    ASSUME RegistryInv, RefreshInv, NEW p \in Procs, Poll(p)
    PROVE  RefreshInv'
<1>1. /\ secret \in Secret /\ FreshOK(p) /\ proc[p] \in Process /\ proc[p].pc = "device-poll" /\ redeemed' = redeemed
  BY DEF RegistryInv, RegistryTypeOK, Poll
<1>2. CASE Goes(p, "granted") /\ secret' = secret
  <2>1. [proc[p] EXCEPT !.pc = "granted"] \in Process /\ "granted" \notin Presenting
    BY <1>1 DEF Process, Presenting
  <2>2. QED
    BY <1>1, <1>2, <2>1, NobodyNewGoes, RefreshQuiet
<1>3. CASE Swap(p, [secret EXCEPT !.work = "none"], Idle)
  <2>1. PICK s : s = [secret EXCEPT !.work = "none"]
    OBVIOUS
  <2>2. s \in Secret /\ s.gen = secret.gen /\ s.cred = secret.cred /\ s.pending = secret.pending
    BY <1>1, <2>1 DEF Secret, Works
  <2>3. proc[p].fresh => GuardStays(s)
    BY <1>1, <2>2 DEF FreshOK, Polling, GuardStays
  <2>4. QED
    BY <1>1, <1>3, <2>1, <2>2, <2>3, RefreshSwap
<1>4. QED
  BY <1>2, <1>3 DEF Poll

\* Adopting the release images leaves a connection that has to be authorized again as it is.
LEMMA RefreshAdopt ==
    ASSUME RegistryInv, RefreshInv, NEW p \in Procs, AdoptImages(p)
    PROVE  RefreshInv'
<1>1. /\ secret \in Secret /\ proc \in [Procs -> Process] /\ redeemed' = redeemed
      /\ secret.work = "none" /\ ~ secret.pending
  BY DEF RegistryInv, RegistryTypeOK, AdoptImages
<1>2. PICK phase : phase = IF secret.phase = "ReauthorizationRequired" THEN secret.phase
                           ELSE IF secret.cred # "none" THEN "Pending" ELSE "Anonymous"
  OBVIOUS
<1>3. secret' = [secret EXCEPT !.seen = FALSE, !.phase = phase] /\ phase \in Phases
  BY <1>1, <1>2 DEF AdoptImages, Secret, Phases
<1>4. secret' \in Secret /\ secret'.gen = secret.gen /\ secret'.cred = secret.cred /\ secret'.phase = phase
  BY <1>1, <1>3 DEF Secret
<1>5. GuardStays(secret')
  BY <1>1, <1>2, <1>4 DEF GuardStays, RefreshInv, Guarded
<1>6. NobodyNew
  <2>1. ASSUME NEW q \in Procs
        PROVE  proc'[q].pc = proc[q].pc /\ proc'[q].snap = proc[q].snap
    <3>1. proc[q] \in Process /\ proc'[q] = [proc[q] EXCEPT !.fresh = FALSE]
      BY <1>1 DEF AdoptImages
    <3>2. QED
      BY <3>1 DEF Process
  <2>2. QED
    BY <2>1 DEF NobodyNew
<1>7. QED
  BY <1>1, <1>4, <1>5, <1>6, RefreshFrame

\* A claim for a refresh finds the token of the generation unspent, and marks
\* the Secret before anything is presented.
LEMMA RefreshClaim ==
    ASSUME RegistryInv, RefreshInv, NEW p \in Procs, Claim(p)
    PROVE  RefreshInv'
<1>1. /\ proc[p].pc = "idle" /\ RegistryTypeOK /\ secret \in Secret /\ secret.work = "none"
      /\ secret.phase # "ReauthorizationRequired" /\ redeemed' = redeemed /\ redeemed \in [Generations -> Nat]
  BY DEF Claim, RegistryInv, RegistryTypeOK
<1>2. PICK kind : kind = IF secret.pending THEN "device-poll" ELSE IF RefreshDue THEN "refresh" ELSE "propagate"
  OBVIOUS
<1>3. kind \in {"device-poll", "refresh", "propagate"}
  BY <1>2
<1>4. PICK s : s = [secret EXCEPT !.work = kind]
  OBVIOUS
<1>5. /\ s \in Secret /\ s.work = kind /\ s.gen = secret.gen /\ s.phase = secret.phase
      /\ s.pending = secret.pending /\ s.cred = secret.cred
  BY <1>1, <1>3, <1>4 DEF Secret, Works
<1>6. PICK next : next = Holding(kind, s)
  OBVIOUS
<1>7. next \in Process /\ next.pc = kind /\ next.snap.gen = s.gen
  BY <1>3, <1>5, <1>6, HoldingType
<1>8. Write(p, s, next)
  BY <1>2, <1>4, <1>6 DEF Claim
<1>9. CASE kind # "refresh"
  <2>1. GuardStays(s)
    BY <1>1, <1>5 DEF GuardStays, RefreshInv, Guarded
  <2>2. next.pc \notin Presenting
    BY <1>3, <1>7, <1>9 DEF Presenting
  <2>3. QED
    BY <1>1, <1>5, <1>7, <1>8, <2>1, <2>2, RefreshWrite
<1>10. CASE kind = "refresh"
  <2>1. ~ secret.pending /\ secret.cred = "device"
    BY <1>2, <1>10 DEF RefreshDue
  <2>2. ~ Spent
    BY <1>1, <2>1 DEF RefreshInv, Guarded
  <2>3. secret' = s /\ proc'[p] = next /\ Yields(p)
    BY <1>1, <1>5, <1>7, <1>8, WriteEffect
  <2>4. redeemed[secret.gen] = 0 /\ \A q \in Procs : proc[q].pc \in Presenting => proc[q].snap.gen # secret.gen
    BY <2>2 DEF Spent
  <2>5. \A q \in Procs : q # p => proc'[q].pc = proc[q].pc /\ proc'[q].snap = proc[q].snap
    BY <2>3 DEF Yields
  <2>6. RefreshOnce' /\ \A g \in Generations : g > secret'.gen => redeemed'[g] = 0
    BY <1>1, <1>5, <2>3 DEF RefreshInv, RefreshOnce
  <2>7. \A q \in Procs : proc'[q].pc \in Presenting => redeemed'[proc'[q].snap.gen] = 0
    BY <1>1, <1>5, <1>7, <2>3, <2>4, <2>5 DEF RefreshInv
  <2>8. \A q, u \in Procs : proc'[q].pc \in Presenting /\ proc'[u].pc \in Presenting /\ proc'[q].snap.gen = proc'[u].snap.gen => q = u
    BY <1>5, <1>7, <2>3, <2>4, <2>5 DEF RefreshInv
  <2>9. secret'.cred = "device" /\ Guarded'
    BY <1>5, <1>10, <2>1, <2>3 DEF Guarded
  <2>10. QED
    BY <2>6, <2>7, <2>8, <2>9 DEF RefreshInv
<1>11. QED
  BY <1>9, <1>10

\* The process that presents a token is the only one to do so, and the first.
LEMMA RefreshRedeem ==
    ASSUME RegistryInv, RefreshInv, NEW p \in Procs, Redeem(p)
    PROVE  RefreshInv'
<1>1. /\ RegistryTypeOK /\ proc \in [Procs -> Process] /\ proc[p] \in Process /\ proc[p].pc = "redeem"
      /\ proc[p].snap.gen \in Generations /\ redeemed \in [Generations -> Nat] /\ secret' = secret
      /\ redeemed' = [redeemed EXCEPT ![proc[p].snap.gen] = redeemed[proc[p].snap.gen] + 1]
      /\ (\A q \in Procs : LoopOK(q)) /\ secret \in Secret /\ secret.gen \in Nat
      /\ \A q \in Procs : proc[q].snap.gen \in Generations
  BY Numbers DEF Redeem, RegistryInv, RegistryTypeOK, Process, Snap
<1>2. p \in Procs /\ proc[p].pc \in Presenting
  BY <1>1 DEF Presenting
<1>3. redeemed[proc[p].snap.gen] = 0
  BY <1>2 DEF RefreshInv
<1>4. /\ redeemed'[proc[p].snap.gen] = 1
      /\ \A g \in Generations : g # proc[p].snap.gen => redeemed'[g] = redeemed[g]
  BY <1>1, <1>3
<1>5. PICK pc \in {"redeemed", "lost"} : Goes(p, pc)
  BY DEF Redeem
<1>6. [proc[p] EXCEPT !.pc = pc] \in Process /\ pc \notin Presenting
  BY <1>1 DEF Process, Presenting
<1>7. proc'[p].pc = pc /\ \A q \in Procs : q # p => proc'[q] = proc[q]
  BY <1>1, <1>5, <1>6, GoesEffect
<1>8. \A q \in Procs : proc'[q].pc \in Presenting =>
          q # p /\ proc'[q] = proc[q] /\ proc[q].snap.gen # proc[p].snap.gen
  BY <1>2, <1>6, <1>7 DEF RefreshInv
<1>9. RefreshOnce'
  BY <1>1, <1>4 DEF RefreshInv, RefreshOnce
<1>10. \A q \in Procs : proc'[q].pc \in Presenting => redeemed'[proc'[q].snap.gen] = 0
  BY <1>1, <1>4, <1>8 DEF RefreshInv
<1>11. \A q, u \in Procs : proc'[q].pc \in Presenting /\ proc'[u].pc \in Presenting /\ proc'[q].snap.gen = proc'[u].snap.gen => q = u
  BY <1>8 DEF RefreshInv
<1>12. \A g \in Generations : g > secret'.gen => redeemed'[g] = 0
  <2>1. proc[p].snap.gen <= secret.gen
    BY <1>1 DEF LoopOK
  <2>2. \A g \in Generations : g > secret.gen => g # proc[p].snap.gen
    BY <1>1, <2>1, MaxCredentialAssumption DEF Generations
  <2>3. QED
    BY <1>1, <1>4, <2>2 DEF RefreshInv
<1>13. ASSUME Spent'
       PROVE  secret'.cred = "device" /\ Guarded'
  <2>1. secret.gen \in Generations
    BY <1>1, MaxCredentialAssumption DEF Secret, Generations
  <2>2. redeemed'[secret.gen] # 0 \/ \E q \in Procs : proc'[q].pc \in Presenting /\ proc'[q].snap.gen = secret.gen
    BY <1>1, <1>13 DEF Spent
  <2>3. Spent
    BY <1>1, <1>2, <1>4, <1>8, <2>1, <2>2 DEF Spent
  <2>4. QED
    BY <1>1, <2>3 DEF RefreshInv, Guarded
<1>14. QED
  BY <1>9, <1>10, <1>11, <1>12, <1>13 DEF RefreshInv

\* Time and releases present nothing.
LEMMA RefreshSurroundings ==
    ASSUME RegistryInv, RefreshInv,
           \/ RefreshComesDue \/ ObservationAges \/ WorkAges \/ ReleaseChanges \/ AuthorityLapses
           \/ UNCHANGED registryVars
    PROVE  RefreshInv'
<1>1. secret \in Secret /\ UNCHANGED <<proc, redeemed>>
  BY DEF RegistryInv, RegistryTypeOK, RefreshComesDue, ObservationAges, WorkAges, ReleaseChanges, AuthorityLapses, registryVars
<1>2. NobodyNew
  BY <1>1 DEF NobodyNew
<1>3. CASE secret' = secret
  BY <1>1, <1>2, <1>3, RefreshQuiet
<1>4. CASE ObservationAges
  <2>1. /\ secret' \in Secret /\ secret'.gen = secret.gen /\ secret'.cred = secret.cred /\ secret'.phase = secret.phase
        /\ secret'.work = secret.work /\ secret'.pending = secret.pending
    BY <1>1, <1>4 DEF ObservationAges, Secret
  <2>2. GuardStays(secret')
    BY <2>1 DEF GuardStays, RefreshInv, Guarded
  <2>3. QED
    BY <1>1, <1>2, <2>1, <2>2, RefreshFrame
<1>5. QED
  BY <1>3, <1>4 DEF RefreshComesDue, WorkAges, ReleaseChanges, AuthorityLapses, registryVars

\* Every step keeps what guards a token that was presented.
LEMMA RefreshStep ==
    ASSUME RegistryInv, RefreshInv, [RegistryNext]_registryVars,
           \A r \in Requests : GiveUpStart(r) /\ proc[r].fresh => secret.cred # "device"
    PROVE  RefreshInv'
<1>1. ASSUME NEW r \in Requests, Handle(r)
      PROVE  RefreshInv'
  BY <1>1, RefreshHandle
<1>2. ASSUME NEW p \in Replicas, Tick(p)
      PROVE  RefreshInv'
  <2>1. p \in Procs
    BY DEF Procs
  <2>2. QED
    BY <1>2, <2>1, RefreshAdopt, RefreshClaim, RefreshPoll, RefreshRedeem, RefreshSettles, RefreshQuietSteps,
       RefreshPropagationSteps DEF Tick
<1>3. ASSUME NEW p \in Procs, Stop(p)
      PROVE  RefreshInv'
  BY <1>3, RefreshQuietSteps
<1>4. QED
  BY <1>1, <1>2, <1>3, RefreshSurroundings DEF RegistryNext

\* A refresh token is presented once, whatever stops, is lost or is taken over
\* between the claim and the swap, as long as no reconnection fails to start
\* while a device credential is connected: that failure takes back the mark
\* that a lost refresh left (GiveUpStart).
THEOREM PresentedOnce == RegistrySpec /\ ReconnectionsStart => []RefreshOnce
<1>1. (\E sc \in RegistryScenes : RegistryStart(sc)) => RefreshInv
  BY RegistryInit
<1>2. /\ RegistryInv /\ RefreshInv /\ [RegistryNext]_registryVars
      /\ [\A r \in Requests : GiveUpStart(r) /\ proc[r].fresh => secret.cred # "device"]_registryVars
      => RefreshInv'
  <2>1. SUFFICES ASSUME RegistryInv, RefreshInv, [RegistryNext]_registryVars,
                        [\A r \in Requests : GiveUpStart(r) /\ proc[r].fresh => secret.cred # "device"]_registryVars
                 PROVE  RefreshInv'
    OBVIOUS
  <2>2. CASE UNCHANGED registryVars
    BY <2>1, <2>2, RefreshSurroundings
  <2>3. CASE \A r \in Requests : GiveUpStart(r) /\ proc[r].fresh => secret.cred # "device"
    BY <2>1, <2>3, RefreshStep
  <2>4. QED
    BY <2>1, <2>2, <2>3
<1>3. RefreshInv => RefreshOnce
  BY DEF RefreshInv
<1>4. QED
  BY <1>1, <1>2, <1>3, RegistryInvariant, PTL DEF RegistrySpec, ReconnectionsStart
=============================================================================
