---------------------- MODULE ExtensionLifecycle_proofs ----------------------
(***************************************************************************)
(* Proofs about the lifecycle reconciler and the management calls, for any *)
(* releases, reconcilers, calls and scenes.                                *)
(*                                                                         *)
(* A pass acts long after it read; the invariant says what it may still    *)
(* rely on.  Its reading of the Registration is true while it is fresh.    *)
(* A plan that is about to be served was verified.  And with one           *)
(* reconciler, from the move of the stable Service to the end of the       *)
(* cleanup: the Service selects what the pass chose, nothing it selects is *)
(* to be deleted, and a removal still has every revision that exists on    *)
(* its list.  While a Registration that nobody has written again is being  *)
(* deleted, every pass of that reconciler is one that removes.             *)
(***************************************************************************)
EXTENDS ExtensionLifecycle, FiniteSetTheorems, TLAPS

Planned == {"apply", "rest", "rollout", "verify", "serve", "unserve", "cleanup", "delete"}
Building == {"apply", "rest", "rollout", "verify"}

\* What a pass knows of its own plan.
PlanFits(p) ==
    /\ p.pc \in Planned => p.plan \in Releases
    /\ p.pc \in Building => p.desired # "Uninstalled"
    /\ (p.pc = "serve" /\ p.desired # "Uninstalled") => p.plan \notin scene.bad

\* What a pass, or a call, read of the Registration and believes fresh.
ReadingFits(p) == p.fresh => reg # NoReg /\ p.status = reg.status /\ p.desired = reg.desired

\* Where the stable Service points after MoveService of this pass.
Chosen(p) == IF p.desired \in {"Disabled", "Uninstalled"} THEN NoRelease ELSE p.plan

\* With one reconciler nobody else moves the Service or adds a revision; the
\* Service may still vanish after a deletion that an earlier pass asked for.
CleanupFits(p) ==
    /\ p.pc \in {"cleanup", "delete"} => active \in {Chosen(p), NoRelease}
    /\ p.pc = "delete" => p.doomed \cap Retained(p.desired, p.plan) = {}
    /\ (p.pc = "delete" /\ p.desired = "Uninstalled") =>
          \A r \in Releases : made[r] # "none" => r \in p.doomed

PassesFit ==
    \A c \in Reconcilers :
        /\ PlanFits(pass[c])
        /\ ReadingFits(pass[c])
        /\ c \notin scene.reconcilers => pass[c].pc = "idle"
        /\ Alone => CleanupFits(pass[c])

\* An outcome that agrees with what the call k wrote.
Truthful(outcome, k) ==
    /\ outcome = "failed" => k.wrote = {}
    /\ outcome = "succeeded" =>
          k.wrote = {"registration"} \cup IF k.ask = "rollback" THEN {"package"} ELSE {}

\* How far a call got, and what it wrote until then.
Tells(k) ==
    /\ k.pc = "new" => k.wrote = {}
    /\ k.pc = "package" => k.ask = "rollback" /\ k.wrote = {}
    /\ k.pc = "registration" => k.wrote = IF k.ask = "rollback" THEN {"package"} ELSE {}
    /\ k.pc \notin {"record", "done"} => k.outcome \in {"", "accepted"}
    /\ Truthful(k.outcome, k)
    /\ k.pc = "record" => Truthful(k.result, k)

CallsFit ==
    \A m \in Calls :
        /\ call[m].pc = "package" => call[m].previous \in Releases
        /\ call[m].freshReg => reg # NoReg
        /\ "cut" \notin scene.faults => Tells(call[m])

\* The inductive invariant.
LifecycleInv == LifecycleTypeOK /\ active \notin scene.bad /\ PassesFit /\ CallsFit

\* What follows from it, by a second induction: a Registration that is being deleted,
\* and has not been written since, stays as it was when it was marked; no pass
\* builds or serves anything.
Ending ==
    reg # NoReg /\ reg.deleted = "pending" =>
        /\ Removable
        /\ Alone => \A c \in Reconcilers : pass[c].pc # "idle" => pass[c].desired = "Uninstalled"
-----------------------------------------------------------------------------
(* What a step keeps.                                                       *)

\* A scene only counts down what may still happen.
SceneKept ==
    /\ scene' \in Scenario
    /\ scene'.bad = scene.bad /\ scene'.reconcilers = scene.reconcilers /\ scene'.faults = scene.faults

\* No revision is taken down while the stable Service selects it.
Spared == Alone => \A r \in Releases : made[r] = "whole" /\ made'[r] # "whole" => active # r

\* A Registration is marked for deletion only when its removal is complete.
Marked == reg # NoReg /\ reg.deleted = "no" /\ (reg' = NoReg \/ reg'.deleted # "no") => Removable

Sound == LifecycleInv' /\ SceneKept /\ Spared /\ Marked

PassesSound == pass' \in [Reconcilers -> Pass] /\ PassesFit'
CallsSound == call' \in [Calls -> Call] /\ CallsFit'

RegType == Registration \cup {NoReg}

\* A scene that is not counted down is kept.
LEMMA SameScene == ASSUME LifecycleInv, scene' = scene PROVE SceneKept
BY DEF LifecycleInv, LifecycleTypeOK, SceneKept

\* Counting down a scene keeps the rest of it.
LEMMA SpendScene == ASSUME LifecycleInv, NEW what, Spend(what) PROVE SceneKept
<1>1. scene \in Scenario /\ scene.troubles > 0 /\ scene.troubles \in Nat
  BY DEF LifecycleInv, LifecycleTypeOK, Spend, Scenario
<1>2. scene.troubles - 1 \in Nat
  BY <1>1
<1>3. PICK n \in Nat : scene' = [scene EXCEPT !.troubles = n]
  BY <1>2 DEF Spend
<1> QED BY <1>1, <1>3 DEF SceneKept, Scenario

\* Being alone does not change.
LEMMA AloneStays == ASSUME SceneKept PROVE Alone' <=> Alone
BY DEF SceneKept, Alone

\* Nobody else has a pass when c is alone at work.
LEMMA AloneMeans ==
    ASSUME LifecycleInv, Alone, NEW c \in scene.reconcilers, NEW d \in Reconcilers, d # c
    PROVE  pass[d].pc = "idle"
<1>1. scene.reconcilers \subseteq Reconcilers
  BY DEF LifecycleInv, LifecycleTypeOK, Scenario
<1>2. IsFiniteSet(scene.reconcilers)
  BY <1>1, ReconcilersAssumption, FS_Subset
<1>3. PICK x : scene.reconcilers = {x}
  BY <1>2, FS_Singleton DEF Alone
<1>4. d \notin scene.reconcilers
  BY <1>3
<1> QED BY <1>4 DEF LifecycleInv, PassesFit

\* A step that leaves the world, and not the processes, alone.
LEMMA WorldRests ==
    ASSUME LifecycleInv, UNCHANGED <<pkg, reg, made, up, active, leaving>>, SceneKept, PassesSound, CallsSound
    PROVE  Sound
<1>1. LifecycleInv'
  BY DEF LifecycleInv, LifecycleTypeOK, SceneKept, PassesSound, CallsSound
<1> QED BY <1>1 DEF Sound, Spared, Marked

-----------------------------------------------------------------------------
(* The passes during a step.                                                *)

\* The other passes keep their place, their plan and their list, and what they
\* still believe fresh.
Undisturbed(d) ==
    /\ pass'[d].pc = pass[d].pc /\ pass'[d].desired = pass[d].desired
    /\ pass'[d].plan = pass[d].plan /\ pass'[d].doomed = pass[d].doomed
    /\ ReadingFits(pass[d])'

\* One pass moves, the others are undisturbed.
LEMMA PassMoves ==
    ASSUME LifecycleInv, SceneKept, NEW c \in scene.reconcilers, pass' \in [Reconcilers -> Pass],
           \A d \in Reconcilers \ {c} : Undisturbed(d),
           PlanFits(pass[c])', ReadingFits(pass[c])', Alone => CleanupFits(pass[c])'
    PROVE  PassesSound
<1>1. c \in Reconcilers
  BY DEF LifecycleInv, LifecycleTypeOK, Scenario
<1>2. ASSUME NEW d \in Reconcilers
      PROVE  /\ PlanFits(pass[d])'
             /\ ReadingFits(pass[d])'
             /\ d \notin scene'.reconcilers => pass'[d].pc = "idle"
             /\ Alone' => CleanupFits(pass[d])'
  <2>1. CASE d = c
    BY <2>1, AloneStays DEF SceneKept
  <2>2. CASE d # c
    <3>1. Undisturbed(d) /\ PlanFits(pass[d]) /\ (d \notin scene.reconcilers => pass[d].pc = "idle")
      BY <2>2 DEF LifecycleInv, PassesFit
    <3>2. PlanFits(pass[d])' /\ ReadingFits(pass[d])'
      BY <3>1 DEF Undisturbed, PlanFits, SceneKept
    <3>3. ASSUME Alone' PROVE CleanupFits(pass[d])'
      <4>1. pass'[d].pc = "idle"
        BY <2>2, <3>1, <3>3, AloneStays, AloneMeans DEF Undisturbed
      <4> QED BY <4>1 DEF CleanupFits
    <3> QED BY <3>1, <3>2, <3>3 DEF Undisturbed, SceneKept
  <2> QED BY <2>1, <2>2
<1> QED BY <1>2 DEF PassesSound, PassesFit

\* One pass becomes q, and the Registration is not written.
LEMMA OnePass ==
    ASSUME LifecycleInv, SceneKept, NEW c \in scene.reconcilers, NEW q \in Pass,
           pass' = [pass EXCEPT ![c] = q], reg' = reg,
           PlanFits(q), ReadingFits(q), Alone => CleanupFits(q)'
    PROVE  PassesSound
<1>1. c \in Reconcilers /\ pass \in [Reconcilers -> Pass]
  BY DEF LifecycleInv, LifecycleTypeOK, Scenario
<1>2. pass' \in [Reconcilers -> Pass] /\ pass'[c] = q
  BY <1>1
<1>3. \A d \in Reconcilers \ {c} : Undisturbed(d)
  BY <1>1 DEF LifecycleInv, PassesFit, Undisturbed, ReadingFits
<1>4. PlanFits(pass[c])' /\ ReadingFits(pass[c])' /\ (Alone => CleanupFits(pass[c])')
  BY <1>2 DEF PlanFits, ReadingFits, CleanupFits, SceneKept
<1> QED BY <1>2, <1>3, <1>4, PassMoves

\* Every reading of the Registration goes stale, or nothing is read or written;
\* no revision is added and the Service does not move.
LEMMA PassesRest ==
    ASSUME LifecycleInv, SceneKept, active' \in {active, NoRelease},
           \A r \in Releases : made'[r] # "none" => made[r] # "none",
           \/ pass' = pass /\ (reg' = reg \/ reg = NoReg)
           \/ pass' = StalePasses(pass)
    PROVE  PassesSound
<1>1. NoStatus \in Status
  BY DEF NoStatus, Status, Phases
<1>2. pass' \in [Reconcilers -> Pass]
  <2>1. pass \in [Reconcilers -> Pass]
    BY DEF LifecycleInv, LifecycleTypeOK
  <2>2. \A p \in Pass : [p EXCEPT !.fresh = FALSE, !.status = NoStatus] \in Pass
    BY <1>1 DEF Pass
  <2>3. StalePasses(pass) \in [Reconcilers -> Pass]
    BY <2>1, <2>2 DEF StalePasses
  <2> QED BY <2>1, <2>3
<1>3. ASSUME NEW d \in Reconcilers
      PROVE  Undisturbed(d)
  <2>1. CASE pass' = pass /\ (reg' = reg \/ reg = NoReg)
    BY <2>1 DEF LifecycleInv, PassesFit, Undisturbed, ReadingFits
  <2>2. CASE pass' = StalePasses(pass)
    <3>1. pass'[d] = [pass[d] EXCEPT !.fresh = FALSE, !.status = NoStatus] /\ pass[d] \in Pass
      BY <2>2 DEF StalePasses, LifecycleInv, LifecycleTypeOK
    <3> QED BY <3>1 DEF Undisturbed, ReadingFits, Pass
  <2> QED BY <2>1, <2>2
<1>4. ASSUME NEW d \in Reconcilers
      PROVE  PlanFits(pass[d])' /\ ReadingFits(pass[d])' /\ (Alone' => CleanupFits(pass[d])')
             /\ (d \notin scene'.reconcilers => pass'[d].pc = "idle")
  <2>1. PlanFits(pass[d]) /\ (Alone => CleanupFits(pass[d])) /\ (d \notin scene.reconcilers => pass[d].pc = "idle")
    BY DEF LifecycleInv, PassesFit
  <2>2. PlanFits(pass[d])' /\ ReadingFits(pass[d])'
    BY <1>3, <2>1 DEF Undisturbed, PlanFits, SceneKept
  <2>3. ASSUME Alone PROVE CleanupFits(pass[d])'
    BY <1>3, <2>1, <2>3 DEF Undisturbed, CleanupFits, Chosen, Retained
  <2> QED BY <1>3, <2>1, <2>2, <2>3, AloneStays DEF Undisturbed, SceneKept
<1> QED BY <1>2, <1>4 DEF PassesSound, PassesFit
-----------------------------------------------------------------------------
(* The calls during a step.                                                 *)

\* A call that does not move loses at most its freshness.
Waits(m) ==
    /\ call'[m].pc = call[m].pc /\ call'[m].ask = call[m].ask /\ call'[m].previous = call[m].previous
    /\ call'[m].outcome = call[m].outcome /\ call'[m].result = call[m].result
    /\ call'[m].wrote = call[m].wrote
    /\ call'[m].freshReg => reg' # NoReg

\* A call that waits keeps what the invariant says of it.
LEMMA WaitingFits ==
    ASSUME LifecycleInv, SceneKept, NEW m \in Calls, Waits(m)
    PROVE  /\ call'[m].pc = "package" => call'[m].previous \in Releases
           /\ call'[m].freshReg => reg' # NoReg
           /\ "cut" \notin scene'.faults => Tells(call[m])'
<1>1. /\ call[m].pc = "package" => call[m].previous \in Releases
      /\ "cut" \notin scene.faults => Tells(call[m])
  BY DEF LifecycleInv, CallsFit
<1> QED BY <1>1 DEF Waits, Tells, Truthful, SceneKept

\* A call that loses its freshness waits.
LEMMA StaleWaits ==
    ASSUME LifecycleInv, NEW m \in Calls,
           \/ call'[m] = [call[m] EXCEPT !.freshPkg = FALSE] /\ reg' = reg
           \/ call'[m] = [call[m] EXCEPT !.freshReg = FALSE]
    PROVE  call'[m] \in Call /\ Waits(m)
<1>1. call[m] \in Call /\ (call[m].freshReg => reg # NoReg)
  BY DEF LifecycleInv, LifecycleTypeOK, CallsFit
<1>2. CASE call'[m] = [call[m] EXCEPT !.freshPkg = FALSE] /\ reg' = reg
  BY <1>1, <1>2 DEF Waits, Call
<1>3. CASE call'[m] = [call[m] EXCEPT !.freshReg = FALSE]
  BY <1>1, <1>3 DEF Waits, Call
<1> QED BY <1>2, <1>3

\* The ways a step leaves the calls alone: not at all, or stale.
LEMMA CallsRest ==
    ASSUME LifecycleInv, SceneKept,
           \/ call' = call /\ (reg' # NoReg \/ reg' = reg)
           \/ call' = StaleCalls(call)
           \/ call' = [m \in Calls |-> [call[m] EXCEPT !.freshPkg = FALSE]] /\ reg' = reg
    PROVE  CallsSound
<1>1. call \in [Calls -> Call]
  BY DEF LifecycleInv, LifecycleTypeOK
<1>2. ASSUME NEW m \in Calls
      PROVE  call'[m] \in Call /\ Waits(m)
  <2>1. call[m] \in Call /\ (call[m].freshReg => reg # NoReg)
    BY <1>1 DEF LifecycleInv, CallsFit
  <2>2. CASE call' = call /\ (reg' # NoReg \/ reg' = reg)
    BY <2>1, <2>2 DEF Waits
  <2>3. CASE call' = StaleCalls(call)
    BY <2>3, StaleWaits DEF StaleCalls
  <2>4. CASE call' = [n \in Calls |-> [call[n] EXCEPT !.freshPkg = FALSE]] /\ reg' = reg
    BY <2>4, StaleWaits
  <2> QED BY <2>2, <2>3, <2>4
<1>3. call' \in [Calls -> Call]
  BY <1>1, <1>2 DEF StaleCalls
<1> QED BY <1>2, <1>3, WaitingFits DEF CallsSound, CallsFit

\* One call becomes k, the others wait.
LEMMA OneCall ==
    ASSUME LifecycleInv, SceneKept, NEW m \in Calls, NEW k \in Call, call' \in [Calls -> Call], call'[m] = k,
           \A n \in Calls \ {m} : Waits(n),
           k.pc = "package" => k.previous \in Releases,
           k.freshReg => reg' # NoReg,
           "cut" \notin scene.faults => Tells(k)
    PROVE  CallsSound
<1>1. "cut" \notin scene'.faults => Tells(call[m])'
  BY DEF Tells, Truthful, SceneKept
<1>2. ASSUME NEW n \in Calls
      PROVE  /\ call'[n].pc = "package" => call'[n].previous \in Releases
             /\ call'[n].freshReg => reg' # NoReg
             /\ "cut" \notin scene'.faults => Tells(call[n])'
  BY <1>1, WaitingFits
<1> QED BY <1>2 DEF CallsSound, CallsFit

-----------------------------------------------------------------------------
(* The steps of a pass.                                                     *)

\* What the invariant says of a pass that is somewhere.
LEMMA PassFacts ==
    ASSUME LifecycleInv, NEW c \in Reconcilers, NEW pc, At(c, pc)
    PROVE  /\ c \in scene.reconcilers /\ pass[c].pc = pc /\ pass[c] \in Pass
           /\ PlanFits(pass[c]) /\ ReadingFits(pass[c]) /\ (Alone => CleanupFits(pass[c]))
BY DEF LifecycleInv, LifecycleTypeOK, PassesFit, At

\* The empty pass is one, and nothing is asked of it.
LEMMA IdleFits == Idle \in Pass /\ PlanFits(Idle) /\ ReadingFits(Idle) /\ CleanupFits(Idle)'
<1>1. NoStatus \in Status
  BY DEF NoStatus, Status, Phases
<1>2. Idle \in Pass
  BY <1>1 DEF Idle, Pass, PassPcs, Desired
<1>3. Idle.pc = "idle" /\ Idle.fresh = FALSE
  BY DEF Idle
<1> QED BY <1>2, <1>3 DEF PlanFits, ReadingFits, CleanupFits, Planned, Building

\* A pass that throws goes to markFailure with nothing to delete.
LEMMA FailFits ==
    ASSUME LifecycleInv, SceneKept, NEW c \in Reconcilers, c \in scene.reconcilers, NEW terminal \in BOOLEAN,
           Fail(c, terminal), reg' = reg
    PROVE  PassesSound
<1>1. pass \in [Reconcilers -> Pass] /\ pass[c] \in Pass /\ ReadingFits(pass[c])
  BY DEF LifecycleInv, LifecycleTypeOK, PassesFit
<1>2. PICK q : q = [pass[c] EXCEPT !.pc = "fail", !.terminal = terminal, !.doomed = {}, !.changed = {}]
  OBVIOUS
<1>3. /\ q \in Pass /\ q.pc = "fail" /\ q.fresh = pass[c].fresh
      /\ q.status = pass[c].status /\ q.desired = pass[c].desired
  BY <1>1, <1>2 DEF Pass, PassPcs
<1>4. pass' = [pass EXCEPT ![c] = q]
  BY <1>1, <1>2 DEF Fail
<1>5. PlanFits(q) /\ ReadingFits(q) /\ CleanupFits(q)'
  BY <1>1, <1>3 DEF PlanFits, ReadingFits, CleanupFits, Planned, Building
<1> QED BY <1>3, <1>4, <1>5, OnePass

\* A pass that goes on to its next request.
LEMMA GotoFits ==
    ASSUME LifecycleInv, SceneKept, NEW c \in Reconcilers, c \in scene.reconcilers, NEW pc \in PassPcs,
           Goto(c, pc), reg' = reg,
           pc \in Planned => pass[c].plan \in Releases,
           (pc = "serve" /\ pass[c].desired # "Uninstalled") => pass[c].plan \notin scene.bad,
           pc # "delete",
           pc \in Building => pass[c].desired # "Uninstalled",
           pc = "cleanup" => active' \in {Chosen(pass[c]), NoRelease}
    PROVE  PassesSound
<1>1. pass \in [Reconcilers -> Pass] /\ pass[c] \in Pass /\ ReadingFits(pass[c])
  BY DEF LifecycleInv, LifecycleTypeOK, PassesFit
<1>2. PICK q : q = [pass[c] EXCEPT !.pc = pc]
  OBVIOUS
<1>3. /\ q \in Pass /\ q.pc = pc /\ q.fresh = pass[c].fresh /\ q.plan = pass[c].plan
      /\ q.status = pass[c].status /\ q.desired = pass[c].desired
  BY <1>1, <1>2 DEF Pass
<1>4. pass' = [pass EXCEPT ![c] = q]
  BY <1>1, <1>2 DEF Goto
<1>5. PlanFits(q) /\ ReadingFits(q) /\ CleanupFits(q)'
  BY <1>1, <1>3 DEF PlanFits, ReadingFits, CleanupFits, Chosen
<1> QED BY <1>3, <1>4, <1>5, OnePass
\* listRegistrations: the pass starts from what the Registration says now.
LEMMA ListStep == ASSUME LifecycleInv, NEW c \in Reconcilers, ListRegistrations(c) PROVE Sound
<1>1. At(c, "idle") /\ reg # NoReg /\ scene' = scene /\ call' = call /\ UNCHANGED <<pkg, reg, made, up, active, leaving>>
  BY DEF ListRegistrations
<1>2. c \in scene.reconcilers /\ SceneKept
  BY <1>1, SameScene DEF At
<1>3. PICK q : q = [Idle EXCEPT !.pc = "package", !.desired = reg.desired, !.status = reg.status, !.fresh = TRUE]
  OBVIOUS
<1>4. reg.desired \in Desired /\ reg.status \in Status
  BY <1>1 DEF LifecycleInv, LifecycleTypeOK, Registration
<1>5. Idle \in Pass
  BY IdleFits
<1>6. q \in Pass /\ q.pc = "package" /\ q.desired = reg.desired /\ q.status = reg.status
  BY <1>3, <1>4, <1>5 DEF Pass, PassPcs
<1>7. PlanFits(q) /\ ReadingFits(q) /\ CleanupFits(q)'
  BY <1>1, <1>6 DEF PlanFits, ReadingFits, CleanupFits, Planned, Building
<1>8. pass' = [pass EXCEPT ![c] = q]
  BY <1>3 DEF ListRegistrations
<1>9. PassesSound /\ CallsSound
  BY <1>1, <1>2, <1>6, <1>7, <1>8, OnePass, CallsRest
<1> QED BY <1>1, <1>2, <1>9, WorldRests

\* The Package is planned from, or refused.
LEMMA ReadPackageStep == ASSUME LifecycleInv, NEW c \in Reconcilers, ReadPackage(c) PROVE Sound
<1>1. At(c, "package") /\ scene' = scene /\ call' = call /\ UNCHANGED <<pkg, reg, made, up, active, leaving>>
  BY DEF ReadPackage
<1>2. c \in scene.reconcilers /\ SceneKept /\ pass[c] \in Pass /\ ReadingFits(pass[c])
  BY <1>1, SameScene, PassFacts
<1>3. PassesSound
  <2>1. CASE ~ Plannable
    BY <1>1, <1>2, <2>1, FailFits DEF ReadPackage
  <2>2. CASE Plannable
    <3>1. PICK pc \in {"serve", "apply"} : pc = IF pass[c].desired = "Uninstalled" THEN "serve" ELSE "apply"
      OBVIOUS
    <3>2. PICK q : q = [pass[c] EXCEPT !.plan = pkg.release, !.pc = pc]
      OBVIOUS
    <3>3. pkg.release \in Releases
      BY DEF LifecycleInv, LifecycleTypeOK
    <3>4. /\ q \in Pass /\ q.pc = pc /\ q.plan = pkg.release /\ q.desired = pass[c].desired
          /\ q.fresh = pass[c].fresh /\ q.status = pass[c].status
      BY <1>2, <3>2, <3>3 DEF Pass, PassPcs
    <3>5. pass' = [pass EXCEPT ![c] = q]
      BY <2>2, <3>1, <3>2 DEF ReadPackage, LifecycleInv, LifecycleTypeOK
    <3>6. PlanFits(q) /\ ReadingFits(q) /\ CleanupFits(q)'
      BY <1>2, <3>1, <3>3, <3>4 DEF PlanFits, ReadingFits, CleanupFits, Building
    <3> QED BY <1>1, <1>2, <3>4, <3>5, <3>6, OnePass
  <2> QED BY <2>1, <2>2
<1>4. CallsSound
  BY <1>1, <1>2, CallsRest
<1> QED BY <1>1, <1>2, <1>3, <1>4, WorldRests

\* The resources of the plan are added; with one reconciler nobody has a list.
LEMMA UpsertStep == ASSUME LifecycleInv, NEW c \in Reconcilers, Upsert(c) PROVE Sound
<1> DEFINE r == pass[c].plan
           next == IF pass[c].pc = "apply" THEN "rest" ELSE "rollout"
           adds == made[r] = "none" \/ (made[r] = "part" /\ At(c, "rest"))
           grown == IF adds THEN More(made[r]) ELSE made[r]
           disturbed(d) == d # c /\ adds /\ r \in pass[d].doomed
<1>1. /\ scene' = scene /\ call' = call /\ UNCHANGED <<pkg, reg, up, active, leaving>>
      /\ made' = [made EXCEPT ![r] = grown]
      /\ pass' = [d \in Reconcilers |->
            CASE d = c -> [pass[d] EXCEPT !.pc = next]
              [] disturbed(d) -> [pass[d] EXCEPT !.changed = @ \cup {r}]
              [] OTHER -> pass[d]]
  BY DEF Upsert, Plan
<1>2. /\ c \in scene.reconcilers /\ SceneKept /\ pass[c] \in Pass /\ pass[c].pc \in {"apply", "rest"}
      /\ PlanFits(pass[c]) /\ ReadingFits(pass[c])
  BY <1>1, SameScene, PassFacts DEF Upsert
<1>3. r \in Releases /\ made \in [Releases -> {"none", "part", "whole", "going"}]
      /\ pass \in [Reconcilers -> Pass] /\ next \in {"rest", "rollout"}
  BY <1>2 DEF PlanFits, Planned, Building, LifecycleInv, LifecycleTypeOK, Present
<1>4. grown \in {"none", "part", "whole", "going"} /\ (made[r] = "whole" => grown = "whole")
  BY <1>3 DEF More
<1> HIDE DEF grown, r
<1>5. made' \in [Releases -> {"none", "part"} \cup Present]
  BY <1>1, <1>3, <1>4 DEF Present
<1>6. \A q \in Releases : made[q] = "whole" => made'[q] = "whole"
  BY <1>1, <1>3, <1>4
<1>7. PassesSound
  <2>1. pass'[c] = [pass[c] EXCEPT !.pc = next]
    BY <1>1
  <2>2. /\ pass'[c] \in Pass /\ pass'[c].pc \in {"rest", "rollout"} /\ pass'[c].plan = r
        /\ pass'[c].fresh = pass[c].fresh /\ pass'[c].status = pass[c].status
        /\ pass'[c].desired = pass[c].desired
    BY <1>2, <1>3, <2>1 DEF Pass, PassPcs, r
  <2>3. ASSUME NEW d \in Reconcilers \ {c}
        PROVE  pass'[d] \in Pass /\ Undisturbed(d)
    <3>1. pass[d] \in Pass /\ ReadingFits(pass[d])
      BY <1>3 DEF LifecycleInv, PassesFit
    <3>2. CASE disturbed(d)
      <4>1. pass'[d] = [pass[d] EXCEPT !.changed = pass[d].changed \cup {r}]
        BY <1>1, <3>2
      <4> QED BY <1>1, <1>3, <3>1, <4>1 DEF Pass, Undisturbed, ReadingFits
    <3>3. CASE ~ disturbed(d)
      <4>1. pass'[d] = pass[d]
        BY <1>1, <3>3
      <4> QED BY <1>1, <3>1, <4>1 DEF Undisturbed, ReadingFits
    <3> QED BY <3>2, <3>3
  <2>4. pass' \in [Reconcilers -> Pass]
    <3> HIDE DEF disturbed, next
    <3>1. pass' = [d \in Reconcilers |-> pass'[d]]
      BY <1>1
    <3>2. \A d \in Reconcilers : pass'[d] \in Pass
      BY <2>2, <2>3
    <3> QED BY <3>1, <3>2
  <2>5. PlanFits(pass[c])' /\ ReadingFits(pass[c])' /\ CleanupFits(pass[c])'
    BY <1>1, <1>2, <1>3, <2>2 DEF PlanFits, ReadingFits, CleanupFits, Building
  <2> QED BY <1>2, <2>3, <2>4, <2>5, PassMoves
<1>8. CallsSound
  BY <1>1, <1>2, CallsRest
<1>9. LifecycleInv'
  BY <1>1, <1>2, <1>5, <1>7, <1>8 DEF LifecycleInv, LifecycleTypeOK, SceneKept, PassesSound, CallsSound
<1> QED BY <1>1, <1>2, <1>6, <1>9 DEF Sound, Spared, Marked

\* A pass ends with a write of the Registration: nothing read of it is fresh.
LEMMA PassEnds ==
    ASSUME LifecycleInv, SceneKept, NEW c \in Reconcilers, c \in scene.reconcilers,
           pass' = [StalePasses(pass) EXCEPT ![c] = Idle]
    PROVE  PassesSound
<1>1. NoStatus \in Status /\ pass \in [Reconcilers -> Pass]
  BY DEF NoStatus, Status, Phases, LifecycleInv, LifecycleTypeOK
<1>2. ASSUME NEW p \in Pass, NEW q, q = [p EXCEPT !.fresh = FALSE, !.status = NoStatus]
      PROVE  /\ q \in Pass /\ q.fresh = FALSE /\ q.pc = p.pc
             /\ q.desired = p.desired /\ q.plan = p.plan /\ q.doomed = p.doomed
  BY <1>1, <1>2 DEF Pass
<1>3. \A d \in Reconcilers \ {c} : pass'[d] = [pass[d] EXCEPT !.fresh = FALSE, !.status = NoStatus]
  BY DEF StalePasses
<1>4. StalePasses(pass) \in [Reconcilers -> Pass]
  BY <1>1, <1>2 DEF StalePasses
<1>5. pass' \in [Reconcilers -> Pass] /\ pass'[c] = Idle
  BY <1>4, IdleFits
<1>6. ASSUME NEW d \in Reconcilers \ {c}
      PROVE  Undisturbed(d)
  <2>1. pass[d] \in Pass /\ pass'[d] = [pass[d] EXCEPT !.fresh = FALSE, !.status = NoStatus]
    BY <1>1, <1>3
  <2>2. /\ pass'[d].fresh = FALSE /\ pass'[d].pc = pass[d].pc /\ pass'[d].desired = pass[d].desired
        /\ pass'[d].plan = pass[d].plan /\ pass'[d].doomed = pass[d].doomed
    BY <1>2, <2>1
  <2> QED BY <2>2 DEF Undisturbed, ReadingFits
<1>7. Idle.pc = "idle" /\ Idle.fresh = FALSE
  BY DEF Idle
<1>8. PlanFits(pass[c])' /\ ReadingFits(pass[c])' /\ CleanupFits(pass[c])'
  BY <1>5, <1>7 DEF PlanFits, ReadingFits, CleanupFits, Planned, Building
<1> QED BY <1>5, <1>6, <1>8, PassMoves

\* patchStatus and the end of the pass: a status of the right type goes to a
\* Registration that exists, and every other reading of it is stale.
LEMMA ReportStep ==
    ASSUME LifecycleInv, NEW c \in Reconcilers, c \in scene.reconcilers, NEW status \in Status, Report(c, status)
    PROVE  Sound
<1>1. UNCHANGED <<pkg, made, up, active, leaving>> /\ scene' = scene /\ SceneKept
  BY SameScene DEF Report
<1>2. pass \in [Reconcilers -> Pass] /\ ReadingFits(pass[c]) /\ reg \in RegType
  BY DEF LifecycleInv, LifecycleTypeOK, PassesFit, RegType
<1>3. CASE ~ (pass[c].fresh /\ status # pass[c].status)
  <2>1. pass' = [pass EXCEPT ![c] = Idle] /\ reg' = reg /\ call' = call
    BY <1>3 DEF Report
  <2>2. PassesSound
    BY <1>1, <2>1, IdleFits, OnePass
  <2>3. CallsSound
    BY <1>1, <2>1, CallsRest
  <2> QED BY <1>1, <2>1, <2>2, <2>3, WorldRests
<1>4. CASE pass[c].fresh /\ status # pass[c].status
  <2>1. /\ reg' = [reg EXCEPT !.status = status] /\ call' = StaleCalls(call)
        /\ pass' = [StalePasses(pass) EXCEPT ![c] = Idle]
    BY <1>4 DEF Report
  <2>2. reg # NoReg
    BY <1>2, <1>4 DEF ReadingFits
  <2>3. reg' \in RegType /\ reg' # NoReg /\ reg'.deleted = reg.deleted
    BY <1>2, <2>1, <2>2, NoRegAssumption DEF RegType, Registration
  <2>4. PassesSound
    BY <1>1, <2>1, PassEnds
  <2>5. CallsSound
    BY <1>1, <2>1, CallsRest
  <2>6. LifecycleInv'
    BY <1>1, <2>3, <2>4, <2>5 DEF LifecycleInv, LifecycleTypeOK, SceneKept, PassesSound, CallsSound, RegType
  <2> QED BY <1>1, <2>3, <2>6 DEF Sound, Spared, Marked
<1> QED BY <1>3, <1>4
\* The statuses a pass writes are statuses.
LEMMA StatusTypes ==
    ASSUME NEW old \in Status, NEW r \in Releases, NEW desired \in Desired, NEW terminal \in BOOLEAN
    PROVE  /\ Installing(old, r) \in Status
           /\ Failing(old, terminal) \in Status
           /\ Serving(old, r, desired) \in Status
<1>1. Promotes(old, r) \in BOOLEAN
  BY DEF Promotes, Status
<1>2. Installing(old, r) \in Status
  <2>1. PICK b \in BOOLEAN : b = Promotes(old, r)
    BY <1>1
  <2>2. [old EXCEPT !.phase = "Installing", !.good = b, !.seen = TRUE] \in Status
    BY DEF Status, Phases
  <2> QED BY <2>1, <2>2 DEF Installing
<1>3. Failing(old, terminal) \in Status
  BY DEF Failing, Status, Phases
<1>4. Serving(old, r, desired) \in Status
  <2>1. PICK phase \in Phases : phase = CASE desired = "Enabled" -> "Activated"
                                          [] desired = "Disabled" -> "Disabled" [] OTHER -> "Ready"
    BY DEF Phases
  <2>2. PICK previous \in Releases \cup {NoRelease} :
            previous = IF Promotes(old, r) THEN old.current ELSE old.previous
    BY DEF Status
  <2> QED BY <2>1, <2>2 DEF Serving, Status
<1> QED BY <1>2, <1>3, <1>4

\* The rollout is waited for, observed, or reported.
LEMMA RolloutStep == ASSUME LifecycleInv, NEW c \in Reconcilers, Rollout(c) PROVE Sound
<1>1. At(c, "rollout")
  BY DEF Rollout
<1>2. /\ c \in scene.reconcilers /\ pass[c] \in Pass /\ pass[c].plan \in Releases /\ pass[c].status \in Status
      /\ pass[c].pc = "rollout" /\ pass[c].desired # "Uninstalled"
  BY <1>1, PassFacts DEF PlanFits, Planned, Building, Pass
<1>3. CASE Report(c, Installing(pass[c].status, Plan(c)))
  <2>1. Installing(pass[c].status, Plan(c)) \in Status
    BY <1>2, StatusTypes DEF Plan, Desired
  <2> QED BY <1>2, <1>3, <2>1, ReportStep
<1>4. CASE Fail(c, FALSE) /\ UNCHANGED <<pkg, reg, made, up, active, leaving, call, scene>>
  BY <1>2, <1>4, SameScene, FailFits, CallsRest, WorldRests
<1>5. CASE Goto(c, "verify") /\ UNCHANGED <<pkg, reg, made, up, active, leaving, call, scene>>
  <2>1. PassesSound
    BY <1>2, <1>5, SameScene, GotoFits DEF PassPcs
  <2> QED BY <1>2, <1>5, <2>1, SameScene, CallsRest, WorldRests
<1> QED BY <1>3, <1>4, <1>5 DEF Rollout

\* Only what verified goes on to be served.
LEMMA VerifyStep == ASSUME LifecycleInv, NEW c \in Reconcilers, VerifyRelease(c) PROVE Sound
<1>1. At(c, "verify") /\ UNCHANGED <<pkg, reg, made, up, active, leaving, call>> /\ scene' = scene
  BY DEF VerifyRelease
<1>2. c \in scene.reconcilers /\ pass[c].plan \in Releases /\ SceneKept
  BY <1>1, SameScene, PassFacts DEF PlanFits, Planned
<1>3. PassesSound
  <2>1. CASE Goto(c, "serve") /\ pass[c].plan \notin scene.bad
    BY <1>1, <1>2, <2>1, GotoFits DEF PassPcs, Building
  <2>2. CASE \E t \in BOOLEAN : Fail(c, t)
    BY <1>1, <1>2, <2>2, FailFits
  <2> QED BY <2>1, <2>2 DEF VerifyRelease, Plan
<1> QED BY <1>1, <1>2, <1>3, CallsRest, WorldRests

\* The stable Service moves to a verified revision, or its deletion begins.
LEMMA MoveServiceStep == ASSUME LifecycleInv, NEW c \in Reconcilers, MoveService(c) PROVE Sound
<1>1. /\ At(c, "serve") /\ UNCHANGED <<pkg, reg, made, up, call>> /\ scene' = scene
      /\ \/ active' = Chosen(pass[c]) /\ Goto(c, "cleanup")
         \/ active' = active /\ Goto(c, "unserve")
  BY DEF MoveService, Chosen, Plan, Withdraws
<1>2. /\ c \in scene.reconcilers /\ pass[c].plan \in Releases /\ SceneKept /\ pass[c] \in Pass
      /\ pass[c].desired # "Uninstalled" => pass[c].plan \notin scene.bad
  BY <1>1, SameScene, PassFacts DEF PlanFits, Planned
<1>3. active' \in Releases \cup {NoRelease} /\ active' \notin scene.bad
  BY <1>1, <1>2, NoReleaseAssumption DEF Chosen, LifecycleInv, LifecycleTypeOK, Scenario
<1>4. PassesSound
  <2>1. CASE active' = Chosen(pass[c]) /\ Goto(c, "cleanup")
    BY <1>1, <1>2, <2>1, GotoFits DEF PassPcs, Building
  <2>2. CASE Goto(c, "unserve")
    BY <1>1, <1>2, <2>2, GotoFits DEF PassPcs, Building
  <2> QED BY <1>1, <2>1, <2>2
<1>5. CallsSound
  BY <1>1, <1>2, CallsRest
<1>6. leaving' \in BOOLEAN
  BY DEF MoveService, LifecycleInv, LifecycleTypeOK
<1>7. LifecycleInv'
  BY <1>1, <1>2, <1>3, <1>4, <1>5, <1>6 DEF LifecycleInv, LifecycleTypeOK, SceneKept, PassesSound, CallsSound
<1> QED BY <1>1, <1>2, <1>7 DEF Sound, Spared, Marked

\* The deletion of the Service is observed, or not yet, or never.
LEMMA ServiceIsGoneStep == ASSUME LifecycleInv, NEW c \in Reconcilers, ServiceIsGone(c) PROVE Sound
<1>1. At(c, "unserve") /\ UNCHANGED <<pkg, reg, made, up, active, leaving, call>> /\ scene' = scene
  BY DEF ServiceIsGone
<1>2. c \in scene.reconcilers /\ pass[c].plan \in Releases /\ SceneKept
  BY <1>1, SameScene, PassFacts DEF PlanFits, Planned
<1>3. PassesSound
  <2>1. CASE active = NoRelease /\ Goto(c, "cleanup")
    BY <1>1, <1>2, <2>1, GotoFits DEF PassPcs, Building
  <2>2. CASE \E t \in BOOLEAN : Fail(c, t)
    BY <1>1, <1>2, <2>2, FailFits
  <2> QED BY <2>1, <2>2 DEF ServiceIsGone
<1> QED BY <1>1, <1>2, <1>3, CallsRest, WorldRests

\* The cleanup lists every revision that exists and is not retained.
LEMMA PlanCleanupStep == ASSUME LifecycleInv, NEW c \in Reconcilers, PlanCleanup(c) PROVE Sound
<1>1. At(c, "cleanup") /\ UNCHANGED <<pkg, reg, made, up, active, leaving, call>> /\ scene' = scene
  BY DEF PlanCleanup
<1>2. /\ c \in scene.reconcilers /\ pass[c].plan \in Releases /\ SceneKept /\ pass[c] \in Pass
      /\ pass[c].pc = "cleanup" /\ ReadingFits(pass[c]) /\ (Alone => CleanupFits(pass[c]))
  BY <1>1, SameScene, PassFacts DEF PlanFits, Planned, Building
<1>3. PassesSound
  <2>1. CASE Fail(c, TRUE)
    BY <1>1, <1>2, <2>1, FailFits
  <2>2. CASE pass' = [pass EXCEPT ![c].pc = "delete", ![c].doomed = Inactive(pass[c].desired, Plan(c))]
    <3>1. PICK gone : gone = Inactive(pass[c].desired, pass[c].plan)
      OBVIOUS
    <3>2. /\ gone \subseteq Releases /\ gone \cap Retained(pass[c].desired, pass[c].plan) = {}
          /\ pass[c].desired = "Uninstalled" => \A r \in Releases : made[r] # "none" => r \in gone
      BY <3>1 DEF Inactive, Retained
    <3>3. PICK q : q = [pass[c] EXCEPT !.pc = "delete", !.doomed = gone]
      OBVIOUS
    <3>4. /\ q \in Pass /\ q.pc = "delete" /\ q.plan = pass[c].plan /\ q.desired = pass[c].desired
          /\ q.fresh = pass[c].fresh /\ q.status = pass[c].status /\ q.doomed = gone
      BY <1>2, <3>2, <3>3 DEF Pass, PassPcs
    <3>5. pass' = [pass EXCEPT ![c] = q]
      BY <2>2, <3>1, <3>3 DEF Plan, LifecycleInv, LifecycleTypeOK
    <3>6. PlanFits(q) /\ ReadingFits(q)
      BY <1>2, <3>4 DEF PlanFits, ReadingFits, Building
    <3>7. ASSUME Alone PROVE CleanupFits(q)'
      <4>1. active' \in {Chosen(q), NoRelease}
        BY <1>1, <1>2, <3>4, <3>7 DEF CleanupFits, Chosen
      <4>2. q.doomed \cap Retained(q.desired, q.plan) = {}
        BY <3>2, <3>4
      <4>3. q.desired = "Uninstalled" => \A r \in Releases : made'[r] # "none" => r \in q.doomed
        BY <1>1, <3>2, <3>4
      <4> QED BY <4>1, <4>2, <4>3 DEF CleanupFits, Chosen, Retained
    <3> QED BY <1>1, <1>2, <3>4, <3>5, <3>6, <3>7, OnePass
  <2> QED BY <2>1, <2>2 DEF PlanCleanup
<1> QED BY <1>1, <1>2, <1>3, CallsRest, WorldRests
\* One revision on the list of c is taken down, or part of it, or found gone.
LEMMA Deleting ==
    ASSUME LifecycleInv, NEW c \in Reconcilers, At(c, "delete"), NEW r \in pass[c].doomed,
           UNCHANGED <<pkg, reg, active, leaving, call, scene>>,
           up' \in {up, up \ {r}},
           NEW how \in {"none", "part"} \cup Present,
           made' = [made EXCEPT ![r] = how],
           \/ pass' = pass /\ how # "none"
           \/ pass' = [pass EXCEPT ![c].doomed = @ \ {r}] /\ how = "none"
           \/ \E t \in BOOLEAN : Fail(c, t)
    PROVE  Sound
<1>1. /\ c \in scene.reconcilers /\ SceneKept /\ pass[c] \in Pass /\ pass[c].pc = "delete"
      /\ PlanFits(pass[c]) /\ ReadingFits(pass[c]) /\ (Alone => CleanupFits(pass[c]))
  BY SameScene, PassFacts
<1>2. r \in Releases /\ made \in [Releases -> {"none", "part"} \cup Present] /\ pass \in [Reconcilers -> Pass]
  BY <1>1 DEF Pass, LifecycleInv, LifecycleTypeOK
<1>3. made' \in [Releases -> {"none", "part"} \cup Present] /\ up' \subseteq Releases
  BY <1>2 DEF LifecycleInv, LifecycleTypeOK
<1>4. ASSUME Alone PROVE active # r
  BY <1>1, <1>2, <1>4, NoReleaseAssumption DEF CleanupFits, Chosen, Retained
<1>5. PassesSound
  <2>1. CASE \E t \in BOOLEAN : Fail(c, t)
    BY <1>1, <2>1, FailFits
  <2>2. CASE pass' = pass /\ how # "none"
    <3>1. pass' = [pass EXCEPT ![c] = pass[c]]
      BY <1>2, <2>2
    <3>2. ASSUME Alone PROVE CleanupFits(pass[c])'
      <4>1. CleanupFits(pass[c])
        BY <1>1, <3>2
      <4>2. \A q \in Releases : (made'[q] # "none" /\ q # r) => made[q] # "none"
        BY <1>2
      <4> QED BY <2>2, <4>1, <4>2 DEF CleanupFits, Chosen, Retained
    <3>3. PICK q : q = pass[c]
      OBVIOUS
    <3>4. Alone => CleanupFits(q)'
      BY <2>2, <3>2, <3>3 DEF CleanupFits, Chosen, Retained
    <3> QED BY <1>1, <2>2, <3>1, <3>3, <3>4, OnePass
  <2>3. CASE pass' = [pass EXCEPT ![c].doomed = @ \ {r}] /\ how = "none"
    <3>1. PICK q : q = [pass[c] EXCEPT !.doomed = pass[c].doomed \ {r}]
      OBVIOUS
    <3>2. /\ q \in Pass /\ q.pc = "delete" /\ q.plan = pass[c].plan /\ q.desired = pass[c].desired
          /\ q.fresh = pass[c].fresh /\ q.status = pass[c].status /\ q.doomed = pass[c].doomed \ {r}
      BY <1>1, <3>1 DEF Pass
    <3>3. pass' = [pass EXCEPT ![c] = q]
      BY <1>2, <2>3, <3>1
    <3>4. PlanFits(q) /\ ReadingFits(q)
      BY <1>1, <3>2 DEF PlanFits, ReadingFits
    <3>5. ASSUME Alone PROVE CleanupFits(q)'
      <4>1. CleanupFits(pass[c])
        BY <1>1, <3>5
      <4>2. \A s \in Releases : made'[s] # "none" => made[s] # "none" /\ s # r
        BY <1>2, <2>3
      <4> QED BY <1>1, <3>2, <4>1, <4>2 DEF CleanupFits, Chosen, Retained
    <3> QED BY <1>1, <3>2, <3>3, <3>4, <3>5, OnePass
  <2> QED BY <2>1, <2>2, <2>3
<1>6. CallsSound
  BY <1>1, CallsRest
<1>7. LifecycleInv'
  BY <1>1, <1>3, <1>5, <1>6 DEF LifecycleInv, LifecycleTypeOK, SceneKept, PassesSound, CallsSound
<1>8. Spared
  BY <1>2, <1>4 DEF Spared
<1> QED BY <1>1, <1>7, <1>8 DEF Sound, Marked

\* removeCleanupCandidate, whatever it finds.
LEMMA DeleteStep == ASSUME LifecycleInv, NEW c \in Reconcilers, DeleteRevision(c) PROVE Sound
<1>1. PICK r \in pass[c].doomed :
        /\ At(c, "delete") /\ UNCHANGED <<pkg, reg, active, leaving, call, scene>>
        /\ CASE made[r] = "none" ->
                  pass' = [pass EXCEPT ![c].doomed = @ \ {r}] /\ UNCHANGED <<made, up>>
             [] made[r] # "none" /\ r \in pass[c].changed ->
                  /\ \/ UNCHANGED <<made, up>>
                     \/ made' = [made EXCEPT ![r] = "part"] /\ up' = up \ {r}
                  /\ Fail(c, TRUE)
             [] made[r] = "part" /\ r \notin pass[c].changed ->
                  /\ made' = [made EXCEPT ![r] = "none"] /\ up' = up \ {r}
                  /\ pass' = [pass EXCEPT ![c].doomed = @ \ {r}]
             [] made[r] \in Present /\ r \notin pass[c].changed ->
                  \/ /\ made[r] = "whole"
                     /\ made' = [made EXCEPT ![r] = "part"] /\ up' = up \ {r}
                     /\ UNCHANGED pass
                  \/ /\ made' = [made EXCEPT ![r] = "going"]
                     /\ Fail(c, FALSE) /\ UNCHANGED up
  BY DEF DeleteRevision
<1>2. pass \in [Reconcilers -> Pass] /\ pass[c] \in Pass /\ r \in Releases
      /\ made \in [Releases -> {"none", "part"} \cup Present]
  BY DEF Pass, LifecycleInv, LifecycleTypeOK
<1>3. made = [made EXCEPT ![r] = made[r]] /\ made[r] \in {"none", "part"} \cup Present
  BY <1>2
<1>5. CASE made[r] = "none"
  <2>1. pass' = [pass EXCEPT ![c].doomed = @ \ {r}] /\ UNCHANGED <<made, up>>
    BY <1>1, <1>5 DEF Present
  <2>2. made' = [made EXCEPT ![r] = "none"]
    BY <1>3, <1>5, <2>1
  <2> QED BY <1>1, <2>1, <2>2, Deleting
<1>6. CASE made[r] # "none" /\ r \in pass[c].changed
  <2>1. Fail(c, TRUE) /\ up' \in {up, up \ {r}}
        /\ (made' = made \/ made' = [made EXCEPT ![r] = "part"])
    BY <1>1, <1>6
  <2> QED BY <1>1, <1>3, <1>6, <2>1, Deleting
<1>7. CASE made[r] = "part" /\ r \notin pass[c].changed
  <2>1. /\ made' = [made EXCEPT ![r] = "none"] /\ up' = up \ {r}
        /\ pass' = [pass EXCEPT ![c].doomed = @ \ {r}]
    BY <1>1, <1>7 DEF Present
  <2> QED BY <1>1, <2>1, Deleting
<1>8. CASE made[r] \in Present /\ r \notin pass[c].changed
  <2>1. \/ made' = [made EXCEPT ![r] = "part"] /\ up' = up \ {r} /\ pass' = pass
        \/ made' = [made EXCEPT ![r] = "going"] /\ Fail(c, FALSE) /\ up' = up
    BY <1>1, <1>8 DEF Present
  <2>2. CASE made' = [made EXCEPT ![r] = "part"] /\ up' = up \ {r} /\ pass' = pass
    BY <1>1, <2>2, Deleting
  <2>3. CASE made' = [made EXCEPT ![r] = "going"] /\ Fail(c, FALSE) /\ up' = up
    BY <1>1, <2>3, Deleting DEF Present
  <2> QED BY <2>1, <2>2, <2>3
<1> QED BY <1>3, <1>5, <1>6, <1>7, <1>8 DEF Present

\* The pass reports what it serves.
LEMMA ConcludeStep == ASSUME LifecycleInv, NEW c \in Reconcilers, Conclude(c) PROVE Sound
<1>1. At(c, "delete") /\ Report(c, Serving(pass[c].status, Plan(c), pass[c].desired))
  BY DEF Conclude
<1>2. c \in scene.reconcilers /\ pass[c] \in Pass /\ pass[c].plan \in Releases
  BY <1>1, PassFacts DEF PlanFits, Planned
<1>3. Serving(pass[c].status, Plan(c), pass[c].desired) \in Status
  BY <1>2, StatusTypes DEF Plan, Pass
<1> QED BY <1>1, <1>2, <1>3, ReportStep

\* A pass goes on after a write of the Registration: nothing read of it is fresh.
LEMMA PassMarks ==
    ASSUME LifecycleInv, SceneKept, NEW c \in Reconcilers, c \in scene.reconcilers,
           pass' = [StalePasses(pass) EXCEPT ![c].pc = "observe"]
    PROVE  PassesSound
<1>1. NoStatus \in Status /\ pass \in [Reconcilers -> Pass]
  BY DEF NoStatus, Status, Phases, LifecycleInv, LifecycleTypeOK
<1>2. ASSUME NEW p \in Pass, NEW q, q = [p EXCEPT !.fresh = FALSE, !.status = NoStatus]
      PROVE  /\ q \in Pass /\ q.fresh = FALSE /\ q.pc = p.pc
             /\ q.desired = p.desired /\ q.plan = p.plan /\ q.doomed = p.doomed
  BY <1>1, <1>2 DEF Pass
<1>3. PICK ps \in [Reconcilers -> Pass] : ps = StalePasses(pass)
  BY <1>1, <1>2 DEF StalePasses
<1>4. \A d \in Reconcilers : ps[d] = [pass[d] EXCEPT !.fresh = FALSE, !.status = NoStatus]
  BY <1>3 DEF StalePasses
<1>5. PICK q : q = [ps[c] EXCEPT !.pc = "observe"]
  OBVIOUS
<1>6. q \in Pass /\ q.pc = "observe" /\ q.fresh = ps[c].fresh
  BY <1>5 DEF Pass, PassPcs
<1>7. pass' = [ps EXCEPT ![c] = q]
  BY <1>3, <1>5
<1>8. /\ pass' \in [Reconcilers -> Pass] /\ pass'[c] = q /\ \A d \in Reconcilers \ {c} : pass'[d] = ps[d]
  BY <1>6, <1>7
<1>9. ps[c].fresh = FALSE
  BY <1>1, <1>2, <1>4
<1>10. ASSUME NEW d \in Reconcilers \ {c}
       PROVE  Undisturbed(d)
  <2>1. pass[d] \in Pass /\ pass'[d] = [pass[d] EXCEPT !.fresh = FALSE, !.status = NoStatus]
    BY <1>1, <1>4, <1>8
  <2>2. /\ pass'[d].fresh = FALSE /\ pass'[d].pc = pass[d].pc /\ pass'[d].desired = pass[d].desired
        /\ pass'[d].plan = pass[d].plan /\ pass'[d].doomed = pass[d].doomed
    BY <1>2, <2>1
  <2> QED BY <2>2 DEF Undisturbed, ReadingFits
<1>11. PlanFits(pass[c])' /\ ReadingFits(pass[c])' /\ CleanupFits(pass[c])'
  BY <1>6, <1>8, <1>9 DEF PlanFits, ReadingFits, CleanupFits, Planned, Building
<1> QED BY <1>8, <1>10, <1>11, PassMoves

\* The Registration that the pass read as Uninstalled is marked, and nothing of
\* the extension is left; or it is marked already, gone or written since.
LEMMA DeleteRegistrationStep == ASSUME LifecycleInv, NEW c \in Reconcilers, DeleteRegistration(c) PROVE Sound
<1>1. /\ At(c, "delete") /\ pass[c].doomed = {} /\ pass[c].desired = "Uninstalled"
      /\ UNCHANGED <<pkg, made, up, active, leaving>> /\ scene' = scene /\ SceneKept
  BY SameScene DEF DeleteRegistration
<1>2. /\ c \in scene.reconcilers /\ pass[c] \in Pass /\ pass[c].pc = "delete"
      /\ ReadingFits(pass[c]) /\ (Alone => CleanupFits(pass[c])) /\ pass \in [Reconcilers -> Pass]
  BY <1>1, PassFacts DEF LifecycleInv, LifecycleTypeOK
<1>3. CASE Goto(c, "observe") /\ UNCHANGED <<reg, call>>
  <2>1. PassesSound
    BY <1>1, <1>2, <1>3, GotoFits DEF PassPcs, Planned, Building
  <2> QED BY <1>1, <1>3, <2>1, CallsRest, WorldRests
<1>4. CASE Fail(c, FALSE) /\ UNCHANGED <<reg, call>>
  BY <1>1, <1>2, <1>4, FailFits, CallsRest, WorldRests
<1>5. CASE reg # NoReg /\ MayDelete(c) /\ MarkDeleted(c)
  <2>1. /\ reg' = [reg EXCEPT !.deleted = "pending", !.status.seen = FALSE] /\ call' = StaleCalls(call)
        /\ pass' = [StalePasses(pass) EXCEPT ![c].pc = "observe"]
    BY <1>5 DEF MarkDeleted
  <2>2. reg' \in RegType /\ reg' # NoReg
    <3>1. reg \in Registration
      BY <1>5 DEF LifecycleInv, LifecycleTypeOK
    <3>2. PICK status : status = [reg.status EXCEPT !.seen = FALSE]
      OBVIOUS
    <3>3. status \in Status
      BY <3>1, <3>2 DEF Status, Registration
    <3>4. reg' = [reg EXCEPT !.deleted = "pending", !.status = status]
      BY <2>1, <3>1, <3>2 DEF Registration
    <3>5. reg' \in Registration
      BY <3>1, <3>3, <3>4 DEF Registration
    <3> QED BY <3>5, NoRegAssumption DEF RegType
  <2>3. PassesSound
    BY <1>1, <1>2, <2>1, PassMarks
  <2>4. CallsSound
    BY <1>1, <2>1, <2>2, CallsRest
  <2>5. LifecycleInv'
    BY <1>1, <2>2, <2>3, <2>4 DEF LifecycleInv, LifecycleTypeOK, SceneKept, PassesSound, CallsSound, RegType
  <2>6. reg.desired = "Uninstalled"
    BY <1>1, <1>2, <1>5 DEF ReadingFits, MayDelete
  <2>7. ASSUME Alone PROVE active = NoRelease /\ \A r \in Releases : made[r] = "none"
    BY <1>1, <1>2, <2>7 DEF CleanupFits, Chosen
  <2> QED BY <1>1, <2>5, <2>6, <2>7 DEF Sound, Spared, Marked, Removable
<1> QED BY <1>3, <1>4, <1>5 DEF DeleteRegistration

\* The deletion of the Registration is observed, or not yet, or never.
LEMMA ObserveStep == ASSUME LifecycleInv, NEW c \in Reconcilers, ObserveDeletion(c) PROVE Sound
<1>1. At(c, "observe") /\ UNCHANGED <<pkg, reg, made, up, active, leaving, call>> /\ scene' = scene
  BY DEF ObserveDeletion
<1>2. c \in scene.reconcilers /\ SceneKept
  BY <1>1, SameScene, PassFacts
<1>3. PassesSound
  <2>1. CASE pass' = [pass EXCEPT ![c] = Idle]
    BY <1>1, <1>2, <2>1, IdleFits, OnePass
  <2>2. CASE \E t \in BOOLEAN : Fail(c, t)
    BY <1>1, <1>2, <2>2, FailFits
  <2> QED BY <2>1, <2>2 DEF ObserveDeletion
<1> QED BY <1>1, <1>2, <1>3, CallsRest, WorldRests

\* markFailure.
LEMMA MarkFailureStep == ASSUME LifecycleInv, NEW c \in Reconcilers, MarkFailure(c) PROVE Sound
<1>1. At(c, "fail") /\ Report(c, Failing(pass[c].status, pass[c].terminal))
  BY DEF MarkFailure
<1>2. c \in scene.reconcilers /\ pass[c] \in Pass
  BY <1>1, PassFacts
<1>3. Failing(pass[c].status, pass[c].terminal) \in Status
  BY <1>2 DEF Pass, Failing, Status, Phases
<1> QED BY <1>1, <1>2, <1>3, ReportStep
-----------------------------------------------------------------------------
(* The steps of a management call.                                          *)

\* What the invariant says of a call.
LEMMA CallFacts ==
    ASSUME LifecycleInv, NEW m \in Calls
    PROVE  /\ call \in [Calls -> Call] /\ call[m] \in Call
           /\ call[m].pc = "package" => call[m].previous \in Releases
           /\ call[m].freshReg => reg # NoReg
           /\ "cut" \notin scene.faults => Tells(call[m])
BY DEF LifecycleInv, LifecycleTypeOK, CallsFit

\* A call with its result decided.
LEMMA DecideType ==
    ASSUME LifecycleInv, NEW m \in Calls, NEW result \in Outcomes
    PROVE  /\ Decide(m, result) \in Call
           /\ Decide(m, result).pc = "record" /\ Decide(m, result).result = result
           /\ Decide(m, result).freshReg = FALSE /\ Decide(m, result).ask = call[m].ask
           /\ Decide(m, result).wrote = call[m].wrote /\ Decide(m, result).outcome = call[m].outcome
BY CallFacts DEF Decide, Call

\* The accepted call starts with nothing written, refused or with its reads.
LEMMA BeginStep == ASSUME LifecycleInv, NEW m \in Calls, NEW ask \in Asks, BeginCall(m, ask) PROVE Sound
<1>1. UNCHANGED <<pkg, reg, made, up, active, leaving, pass>> /\ scene' = scene /\ call \in [Calls -> Call]
  BY CallFacts DEF BeginCall
<1>2. SceneKept /\ PassesSound
  BY <1>1, SameScene, PassesRest
<1>3. PICK read : read = [NewCall EXCEPT !.ask = ask, !.outcome = "accepted"]
  OBVIOUS
<1>4. NewCall \in Call /\ NewCall.wrote = {} /\ NewCall.freshReg = FALSE
  BY DEF NewCall, Call, Asks, Outcomes
<1>5. read \in Call /\ read.ask = ask /\ read.outcome = "accepted" /\ read.wrote = {} /\ read.freshReg = FALSE
  BY <1>3, <1>4 DEF Call, Outcomes
<1> DEFINE refused == reg = NoReg \/ (ask = "rollback" /\ reg.status.previous \in {NoRelease, pkg.release})
<1>6. PICK k : k = IF refused THEN [read EXCEPT !.pc = "record", !.result = "failed"]
                   ELSE IF ask = "rollback"
                   THEN [read EXCEPT !.pc = "package", !.previous = reg.status.previous,
                                     !.freshPkg = TRUE, !.freshReg = TRUE]
                   ELSE [read EXCEPT !.pc = "registration", !.freshReg = TRUE]
  OBVIOUS
<1>7. call' = [call EXCEPT ![m] = k]
  BY <1>3, <1>6 DEF BeginCall
<1>8. /\ k \in Call /\ k.ask = ask /\ k.outcome = "accepted" /\ k.wrote = {}
      /\ k.pc = "package" => k.previous \in Releases
      /\ k.freshReg => reg # NoReg
      /\ k.pc = "package" => ask = "rollback"
      /\ k.pc = "registration" => ask # "rollback"
      /\ k.pc = "record" => k.result = "failed"
      /\ k.pc \in {"package", "registration", "record"}
  <2>1. CASE refused
    BY <1>5, <1>6, <2>1 DEF Call, Outcomes
  <2>2. CASE ~ refused /\ ask = "rollback"
    <3>1. reg.status.previous \in Releases /\ reg # NoReg
      BY <2>2 DEF LifecycleInv, LifecycleTypeOK, Status, Registration
    <3>2. k = [read EXCEPT !.pc = "package", !.previous = reg.status.previous, !.freshPkg = TRUE, !.freshReg = TRUE]
      BY <1>6, <2>2
    <3> QED BY <1>5, <2>2, <3>1, <3>2 DEF Call
  <2>3. CASE ~ refused /\ ask # "rollback"
    <3>1. k = [read EXCEPT !.pc = "registration", !.freshReg = TRUE]
      BY <1>6, <2>3
    <3> QED BY <1>5, <2>3, <3>1 DEF Call
  <2> QED BY <2>1, <2>2, <2>3
<1>9. Tells(k)
  BY <1>8 DEF Tells, Truthful
<1>10. \A n \in Calls \ {m} : Waits(n)
  BY <1>1, <1>7, CallFacts DEF Waits
<1>11. CallsSound
  BY <1>1, <1>2, <1>7, <1>8, <1>9, <1>10, OneCall
<1> QED BY <1>1, <1>2, <1>11, WorldRests

\* The Package is written, or the write is refused or lost.
LEMMA RollbackStep == ASSUME LifecycleInv, NEW m \in Calls, RollbackPackage(m) PROVE Sound
<1>1. /\ UNCHANGED <<reg, made, up, active, leaving, pass>> /\ scene' = scene /\ call[m].pc = "package"
  BY DEF RollbackPackage
<1>2. SceneKept /\ PassesSound
  BY <1>1, SameScene, PassesRest
<1>3. /\ call \in [Calls -> Call] /\ call[m] \in Call /\ call[m].previous \in Releases
      /\ call[m].freshReg => reg # NoReg
      /\ "cut" \notin scene.faults => Tells(call[m])
  BY <1>1, CallFacts
<1>4. CASE call' = [call EXCEPT ![m] = Decide(m, "unknown")] /\ UNCHANGED pkg
  <2>1. PICK k \in Call : k = Decide(m, "unknown")
    BY DecideType DEF Outcomes
  <2>2. k.pc = "record" /\ k.result = "unknown" /\ k.freshReg = FALSE /\ k.outcome = call[m].outcome
        /\ k.wrote = call[m].wrote /\ k.ask = call[m].ask
    BY <2>1, DecideType DEF Outcomes
  <2>3. "cut" \notin scene.faults => Tells(k)
    BY <1>3, <2>2 DEF Tells, Truthful
  <2>4. call' \in [Calls -> Call] /\ call'[m] = k /\ \A n \in Calls \ {m} : Waits(n)
    BY <1>1, <1>3, <1>4, <2>1, CallFacts DEF Waits
  <2>5. CallsSound
    BY <1>2, <2>2, <2>3, <2>4, OneCall
  <2> QED BY <1>1, <1>2, <1>4, <2>5, WorldRests
<1>5. CASE WritePackage(m)
  <2>1. PICK answer \in Answers :
          call' = [n \in Calls |->
              IF n # m THEN [call[n] EXCEPT !.freshPkg = FALSE]
              ELSE [IF answer = "ok" THEN [call[m] EXCEPT !.pc = "registration", !.freshPkg = FALSE]
                    ELSE Decide(m, OutcomeOf(answer)) EXCEPT !.wrote = {"package"}]]
    BY <1>5 DEF WritePackage
  <2>2. answer \in {"ok", "lost", "cut"} /\ (answer = "cut" => "cut" \in scene.faults) /\ OutcomeOf(answer) \in Outcomes
        /\ (answer # "cut" => OutcomeOf(answer) = "unknown")
    BY DEF Answers, OutcomeOf, Outcomes
  <2>3. PICK j : j = IF answer = "ok" THEN [call[m] EXCEPT !.pc = "registration", !.freshPkg = FALSE]
                     ELSE Decide(m, OutcomeOf(answer))
    OBVIOUS
  <2>4. PICK k : k = [j EXCEPT !.wrote = {"package"}]
    OBVIOUS
  <2>5. /\ k \in Call /\ k.wrote = {"package"} /\ k.ask = call[m].ask /\ k.outcome = call[m].outcome
        /\ k.freshReg => reg # NoReg
        /\ k.pc = IF answer = "ok" THEN "registration" ELSE "record"
        /\ answer # "ok" => k.result = OutcomeOf(answer)
    <3>1. CASE answer = "ok"
      <4>1. j = [call[m] EXCEPT !.pc = "registration", !.freshPkg = FALSE]
        BY <2>3, <3>1
      <4>2. j \in Call /\ j.pc = "registration" /\ j.ask = call[m].ask /\ j.outcome = call[m].outcome
            /\ j.freshReg = call[m].freshReg
        BY <1>3, <4>1 DEF Call
      <4> QED BY <1>3, <2>4, <3>1, <4>2 DEF Call
    <3>2. CASE answer # "ok"
      <4>1. j \in Call /\ j.pc = "record" /\ j.ask = call[m].ask /\ j.outcome = call[m].outcome
            /\ j.freshReg = FALSE /\ j.result = OutcomeOf(answer)
        BY <2>2, <2>3, <3>2, DecideType
      <4> QED BY <2>4, <3>2, <4>1 DEF Call
    <3> QED BY <3>1, <3>2
  <2>6. "cut" \notin scene.faults => Tells(k)
    BY <1>1, <1>3, <2>2, <2>5 DEF Tells, Truthful
  <2>7. /\ call'[m] = k
        /\ \A n \in Calls \ {m} : call'[n] = [call[n] EXCEPT !.freshPkg = FALSE]
    BY <2>1, <2>3, <2>4
  <2>8. \A n \in Calls \ {m} : call'[n] \in Call /\ Waits(n)
    BY <1>1, <2>7, StaleWaits
  <2>9. call' \in [Calls -> Call]
    <3>1. call' = [n \in Calls |-> call'[n]]
      BY <2>1
    <3> QED BY <2>5, <2>7, <2>8, <3>1
  <2>10. CallsSound
    BY <1>1, <1>2, <2>5, <2>6, <2>7, <2>8, <2>9, OneCall
  <2>11. pkg' \in [release : Releases, signed : Releases]
    BY <1>3, <1>5 DEF WritePackage, LifecycleInv, LifecycleTypeOK
  <2>12. LifecycleInv'
    BY <1>1, <1>2, <2>10, <2>11 DEF LifecycleInv, LifecycleTypeOK, SceneKept, PassesSound, CallsSound
  <2> QED BY <1>1, <1>2, <2>12 DEF Sound, Spared, Marked
<1> QED BY <1>4, <1>5 DEF RollbackPackage
\* The Registration is written, or the write is refused or lost.
LEMMA PatchStep == ASSUME LifecycleInv, NEW m \in Calls, PatchRegistration(m) PROVE Sound
<1>1. UNCHANGED <<pkg, made, up, active, leaving>> /\ scene' = scene /\ call[m].pc = "registration" /\ SceneKept
  BY SameScene DEF PatchRegistration
<1>2. /\ call \in [Calls -> Call] /\ call[m] \in Call
      /\ call[m].freshReg => reg # NoReg
      /\ "cut" \notin scene.faults => Tells(call[m])
  BY CallFacts
<1>3. CASE /\ call' = [call EXCEPT ![m] = Decide(m, IF call[m].ask = "rollback" THEN SecondOutcome("refused") ELSE "unknown")]
           /\ UNCHANGED <<reg, pass>>
  <2>1. PICK k \in Call : k = Decide(m, "unknown")
    BY DecideType DEF Outcomes
  <2>2. k.pc = "record" /\ k.result = "unknown" /\ k.freshReg = FALSE /\ k.outcome = call[m].outcome
        /\ k.wrote = call[m].wrote /\ k.ask = call[m].ask
    BY <2>1, DecideType DEF Outcomes
  <2>3. "cut" \notin scene.faults => Tells(k)
    BY <1>2, <2>2 DEF Tells, Truthful
  <2>4. call' = [call EXCEPT ![m] = k]
    BY <1>3, <2>1 DEF SecondOutcome
  <2>5. call' \in [Calls -> Call] /\ call'[m] = k /\ \A n \in Calls \ {m} : Waits(n)
    BY <1>2, <1>3, <2>4, CallFacts DEF Waits
  <2>6. CallsSound
    BY <1>1, <2>2, <2>3, <2>5, OneCall
  <2>7. PassesSound
    BY <1>1, <1>3, PassesRest
  <2> QED BY <1>1, <1>3, <2>6, <2>7, WorldRests
<1>4. CASE WriteRegistration(m)
  <2>1. PICK desired \in Desired : desired = IF call[m].ask = "rollback" THEN "Enabled" ELSE call[m].ask
    BY <1>2 DEF Call, Asks, Desired
  <2>2. /\ call[m].freshReg /\ pass' = StalePasses(pass)
        /\ reg' = [reg EXCEPT !.desired = desired, !.status.seen = FALSE,
                              !.deleted = IF @ = "no" THEN "no" ELSE "revived"]
    BY <1>4, <2>1 DEF WriteRegistration
  <2>3. reg' \in RegType /\ reg' # NoReg /\ (reg.deleted = "no" => reg'.deleted = "no")
    <3>1. reg \in Registration
      BY <1>2, <2>2 DEF LifecycleInv, LifecycleTypeOK
    <3>2. PICK status : status = [reg.status EXCEPT !.seen = FALSE]
      OBVIOUS
    <3>3. status \in Status
      BY <3>1, <3>2 DEF Status, Registration
    <3>4. PICK deleted \in {"no", "revived"} : deleted = IF reg.deleted = "no" THEN "no" ELSE "revived"
      OBVIOUS
    <3>5. reg' = [reg EXCEPT !.desired = desired, !.status = status, !.deleted = deleted]
      BY <2>2, <3>1, <3>2, <3>4 DEF Registration
    <3>6. reg' \in Registration /\ reg'.deleted = deleted
      BY <3>1, <3>3, <3>5 DEF Registration
    <3> QED BY <3>4, <3>6, NoRegAssumption DEF RegType
  <2>4. PICK answer \in Answers :
          call' = [StaleCalls(call) EXCEPT ![m] =
              [Decide(m, CASE answer = "ok" -> "succeeded"
                           [] answer # "ok" /\ call[m].ask = "rollback" -> SecondOutcome(answer)
                           [] OTHER -> OutcomeOf(answer))
                 EXCEPT !.wrote = @ \cup {"registration"}]]
    BY <1>4 DEF WriteRegistration
  <2>5. PICK result : result = CASE answer = "ok" -> "succeeded"
                                 [] answer # "ok" /\ call[m].ask = "rollback" -> SecondOutcome(answer)
                                 [] OTHER -> OutcomeOf(answer)
    OBVIOUS
  <2>6. result \in Outcomes /\ ("cut" \notin scene.faults => result \in {"succeeded", "unknown"})
    BY <2>5 DEF Answers, OutcomeOf, SecondOutcome, Outcomes
  <2>7. PICK j \in Call : j = Decide(m, result)
    BY <2>6, DecideType
  <2>8. j.pc = "record" /\ j.result = result /\ j.freshReg = FALSE /\ j.outcome = call[m].outcome
        /\ j.wrote = call[m].wrote /\ j.ask = call[m].ask
    BY <2>6, <2>7, DecideType
  <2>9. PICK k : k = [j EXCEPT !.wrote = j.wrote \cup {"registration"}]
    OBVIOUS
  <2>10. /\ k \in Call /\ k.pc = "record" /\ k.result = result /\ k.freshReg = FALSE /\ k.outcome = call[m].outcome
         /\ k.wrote = call[m].wrote \cup {"registration"} /\ k.ask = call[m].ask
    BY <2>8, <2>9 DEF Call
  <2>11. call' = [StaleCalls(call) EXCEPT ![m] = k]
    BY <2>4, <2>5, <2>7, <2>9
  <2>12. "cut" \notin scene.faults => Tells(k)
    <3>1. SUFFICES ASSUME "cut" \notin scene.faults PROVE Tells(k)
      OBVIOUS
    <3>2. /\ call[m].wrote = IF call[m].ask = "rollback" THEN {"package"} ELSE {}
          /\ call[m].outcome \in {"", "accepted"}
      BY <1>1, <1>2, <3>1 DEF Tells
    <3>3. k.wrote = {"registration"} \cup IF k.ask = "rollback" THEN {"package"} ELSE {}
      BY <2>10, <3>2
    <3>4. Truthful(k.outcome, k) /\ Truthful(k.result, k)
      BY <2>6, <2>10, <3>1, <3>2, <3>3 DEF Truthful
    <3> QED BY <2>10, <3>4 DEF Tells
  <2>13. /\ call'[m] = k
         /\ \A n \in Calls \ {m} : call'[n] = [call[n] EXCEPT !.freshReg = FALSE]
    BY <2>11 DEF StaleCalls
  <2>14. \A n \in Calls \ {m} : call'[n] \in Call /\ Waits(n)
    BY <2>13, StaleWaits
  <2>15. call' \in [Calls -> Call]
    <3>1. call' = [n \in Calls |-> call'[n]]
      BY <2>11 DEF StaleCalls
    <3> QED BY <2>10, <2>13, <2>14, <3>1
  <2>16. CallsSound
    BY <1>1, <2>10, <2>12, <2>13, <2>14, <2>15, OneCall
  <2>17. PassesSound
    BY <1>1, <2>2, PassesRest
  <2>18. LifecycleInv'
    BY <1>1, <2>3, <2>16, <2>17 DEF LifecycleInv, LifecycleTypeOK, SceneKept, PassesSound, CallsSound, RegType
  <2> QED BY <1>1, <2>3, <2>18 DEF Sound, Spared, Marked
<1> QED BY <1>3, <1>4 DEF PatchRegistration

\* A call whose progress alone changes.
LEMMA CallAlone ==
    ASSUME LifecycleInv, SceneKept, UNCHANGED <<pkg, reg, made, up, active, leaving, pass>>, NEW m \in Calls,
           NEW k \in Call, call' = [call EXCEPT ![m] = k],
           k.pc # "package", k.freshReg => reg # NoReg, "cut" \notin scene.faults => Tells(k)
    PROVE  Sound
<1>1. call' \in [Calls -> Call] /\ call'[m] = k /\ \A n \in Calls \ {m} : Waits(n)
  BY CallFacts DEF Waits
<1>2. CallsSound
  BY <1>1, OneCall
<1>3. PassesSound
  BY PassesRest
<1> QED BY <1>2, <1>3, WorldRests

\* The result becomes the outcome of the audit record.
LEMMA RecordStep == ASSUME LifecycleInv, NEW m \in Calls, RecordOutcome(m) PROVE Sound
<1>1. /\ call[m].pc = "record" /\ UNCHANGED <<pkg, reg, made, up, active, leaving, pass>> /\ scene' = scene /\ SceneKept
  BY SameScene DEF RecordOutcome
<1>2. PICK k : k = [call[m] EXCEPT !.pc = "done", !.outcome = call[m].result, !.result = ""]
  OBVIOUS
<1>3. /\ k \in Call /\ k.pc = "done" /\ k.outcome = call[m].result /\ k.wrote = call[m].wrote
      /\ k.ask = call[m].ask /\ k.freshReg = call[m].freshReg
  BY <1>2, CallFacts DEF Call, Outcomes
<1>4. call' = [call EXCEPT ![m] = k]
  BY <1>2, CallFacts DEF RecordOutcome
<1>5. "cut" \notin scene.faults => Tells(k)
  BY <1>1, <1>3, CallFacts DEF Tells, Truthful
<1> QED BY <1>1, <1>3, <1>4, <1>5, CallAlone, CallFacts
-----------------------------------------------------------------------------
(* The surroundings.                                                        *)

\* A request of a pass throws, or its process ends.
LEMMA TroubleStep == ASSUME LifecycleInv, NEW c \in Reconcilers, RequestThrows(c) \/ Crash(c) PROVE Sound
<1>1. c \in scene.reconcilers /\ UNCHANGED <<pkg, reg, made, up, active, leaving, call>> /\ SceneKept
  BY SpendScene DEF RequestThrows, Crash
<1>2. CASE RequestThrows(c)
  BY <1>1, <1>2, FailFits, CallsRest, WorldRests DEF RequestThrows
<1>3. CASE Crash(c)
  <2>1. pass' = [pass EXCEPT ![c] = Idle]
    BY <1>3 DEF Crash
  <2>2. PassesSound
    BY <1>1, <2>1, IdleFits, OnePass
  <2> QED BY <1>1, <2>2, CallsRest, WorldRests
<1> QED BY <1>2, <1>3

\* The process of a call ends: what it recorded stays.
LEMMA CallDiesStep == ASSUME LifecycleInv, NEW m \in Calls, CallDies(m) PROVE Sound
<1>1. UNCHANGED <<pkg, reg, made, up, active, leaving, pass>> /\ SceneKept
  BY SpendScene DEF CallDies
<1>2. PICK j \in Call : j = Decide(m, "")
  BY DecideType DEF Outcomes
<1>3. j.freshReg = FALSE /\ j.outcome = call[m].outcome /\ j.wrote = call[m].wrote /\ j.ask = call[m].ask
  BY <1>2, DecideType DEF Outcomes
<1>4. PICK k : k = [j EXCEPT !.pc = "done"]
  OBVIOUS
<1>5. /\ k \in Call /\ k.pc = "done" /\ k.freshReg = FALSE /\ k.outcome = call[m].outcome
      /\ k.wrote = call[m].wrote /\ k.ask = call[m].ask
  BY <1>3, <1>4 DEF Call
<1>6. call' = [call EXCEPT ![m] = k]
  BY <1>2, <1>4 DEF CallDies
<1>7. "cut" \notin scene.faults => Tells(k)
  BY <1>5, CallFacts DEF Tells, Truthful
<1> QED BY <1>1, <1>5, <1>6, <1>7, CallAlone

\* The Package changes under everybody.
LEMMA PackageStep == ASSUME LifecycleInv, (\E r \in Releases : Publish(r)) \/ Rediscover PROVE Sound
<1>1. /\ UNCHANGED <<reg, made, up, active, leaving, pass>>
      /\ call' = [m \in Calls |-> [call[m] EXCEPT !.freshPkg = FALSE]]
  BY DEF Publish, Rediscover
<1>2. SceneKept
  <2>1. CASE Rediscover
    BY <2>1, SpendScene DEF Rediscover
  <2>2. CASE \E r \in Releases : Publish(r)
    <3>1. scene \in Scenario /\ scene.publishes \in Nat /\ scene.publishes > 0
      BY <2>2 DEF Publish, LifecycleInv, LifecycleTypeOK, Scenario
    <3>2. PICK n \in Nat : scene' = [scene EXCEPT !.publishes = n]
      <4>1. scene.publishes - 1 \in Nat
        BY <3>1
      <4> QED BY <2>2, <4>1 DEF Publish
    <3> QED BY <3>1, <3>2 DEF SceneKept, Scenario
  <2> QED BY <2>1, <2>2
<1>3. pkg' \in [release : Releases, signed : Releases]
  BY DEF Publish, Rediscover, LifecycleInv, LifecycleTypeOK
<1>4. PassesSound /\ CallsSound
  BY <1>1, <1>2, PassesRest, CallsRest
<1>5. LifecycleInv'
  BY <1>1, <1>2, <1>3, <1>4 DEF LifecycleInv, LifecycleTypeOK, SceneKept, PassesSound, CallsSound
<1> QED BY <1>1, <1>2, <1>5 DEF Sound, Spared, Marked

\* The operation worker creates the Registration.
LEMMA InstallStep == ASSUME LifecycleInv, Install PROVE Sound
<1>1. reg = NoReg /\ reg' = NewReg /\ UNCHANGED <<pkg, made, up, active, leaving, pass, call>>
  BY DEF Install
<1>2. SceneKept
  <2>1. scene \in Scenario /\ scene.installs \in Nat /\ scene.installs > 0
    BY DEF Install, LifecycleInv, LifecycleTypeOK, Scenario
  <2>2. PICK n \in Nat : scene' = [scene EXCEPT !.installs = n]
    <3>1. scene.installs - 1 \in Nat
      BY <2>1
    <3> QED BY <3>1 DEF Install
  <2> QED BY <2>1, <2>2 DEF SceneKept, Scenario
<1>3. NewReg \in Registration
  BY DEF NewReg, NoStatus, Status, Desired, Phases, Registration
<1>4. reg' \in RegType /\ reg' # NoReg
  BY <1>1, <1>3, NoRegAssumption DEF RegType
<1>5. PassesSound /\ CallsSound
  BY <1>1, <1>2, <1>4, PassesRest, CallsRest
<1>6. LifecycleInv'
  BY <1>1, <1>2, <1>4, <1>5 DEF LifecycleInv, LifecycleTypeOK, SceneKept, PassesSound, CallsSound, RegType
<1> QED BY <1>1, <1>2, <1>6 DEF Sound, Spared, Marked

\* Pods start, stop and go.
LEMMA PodsStep ==
    ASSUME LifecycleInv, NEW r \in Releases, PodsStart(r) \/ PodsStop(r) \/ Vanish(r)
    PROVE  Sound
<1>1. UNCHANGED <<pkg, reg, active, leaving, pass, call>> /\ SceneKept /\ up' \subseteq Releases
  BY SameScene, SpendScene DEF PodsStart, PodsStop, Vanish, LifecycleInv, LifecycleTypeOK
<1>2. made \in [Releases -> {"none", "part"} \cup Present]
  BY DEF LifecycleInv, LifecycleTypeOK
<1>3. /\ made' \in [Releases -> {"none", "part"} \cup Present]
      /\ \A q \in Releases : made'[q] # "none" => made[q] # "none"
      /\ \A q \in Releases : made[q] = "whole" => made'[q] = "whole"
  BY <1>2 DEF PodsStart, PodsStop, Vanish
<1>4. PassesSound /\ CallsSound
  BY <1>1, <1>3, PassesRest, CallsRest
<1>5. LifecycleInv'
  BY <1>1, <1>3, <1>4 DEF LifecycleInv, LifecycleTypeOK, SceneKept, PassesSound, CallsSound
<1> QED BY <1>1, <1>3, <1>5 DEF Sound, Spared, Marked

\* The Registration goes, whatever it says by then.
LEMMA RegistrationVanishesStep == ASSUME LifecycleInv, RegistrationVanishes PROVE Sound
<1>1. /\ reg.deleted # "no" /\ reg' = NoReg /\ UNCHANGED <<pkg, made, up, active, leaving>> /\ scene' = scene
      /\ pass' = StalePasses(pass) /\ call' = StaleCalls(call) /\ SceneKept
  BY SameScene DEF RegistrationVanishes
<1>2. PassesSound /\ CallsSound
  BY <1>1, PassesRest, CallsRest
<1>3. LifecycleInv'
  BY <1>1, <1>2 DEF LifecycleInv, LifecycleTypeOK, SceneKept, PassesSound, CallsSound
<1> QED BY <1>1, <1>3 DEF Sound, Spared, Marked

\* The stable Service goes, whatever it selects by then.
LEMMA ServiceVanishesStep == ASSUME LifecycleInv, ServiceVanishes PROVE Sound
<1>1. /\ active' = NoRelease /\ leaving' = FALSE /\ UNCHANGED <<pkg, reg, made, up, pass, call>> /\ scene' = scene
      /\ SceneKept
  BY SameScene DEF ServiceVanishes
<1>2. PassesSound /\ CallsSound
  BY <1>1, PassesRest, CallsRest
<1>3. NoRelease \notin scene.bad
  BY NoReleaseAssumption DEF LifecycleInv, LifecycleTypeOK, Scenario
<1>4. LifecycleInv'
  BY <1>1, <1>2, <1>3 DEF LifecycleInv, LifecycleTypeOK, SceneKept, PassesSound, CallsSound
<1> QED BY <1>1, <1>4 DEF Sound, Spared, Marked

-----------------------------------------------------------------------------
(* The theorems.                                                            *)

\* Every step keeps the invariant and what the properties ask of a step.
LEMMA LifecycleStep == ASSUME LifecycleInv, LifecycleNext PROVE Sound
<1>1. ASSUME NEW c \in Reconcilers, ReconcileOnce(c) PROVE Sound
  BY <1>1, ListStep, ReadPackageStep, UpsertStep, RolloutStep, VerifyStep, MoveServiceStep, ServiceIsGoneStep,
     PlanCleanupStep, DeleteStep, ConcludeStep, DeleteRegistrationStep, ObserveStep, MarkFailureStep DEF ReconcileOnce
<1>2. ASSUME NEW m \in Calls, \/ \E ask \in Asks : BeginCall(m, ask)
                              \/ RollbackPackage(m) \/ PatchRegistration(m) \/ RecordOutcome(m)
      PROVE  Sound
  BY <1>2, BeginStep, RollbackStep, PatchStep, RecordStep
<1>3. ASSUME Surroundings PROVE Sound
  BY <1>3, TroubleStep, CallDiesStep, PackageStep, InstallStep, PodsStep, RegistrationVanishesStep,
     ServiceVanishesStep DEF Surroundings
<1> QED BY <1>1, <1>2, <1>3 DEF LifecycleNext

\* A scene starts with a verified release in service, or with nothing.
LEMMA LifecycleInitInv == LifecycleInit => LifecycleInv
<1> SUFFICES ASSUME LifecycleInit PROVE LifecycleInv
  OBVIOUS
<1>1. scene \in Scenario /\ (scene.installed => scene.first \notin scene.bad) /\ scene.first \in Releases
      /\ scene.previous \in Releases \cup {NoRelease} /\ scene.bad \subseteq Releases
  BY LifecycleScenesAssumption DEF LifecycleInit, Scenario
<1>2. NewCall \in Call /\ NewCall.pc = "new" /\ NewCall.freshReg = FALSE /\ NewCall.wrote = {} /\ NewCall.outcome = ""
  BY DEF NewCall, Call, Asks, Outcomes
<1>3. pass \in [Reconcilers -> Pass] /\ call \in [Calls -> Call]
  BY <1>2, IdleFits DEF LifecycleInit
<1>4. LifecycleTypeOK /\ active \notin scene.bad
  <2>1. pkg \in [release : Releases, signed : Releases]
    BY <1>1 DEF LifecycleInit
  <2>2. CASE scene.installed
    <3>1. PICK status : status = [phase |-> "Activated", current |-> scene.first, previous |-> scene.previous,
                                  good |-> TRUE, seen |-> TRUE]
      OBVIOUS
    <3>2. status \in Status /\ reg = [desired |-> "Enabled", deleted |-> "no", status |-> status]
      BY <1>1, <2>2, <3>1 DEF Status, Phases, LifecycleInit
    <3>3. reg \in Registration
      BY <3>2 DEF Desired, Registration
    <3> QED BY <1>1, <1>3, <2>1, <2>2, <3>3 DEF LifecycleInit, LifecycleTypeOK, Present
  <2>3. CASE ~ scene.installed
    BY <1>1, <1>3, <2>1, <2>3, NoReleaseAssumption DEF LifecycleInit, LifecycleTypeOK
  <2> QED BY <2>2, <2>3
<1>5. PassesFit
  <2>1. \A c \in Reconcilers : pass[c] = Idle
    BY DEF LifecycleInit
  <2>2. Idle.pc = "idle" /\ Idle.fresh = FALSE
    BY DEF Idle
  <2> QED BY <2>1, <2>2 DEF PassesFit, PlanFits, ReadingFits, CleanupFits, Planned, Building
<1>6. CallsFit
  BY <1>2 DEF LifecycleInit, CallsFit, Tells, Truthful
<1> QED BY <1>4, <1>5, <1>6 DEF LifecycleInv

\* The inductive invariant holds of every behaviour.
THEOREM LifecycleInvariant == LifecycleSpec => []LifecycleInv
<1>1. LifecycleInv /\ [LifecycleNext]_lifecycleVars => LifecycleInv'
  <2>1. CASE UNCHANGED lifecycleVars
    BY <2>1 DEF lifecycleVars, LifecycleInv, LifecycleTypeOK, PassesFit, CallsFit, PlanFits, ReadingFits,
                CleanupFits, Tells, Truthful, Alone, Chosen, Retained
  <2> QED BY <2>1, LifecycleStep DEF Sound
<1> QED BY <1>1, LifecycleInitInv, PTL DEF LifecycleSpec

\* Types of the Registration, the Package, the passes and the calls.
THEOREM LifecycleTypeCorrectness == LifecycleSpec => []LifecycleTypeOK
BY LifecycleInvariant, PTL DEF LifecycleInv

\* The scene cuts no answer off in its body: every write answers in full, or not at all.
AnswersAreWhole == "cut" \notin scene.faults

\* With answers that are not cut off in their body, the audit record of a
\* management call never lies (recordedMutation).
THEOREM TrueOutcomes == LifecycleSpec /\ AnswersAreWhole => []OutcomeIsTrue
<1>1. LifecycleInv /\ AnswersAreWhole => OutcomeIsTrue
  BY DEF LifecycleInv, CallsFit, AnswersAreWhole, Tells, Truthful, OutcomeIsTrue
<1>2. LifecycleInv /\ AnswersAreWhole /\ [LifecycleNext]_lifecycleVars => AnswersAreWhole'
  BY LifecycleStep DEF Sound, SceneKept, AnswersAreWhole, lifecycleVars
<1> QED BY <1>1, <1>2, LifecycleInvariant, PTL DEF LifecycleSpec

\* Only verified releases are served, and none is deleted while it is served.
THEOREM SoundService == LifecycleSpec => ServedIsSound
<1> DEFINE Served == /\ active' \notin scene.bad
                     /\ Alone => \A r \in Releases : made[r] = "whole" /\ made'[r] # "whole" => active # r
<1>1. LifecycleInv /\ [LifecycleNext]_lifecycleVars => [Served]_lifecycleVars
  BY LifecycleStep DEF Sound, Spared, SceneKept, LifecycleInv
<1> QED BY <1>1, LifecycleInvariant, PTL DEF LifecycleSpec, ServedIsSound

-----------------------------------------------------------------------------
(* While a Registration is being deleted.                                   *)

\* A pass ends, or goes on for the desired state it read.
Keeps(d) == pass'[d].pc # "idle" => pass[d].pc # "idle" /\ pass'[d].desired = pass[d].desired

\* While a Registration is going that nobody has written again, a step adds
\* nothing to what exists and starts no pass but for the Registration as it is.
Calm ==
    (reg # NoReg /\ reg.deleted = "pending" /\ Alone) =>
        /\ active' \in {active, NoRelease}
        /\ \A r \in Releases : made'[r] # "none" => made[r] # "none"
        /\ \A d \in Reconcilers : Keeps(d) \/ pass'[d].desired = reg.desired

\* The mark is an old one, on a Registration that still asks for the same.
OldMark ==
    (reg' # NoReg /\ reg'.deleted = "pending") =>
        reg # NoReg /\ reg.deleted = "pending" /\ reg'.desired = reg.desired

\* Calm steps keep what was true when the mark was set.
LEMMA CalmEnds == ASSUME SceneKept, Ending, Calm, OldMark PROVE Ending'
<1> SUFFICES ASSUME reg' # NoReg, reg'.deleted = "pending"
             PROVE  /\ Removable'
                    /\ Alone' => \A d \in Reconcilers : pass'[d].pc # "idle" => pass'[d].desired = "Uninstalled"
  BY DEF Ending
<1>1. /\ Removable /\ reg'.desired = reg.desired /\ (Alone' <=> Alone)
      /\ Alone => \A d \in Reconcilers : pass[d].pc # "idle" => pass[d].desired = "Uninstalled"
  BY AloneStays DEF OldMark, Ending
<1>2. ASSUME Alone
      PROVE  /\ active' = NoRelease /\ \A r \in Releases : made'[r] = "none"
             /\ \A d \in Reconcilers : pass'[d].pc # "idle" => pass'[d].desired = "Uninstalled"
  <2>1. /\ active' \in {active, NoRelease}
        /\ \A r \in Releases : made'[r] # "none" => made[r] # "none"
        /\ \A d \in Reconcilers : Keeps(d) \/ pass'[d].desired = reg.desired
    BY <1>2 DEF OldMark, Calm
  <2>2. /\ reg.desired = "Uninstalled" /\ active = NoRelease /\ \A r \in Releases : made[r] = "none"
    BY <1>1, <1>2 DEF Removable
  <2> QED BY <1>1, <1>2, <2>1, <2>2 DEF Keeps
<1> QED BY <1>1, <1>2 DEF Removable

\* The ways in which the steps move the passes keep them.
LEMMA PassKeeps ==
    ASSUME LifecycleInv, NEW c \in Reconcilers, pass[c].pc # "idle",
           \/ pass' = pass \/ pass' = StalePasses(pass)
           \/ pass' = [pass EXCEPT ![c] = Idle] \/ pass' = [StalePasses(pass) EXCEPT ![c] = Idle]
           \/ \E q \in Pass : pass' = [pass EXCEPT ![c] = q] /\ q.desired = pass[c].desired
    PROVE  \A d \in Reconcilers : Keeps(d)
<1>1. pass \in [Reconcilers -> Pass] /\ Idle.pc = "idle"
  BY DEF LifecycleInv, LifecycleTypeOK, Idle
<1>2. \A p \in Pass : LET q == [p EXCEPT !.fresh = FALSE, !.status = NoStatus]
                      IN  q.pc = p.pc /\ q.desired = p.desired
  BY DEF Pass
<1>3. /\ StalePasses(pass) = [d \in Reconcilers |-> StalePasses(pass)[d]]
      /\ \A d \in Reconcilers : StalePasses(pass)[d].pc = pass[d].pc /\ StalePasses(pass)[d].desired = pass[d].desired
  BY <1>1, <1>2 DEF StalePasses
<1> TAKE d \in Reconcilers
<1>4. CASE pass' = pass \/ pass' = StalePasses(pass)
  BY <1>3, <1>4 DEF Keeps
<1>5. CASE pass' = [pass EXCEPT ![c] = Idle]
  BY <1>1, <1>5 DEF Keeps
<1>6. CASE pass' = [StalePasses(pass) EXCEPT ![c] = Idle]
  BY <1>1, <1>3, <1>6 DEF Keeps
<1>7. CASE \E q \in Pass : pass' = [pass EXCEPT ![c] = q] /\ q.desired = pass[c].desired
  BY <1>1, <1>7 DEF Keeps
<1> QED BY <1>4, <1>5, <1>6, <1>7

\* A pass that goes on, or throws, keeps to its desired state.
LEMMA MovesKeep ==
    ASSUME LifecycleInv, NEW c \in Reconcilers, pass[c].pc # "idle",
           (\E pc \in PassPcs : Goto(c, pc)) \/ (\E t \in BOOLEAN : Fail(c, t))
    PROVE  \A d \in Reconcilers : Keeps(d)
<1>1. pass \in [Reconcilers -> Pass] /\ pass[c] \in Pass
  BY DEF LifecycleInv, LifecycleTypeOK
<1>2. CASE \E pc \in PassPcs : Goto(c, pc)
  <2>1. PICK pc \in PassPcs : Goto(c, pc)
    BY <1>2
  <2>2. PICK q : q = [pass[c] EXCEPT !.pc = pc]
    OBVIOUS
  <2>3. q \in Pass /\ q.desired = pass[c].desired
    BY <1>1, <2>2 DEF Pass
  <2>4. pass' = [pass EXCEPT ![c] = q]
    BY <1>1, <2>1, <2>2 DEF Goto
  <2> QED BY <2>3, <2>4, PassKeeps
<1>3. CASE \E t \in BOOLEAN : Fail(c, t)
  <2>1. PICK t \in BOOLEAN : Fail(c, t)
    BY <1>3
  <2>2. PICK q : q = [pass[c] EXCEPT !.pc = "fail", !.terminal = t, !.doomed = {}, !.changed = {}]
    OBVIOUS
  <2>3. q \in Pass /\ q.desired = pass[c].desired
    BY <1>1, <2>2 DEF Pass, PassPcs
  <2>4. pass' = [pass EXCEPT ![c] = q]
    BY <1>1, <2>1, <2>2 DEF Fail
  <2> QED BY <2>3, <2>4, PassKeeps
<1> QED BY <1>2, <1>3

\* A status is written to a Registration and leaves the rest of it alone.
LEMMA ReportIsCalm ==
    ASSUME LifecycleInv, NEW c \in Reconcilers, pass[c].pc # "idle", NEW status, Report(c, status)
    PROVE  Calm /\ OldMark
<1>1. \A d \in Reconcilers : Keeps(d)
  BY PassKeeps DEF Report
<1>2. OldMark
  <2>1. CASE reg' = reg
    BY <2>1 DEF OldMark
  <2>2. CASE reg' = [reg EXCEPT !.status = status] /\ pass[c].fresh
    <3>1. reg \in Registration
      BY <2>2 DEF LifecycleInv, LifecycleTypeOK, PassesFit, ReadingFits
    <3>2. reg # NoReg /\ reg'.deleted = reg.deleted /\ reg'.desired = reg.desired
      BY <2>2, <3>1, NoRegAssumption DEF Registration
    <3> QED BY <3>2 DEF OldMark
  <2> QED BY <2>1, <2>2 DEF Report
<1>3. Calm
  BY <1>1 DEF Calm, Report
<1> QED BY <1>2, <1>3

\* While a marked Registration goes, a lone reconciler builds nothing.
LEMMA NothingIsBuilt ==
    ASSUME LifecycleInv, Ending, NEW c \in Reconcilers, pass[c].pc # "idle",
           reg # NoReg, reg.deleted = "pending", Alone
    PROVE  /\ pass[c].desired = "Uninstalled" /\ pass[c].pc \notin Building
           /\ active = NoRelease /\ \A r \in Releases : made[r] = "none"
BY DEF LifecycleInv, PassesFit, PlanFits, Ending, Removable

\* The pass that sets the mark, alone, removed everything before it.
LEMMA MarkEnds ==
    ASSUME LifecycleInv, SceneKept, Marked, NEW c \in Reconcilers, DeleteRegistration(c),
           reg # NoReg, reg.deleted = "no", MarkDeleted(c)
    PROVE  Ending'
<1>1. /\ UNCHANGED <<made, active>> /\ At(c, "delete") /\ pass[c].desired = "Uninstalled"
      /\ reg' = [reg EXCEPT !.deleted = "pending", !.status.seen = FALSE]
      /\ pass' = [StalePasses(pass) EXCEPT ![c].pc = "observe"]
  BY DEF DeleteRegistration, MarkDeleted
<1>2. reg \in Registration
  BY DEF LifecycleInv, LifecycleTypeOK
<1>3. reg'.deleted = "pending" /\ reg'.desired = reg.desired
  BY <1>1, <1>2 DEF Registration
<1>4. Removable
  BY <1>3 DEF Marked
<1>5. Removable'
  BY <1>1, <1>3, <1>4, AloneStays DEF Removable
<1>6. ASSUME Alone, NEW d \in Reconcilers, pass'[d].pc # "idle" PROVE pass'[d].desired = "Uninstalled"
  <2>1. pass \in [Reconcilers -> Pass] /\ c \in scene.reconcilers
    BY <1>1 DEF LifecycleInv, LifecycleTypeOK, At
  <2>2. \A p \in Pass : LET q == [p EXCEPT !.fresh = FALSE, !.status = NoStatus]
                        IN  q.pc = p.pc /\ q.desired = p.desired
    BY DEF Pass
  <2>3. CASE d # c
    <3>1. pass'[d] = [pass[d] EXCEPT !.fresh = FALSE, !.status = NoStatus]
      BY <1>1, <2>3 DEF StalePasses
    <3>2. pass'[d].pc = pass[d].pc
      BY <2>1, <2>2, <3>1
    <3>3. pass[d].pc = "idle"
      BY <1>6, <2>1, <2>3, AloneMeans
    <3> QED BY <1>6, <3>2, <3>3
  <2>4. CASE d = c
    <3>1. PICK p \in Pass : p = [pass[c] EXCEPT !.fresh = FALSE, !.status = NoStatus]
      <4>1. NoStatus \in Status
        BY DEF NoStatus, Status, Phases
      <4> QED BY <2>1, <4>1 DEF Pass
    <3>2. p.desired = pass[c].desired
      BY <2>1, <2>2, <3>1
    <3>3. pass'[c] = [p EXCEPT !.pc = "observe"]
      BY <1>1, <3>1 DEF StalePasses
    <3>4. pass'[c].desired = p.desired
      BY <3>3 DEF Pass
    <3> QED BY <1>1, <2>4, <3>2, <3>4
  <2> QED BY <2>3, <2>4
<1> QED BY <1>5, <1>6, AloneStays DEF Ending

\* A step that leaves the Registration, and what exists, as they are.
LEMMA RestIsCalm ==
    ASSUME reg' = reg, active' = active, made' = made, \A d \in Reconcilers : Keeps(d)
    PROVE  Calm /\ OldMark
BY DEF Calm, OldMark

\* No pass makes anything of a Registration that is going.
LEMMA PassEnding ==
    ASSUME LifecycleInv, Ending, SceneKept, Marked, NEW c \in Reconcilers, ReconcileOnce(c)
    PROVE  Ending'
<1>1. CASE ListRegistrations(c)
  <2>1. /\ reg # NoReg /\ UNCHANGED <<reg, active, made>>
        /\ pass' = [pass EXCEPT ![c] = [Idle EXCEPT !.pc = "package", !.desired = reg.desired,
                                                    !.status = reg.status, !.fresh = TRUE]]
    BY <1>1 DEF ListRegistrations
  <2>2. PICK q : q = [Idle EXCEPT !.pc = "package", !.desired = reg.desired, !.status = reg.status, !.fresh = TRUE]
    OBVIOUS
  <2>3. Idle \in Pass
    BY IdleFits
  <2>4. q.desired = reg.desired
    BY <2>2, <2>3 DEF Pass
  <2>5. ASSUME NEW d \in Reconcilers PROVE Keeps(d) \/ pass'[d].desired = reg.desired
    <3>1. pass' = [pass EXCEPT ![c] = q] /\ pass \in [Reconcilers -> Pass]
      BY <2>1, <2>2 DEF LifecycleInv, LifecycleTypeOK
    <3>2. CASE d = c
      BY <2>4, <3>1, <3>2
    <3>3. CASE d # c
      BY <3>1, <3>3 DEF Keeps
    <3> QED BY <3>2, <3>3
  <2>6. Calm /\ OldMark
    BY <2>1, <2>5 DEF Calm, OldMark
  <2> QED BY <2>6, CalmEnds
<1>2. CASE ReadPackage(c)
  <2>1. At(c, "package") /\ UNCHANGED <<reg, active, made>>
    BY <1>2 DEF ReadPackage
  <2>2. pass[c].pc # "idle" /\ pass[c] \in Pass /\ pass \in [Reconcilers -> Pass] /\ pkg.release \in Releases
    BY <2>1 DEF At, LifecycleInv, LifecycleTypeOK
  <2>3. \A d \in Reconcilers : Keeps(d)
    <3>1. CASE Plannable
      <4>1. PICK pc \in {"serve", "apply"} : pc = IF pass[c].desired = "Uninstalled" THEN "serve" ELSE "apply"
        OBVIOUS
      <4>2. PICK q : q = [pass[c] EXCEPT !.plan = pkg.release, !.pc = pc]
        OBVIOUS
      <4>3. q \in Pass /\ q.desired = pass[c].desired
        BY <2>2, <4>2 DEF Pass, PassPcs
      <4>4. pass' = [pass EXCEPT ![c] = q]
        BY <1>2, <2>2, <3>1, <4>1, <4>2 DEF ReadPackage
      <4> QED BY <2>2, <4>3, <4>4, PassKeeps
    <3>2. CASE ~ Plannable
      BY <1>2, <2>2, <3>2, MovesKeep DEF ReadPackage
    <3> QED BY <3>1, <3>2
  <2> QED BY <2>1, <2>3, RestIsCalm, CalmEnds
<1>3. CASE Upsert(c)
  <2>1. pass[c].pc \in Building /\ pass[c].pc # "idle" /\ reg' = reg
    BY <1>3 DEF Upsert, At, Building
  <2>2. Calm
    BY <2>1, NothingIsBuilt DEF Calm
  <2> QED BY <2>1, <2>2, CalmEnds DEF OldMark
<1>4. CASE Rollout(c)
  <2>1. pass[c].pc # "idle"
    BY <1>4 DEF Rollout, At
  <2>2. CASE Report(c, Installing(pass[c].status, Plan(c)))
    BY <2>1, <2>2, ReportIsCalm, CalmEnds
  <2>3. CASE (Fail(c, FALSE) \/ Goto(c, "verify")) /\ UNCHANGED <<reg, made, active>>
    <3>1. \A d \in Reconcilers : Keeps(d)
      BY <2>1, <2>3, MovesKeep DEF PassPcs
    <3> QED BY <2>3, <3>1, RestIsCalm, CalmEnds
  <2> QED BY <1>4, <2>2, <2>3 DEF Rollout
<1>5. CASE VerifyRelease(c) \/ ServiceIsGone(c)
  <2>1. pass[c].pc # "idle" /\ UNCHANGED <<reg, made, active>>
    BY <1>5 DEF VerifyRelease, ServiceIsGone, At
  <2>2. (\E pc \in PassPcs : Goto(c, pc)) \/ (\E t \in BOOLEAN : Fail(c, t))
    <3>1. {"serve", "cleanup"} \subseteq PassPcs
      BY DEF PassPcs
    <3> QED BY <1>5, <3>1 DEF VerifyRelease, ServiceIsGone
  <2> QED BY <2>1, <2>2, MovesKeep, RestIsCalm, CalmEnds
<1>6. CASE MoveService(c)
  <2>1. pass[c].pc # "idle" /\ UNCHANGED <<reg, made>>
    BY <1>6 DEF MoveService, At
  <2>2. \A d \in Reconcilers : Keeps(d)
    <3>1. \E pc \in PassPcs : Goto(c, pc)
      BY <1>6 DEF MoveService, PassPcs
    <3> QED BY <2>1, <3>1, MovesKeep
  <2>3. Withdraws(c) => active' = active
    BY <1>6 DEF MoveService
  <2>4. Calm
    BY <2>1, <2>2, <2>3, NothingIsBuilt DEF Calm, Withdraws
  <2> QED BY <2>1, <2>4, CalmEnds DEF OldMark
<1>7. CASE PlanCleanup(c)
  <2>1. pass[c].pc # "idle" /\ UNCHANGED <<reg, made, active>> /\ pass \in [Reconcilers -> Pass] /\ pass[c] \in Pass
    BY <1>7 DEF PlanCleanup, At, LifecycleInv, LifecycleTypeOK
  <2>2. \A d \in Reconcilers : Keeps(d)
    <3>1. CASE Fail(c, TRUE)
      BY <2>1, <3>1, MovesKeep
    <3>2. CASE pass' = [pass EXCEPT ![c].pc = "delete", ![c].doomed = Inactive(pass[c].desired, Plan(c))]
      <4>1. PICK gone \in SUBSET Releases : gone = Inactive(pass[c].desired, Plan(c))
        BY DEF Inactive
      <4>2. PICK q : q = [pass[c] EXCEPT !.pc = "delete", !.doomed = gone]
        OBVIOUS
      <4>3. q \in Pass /\ q.desired = pass[c].desired
        BY <2>1, <4>2 DEF Pass, PassPcs
      <4>4. pass' = [pass EXCEPT ![c] = q]
        BY <2>1, <3>2, <4>1, <4>2
      <4> QED BY <2>1, <4>3, <4>4, PassKeeps
    <3> QED BY <1>7, <3>1, <3>2 DEF PlanCleanup
  <2> QED BY <2>1, <2>2, RestIsCalm, CalmEnds
<1>8. CASE DeleteRevision(c)
  <2>1. PICK r \in pass[c].doomed :
          /\ At(c, "delete") /\ UNCHANGED <<reg, active>>
          /\ made' = made \/ (made[r] # "none" /\ \E how : made' = [made EXCEPT ![r] = how])
          /\ \/ pass' = [pass EXCEPT ![c].doomed = @ \ {r}] \/ pass' = pass
             \/ \E t \in BOOLEAN : Fail(c, t)
    <3>1. PICK r \in pass[c].doomed :
            /\ At(c, "delete") /\ UNCHANGED <<pkg, reg, active, leaving, call, scene>>
            /\ CASE made[r] = "none" ->
                      pass' = [pass EXCEPT ![c].doomed = @ \ {r}] /\ UNCHANGED <<made, up>>
                 [] made[r] # "none" /\ r \in pass[c].changed ->
                      /\ \/ UNCHANGED <<made, up>>
                         \/ made' = [made EXCEPT ![r] = "part"] /\ up' = up \ {r}
                      /\ Fail(c, TRUE)
                 [] made[r] = "part" /\ r \notin pass[c].changed ->
                      /\ made' = [made EXCEPT ![r] = "none"] /\ up' = up \ {r}
                      /\ pass' = [pass EXCEPT ![c].doomed = @ \ {r}]
                 [] made[r] \in Present /\ r \notin pass[c].changed ->
                      \/ /\ made[r] = "whole"
                         /\ made' = [made EXCEPT ![r] = "part"] /\ up' = up \ {r}
                         /\ UNCHANGED pass
                      \/ /\ made' = [made EXCEPT ![r] = "going"]
                         /\ Fail(c, FALSE) /\ UNCHANGED up
      BY <1>8 DEF DeleteRevision
    <3>2. made[r] \in {"none", "part"} \cup Present
      BY DEF LifecycleInv, LifecycleTypeOK, Pass
    <3>3. CASE made[r] = "none"
      BY <3>1, <3>3 DEF Present
    <3>4. CASE made[r] # "none" /\ r \in pass[c].changed
      BY <3>1, <3>4
    <3>5. CASE made[r] = "part" /\ r \notin pass[c].changed
      BY <3>1, <3>5 DEF Present
    <3>6. CASE made[r] \in Present /\ r \notin pass[c].changed
      BY <3>1, <3>6 DEF Present
    <3> QED BY <3>2, <3>3, <3>4, <3>5, <3>6
  <2>2. /\ pass[c].pc # "idle" /\ pass \in [Reconcilers -> Pass] /\ pass[c] \in Pass
        /\ made \in [Releases -> {"none", "part"} \cup Present]
    BY <2>1 DEF At, LifecycleInv, LifecycleTypeOK
  <2>3. \A d \in Reconcilers : Keeps(d)
    <3>1. CASE pass' = [pass EXCEPT ![c].doomed = @ \ {r}]
      <4>1. PICK q : q = [pass[c] EXCEPT !.doomed = pass[c].doomed \ {r}]
        OBVIOUS
      <4>2. q \in Pass /\ q.desired = pass[c].desired
        BY <2>2, <4>1 DEF Pass
      <4>3. pass' = [pass EXCEPT ![c] = q]
        BY <2>2, <3>1, <4>1
      <4> QED BY <2>2, <4>2, <4>3, PassKeeps
    <3>2. CASE pass' = pass
      BY <2>2, <3>2, PassKeeps
    <3>3. CASE \E t \in BOOLEAN : Fail(c, t)
      BY <2>2, <3>3, MovesKeep
    <3> QED BY <2>1, <3>1, <3>2, <3>3
  <2>4. \A q \in Releases : made'[q] # "none" => made[q] # "none"
    BY <2>1, <2>2
  <2>5. Calm /\ OldMark
    BY <2>1, <2>3, <2>4 DEF Calm, OldMark
  <2> QED BY <2>5, CalmEnds
<1>9. CASE Conclude(c) \/ MarkFailure(c)
  <2>1. pass[c].pc # "idle" /\ \E status : Report(c, status)
    BY <1>9 DEF Conclude, MarkFailure, At
  <2> QED BY <2>1, ReportIsCalm, CalmEnds
<1>10. CASE DeleteRegistration(c)
  <2>1. pass[c].pc # "idle" /\ UNCHANGED <<made, active>>
    BY <1>10 DEF DeleteRegistration, At
  <2>2. CASE reg # NoReg /\ reg.deleted = "no" /\ MarkDeleted(c)
    BY <1>10, <2>2, MarkEnds
  <2>3. CASE (Goto(c, "observe") \/ Fail(c, FALSE)) /\ reg' = reg
    <3>1. \A d \in Reconcilers : Keeps(d)
      BY <2>1, <2>3, MovesKeep DEF PassPcs
    <3> QED BY <2>1, <2>3, <3>1, RestIsCalm, CalmEnds
  <2> QED BY <1>10, <2>2, <2>3 DEF DeleteRegistration
<1>11. CASE ObserveDeletion(c)
  <2>1. pass[c].pc # "idle" /\ UNCHANGED <<reg, made, active>>
    BY <1>11 DEF ObserveDeletion, At
  <2>2. \A d \in Reconcilers : Keeps(d)
    <3>1. CASE pass' = [pass EXCEPT ![c] = Idle]
      BY <2>1, <3>1, PassKeeps
    <3>2. CASE \E t \in BOOLEAN : Fail(c, t)
      BY <2>1, <3>2, MovesKeep
    <3> QED BY <1>11, <3>1, <3>2 DEF ObserveDeletion
  <2> QED BY <2>1, <2>2, RestIsCalm, CalmEnds
<1> QED BY <1>1, <1>2, <1>3, <1>4, <1>5, <1>6, <1>7, <1>8, <1>9, <1>10, <1>11 DEF ReconcileOnce

\* Nor does anybody else, without writing it.
LEMMA EndingStep == ASSUME LifecycleInv, Ending, LifecycleNext PROVE Ending'
<1>1. SceneKept /\ Marked /\ pass \in [Reconcilers -> Pass]
  BY LifecycleStep DEF Sound, LifecycleInv, LifecycleTypeOK
<1>2. CASE \E c \in Reconcilers : ReconcileOnce(c)
  BY <1>1, <1>2, PassEnding
<1>3. CASE UNCHANGED <<reg, made, active, pass>>
  <2>1. \A d \in Reconcilers : Keeps(d)
    BY <1>3 DEF Keeps
  <2> QED BY <1>1, <1>3, <2>1, RestIsCalm, CalmEnds
<1>4. CASE reg' = NoReg \/ reg'.deleted # "pending"
  BY <1>4 DEF Ending
<1>5. ASSUME NEW m \in Calls, PatchRegistration(m) PROVE Ending'
  <2>1. CASE WriteRegistration(m)
    <3>1. reg \in Registration
      BY <2>1, CallFacts DEF WriteRegistration, LifecycleInv, LifecycleTypeOK
    <3>2. reg'.deleted = IF reg.deleted = "no" THEN "no" ELSE "revived"
      BY <2>1, <3>1 DEF WriteRegistration, Registration
    <3> QED BY <1>4, <3>2
  <2> QED BY <1>3, <1>5, <2>1 DEF PatchRegistration
<1>6. ASSUME NEW c \in Reconcilers, RequestThrows(c) \/ Crash(c) PROVE Ending'
  <2>1. pass[c].pc # "idle" /\ UNCHANGED <<reg, made, active>>
    BY <1>6 DEF RequestThrows, Crash
  <2>2. \A d \in Reconcilers : Keeps(d)
    <3>1. CASE RequestThrows(c)
      BY <2>1, <3>1, MovesKeep DEF RequestThrows
    <3>2. CASE Crash(c)
      BY <2>1, <3>2, PassKeeps DEF Crash
    <3> QED BY <1>6, <3>1, <3>2
  <2> QED BY <1>1, <2>1, <2>2, RestIsCalm, CalmEnds
<1>7. ASSUME NEW r \in Releases, PodsStart(r) \/ PodsStop(r) \/ Vanish(r) PROVE Ending'
  <2>1. UNCHANGED <<reg, active, pass>> /\ made \in [Releases -> {"none", "part"} \cup Present]
    BY <1>7 DEF PodsStart, PodsStop, Vanish, LifecycleInv, LifecycleTypeOK
  <2>2. \A q \in Releases : made'[q] # "none" => made[q] # "none"
    BY <1>7, <2>1 DEF PodsStart, PodsStop, Vanish
  <2>3. Calm /\ OldMark
    BY <2>1, <2>2 DEF Calm, OldMark, Keeps
  <2> QED BY <1>1, <2>3, CalmEnds
<1>8. CASE Install
  BY <1>4, <1>8 DEF Install, NewReg
<1>9. CASE RegistrationVanishes
  BY <1>4, <1>9 DEF RegistrationVanishes
<1>10. CASE ServiceVanishes
  <2>1. Calm /\ OldMark
    BY <1>10 DEF ServiceVanishes, Calm, OldMark, Keeps
  <2> QED BY <1>1, <2>1, CalmEnds
<1>11. CASE \/ \E m \in Calls : \/ \E ask \in Asks : BeginCall(m, ask)
                               \/ RollbackPackage(m) \/ RecordOutcome(m) \/ CallDies(m)
            \/ \E r \in Releases : Publish(r)
            \/ Rediscover
  BY <1>3, <1>11 DEF BeginCall, RollbackPackage, RecordOutcome, CallDies, Publish, Rediscover
<1> QED BY <1>2, <1>5, <1>6, <1>7, <1>8, <1>9, <1>10, <1>11 DEF LifecycleNext, Surroundings

\* While a Registration that nobody has written again is being deleted, nothing
\* of the extension is there and nothing is made (one reconciler).
THEOREM EndingHolds == LifecycleSpec => []Ending
<1>1. LifecycleInit => Ending
  BY DEF LifecycleInit, Ending
<1>2. LifecycleInv /\ Ending /\ [LifecycleNext]_lifecycleVars => Ending'
  <2>1. CASE UNCHANGED lifecycleVars
    BY <2>1 DEF lifecycleVars, Ending, Removable, Alone
  <2> QED BY <2>1, EndingStep
<1> QED BY <1>1, <1>2, LifecycleInvariant, PTL DEF LifecycleSpec

\* A Registration is marked on request, and last of all, and goes like that
\* unless it has been written again.
THEOREM CompleteUninstall == LifecycleSpec => UninstallIsComplete
<1> DEFINE marks == reg.deleted = "no" /\ (reg' = NoReg \/ reg'.deleted # "no")
           goes == reg.deleted = "pending" /\ reg' = NoReg
           Complete == reg # NoReg /\ (marks \/ goes) => Removable
<1>1. LifecycleInv /\ Ending /\ [LifecycleNext]_lifecycleVars => [Complete]_lifecycleVars
  BY LifecycleStep DEF Sound, Marked, Ending
<1> QED BY <1>1, LifecycleInvariant, EndingHolds, PTL DEF LifecycleSpec, UninstallIsComplete
=============================================================================
