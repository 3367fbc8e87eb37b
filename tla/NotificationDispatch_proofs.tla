---------------------- MODULE NotificationDispatch_proofs ----------------------
(***************************************************************************)
(* Proofs about the notification dispatcher, for any finite number of      *)
(* dispatchers and retries, any channels and any bound on attempts.  That  *)
(* attempts are counted without a gap needs nothing but the unique attempt *)
(* number.  That an acceptance is final needs that a claim has one owner,  *)
(* which holds until two retries overlap; that sends are limited holds     *)
(* also then, and needs an account of the sends that are still to come.    *)
(***************************************************************************)
EXTENDS NotificationDispatch, FiniteSetTheorems, TLAPS

\* A dispatcher in the middle of a delivery.
InDelivery == {"send", "wait", "record", "settle", "health", "catch"}

\* The batch is what is left to do, and one delivery of it is being done.
WorkerIsInOrder(w) ==
    /\ worker[w].pc \in {"idle", "materialize"} => worker[w].batch = {} /\ worker[w].at = {}
    /\ worker[w].pc = "read" => worker[w].at = {}
    /\ worker[w].pc \in InDelivery => \E c \in worker[w].batch : worker[w].at = {c}
    /\ worker[w].pc \in {"read", "send", "wait"} => ~ worker[w].caught

Does(w, c, pcs) == c \in worker[w].at /\ worker[w].pc \in pcs

\* Whoever completes a delivery builds on the count of the delivery, or an older one,
\* and only the latest attempt is ever waiting to be settled.
CountIsShared(c) ==
    LET n == delivery[c].count IN
    /\ attempts[c] \in {1..n, 1..(n + 1)}
    /\ \A w \in Workers : Does(w, c, {"send", "wait", "record"}) => worker[w].count <= n
    /\ \A w \in Workers : Does(w, c, {"settle"}) => worker[w].count = n /\ attempts[c] = 1..(n + 1)
    /\ \A w, v \in Workers : (Does(w, c, {"settle"}) /\ Does(v, c, {"settle"})) => w = v
    /\ delivery[c].status = "none" => delivery[c] = NoDelivery

\* An acceptance comes from the provider.
AcceptanceIsReal(c) ==
    c \in reached \/ /\ delivery[c].status # "accepted"
                     /\ \A w \in Workers : Does(w, c, {"record", "settle"}) => worker[w].kind # "accepted"

\* A claimed delivery that its dispatcher has not settled.
Owns(w, c) == c \in worker[w].batch /\ ~ Does(w, c, {"health"})

\* A claim has at most one owner.
ClaimIsOwned(c) ==
    /\ \A w \in Workers : Owns(w, c) => delivery[c].status = "sending"
    /\ \A w, v \in Workers : (Owns(w, c) /\ Owns(v, c)) => w = v

\* The dispatchers that will still send the delivery of their claim, and those
\* that will settle it unless another one does.
Unsent(c) == {w \in Workers : c \in worker[w].batch /\ (c \in worker[w].at => worker[w].pc = "send")}
Pursues(w, c) ==
    /\ c \in worker[w].batch
    /\ c \in worker[w].at => \/ worker[w].pc \in {"settle", "catch"}
                             \/ worker[w].pc \in {"send", "record"} /\ worker[w].count = delivery[c].count

\* It waits for a claim, or will, having been left by its dispatcher.
Waiting(c) == \/ delivery[c].status \in {"none", "queued", "retrying"}
              \/ delivery[c].status = "sending" /\ \A w \in Workers : ~ Pursues(w, c)

\* What was sent, what will be and one send for the next claim, against the
\* attempts that were counted, the one that is under way and the retries.
Budget(c) ==
    sends[c] + Cardinality(Unsent(c)) + (IF Waiting(c) THEN 1 ELSE 0)
        <= (IF delivery[c].count < MAX_ATTEMPTS THEN delivery[c].count ELSE MAX_ATTEMPTS - 1) + 1 + Requeued(c)

\* What holds of a delivery while nothing is disturbed.
Accounted(c) ==
    /\ (\A w \in Workers : ~ Does(w, c, {"settle"})) => attempts[c] = 1..delivery[c].count
    /\ delivery[c].old => \A w \in Workers : c \notin worker[w].batch
    /\ \A w \in Workers : ~ Does(w, c, {"wait"})
    /\ Budget(c)
    /\ ~ Overtaken(c) => ClaimIsOwned(c)

NotificationInv ==
    /\ NotificationTypeOK
    /\ \A w \in Workers : WorkerIsInOrder(w)
    /\ \A c \in Channels : CountIsShared(c)
    /\ \A c \in Channels : AcceptanceIsReal(c)
    /\ \A q \in Retries : retry[q].late => retry[q].pc = "done"
    /\ Undisturbed => \A c \in Channels : Accounted(c)

-----------------------------------------------------------------------------
(* What a step leaves alone.                                               *)

\* The rows of d, and whoever is in the middle of it.
LeavesAlone(d) ==
    /\ delivery'[d] = delivery[d] /\ attempts'[d] = attempts[d] /\ sends'[d] = sends[d]
    /\ d \in reached' <=> d \in reached
    /\ \A v \in Workers : d \in worker'[v].at <=> d \in worker[v].at
    /\ \A v \in Workers : d \in worker[v].at => worker'[v] = worker[v]

\* Nobody claims d, and no retry of it is forgotten.
TakesNoClaim(d) == \A v \in Workers : d \in worker'[v].batch => d \in worker[v].batch
KeepsRetries(d) == Requeued(d)' >= Requeued(d) /\ (Overtaken(d) => Overtaken(d)')

\* A step of one dispatcher.
StepOf(w) == /\ worker' \in [Workers -> Worker]
             /\ \A v \in Workers : v # w => worker'[v] = worker[v]

\* What is counted is finite.
LEMMA FiniteCounts ==
    ASSUME NEW d
    PROVE  /\ IsFiniteSet(Unsent(d)) /\ Cardinality(Unsent(d)) \in Nat
           /\ IsFiniteSet({q \in Retries : retry[q].pc = "done" /\ d \in retry[q].at})
           /\ Requeued(d) \in Nat
<1>1. IsFiniteSet(Unsent(d))
  BY FiniteAssumption, FS_Subset DEF Unsent
<1>2. IsFiniteSet({q \in Retries : retry[q].pc = "done" /\ d \in retry[q].at})
  BY FiniteAssumption, FS_Subset
<1>3. QED
  BY <1>1, <1>2, FS_CardinalityType DEF Requeued

\* The same of the next state.
LEMMA FiniteCountsNext ==
    ASSUME NEW d
    PROVE  /\ IsFiniteSet(Unsent(d)') /\ Cardinality(Unsent(d)') \in Nat
           /\ IsFiniteSet({q \in Retries : retry'[q].pc = "done" /\ d \in retry'[q].at})
           /\ Requeued(d)' \in Nat
<1>1. IsFiniteSet(Unsent(d)')
  BY FiniteAssumption, FS_Subset DEF Unsent
<1>2. IsFiniteSet({q \in Retries : retry'[q].pc = "done" /\ d \in retry'[q].at})
  BY FiniteAssumption, FS_Subset
<1>3. QED
  BY <1>1, <1>2, FS_CardinalityType DEF Requeued

\* How many there are of either, before a step and after it.
LEMMA Counts ==
    ASSUME NEW d
    PROVE  /\ Cardinality(Unsent(d)) \in Nat /\ Cardinality(Unsent(d)') \in Nat
           /\ Requeued(d) \in Nat /\ Requeued(d)' \in Nat
BY FiniteCounts, FiniteCountsNext

\* A step of one dispatcher adds it to those that will send, or takes it away.
LEMMA UnsentChange ==
    ASSUME NEW w \in Workers, NEW c, \A v \in Workers : v # w => worker'[v] = worker[v]
    PROVE  /\ w \in Unsent(c) /\ w \notin Unsent(c)' => Cardinality(Unsent(c)') = Cardinality(Unsent(c)) - 1
           /\ w \notin Unsent(c) /\ w \in Unsent(c)' => Cardinality(Unsent(c)') = Cardinality(Unsent(c)) + 1
           /\ (w \in Unsent(c) <=> w \in Unsent(c)') => Cardinality(Unsent(c)') = Cardinality(Unsent(c))
<1>1. \A v : v # w => (v \in Unsent(c)' <=> v \in Unsent(c))
  BY DEF Unsent
<1>2. PICK A, B : A = Unsent(c) /\ B = Unsent(c)'
  OBVIOUS
<1>3. IsFiniteSet(A) /\ IsFiniteSet(B) /\ Cardinality(A) \in Nat /\ Cardinality(B) \in Nat
  BY <1>2, FiniteCounts, FiniteCountsNext
<1>4. \A v : v # w => (v \in A <=> v \in B)
  BY <1>1, <1>2
<1>5. CASE w \in A /\ w \notin B
  <2>1. B = A \ {w}
    BY <1>4, <1>5
  <2>2. Cardinality(B) = Cardinality(A) - 1
    BY <1>3, <1>5, <2>1, FS_RemoveElement
  <2>3. QED
    BY <1>2, <1>5, <2>2
<1>6. CASE w \notin A /\ w \in B
  <2>1. B = A \cup {w}
    BY <1>4, <1>6
  <2>2. Cardinality(B) = Cardinality(A) + 1
    BY <1>3, <1>6, <2>1, FS_AddElement
  <2>3. QED
    BY <1>2, <1>6, <2>2
<1>7. CASE w \in A <=> w \in B
  <2>1. A = B
    BY <1>4, <1>7
  <2>2. QED
    BY <1>2, <1>7, <2>1
<1>8. QED
  BY <1>5, <1>6, <1>7

\* The account of a delivery is kept when no more is sent or will be than is
\* counted or retried.
LEMMA BudgetKept ==
    ASSUME NotificationTypeOK, NotificationTypeOK', NEW c \in Channels, Budget(c),
           NEW a \in Int, NEW b \in Int,
           sends'[c] <= sends[c] + a,
           Cardinality(Unsent(c)') <= Cardinality(Unsent(c)) + b,
           delivery'[c].count = delivery[c].count, Requeued(c)' >= Requeued(c),
           \/ a + b <= 0 /\ (Waiting(c)' => Waiting(c))
           \/ a + b <= 1 /\ Waiting(c) /\ ~ Waiting(c)'
           \/ a + b <= -1
    PROVE  Budget(c)'
<1>1. /\ sends[c] \in Nat /\ sends'[c] \in Nat
      /\ delivery[c].count \in Nat /\ delivery'[c].count \in Nat
  BY DEF NotificationTypeOK, Delivery
<1>2. PICK u, v, x, y \in Nat : /\ u = Cardinality(Unsent(c)) /\ v = Cardinality(Unsent(c)')
                               /\ x = Requeued(c) /\ y = Requeued(c)'
  BY FiniteCounts, FiniteCountsNext
<1>3. PICK i, j \in 0..1 : i = (IF Waiting(c) THEN 1 ELSE 0) /\ j = (IF Waiting(c)' THEN 1 ELSE 0)
  <2>1. (IF Waiting(c) THEN 1 ELSE 0) \in 0..1 /\ (IF Waiting(c)' THEN 1 ELSE 0) \in 0..1
    OBVIOUS
  <2>2. QED
    BY <2>1
<1>4. PICK m \in Int : m = (IF delivery[c].count < MAX_ATTEMPTS THEN delivery[c].count ELSE MAX_ATTEMPTS - 1) + 1
  BY <1>1, MaxAttemptsAssumption
<1>5. sends[c] + u + i <= m + x
  BY <1>1, <1>2, <1>3, <1>4 DEF Budget
<1>6. (a + b <= 0 /\ j <= i) \/ (a + b <= 1 /\ i = 1 /\ j = 0) \/ a + b <= -1
  BY <1>3
<1>7. sends'[c] + v + j <= m + y
  BY <1>1, <1>2, <1>3, <1>5, <1>6
<1>8. m = (IF delivery'[c].count < MAX_ATTEMPTS THEN delivery'[c].count ELSE MAX_ATTEMPTS - 1) + 1
  BY <1>4
<1>9. QED
  BY <1>2, <1>3, <1>7, <1>8 DEF Budget

\* What is left alone keeps its invariant.
LEMMA LeftAlone ==
    ASSUME NEW d \in Channels, LeavesAlone(d)
    PROVE  /\ CountIsShared(d) => CountIsShared(d)'
           /\ AcceptanceIsReal(d) => AcceptanceIsReal(d)'
           /\ (/\ NotificationTypeOK /\ NotificationTypeOK' /\ TakesNoClaim(d) /\ KeepsRetries(d)
               /\ Accounted(d)) => Accounted(d)'
<1>1. \A v \in Workers : \A pcs : Does(v, d, pcs)' <=> Does(v, d, pcs)
  BY DEF LeavesAlone, Does
<1>2. \A v \in Workers : d \in worker[v].at => worker'[v] = worker[v]
  BY DEF LeavesAlone
<1>3. \A v \in Workers : \A pcs : Does(v, d, pcs) => worker'[v] = worker[v]
  BY <1>2 DEF Does
<1>4. /\ delivery'[d] = delivery[d] /\ attempts'[d] = attempts[d] /\ sends'[d] = sends[d]
      /\ d \in reached' <=> d \in reached
      /\ \A v \in Workers : d \in worker'[v].at <=> d \in worker[v].at
  BY DEF LeavesAlone
<1>5. CountIsShared(d) => CountIsShared(d)'
  BY <1>1, <1>3, <1>4 DEF CountIsShared
<1>6. AcceptanceIsReal(d) => AcceptanceIsReal(d)'
  BY <1>1, <1>3, <1>4 DEF AcceptanceIsReal
<1>7. ASSUME NotificationTypeOK, NotificationTypeOK', TakesNoClaim(d), KeepsRetries(d), Accounted(d)
      PROVE  Accounted(d)'
  <2>1. \A v \in Workers : Owns(v, d)' => Owns(v, d)
    BY <1>1, <1>7 DEF Owns, TakesNoClaim
  <2>2. ~ Overtaken(d)' => ClaimIsOwned(d)'
    BY <1>4, <1>7, <2>1 DEF ClaimIsOwned, Accounted, KeepsRetries
  <2>3. Unsent(d)' \subseteq Unsent(d)
    BY <1>2, <1>4, <1>7 DEF Unsent, TakesNoClaim
  <2>4. Budget(d)'
    <3>1. sends[d] \in Nat /\ sends'[d] <= sends[d] + 0 /\ Budget(d) /\ Requeued(d)' >= Requeued(d)
      BY <1>4, <1>7 DEF NotificationTypeOK, Accounted, KeepsRetries
    <3>2. PICK A, B : A = Unsent(d) /\ B = Unsent(d)'
      OBVIOUS
    <3>3. IsFiniteSet(A) /\ IsFiniteSet(B) /\ Cardinality(A) \in Nat /\ Cardinality(B) \in Nat /\ B \subseteq A
      BY <2>3, <3>2, FiniteCounts, FiniteCountsNext
    <3>4. CASE A = B
      <4>1. \A v \in Workers : Pursues(v, d) => Pursues(v, d)'
        <5>1. SUFFICES ASSUME NEW v \in Workers, Pursues(v, d)
                       PROVE  Pursues(v, d)'
          OBVIOUS
        <5>2. CASE d \in worker[v].at
          BY <1>2, <1>4, <5>1, <5>2 DEF Pursues
        <5>3. CASE d \notin worker[v].at
          <6>1. v \in A
            BY <3>2, <5>1, <5>3 DEF Unsent, Pursues
          <6>2. d \in worker'[v].batch
            BY <3>2, <3>4, <6>1 DEF Unsent
          <6>3. QED
            BY <1>4, <5>3, <6>2 DEF Pursues
        <5>4. QED
          BY <5>2, <5>3
      <4>2. Waiting(d)' => Waiting(d)
        BY <1>4, <4>1 DEF Waiting
      <4>3. Cardinality(Unsent(d)') <= Cardinality(Unsent(d)) + 0
        BY <3>2, <3>3, <3>4
      <4>4. QED
        BY <1>4, <1>7, <3>1, <4>2, <4>3, BudgetKept
    <3>5. CASE A # B
      <4>1. PICK x \in A : x \notin B
        BY <3>3, <3>5
      <4>2. B \subseteq A \ {x} /\ IsFiniteSet(A \ {x}) /\ Cardinality(A \ {x}) = Cardinality(A) - 1
        BY <3>3, <4>1, FS_RemoveElement
      <4>3. Cardinality(B) <= Cardinality(A \ {x})
        BY <4>2, FS_Subset
      <4>4. Cardinality(Unsent(d)') <= Cardinality(Unsent(d)) + (-1)
        BY <3>2, <3>3, <4>2, <4>3
      <4>5. QED
        BY <1>4, <1>7, <3>1, <4>4, BudgetKept
    <3>6. QED
      BY <3>4, <3>5
  <2>5. QED
    BY <1>1, <1>4, <1>7, <2>2, <2>4 DEF Accounted, TakesNoClaim
<1>8. QED
  BY <1>5, <1>6, <1>7

\* One attempt number more: the interval grows by one, or it was there.
LEMMA Intervals ==
    ASSUME NEW n \in Nat
    PROVE  /\ (1..n) \cup {n + 1} = 1..(n + 1)
           /\ 1..n # 1..(n + 1)
           /\ \A k \in 1..n : (1..n) \cup {k} = 1..n
<1>1. n + 1 \in 1..(n + 1) /\ n + 1 \notin 1..n
  OBVIOUS
<1>2. \A k \in Int : k \in 1..(n + 1) <=> k \in 1..n \/ k = n + 1
  OBVIOUS
<1>3. (1..n) \cup {n + 1} = 1..(n + 1)
  BY <1>2
<1>4. 1..n # 1..(n + 1)
  BY <1>1
<1>5. QED
  BY <1>3, <1>4

\* What an exception in the middle of a delivery does to its dispatcher.
LEMMA ThrowsEffect ==
    ASSUME NEW w \in Workers, worker \in [Workers -> Worker], Throws(w)
    PROVE  /\ StepOf(w)
           /\ \/ worker[w].caught /\ worker'[w] = IdleWorker
              \/ /\ ~ worker[w].caught /\ ~ worker'[w].caught
                 /\ worker'[w].pc = "catch"
                 /\ worker'[w].batch = worker[w].batch /\ worker'[w].at = worker[w].at
<1>1. IdleWorker \in Worker
  BY DEF IdleWorker, Worker
<1>2. [worker[w] EXCEPT !.pc = "catch"] \in Worker
  BY DEF Worker
<1>3. worker'[w] = IF worker[w].caught THEN IdleWorker ELSE [worker[w] EXCEPT !.pc = "catch"]
  BY DEF Throws
<1>4. StepOf(w)
  BY <1>1, <1>2 DEF StepOf, Throws
<1>5. worker[w] \in Worker
  OBVIOUS
<1>6. QED
  BY <1>3, <1>4, <1>5 DEF Worker

\* Whatever is not a step of retryDelivery forgets no retry.
LEMMA SameRetries ==
    ASSUME retry' = retry
    PROVE  /\ \A d : Requeued(d)' = Requeued(d) /\ (Overtaken(d)' <=> Overtaken(d))
           /\ \A d : KeepsRetries(d)
<1>1. \A d : Requeued(d)' = Requeued(d) /\ (Overtaken(d)' <=> Overtaken(d))
  BY DEF Requeued, Overtaken
<1>2. ASSUME NEW d
      PROVE  KeepsRetries(d)
  <2>1. Requeued(d) \in Nat
    BY Counts
  <2>2. Requeued(d)' >= Requeued(d)
    BY <1>1, <2>1
  <2>3. QED
    BY <1>1, <2>2 DEF KeepsRetries
<1>3. QED
  BY <1>1, <1>2

\* The channels of S are looked at one by one, the others are left alone.
LEMMA Assemble ==
    ASSUME NotificationInv, NEW S \in SUBSET Channels,
           NotificationTypeOK', \A w \in Workers : WorkerIsInOrder(w)',
           \A q \in Retries : retry'[q].late => retry'[q].pc = "done",
           \A d \in Channels \ S : LeavesAlone(d) /\ KeepsRetries(d),
           Undisturbed' => Undisturbed,
           Undisturbed => \A d \in Channels \ S : TakesNoClaim(d),
           \A c \in S : CountIsShared(c)',
           \A c \in S : AcceptanceIsReal(c)',
           Undisturbed /\ Undisturbed' => \A c \in S : Accounted(c)'
    PROVE  NotificationInv'
<1>1. \A c \in Channels : CountIsShared(c)' /\ AcceptanceIsReal(c)'
  BY LeftAlone DEF NotificationInv
<1>2. Undisturbed' => \A c \in Channels : Accounted(c)'
  BY LeftAlone DEF NotificationInv
<1>3. QED
  BY <1>1, <1>2 DEF NotificationInv

\* The same for a step that leaves every channel alone.
LEMMA AssembleNone ==
    ASSUME NotificationInv,
           NotificationTypeOK', \A w \in Workers : WorkerIsInOrder(w)', retry' = retry,
           \A d \in Channels : LeavesAlone(d) /\ TakesNoClaim(d),
           Undisturbed' => Undisturbed
    PROVE  NotificationInv'
<1>1. \A d \in Channels : KeepsRetries(d)
  BY SameRetries
<1>2. PICK S : S = {}
  OBVIOUS
<1>3. S \in SUBSET Channels /\ \A c : c \notin S
  BY <1>2
<1>4. \A q \in Retries : retry'[q].late => retry'[q].pc = "done"
  BY DEF NotificationInv
<1>5. QED
  BY <1>1, <1>3, <1>4, Assemble

-----------------------------------------------------------------------------
(* Events.                                                                 *)

\* Claiming the event disturbs no delivery.
LEMMA ClaimEventStep ==
    ASSUME NotificationInv, NEW w \in Workers, ClaimEvent(w)
    PROVE  NotificationInv'
<1>1. /\ worker[w].pc = "idle" /\ worker[w] \in Worker
      /\ WorkerIsInOrder(w) /\ NotificationTypeOK
  BY DEF NotificationInv, NotificationTypeOK, ClaimEvent
<1>2. /\ StepOf(w) /\ worker'[w].pc = "materialize"
      /\ worker'[w].batch = {} /\ worker'[w].at = {}
  BY <1>1 DEF ClaimEvent, Moves, StepOf, NotificationTypeOK, Worker, WorkerIsInOrder
<1>3. NotificationTypeOK'
  BY <1>1, <1>2 DEF ClaimEvent, NotificationTypeOK, StepOf
<1>4. \A v \in Workers : WorkerIsInOrder(v)'
  BY <1>2 DEF WorkerIsInOrder, StepOf, NotificationInv, InDelivery
<1>5. \A d \in Channels : LeavesAlone(d) /\ TakesNoClaim(d)
  BY <1>1, <1>2 DEF LeavesAlone, TakesNoClaim, StepOf, ClaimEvent, WorkerIsInOrder
<1>6. (Undisturbed' => Undisturbed) /\ retry' = retry
  BY DEF Undisturbed, ClaimEvent
<1>7. QED
  BY <1>3, <1>4, <1>5, <1>6, AssembleNone

\* A delivery that comes to be has no attempt and no owner.
LEMMA MaterializeStep ==
    ASSUME NotificationInv, NEW w \in Workers, Materialize(w)
    PROVE  NotificationInv'
<1> DEFINE New == {c \in Channels : c \in enabled /\ delivery[c].status = "none" /\ "paused" \notin faults}
           Fresh == [NoDelivery EXCEPT !.status = "queued"]
<1>1. /\ worker[w].pc = "materialize" /\ worker[w] \in Worker
      /\ WorkerIsInOrder(w) /\ NotificationTypeOK
  BY DEF NotificationInv, NotificationTypeOK, Materialize
<1>2. /\ StepOf(w) /\ worker'[w].pc = "idle"
      /\ worker'[w].batch = {} /\ worker'[w].at = {}
  BY <1>1 DEF Materialize, Moves, StepOf, NotificationTypeOK, Worker, WorkerIsInOrder
<1>3. /\ Fresh \in Delivery /\ Fresh.status = "queued" /\ Fresh.count = 0
      /\ Fresh.old = FALSE /\ Fresh.retries = 0 /\ Fresh # NoDelivery
  <2>1. NoDelivery \in Delivery /\ NoDelivery.status = "none" /\ NoDelivery.count = 0
        /\ NoDelivery.old = FALSE /\ NoDelivery.retries = 0
    BY DEF NoDelivery, Delivery
  <2>2. QED
    BY <2>1 DEF Delivery
<1>4. /\ \A c \in New : delivery'[c] = Fresh
      /\ \A c \in Channels \ New : delivery'[c] = delivery[c]
      /\ delivery' \in [Channels -> Delivery]
  <2>1. CASE "paused" \in faults
    BY <1>1, <2>1 DEF Materialize, NotificationTypeOK
  <2>2. CASE "paused" \notin faults
    BY <1>1, <1>3, <2>2 DEF Materialize, NotificationTypeOK
  <2>3. QED
    BY <2>1, <2>2
<1>5. NotificationTypeOK'
  BY <1>1, <1>2, <1>4 DEF Materialize, NotificationTypeOK, StepOf
<1>6. \A v \in Workers : WorkerIsInOrder(v)'
  BY <1>2 DEF WorkerIsInOrder, StepOf, NotificationInv, InDelivery
<1>7. \A d \in Channels \ New : LeavesAlone(d) /\ TakesNoClaim(d)
  BY <1>1, <1>2, <1>4 DEF LeavesAlone, TakesNoClaim, StepOf, Materialize, WorkerIsInOrder
<1>8. (Undisturbed' => Undisturbed) /\ retry' = retry
  BY DEF Undisturbed, Materialize
<1>9. ASSUME NEW c \in New
      PROVE  /\ CountIsShared(c)' /\ AcceptanceIsReal(c)'
             /\ Undisturbed => Accounted(c)'
  <2>1. /\ delivery[c] = NoDelivery /\ delivery[c].status = "none" /\ delivery[c].count = 0
        /\ delivery'[c] = Fresh /\ CountIsShared(c) /\ AcceptanceIsReal(c)
        /\ Undisturbed => Accounted(c)
    BY <1>4 DEF NotificationInv, CountIsShared, NoDelivery
  <2>2. \A v \in Workers : c \in worker'[v].at <=> c \in worker[v].at
    BY <1>1, <1>2 DEF StepOf, WorkerIsInOrder
  <2>3. \A v \in Workers : c \in worker[v].at => worker'[v] = worker[v]
    BY <1>1, <1>2 DEF StepOf, WorkerIsInOrder
  <2>4. \A v \in Workers : \A pcs : Does(v, c, pcs)' <=> Does(v, c, pcs)
    BY <2>2, <2>3 DEF Does
  <2>5. \A v \in Workers : \A pcs : Does(v, c, pcs) => worker'[v] = worker[v]
    BY <2>3 DEF Does
  <2>6. attempts' = attempts /\ sends' = sends /\ reached' = reached
    BY DEF Materialize
  <2>7. CountIsShared(c)'
    BY <1>3, <2>1, <2>4, <2>5, <2>6 DEF CountIsShared
  <2>8. AcceptanceIsReal(c)'
    BY <1>3, <2>1, <2>4, <2>5, <2>6 DEF AcceptanceIsReal
  <2>9. ASSUME Undisturbed
        PROVE  Accounted(c)'
    <3>1. Accounted(c) /\ NotificationTypeOK /\ NotificationTypeOK'
      BY <1>1, <1>5, <2>1, <2>9
    <3>2. \A v \in Workers : c \in worker'[v].batch <=> c \in worker[v].batch
      BY <1>1, <1>2 DEF StepOf, WorkerIsInOrder
    <3>3. \A v \in Workers : Owns(v, c)' <=> Owns(v, c)
      BY <3>2, <2>4 DEF Owns
    <3>4. ~ Overtaken(c)' => ClaimIsOwned(c)'
      BY <1>8, <2>1, <3>1, <3>3, SameRetries DEF Accounted, ClaimIsOwned
    <3>5. Unsent(c)' = Unsent(c)
      BY <2>2, <2>3, <3>2 DEF Unsent
    <3>6. Budget(c)'
      <4>1. /\ sends[c] \in Nat /\ sends'[c] <= sends[c] + 0 /\ Cardinality(Unsent(c)) \in Nat
            /\ Cardinality(Unsent(c)') <= Cardinality(Unsent(c)) + 0
        <5>1. sends[c] \in Nat /\ Cardinality(Unsent(c)) \in Nat
          BY <3>1, Counts DEF NotificationTypeOK
        <5>2. QED
          BY <2>6, <3>5, <5>1
      <4>2. Waiting(c) /\ delivery'[c].count = delivery[c].count
        BY <1>3, <2>1 DEF Waiting
      <4>3. Requeued(c)' >= Requeued(c)
        BY <1>8, SameRetries DEF KeepsRetries
      <4>4. QED
        BY <3>1, <4>1, <4>2, <4>3, BudgetKept DEF Accounted
    <3>7. QED
      BY <1>3, <2>1, <2>4, <2>6, <3>1, <3>4, <3>6 DEF Accounted
  <2>10. QED
    BY <2>7, <2>8, <2>9
<1>10. QED
  <2>1. New \in SUBSET Channels
    OBVIOUS
  <2> HIDE DEF New
  <2>2. QED
    BY <1>5, <1>6, <1>7, <1>8, <1>9, <2>1, SameRetries, Assemble DEF NotificationInv

-----------------------------------------------------------------------------
(* Deliveries.                                                             *)

\* A dispatcher that is at a delivery is in the middle of it and holds it.
LEMMA AtChannel ==
    ASSUME NotificationInv, NEW w \in Workers, NEW c \in worker[w].at
    PROVE  /\ worker[w].at = {c} /\ c \in worker[w].batch
           /\ worker[w].pc \in InDelivery
<1>1. worker[w] \in Worker /\ WorkerIsInOrder(w)
  BY DEF NotificationInv, NotificationTypeOK
<1>2. worker[w].pc \in InDelivery
  BY <1>1 DEF Worker, WorkerIsInOrder, InDelivery
<1>3. QED
  BY <1>1, <1>2 DEF WorkerIsInOrder

\* A step of one dispatcher at one channel.
LEMMA AssembleOne ==
    ASSUME NotificationInv, NEW w \in Workers, NEW c \in Channels,
           NotificationTypeOK', StepOf(w), WorkerIsInOrder(w)',
           worker[w].at \subseteq {c}, worker'[w].at \subseteq {c},
           \A d \in Channels : d # c => /\ delivery'[d] = delivery[d] /\ attempts'[d] = attempts[d]
                                        /\ sends'[d] = sends[d] /\ (d \in reached' <=> d \in reached),
           faults' = faults, retry' = retry, worker'[w].batch \subseteq worker[w].batch,
           CountIsShared(c)', AcceptanceIsReal(c)',
           Undisturbed => Accounted(c)'
    PROVE  NotificationInv'
<1>1. \A v \in Workers : WorkerIsInOrder(v)'
  BY DEF WorkerIsInOrder, StepOf, NotificationInv, InDelivery
<1>2. \A d \in Channels \ {c} : LeavesAlone(d)
  BY DEF LeavesAlone, StepOf
<1>3. \A d \in Channels \ {c} : TakesNoClaim(d) /\ KeepsRetries(d)
  BY SameRetries DEF TakesNoClaim, StepOf
<1>4. Undisturbed' => Undisturbed
  BY DEF Undisturbed
<1>5. PICK S : S = {c}
  OBVIOUS
<1>6. S \in SUBSET Channels /\ \A d : d \in S <=> d = c
  BY <1>5
<1>7. QED
  BY <1>1, <1>2, <1>3, <1>4, <1>6, Assemble DEF NotificationInv

\* A claim is taken from nobody, unless the claims are disturbed.
LEMMA ClaimDeliveriesStep ==
    ASSUME NotificationInv, NEW w \in Workers, ClaimDeliveries(w)
    PROVE  NotificationInv'
<1>1. /\ worker[w].pc = "idle" /\ worker[w] \in Worker
      /\ WorkerIsInOrder(w) /\ NotificationTypeOK
      /\ worker[w].batch = {} /\ worker[w].at = {}
  BY DEF NotificationInv, NotificationTypeOK, ClaimDeliveries, WorkerIsInOrder
<1>2. PICK batch \in (SUBSET {c \in Channels : Claimable(c)}) \ {{}} :
         /\ delivery' = [c \in Channels |-> IF c \in batch THEN [delivery[c] EXCEPT !.status = "sending", !.old = FALSE]
                                            ELSE delivery[c]]
         /\ worker' = [worker EXCEPT ![w] = [IdleWorker EXCEPT !.pc = "read", !.batch = batch]]
  BY DEF ClaimDeliveries
<1>3. PICK r : r = [IdleWorker EXCEPT !.pc = "read", !.batch = batch]
  OBVIOUS
<1>4. /\ r \in Worker /\ r.pc = "read" /\ r.batch = batch /\ r.at = {} /\ ~ r.caught
  <2>1. IdleWorker \in Worker /\ IdleWorker.at = {} /\ IdleWorker.caught = FALSE
    BY DEF IdleWorker, Worker
  <2>2. batch \subseteq Channels
    BY <1>2
  <2>3. QED
    BY <1>3, <2>1, <2>2 DEF Worker
<1>5. StepOf(w) /\ worker'[w] = r
  BY <1>1, <1>2, <1>3, <1>4 DEF StepOf, NotificationTypeOK
<1>6. ASSUME NEW c \in batch
      PROVE  /\ c \in Channels /\ Claimable(c)
             /\ delivery'[c] \in Delivery
             /\ delivery'[c].status = "sending" /\ delivery'[c].old = FALSE
             /\ delivery'[c].count = delivery[c].count /\ delivery'[c].retries = delivery[c].retries
  <2>1. c \in Channels /\ Claimable(c) /\ delivery[c] \in Delivery
    BY <1>1, <1>2 DEF NotificationTypeOK
  <2>2. delivery'[c] = [delivery[c] EXCEPT !.status = "sending", !.old = FALSE]
    BY <1>2, <2>1
  <2>3. QED
    BY <2>1, <2>2 DEF Delivery
<1>7. /\ \A c \in Channels \ batch : delivery'[c] = delivery[c]
      /\ delivery' \in [Channels -> Delivery]
  <2>1. \A c \in Channels \ batch : delivery'[c] = delivery[c]
    BY <1>2
  <2>2. \A c \in Channels : delivery'[c] \in Delivery
    BY <2>1, <1>1, <1>6 DEF NotificationTypeOK
  <2>3. QED
    BY <1>2, <2>1, <2>2
<1>8. NotificationTypeOK'
  BY <1>1, <1>5, <1>7 DEF ClaimDeliveries, NotificationTypeOK, StepOf
<1>9. \A v \in Workers : WorkerIsInOrder(v)'
  BY <1>4, <1>5 DEF WorkerIsInOrder, StepOf, NotificationInv, InDelivery
<1>10. attempts' = attempts /\ sends' = sends /\ reached' = reached /\ faults' = faults /\ retry' = retry
  BY DEF ClaimDeliveries
<1>11. \A d \in Channels \ batch : LeavesAlone(d) /\ TakesNoClaim(d)
  BY <1>1, <1>4, <1>5, <1>7, <1>10 DEF LeavesAlone, TakesNoClaim, StepOf
<1>12. Undisturbed' => Undisturbed
  BY <1>10 DEF Undisturbed
<1>13. ASSUME NEW c \in batch
       PROVE  /\ CountIsShared(c)' /\ AcceptanceIsReal(c)'
              /\ Undisturbed => Accounted(c)'
  <2>1. /\ c \in Channels /\ CountIsShared(c) /\ AcceptanceIsReal(c)
        /\ Undisturbed => Accounted(c)
    BY <1>6 DEF NotificationInv
  <2>2. \A v \in Workers : c \in worker'[v].at <=> c \in worker[v].at
    BY <1>1, <1>4, <1>5 DEF StepOf
  <2>3. \A v \in Workers : c \in worker[v].at => worker'[v] = worker[v]
    BY <1>1, <1>5 DEF StepOf
  <2>4. \A v \in Workers : \A pcs : Does(v, c, pcs)' <=> Does(v, c, pcs)
    BY <2>2, <2>3 DEF Does
  <2>5. \A v \in Workers : \A pcs : Does(v, c, pcs) => worker'[v] = worker[v]
    BY <2>3 DEF Does
  <2>7. CountIsShared(c)'
    BY <1>6, <1>10, <2>1, <2>4, <2>5 DEF CountIsShared
  <2>8. AcceptanceIsReal(c)'
    BY <1>6, <1>10, <2>1, <2>4, <2>5 DEF AcceptanceIsReal
  <2>9. ASSUME Undisturbed
        PROVE  Accounted(c)'
    <3>1. Accounted(c) /\ NotificationTypeOK /\ NotificationTypeOK'
      BY <1>1, <1>8, <2>1, <2>9
    <3>2. CASE delivery[c].status = "sending" => delivery[c].old
      <4>1. \A v \in Workers : ~ Overtaken(c)' => ~ Owns(v, c)
        BY <1>6, <1>10, <3>1, <3>2, SameRetries DEF Accounted, ClaimIsOwned, Claimable, Owns
      <4>2. \A v \in Workers : v # w => (Owns(v, c)' <=> Owns(v, c))
        BY <1>5, <2>4 DEF Owns, StepOf
      <4>3. ~ Overtaken(c)' => ClaimIsOwned(c)'
        BY <1>6, <4>1, <4>2 DEF ClaimIsOwned
      <4>4. w \notin Unsent(c) /\ w \in Unsent(c)' /\ Pursues(w, c)'
        BY <1>1, <1>4, <1>5 DEF Unsent, Pursues
      <4>5. Waiting(c) /\ ~ Waiting(c)'
        <5>1. delivery[c].status = "sending" => \A v \in Workers : ~ Pursues(v, c)
          BY <3>1, <3>2 DEF Accounted, Pursues
        <5>2. Waiting(c)
          BY <1>6, <5>1 DEF Waiting, Claimable
        <5>3. QED
          BY <1>6, <4>4, <5>2 DEF Waiting
      <4>6. Budget(c)'
        <5>1. Cardinality(Unsent(c)) \in Nat /\ Cardinality(Unsent(c)') <= Cardinality(Unsent(c)) + 1
          <6>1. Cardinality(Unsent(c)) \in Nat
            BY Counts
          <6>2. Cardinality(Unsent(c)') = Cardinality(Unsent(c)) + 1
            BY <1>5, <4>4, UnsentChange DEF StepOf
          <6>3. QED
            BY <6>1, <6>2
        <5>2. /\ sends[c] \in Nat /\ sends'[c] <= sends[c] + 0 /\ Requeued(c)' >= Requeued(c)
              /\ delivery'[c].count = delivery[c].count
          <6>1. sends[c] \in Nat
            BY <2>1, <3>1 DEF NotificationTypeOK
          <6>2. Requeued(c)' >= Requeued(c)
            BY <1>10, SameRetries DEF KeepsRetries
          <6>3. sends'[c] = sends[c]
            BY <1>10
          <6>4. sends'[c] <= sends[c] + 0
            BY <6>1, <6>3
          <6>5. delivery'[c].count = delivery[c].count
            BY <1>6
          <6>6. QED
            BY <6>1, <6>2, <6>4, <6>5
        <5>3. QED
          BY <2>1, <3>1, <4>5, <5>1, <5>2, BudgetKept DEF Accounted
      <4>7. QED
        BY <1>6, <1>10, <2>4, <3>1, <4>3, <4>6 DEF Accounted
    <3>3. QED
      BY <1>6, <3>2 DEF Claimable
  <2>10. QED
    BY <2>7, <2>8, <2>9
<1>14. batch \in SUBSET Channels
  BY <1>2
<1>15. QED
  BY <1>8, <1>9, <1>10, <1>11, <1>12, <1>13, <1>14, SameRetries, Assemble DEF NotificationInv

\* A step of a dispatcher on its own delivery keeps the account if the row and
\* the attempts stay, nobody becomes an owner or stops pursuing it, and what is
\* sent was about to be.
LEMMA AccountedStep ==
    ASSUME NEW w \in Workers, NEW c \in Channels, NotificationTypeOK, NotificationTypeOK', Accounted(c),
           StepOf(w), worker'[w].batch \subseteq worker[w].batch,
           delivery' = delivery, attempts' = attempts, retry' = retry,
           \A v \in Workers : Owns(v, c)' => Owns(v, c),
           ~ Does(w, c, {"settle"}), ~ Does(w, c, {"settle"})', ~ Does(w, c, {"wait"})',
           Waiting(c)' => Waiting(c),
           \/ sends'[c] = sends[c] /\ (w \in Unsent(c)' => w \in Unsent(c))
           \/ sends'[c] <= sends[c] + 1 /\ w \in Unsent(c) /\ w \notin Unsent(c)'
    PROVE  Accounted(c)'
<1>1. \A v \in Workers : \A pcs : v # w => (Does(v, c, pcs)' <=> Does(v, c, pcs)) /\ worker'[v] = worker[v]
  BY DEF StepOf, Does
<1>2. /\ sends[c] \in Nat /\ Cardinality(Unsent(c)) \in Nat /\ Cardinality(Unsent(c)') \in Nat
      /\ Requeued(c)' >= Requeued(c) /\ delivery'[c].count = delivery[c].count /\ Budget(c)
  BY FiniteCounts, FiniteCountsNext, SameRetries DEF NotificationTypeOK, KeepsRetries, Accounted
<1>3. CASE sends'[c] = sends[c] /\ (w \in Unsent(c)' => w \in Unsent(c))
  <2>1. sends'[c] <= sends[c] + 0 /\ Cardinality(Unsent(c)') <= Cardinality(Unsent(c)) + 0
    BY <1>1, <1>2, <1>3, UnsentChange
  <2>2. Budget(c)'
    BY <1>2, <2>1, BudgetKept
  <2>3. QED
    BY <1>1, <2>2, SameRetries DEF Accounted, ClaimIsOwned
<1>4. CASE sends'[c] <= sends[c] + 1 /\ w \in Unsent(c) /\ w \notin Unsent(c)'
  <2>1. Cardinality(Unsent(c)') <= Cardinality(Unsent(c)) + (-1)
    BY <1>1, <1>2, <1>4, UnsentChange
  <2>2. Budget(c)'
    BY <1>2, <1>4, <2>1, BudgetKept
  <2>3. QED
    BY <1>1, <2>2, SameRetries DEF Accounted, ClaimIsOwned
<1>5. QED
  BY <1>3, <1>4

\* Reading the count makes it the one that attempts are built on.
LEMMA ReadContextStep ==
    ASSUME NotificationInv, NEW w \in Workers, NEW c \in Channels, ReadContext(w, c)
    PROVE  NotificationInv'
<1>1. /\ worker[w].pc = "read" /\ worker[w] \in Worker /\ c \in worker[w].batch
      /\ WorkerIsInOrder(w) /\ NotificationTypeOK /\ ~ worker[w].caught /\ worker[w].at = {}
      /\ delivery[c] \in Delivery
  BY DEF NotificationInv, NotificationTypeOK, ReadContext, WorkerIsInOrder
<1>2. /\ event' = event /\ delivery' = delivery /\ attempts' = attempts
      /\ sends' = sends /\ reached' = reached /\ faults' = faults /\ retry' = retry
  BY DEF ReadContext
<1>3. /\ StepOf(w) /\ worker'[w].at = {c} /\ worker'[w].batch = worker[w].batch
      /\ ~ worker'[w].caught
      /\ \/ worker'[w].pc = "send" /\ worker'[w].count = delivery[c].count
         \/ worker'[w].pc = "catch" /\ "store" \in faults
  <2>1. CASE worker' = [worker EXCEPT ![w].pc = "send", ![w].at = {c}, ![w].count = delivery[c].count]
    BY <1>1, <2>1 DEF StepOf, NotificationTypeOK, Worker, Delivery
  <2>2. CASE "store" \in faults /\ worker' = [worker EXCEPT ![w].pc = "catch", ![w].at = {c}]
    BY <1>1, <2>2 DEF StepOf, NotificationTypeOK, Worker
  <2>3. QED
    BY <2>1, <2>2 DEF ReadContext
<1>4. NotificationTypeOK'
  BY <1>1, <1>2, <1>3 DEF NotificationTypeOK, StepOf
<1>5. WorkerIsInOrder(w)'
  BY <1>1, <1>3 DEF WorkerIsInOrder, InDelivery
<1>6. CountIsShared(c) /\ AcceptanceIsReal(c) /\ (Undisturbed => Accounted(c))
  BY DEF NotificationInv
<1>7. \A v \in Workers : \A pcs : v # w => (Does(v, c, pcs)' <=> Does(v, c, pcs)) /\ worker'[v] = worker[v]
  BY <1>3 DEF StepOf, Does
<1>8. ~ Does(w, c, {"record", "settle"})' /\ ~ Does(w, c, {"settle"})'
  BY <1>3 DEF Does
<1>9. CountIsShared(c)'
  <2>1. Does(w, c, {"send", "wait", "record"})' => worker'[w].count <= delivery[c].count
    BY <1>1, <1>3 DEF Does, Delivery
  <2>2. QED
    BY <1>2, <1>6, <1>7, <1>8, <2>1 DEF CountIsShared
<1>10. AcceptanceIsReal(c)'
  BY <1>2, <1>6, <1>7, <1>8 DEF AcceptanceIsReal
<1>11. ASSUME Undisturbed
       PROVE  Accounted(c)'
  <2>1. worker'[w].pc = "send" /\ worker'[w].count = delivery[c].count
    BY <1>3, <1>11 DEF Undisturbed
  <2>2. Owns(w, c) /\ Pursues(w, c)' /\ w \in Unsent(c) /\ w \in Unsent(c)'
    BY <1>1, <1>2, <1>3, <2>1 DEF Owns, Does, Pursues, Unsent
  <2>3. \A v \in Workers : Owns(v, c)' => Owns(v, c)
    BY <2>2, <1>7 DEF Owns
  <2>4. Waiting(c)' => Waiting(c)
    BY <1>2, <1>7, <2>2 DEF Waiting, Pursues
  <2>5. ~ Does(w, c, {"settle"}) /\ ~ Does(w, c, {"wait"})'
    BY <1>1, <2>1 DEF Does
  <2>6. ~ Does(w, c, {"settle"})' /\ worker'[w].batch = worker[w].batch
    BY <1>3, <1>8
  <2>7. QED
    BY <1>1, <1>2, <1>3, <1>4, <1>6, <1>7, <1>11, <2>2, <2>3, <2>4, <2>5, <2>6, AccountedStep
<1>12. QED
  BY <1>1, <1>2, <1>3, <1>4, <1>5, <1>9, <1>10, <1>11, AssembleOne

\* A message is handed over by the one dispatcher that has the claim.
LEMMA SendStep ==
    ASSUME NotificationInv, NEW w \in Workers, NEW c \in Channels, Send(w, c)
    PROVE  NotificationInv'
<1>1. /\ worker[w].pc = "send" /\ worker[w] \in Worker /\ c \in worker[w].at
      /\ WorkerIsInOrder(w) /\ NotificationTypeOK /\ ~ worker[w].caught
      /\ worker[w].at = {c} /\ c \in worker[w].batch /\ sends[c] \in Nat
  BY AtChannel DEF NotificationInv, NotificationTypeOK, Send, WorkerIsInOrder
<1>2. event' = event /\ delivery' = delivery /\ attempts' = attempts /\ faults' = faults /\ retry' = retry
  BY DEF Send
<1>3. /\ sends' \in [Channels -> Nat] /\ sends'[c] \in {sends[c], sends[c] + 1}
      /\ \A d \in Channels : d # c => sends'[d] = sends[d]
  BY <1>1 DEF Send, NotificationTypeOK
<1>4. /\ StepOf(w) /\ worker'[w].at = {c} /\ worker'[w].batch = worker[w].batch
      /\ reached' \in {reached, reached \cup {c}}
      /\ \/ /\ worker'[w].pc = "record" /\ worker'[w].count = worker[w].count
            /\ worker'[w].kind = "accepted" => c \in reached'
         \/ worker'[w].pc = "catch" /\ ~ worker'[w].caught
         \/ /\ worker'[w].pc = "wait" /\ worker'[w].count = worker[w].count
            /\ ~ worker'[w].caught /\ "silent" \in faults
  <2>1. ASSUME NEW kind \in {"accepted", "retryable", "permanent"},
               worker' = [worker EXCEPT ![w].pc = "record", ![w].kind = kind],
               reached' = IF worker'[w].kind = "accepted" THEN reached \cup {c} ELSE reached
        PROVE  <1>4
    BY <1>1, <2>1 DEF StepOf, NotificationTypeOK, Worker
  <2>2. ASSUME Throws(w), reached' \in {reached, reached \cup {c}}
        PROVE  <1>4
    BY <1>1, <2>2, ThrowsEffect DEF NotificationTypeOK
  <2>3. ASSUME Moves(w, "wait"), "silent" \in faults, reached' \in {reached, reached \cup {c}}
        PROVE  <1>4
    BY <1>1, <2>3 DEF StepOf, NotificationTypeOK, Worker, Moves
  <2>4. QED
    BY <2>1, <2>2, <2>3 DEF Send
<1>5. NotificationTypeOK'
  BY <1>1, <1>2, <1>3, <1>4 DEF NotificationTypeOK, StepOf
<1>6. WorkerIsInOrder(w)'
  BY <1>1, <1>4 DEF WorkerIsInOrder, InDelivery
<1>7. CountIsShared(c) /\ AcceptanceIsReal(c) /\ (Undisturbed => Accounted(c))
  BY DEF NotificationInv
<1>8. \A v \in Workers : \A pcs : v # w => (Does(v, c, pcs)' <=> Does(v, c, pcs)) /\ worker'[v] = worker[v]
  BY <1>4 DEF StepOf, Does
<1>9. /\ ~ Does(w, c, {"settle"})' /\ ~ Does(w, c, {"settle"}) /\ Does(w, c, {"send", "wait", "record"})
      /\ Does(w, c, {"send", "wait", "record"})' => worker'[w].count = worker[w].count
      /\ Does(w, c, {"record", "settle"})' /\ worker'[w].kind = "accepted" => c \in reached'
      /\ ~ Does(w, c, {"health"})
  BY <1>1, <1>4 DEF Does
<1>10. CountIsShared(c)'
  BY <1>2, <1>7, <1>8, <1>9 DEF CountIsShared
<1>11. AcceptanceIsReal(c)'
  BY <1>2, <1>4, <1>7, <1>8, <1>9 DEF AcceptanceIsReal
<1>12. ASSUME Undisturbed
       PROVE  Accounted(c)'
  <2>1. worker'[w].pc \in {"record", "catch"}
    BY <1>4, <1>12 DEF Undisturbed
  <2>2. Owns(w, c) /\ w \in Unsent(c) /\ w \notin Unsent(c)' /\ ~ Does(w, c, {"wait"})'
    BY <1>1, <1>4, <1>9, <2>1 DEF Owns, Unsent, Does
  <2>3. \A v \in Workers : Owns(v, c)' => Owns(v, c)
    BY <2>2, <1>8 DEF Owns
  <2>4. Pursues(w, c) => Pursues(w, c)'
    BY <1>1, <1>2, <1>4, <2>1 DEF Pursues
  <2>5. Waiting(c)' => Waiting(c)
    BY <1>2, <1>8, <2>4 DEF Waiting, Pursues
  <2>6. sends'[c] <= sends[c] + 1
    BY <1>1, <1>3
  <2>7. QED
    BY <1>1, <1>2, <1>4, <1>5, <1>7, <1>8, <1>9, <1>12, <2>2, <2>3, <2>5, <2>6, AccountedStep
<1>13. QED
  BY <1>1, <1>2, <1>3, <1>4, <1>5, <1>6, <1>10, <1>11, <1>12, AssembleOne

\* An answer that comes late is none while nothing is disturbed.
LEMMA SmtpAnswersStep ==
    ASSUME NotificationInv, NEW w \in Workers, NEW c \in Channels, SmtpAnswers(w, c)
    PROVE  NotificationInv'
<1>1. /\ worker[w].pc = "wait" /\ worker[w] \in Worker /\ c \in worker[w].at
      /\ WorkerIsInOrder(w) /\ NotificationTypeOK /\ ~ worker[w].caught
      /\ worker[w].at = {c} /\ c \in worker[w].batch /\ Does(w, c, {"wait"})
  BY AtChannel DEF NotificationInv, NotificationTypeOK, SmtpAnswers, WorkerIsInOrder, Does
<1>2. /\ event' = event /\ delivery' = delivery /\ attempts' = attempts /\ sends' = sends
      /\ faults' = faults /\ retry' = retry
  BY DEF SmtpAnswers
<1>3. CountIsShared(c) /\ AcceptanceIsReal(c) /\ (Undisturbed => Accounted(c))
  BY DEF NotificationInv
<1>4. /\ StepOf(w) /\ worker'[w].at = {c} /\ worker'[w].batch = worker[w].batch
      /\ reached' \in {reached, reached \cup {c}}
      /\ \/ /\ worker'[w].pc = "record" /\ worker'[w].count = worker[w].count
            /\ worker'[w].kind = "accepted" => c \in reached'
         \/ worker'[w].pc = "catch"
  <2>1. ASSUME NEW kind \in {"accepted", "retryable", "permanent"},
               worker' = [worker EXCEPT ![w].pc = "record", ![w].kind = kind],
               reached' = IF worker'[w].kind = "accepted" THEN reached \cup {c} ELSE reached
        PROVE  <1>4
    BY <1>1, <2>1 DEF StepOf, NotificationTypeOK, Worker
  <2>2. ASSUME Throws(w), reached' = reached
        PROVE  <1>4
    BY <1>1, <2>2, ThrowsEffect DEF NotificationTypeOK
  <2>3. QED
    BY <2>1, <2>2 DEF SmtpAnswers
<1>5. NotificationTypeOK'
  BY <1>1, <1>2, <1>4 DEF NotificationTypeOK, StepOf
<1>6. WorkerIsInOrder(w)'
  BY <1>1, <1>4 DEF WorkerIsInOrder, InDelivery
<1>7. \A v \in Workers : \A pcs : v # w => (Does(v, c, pcs)' <=> Does(v, c, pcs)) /\ worker'[v] = worker[v]
  BY <1>4 DEF StepOf, Does
<1>8. /\ ~ Does(w, c, {"settle"})' /\ ~ Does(w, c, {"settle"}) /\ Does(w, c, {"send", "wait", "record"})
      /\ Does(w, c, {"send", "wait", "record"})' => worker'[w].count = worker[w].count
      /\ Does(w, c, {"record", "settle"})' /\ worker'[w].kind = "accepted" => c \in reached'
  BY <1>1, <1>4 DEF Does
<1>9. CountIsShared(c)'
  BY <1>2, <1>3, <1>7, <1>8 DEF CountIsShared
<1>10. AcceptanceIsReal(c)'
  BY <1>2, <1>3, <1>4, <1>7, <1>8 DEF AcceptanceIsReal
<1>11. ~ Undisturbed
  BY <1>1, <1>3 DEF Accounted
<1>12. QED
  BY <1>1, <1>2, <1>4, <1>5, <1>6, <1>9, <1>10, <1>11, AssembleOne

\* A number that is not taken yet is the next one, and nobody else is settling.
LEMMA RecordAttemptStep ==
    ASSUME NotificationInv, NEW w \in Workers, NEW c \in Channels, RecordAttempt(w, c)
    PROVE  NotificationInv'
<1> DEFINE n == delivery[c].count
           k == worker[w].count
<1>1. /\ worker[w].pc = "record" /\ worker[w] \in Worker /\ c \in worker[w].at
      /\ WorkerIsInOrder(w) /\ NotificationTypeOK
      /\ worker[w].at = {c} /\ c \in worker[w].batch
  BY AtChannel DEF NotificationInv, NotificationTypeOK, RecordAttempt
<1>2. event' = event /\ delivery' = delivery /\ sends' = sends /\ reached' = reached /\ faults' = faults /\ retry' = retry
  BY DEF RecordAttempt
<1>3. CountIsShared(c) /\ AcceptanceIsReal(c) /\ (Undisturbed => Accounted(c))
  BY DEF NotificationInv
<1>4. n \in Nat /\ k \in Nat /\ k <= n /\ Attempt(w) = k + 1 /\ attempts[c] \in {1..n, 1..(n + 1)}
  <2>1. Does(w, c, {"send", "wait", "record"})
    BY <1>1 DEF Does
  <2>2. n \in Nat /\ k \in Nat
    BY <1>1 DEF NotificationTypeOK, Delivery, Worker
  <2>3. QED
    BY <2>1, <2>2, <1>3 DEF CountIsShared, Attempt
<1>5. /\ attempts' \in [Channels -> SUBSET Nat] /\ \A d \in Channels : d # c => attempts'[d] = attempts[d]
      /\ attempts'[c] \in {attempts[c], attempts[c] \cup {k + 1}}
  BY <1>1, <1>4 DEF RecordAttempt, NotificationTypeOK
<1>6. attempts[c] \cup {k + 1} \in {1..n, 1..(n + 1)} /\ (attempts[c] = 1..(n + 1) => attempts[c] \cup {k + 1} = 1..(n + 1))
  <2>1. CASE k < n
    <3>1. k + 1 \in 1..n /\ k + 1 \in 1..(n + 1)
      BY <1>4, <2>1
    <3>2. QED
      BY <1>4, <3>1, Intervals
  <2>2. CASE k = n
    <3>1. k + 1 \in 1..(n + 1)
      BY <1>4, <2>2
    <3>2. (1..(n + 1)) \cup {k + 1} = 1..(n + 1)
      BY <3>1
    <3>3. QED
      BY <1>4, <2>2, <3>2, Intervals
  <2>3. QED
    BY <1>4, <2>1, <2>2
<1>7. attempts'[c] \in {1..n, 1..(n + 1)} /\ (attempts[c] = 1..(n + 1) => attempts'[c] = 1..(n + 1))
  BY <1>4, <1>5, <1>6
<1>8. k + 1 \notin attempts[c] => k = n /\ attempts[c] = 1..n /\ attempts[c] \cup {k + 1} = 1..(n + 1)
  <2>1. k < n => k + 1 \in 1..n /\ k + 1 \in 1..(n + 1)
    BY <1>4
  <2>2. k + 1 \in 1..(n + 1)
    BY <1>4
  <2>3. (1..n) \cup {n + 1} = 1..(n + 1)
    BY <1>4, Intervals
  <2>4. k + 1 \notin attempts[c] => k = n /\ attempts[c] = 1..n
    BY <1>4, <2>1, <2>2
  <2>5. QED
    BY <2>3, <2>4
<1>9. /\ StepOf(w)
      /\ \/ /\ worker'[w].pc = "settle" /\ worker'[w].at = {c} /\ worker'[w].batch = worker[w].batch
            /\ worker'[w].count = k /\ worker'[w].kind = worker[w].kind
            /\ k + 1 \notin attempts[c] /\ attempts'[c] = attempts[c] \cup {k + 1}
         \/ /\ worker'[w].pc = "catch" /\ worker'[w].at = {c} /\ worker'[w].batch = worker[w].batch
            /\ ~ worker'[w].caught /\ ((k + 1 \in attempts[c] /\ attempts' = attempts) \/ "store" \in faults)
         \/ worker'[w] = IdleWorker /\ ((k + 1 \in attempts[c] /\ attempts' = attempts) \/ "store" \in faults)
  <2>1. CASE Attempt(w) \notin attempts[c] /\ Moves(w, "settle") /\ attempts' = [attempts EXCEPT ![c] = @ \cup {Attempt(w)}]
    BY <1>1, <1>4, <2>1 DEF StepOf, NotificationTypeOK, Worker, Moves
  <2>2. CASE Throws(w) /\ ((k + 1 \in attempts[c] /\ attempts' = attempts) \/ "store" \in faults)
    BY <1>1, <2>2, ThrowsEffect DEF NotificationTypeOK
  <2>3. QED
    BY <1>4, <2>1, <2>2 DEF RecordAttempt
<1>10. NotificationTypeOK'
  BY <1>1, <1>2, <1>5, <1>9 DEF NotificationTypeOK, StepOf
<1>11. WorkerIsInOrder(w)' /\ worker'[w].at \subseteq {c} /\ worker'[w].batch \subseteq worker[w].batch
  BY <1>1, <1>9 DEF WorkerIsInOrder, InDelivery, IdleWorker
<1>12. \A v \in Workers : \A pcs : v # w => (Does(v, c, pcs)' <=> Does(v, c, pcs)) /\ worker'[v] = worker[v]
  BY <1>9 DEF StepOf, Does
<1>13. /\ ~ Does(w, c, {"send", "wait", "record"})' /\ ~ Does(w, c, {"settle"}) /\ Does(w, c, {"record", "settle"})
       /\ Does(w, c, {"settle"})' <=> worker'[w].pc = "settle"
       /\ Does(w, c, {"record", "settle"})' => worker'[w].pc = "settle" /\ worker'[w].kind = worker[w].kind
       /\ ~ Does(w, c, {"health"}) /\ ~ Does(w, c, {"health"})'
  BY <1>1, <1>9 DEF Does, IdleWorker
<1>14. CountIsShared(c)'
  <2>1. worker'[w].pc = "settle" => /\ worker'[w].count = n /\ attempts'[c] = 1..(n + 1)
                                    /\ \A v \in Workers : ~ Does(v, c, {"settle"})
    <3>1. ASSUME worker'[w].pc = "settle"
          PROVE  k = n /\ attempts[c] = 1..n /\ attempts'[c] = 1..(n + 1) /\ worker'[w].count = k
      <4>1. IdleWorker.pc # "settle"
        BY DEF IdleWorker
      <4>2. worker'[w].count = k /\ k + 1 \notin attempts[c] /\ attempts'[c] = attempts[c] \cup {k + 1}
        BY <1>9, <3>1, <4>1
      <4>3. QED
        BY <1>8, <4>2
    <3>2. 1..n # 1..(n + 1)
      BY <1>4, Intervals
    <3>3. QED
      BY <1>3, <3>1, <3>2 DEF CountIsShared
  <2>2. \A v \in Workers : Does(v, c, {"settle"})' => worker'[v].count = n /\ attempts'[c] = 1..(n + 1)
    BY <1>3, <1>7, <1>12, <1>13, <2>1 DEF CountIsShared
  <2>3. \A v, u \in Workers : Does(v, c, {"settle"})' /\ Does(u, c, {"settle"})' => v = u
    BY <1>3, <1>12, <1>13, <2>1 DEF CountIsShared
  <2>4. \A v \in Workers : Does(v, c, {"send", "wait", "record"})' => worker'[v].count <= n
    BY <1>3, <1>12, <1>13 DEF CountIsShared
  <2>5. QED
    BY <1>2, <1>3, <1>7, <2>2, <2>3, <2>4 DEF CountIsShared
<1>15. AcceptanceIsReal(c)'
  BY <1>2, <1>3, <1>12, <1>13 DEF AcceptanceIsReal
<1>16. ASSUME Undisturbed
       PROVE  Accounted(c)'
  <2>1. Accounted(c) /\ "store" \notin faults
    BY <1>3, <1>16 DEF Undisturbed
  <2>2. \A v \in Workers : Owns(v, c)' => Owns(v, c)
    BY <1>1, <1>11, <1>12, <1>13 DEF Owns
  <2>3. w \notin Unsent(c) /\ w \notin Unsent(c)' /\ ~ Does(w, c, {"wait"})'
    BY <1>1, <1>9 DEF Unsent, Does, IdleWorker
  <2>4. CASE worker'[w].pc = "settle"
    <3>1. k + 1 \notin attempts[c] /\ attempts'[c] = attempts[c] \cup {k + 1} /\ worker'[w].at = {c} /\ worker'[w].batch = worker[w].batch
      BY <1>9, <2>4 DEF IdleWorker
    <3>2. Does(w, c, {"settle"})' /\ Pursues(w, c)'
      BY <1>1, <2>4, <3>1 DEF Does, Pursues
    <3>3. Waiting(c)' => Waiting(c)
      BY <1>2, <1>12, <3>2 DEF Waiting, Pursues
    <3>4. Budget(c)'
      <4>1. sends[c] \in Nat /\ Cardinality(Unsent(c)) \in Nat
        BY <1>1, Counts DEF NotificationTypeOK
      <4>2. Cardinality(Unsent(c)') = Cardinality(Unsent(c))
        BY <1>12, <2>3, UnsentChange
      <4>3. sends'[c] <= sends[c] + 0 /\ Cardinality(Unsent(c)') <= Cardinality(Unsent(c)) + 0
        BY <1>2, <4>1, <4>2
      <4>4. Requeued(c)' >= Requeued(c)
        BY <1>2, SameRetries DEF KeepsRetries
      <4>5. QED
        BY <1>1, <1>2, <1>10, <2>1, <3>3, <4>3, <4>4, BudgetKept DEF Accounted
    <3>5. QED
      BY <1>2, <1>11, <1>12, <2>1, <2>2, <2>3, <3>2, <3>4, SameRetries DEF Accounted, ClaimIsOwned
  <2>5. CASE worker'[w].pc # "settle"
    <3>1. /\ k + 1 \in attempts[c] /\ attempts' = attempts
          /\ \/ worker'[w].pc = "catch" /\ worker'[w].at = {c} /\ worker'[w].batch = worker[w].batch
             \/ worker'[w] = IdleWorker
      BY <1>9, <2>1, <2>5
    <3>2. ~ Does(w, c, {"settle"})'
      BY <1>13, <2>5
    <3>3. Pursues(w, c) => Pursues(w, c)' \/ \E v \in Workers : v # w /\ Pursues(v, c)
      <4>1. CASE worker'[w].pc = "catch" /\ worker'[w].at = {c} /\ worker'[w].batch = worker[w].batch
        BY <1>1, <4>1 DEF Pursues
      <4>2. CASE worker'[w] = IdleWorker /\ Pursues(w, c)
        <5>1. k = n
          BY <1>1, <4>2 DEF Pursues
        <5>2. attempts[c] # 1..n
          BY <1>4, <3>1, <5>1
        <5>3. PICK v \in Workers : Does(v, c, {"settle"})
          BY <2>1, <5>2 DEF Accounted
        <5>4. v # w /\ c \in worker[v].batch
          BY <1>13, <5>3, AtChannel DEF Does
        <5>5. QED
          BY <5>3, <5>4 DEF Pursues, Does
      <4>3. QED
        BY <3>1, <4>1, <4>2
    <3>4. Waiting(c)' => Waiting(c)
      <4>1. \A v \in Workers : v # w => (Pursues(v, c) => Pursues(v, c)')
        BY <1>2, <1>12 DEF Pursues
      <4>2. QED
        BY <1>2, <3>3, <4>1 DEF Waiting
    <3>5. sends'[c] = sends[c]
      BY <1>2
    <3>6. QED
      BY <1>1, <1>2, <1>9, <1>10, <1>11, <1>13, <2>1, <2>2, <2>3, <3>1, <3>2, <3>4, <3>5, AccountedStep
  <2>6. QED
    BY <2>4, <2>5
<1>17. QED
  BY <1>1, <1>2, <1>5, <1>9, <1>10, <1>11, <1>14, <1>15, <1>16, AssembleOne

-----------------------------------------------------------------------------
(* Settling.                                                               *)

\* What completeDelivery makes of the provider's answer.
LEMMA SettledType ==
    ASSUME NEW w \in Workers, worker[w] \in Worker
    PROVE  /\ Settled(w) \in {"accepted", "failed", "dead-letter", "retrying"}
           /\ Settled(w) = "accepted" => worker[w].kind = "accepted"
           /\ Settled(w) = "retrying" => Attempt(w) < MAX_ATTEMPTS
           /\ Attempt(w) \in Nat
<1>1. Attempt(w) \in Nat
  BY DEF Attempt, Worker
<1>2. QED
  BY <1>1, MaxAttemptsAssumption DEF Settled

\* Whoever settles is the only one to, and the count takes its attempt.
LEMMA SettleDeliveryStep ==
    ASSUME NotificationInv, NEW w \in Workers, NEW c \in Channels, SettleDelivery(w, c)
    PROVE  NotificationInv'
<1> DEFINE n == delivery[c].count
<1>1. /\ worker[w].pc = "settle" /\ worker[w] \in Worker /\ c \in worker[w].at
      /\ WorkerIsInOrder(w) /\ NotificationTypeOK /\ delivery[c] \in Delivery
      /\ worker[w].at = {c} /\ c \in worker[w].batch /\ n \in Nat /\ delivery[c].retries \in Nat
  BY AtChannel DEF NotificationInv, NotificationTypeOK, SettleDelivery, Delivery
<1>2. event' = event /\ attempts' = attempts /\ sends' = sends /\ reached' = reached /\ faults' = faults /\ retry' = retry
  BY DEF SettleDelivery
<1>3. CountIsShared(c) /\ AcceptanceIsReal(c) /\ (Undisturbed => Accounted(c))
  BY DEF NotificationInv
<1>4. Does(w, c, {"settle"}) /\ Does(w, c, {"record", "settle"}) /\ ~ Does(w, c, {"health"})
  BY <1>1 DEF Does
<1>5. Attempt(w) = n + 1 /\ attempts[c] = 1..(n + 1) /\ \A v \in Workers : Does(v, c, {"settle"}) => v = w
  BY <1>3, <1>4 DEF CountIsShared, Attempt
<1> DEFINE settled == [delivery EXCEPT ![c].status = Settled(w), ![c].count = Attempt(w), ![c].old = FALSE]
<1>6. /\ settled \in [Channels -> Delivery] /\ settled[c].status = Settled(w) /\ settled[c].count = n + 1
      /\ settled[c].old = FALSE /\ settled[c].retries = delivery[c].retries
      /\ \A d \in Channels : d # c => settled[d] = delivery[d]
  BY <1>1, <1>5, SettledType DEF NotificationTypeOK, Delivery, Terminal
<1>7. /\ StepOf(w)
      /\ delivery' \in {delivery, settled}
      /\ \/ /\ worker'[w].pc = "health" /\ worker'[w].at = {c} /\ worker'[w].batch = worker[w].batch
            /\ delivery' = settled
         \/ /\ worker'[w].pc = "catch" /\ worker'[w].at = {c} /\ worker'[w].batch = worker[w].batch
            /\ ~ worker'[w].caught /\ "store" \in faults
         \/ worker'[w] = IdleWorker /\ "store" \in faults
  <2>1. CASE delivery' = settled /\ Moves(w, "health")
    BY <1>1, <2>1 DEF StepOf, NotificationTypeOK, Worker, Moves
  <2>2. CASE "store" \in faults /\ delivery' \in {delivery, settled} /\ Throws(w)
    BY <1>1, <2>2, ThrowsEffect DEF NotificationTypeOK
  <2>3. QED
    BY <2>1, <2>2 DEF SettleDelivery
<1> HIDE DEF settled
<1>8. NotificationTypeOK'
  BY <1>1, <1>2, <1>6, <1>7 DEF NotificationTypeOK, StepOf
<1>9. WorkerIsInOrder(w)' /\ worker'[w].at \subseteq {c} /\ worker'[w].batch \subseteq worker[w].batch
  BY <1>1, <1>7 DEF WorkerIsInOrder, InDelivery, IdleWorker
<1>10. \A v \in Workers : \A pcs : v # w => (Does(v, c, pcs)' <=> Does(v, c, pcs)) /\ worker'[v] = worker[v]
  BY <1>7 DEF StepOf, Does
<1>11. /\ ~ Does(w, c, {"send", "wait", "record"})' /\ ~ Does(w, c, {"settle"})'
       /\ ~ Does(w, c, {"record", "settle"})'
  BY <1>7 DEF Does, IdleWorker
<1>12. CountIsShared(c)'
  <2>1. \A v \in Workers : ~ Does(v, c, {"settle"})'
    BY <1>5, <1>10, <1>11
  <2>2. CASE delivery' = delivery
    BY <1>2, <1>3, <1>10, <1>11, <2>1, <2>2 DEF CountIsShared
  <2>3. CASE delivery' = settled
    <3>1. \A v \in Workers : Does(v, c, {"send", "wait", "record"})' => worker'[v].count <= n
      BY <1>3, <1>10, <1>11 DEF CountIsShared
    <3>2. \A v \in Workers : Does(v, c, {"send", "wait", "record"})' => worker'[v].count <= n + 1
      <4>1. \A v \in Workers : worker'[v].count \in Nat
        BY <1>7 DEF StepOf, Worker
      <4>2. QED
        BY <1>1, <3>1, <4>1
    <3>3. settled[c].status # "none"
      BY <1>1, <1>6, SettledType
    <3>4. QED
      BY <1>2, <1>5, <1>6, <2>1, <2>3, <3>2, <3>3 DEF CountIsShared
  <2>4. QED
    BY <1>7, <2>2, <2>3
<1>13. AcceptanceIsReal(c)'
  BY <1>1, <1>2, <1>3, <1>4, <1>6, <1>7, <1>10, <1>11, SettledType DEF AcceptanceIsReal
<1>14. ASSUME Undisturbed
       PROVE  Accounted(c)'
  <2>1. Owns(w, c) /\ Accounted(c) /\ "store" \notin faults
    BY <1>1, <1>3, <1>4, <1>14 DEF Owns, Undisturbed
  <2>2. worker'[w].pc = "health" /\ worker'[w].at = {c} /\ worker'[w].batch = worker[w].batch /\ delivery' = settled
    BY <1>7, <2>1
  <2>3. ~ Owns(w, c)' /\ ~ Does(w, c, {"wait"})'
    BY <2>2 DEF Owns, Does
  <2>4. ~ Overtaken(c)' => ClaimIsOwned(c)'
    <3>1. ~ Overtaken(c)' => \A v \in Workers : ~ Owns(v, c)'
      BY <1>2, <1>10, <2>1, <2>3, SameRetries DEF Accounted, ClaimIsOwned, Owns
    <3>2. QED
      BY <3>1 DEF ClaimIsOwned
  <2>5. \A v \in Workers : ~ Does(v, c, {"settle"})'
    BY <1>5, <1>10, <1>11
  <2>6. Budget(c)'
    <3>1. w \notin Unsent(c) /\ w \notin Unsent(c)'
      BY <1>1, <2>2 DEF Unsent
    <3>2. PICK u, x \in Nat : /\ u = Cardinality(Unsent(c)) /\ u = Cardinality(Unsent(c)')
                            /\ x = Requeued(c) /\ x = Requeued(c)'
      BY <1>2, <1>10, <3>1, UnsentChange, FiniteCounts, SameRetries
    <3>3. PICK i \in 0..1 : i = IF Waiting(c)' THEN 1 ELSE 0
      OBVIOUS
    <3>4. i = 1 => Settled(w) = "retrying"
      BY <1>1, <1>6, <2>2, <3>3, SettledType DEF Waiting
    <3>5. sends[c] \in Nat /\ sends'[c] = sends[c] /\ delivery'[c].count = n + 1
      BY <1>1, <1>2, <1>6, <2>2 DEF NotificationTypeOK
    <3>6. sends[c] + u <= (IF n < MAX_ATTEMPTS THEN n ELSE MAX_ATTEMPTS - 1) + 1 + x
      <4>1. sends[c] + u + (IF Waiting(c) THEN 1 ELSE 0) <= (IF n < MAX_ATTEMPTS THEN n ELSE MAX_ATTEMPTS - 1) + 1 + x
        BY <2>1, <3>2 DEF Accounted, Budget
      <4>2. QED
        BY <1>1, <3>5, <4>1, MaxAttemptsAssumption
    <3>7. i = 1 => n + 1 < MAX_ATTEMPTS
      BY <1>1, <1>5, <3>4, SettledType
    <3>8. sends[c] + u + i <= (IF n + 1 < MAX_ATTEMPTS THEN n + 1 ELSE MAX_ATTEMPTS - 1) + 1 + x
      BY <1>1, <3>5, <3>6, <3>7, MaxAttemptsAssumption
    <3>9. QED
      BY <3>2, <3>3, <3>5, <3>8 DEF Budget
  <2>7. attempts'[c] = 1..delivery'[c].count /\ delivery'[c].old = FALSE
    BY <1>2, <1>5, <1>6, <2>2
  <2>8. QED
    BY <1>10, <2>1, <2>3, <2>4, <2>6, <2>7 DEF Accounted
<1>15. \A d \in Channels : d # c => delivery'[d] = delivery[d]
  BY <1>6, <1>7
<1>16. QED
  BY <1>1, <1>2, <1>7, <1>8, <1>9, <1>12, <1>13, <1>14, <1>15, AssembleOne

\* What is left of a dispatcher that goes on with its batch.
LEMMA NextInBatchEffect ==
    ASSUME NEW w \in Workers, NEW c \in Channels, worker \in [Workers -> Worker], NextInBatch(w, c),
           c \in worker[w].batch
    PROVE  /\ StepOf(w) /\ worker'[w].at = {} /\ ~ worker'[w].caught
           /\ worker'[w].batch = worker[w].batch \ {c}
           /\ worker'[w].pc \in {"idle", "read"}
           /\ worker'[w].pc = "idle" => worker'[w].batch = {}
<1>1. PICK r : r = [IdleWorker EXCEPT !.batch = worker[w].batch \ {c},
                                      !.pc = IF worker[w].batch = {c} THEN "idle" ELSE "read"]
  OBVIOUS
<1>2. IdleWorker \in Worker /\ IdleWorker.at = {} /\ IdleWorker.caught = FALSE
  BY DEF IdleWorker, Worker
<1>3. worker[w].batch \ {c} \subseteq Channels
  BY DEF Worker
<1>4. /\ r \in Worker /\ r.at = {} /\ r.caught = FALSE /\ r.batch = worker[w].batch \ {c}
      /\ r.pc = IF worker[w].batch = {c} THEN "idle" ELSE "read"
  BY <1>1, <1>2, <1>3 DEF Worker
<1>5. StepOf(w) /\ worker'[w] = r
  BY <1>1, <1>4 DEF StepOf, NextInBatch
<1>6. QED
  BY <1>4, <1>5

\* The channel's health is written after the delivery is nobody's any more.
LEMMA WriteHealthStep ==
    ASSUME NotificationInv, NEW w \in Workers, NEW c \in Channels, WriteHealth(w, c)
    PROVE  NotificationInv'
<1>1. /\ worker[w].pc = "health" /\ worker[w] \in Worker /\ c \in worker[w].at
      /\ WorkerIsInOrder(w) /\ NotificationTypeOK /\ worker \in [Workers -> Worker]
      /\ worker[w].at = {c} /\ c \in worker[w].batch
  BY AtChannel DEF NotificationInv, NotificationTypeOK, WriteHealth
<1>2. /\ event' = event /\ delivery' = delivery /\ attempts' = attempts
      /\ sends' = sends /\ reached' = reached /\ faults' = faults /\ retry' = retry
  BY DEF WriteHealth
<1>3. CountIsShared(c) /\ AcceptanceIsReal(c) /\ (Undisturbed => Accounted(c))
  BY DEF NotificationInv
<1>4. /\ StepOf(w)
      /\ \/ /\ worker'[w].at = {} /\ worker'[w].pc \in {"idle", "read"} /\ ~ worker'[w].caught
            /\ worker'[w].batch = worker[w].batch \ {c} /\ (worker'[w].pc = "idle" => worker'[w].batch = {})
         \/ /\ worker'[w].pc = "catch" /\ worker'[w].at = {c} /\ worker'[w].batch = worker[w].batch
            /\ "store" \in faults
         \/ worker'[w] = IdleWorker /\ "store" \in faults
  <2>1. CASE NextInBatch(w, c)
    BY <1>1, <2>1, NextInBatchEffect
  <2>2. CASE "store" \in faults /\ Throws(w)
    BY <1>1, <2>2, ThrowsEffect
  <2>3. QED
    BY <2>1, <2>2 DEF WriteHealth
<1>5. NotificationTypeOK'
  BY <1>1, <1>2, <1>4 DEF NotificationTypeOK, StepOf
<1>6. WorkerIsInOrder(w)' /\ worker'[w].at \subseteq {c} /\ worker'[w].batch \subseteq worker[w].batch
  BY <1>1, <1>4 DEF WorkerIsInOrder, InDelivery, IdleWorker
<1>7. \A v \in Workers : \A pcs : v # w => (Does(v, c, pcs)' <=> Does(v, c, pcs)) /\ worker'[v] = worker[v]
  BY <1>4 DEF StepOf, Does
<1>8. /\ ~ Does(w, c, {"send", "wait", "record"})' /\ ~ Does(w, c, {"settle"})' /\ ~ Does(w, c, {"settle"})
      /\ ~ Does(w, c, {"record", "settle"})' /\ Does(w, c, {"health"})
  BY <1>1, <1>4 DEF Does, IdleWorker
<1>9. CountIsShared(c)'
  BY <1>2, <1>3, <1>7, <1>8 DEF CountIsShared
<1>10. AcceptanceIsReal(c)'
  BY <1>2, <1>3, <1>7, <1>8 DEF AcceptanceIsReal
<1>11. ASSUME Undisturbed
       PROVE  Accounted(c)'
  <2>1. Accounted(c) /\ "store" \notin faults
    BY <1>3, <1>11 DEF Undisturbed
  <2>2. worker'[w].at = {} /\ worker'[w].batch = worker[w].batch \ {c}
    BY <1>4, <2>1
  <2>3. ~ Owns(w, c)' /\ ~ Pursues(w, c) /\ w \notin Unsent(c)' /\ ~ Does(w, c, {"wait"})'
    BY <1>1, <2>2 DEF Owns, Does, Pursues, Unsent
  <2>4. \A v \in Workers : Owns(v, c)' => Owns(v, c)
    BY <1>7, <2>3 DEF Owns
  <2>5. Waiting(c)' => Waiting(c)
    <3>1. \A v \in Workers : Pursues(v, c) => Pursues(v, c)'
      BY <1>2, <1>7, <2>3 DEF Pursues
    <3>2. QED
      BY <1>2, <3>1 DEF Waiting
  <2>6. sends'[c] = sends[c]
    BY <1>2
  <2>7. QED
    BY <1>1, <1>2, <1>4, <1>5, <1>6, <1>8, <2>1, <2>3, <2>4, <2>5, <2>6, AccountedStep
<1>12. QED
  BY <1>1, <1>2, <1>4, <1>5, <1>6, <1>9, <1>10, <1>11, AssembleOne

\* The handler builds on the count it reads.
LEMMA CatchStep ==
    ASSUME NotificationInv, NEW w \in Workers, NEW c \in Channels, Catch(w, c)
    PROVE  NotificationInv'
<1>1. /\ worker[w].pc = "catch" /\ worker[w] \in Worker /\ c \in worker[w].at
      /\ WorkerIsInOrder(w) /\ NotificationTypeOK /\ worker \in [Workers -> Worker]
      /\ worker[w].at = {c} /\ c \in worker[w].batch /\ delivery[c].count \in Nat
  BY AtChannel DEF NotificationInv, NotificationTypeOK, Catch, Delivery
<1>2. /\ event' = event /\ delivery' = delivery /\ attempts' = attempts
      /\ sends' = sends /\ reached' = reached /\ faults' = faults /\ retry' = retry
  BY DEF Catch
<1>3. CountIsShared(c) /\ AcceptanceIsReal(c) /\ (Undisturbed => Accounted(c))
  BY DEF NotificationInv
<1>4. /\ StepOf(w)
      /\ \/ /\ worker'[w].at = {} /\ worker'[w].pc \in {"idle", "read"} /\ ~ worker'[w].caught
            /\ worker'[w].batch = worker[w].batch \ {c} /\ (worker'[w].pc = "idle" => worker'[w].batch = {})
            /\ "store" \in faults
         \/ /\ worker'[w].pc = "record" /\ worker'[w].at = {c} /\ worker'[w].batch = worker[w].batch
            /\ worker'[w].count = delivery[c].count /\ worker'[w].kind = "retryable"
  <2>1. CASE "store" \in faults /\ NextInBatch(w, c)
    BY <1>1, <2>1, NextInBatchEffect
  <2>2. CASE worker' = [worker EXCEPT ![w].pc = "record", ![w].count = delivery[c].count, ![w].kind = "retryable",
                                      ![w].caught = TRUE]
    BY <1>1, <2>2 DEF StepOf, Worker
  <2>3. QED
    BY <2>1, <2>2 DEF Catch
<1>5. NotificationTypeOK'
  BY <1>1, <1>2, <1>4 DEF NotificationTypeOK, StepOf
<1>6. WorkerIsInOrder(w)' /\ worker'[w].at \subseteq {c} /\ worker'[w].batch \subseteq worker[w].batch
  BY <1>1, <1>4 DEF WorkerIsInOrder, InDelivery
<1>7. \A v \in Workers : \A pcs : v # w => (Does(v, c, pcs)' <=> Does(v, c, pcs)) /\ worker'[v] = worker[v]
  BY <1>4 DEF StepOf, Does
<1>8. /\ Does(w, c, {"send", "wait", "record"})' => worker'[w].count = delivery[c].count
      /\ ~ Does(w, c, {"settle"})' /\ ~ Does(w, c, {"settle"})
      /\ Does(w, c, {"record", "settle"})' => worker'[w].kind = "retryable"
      /\ ~ Does(w, c, {"health"}) /\ ~ Does(w, c, {"wait"})'
  BY <1>1, <1>4 DEF Does
<1>9. CountIsShared(c)'
  BY <1>1, <1>2, <1>3, <1>7, <1>8 DEF CountIsShared
<1>10. AcceptanceIsReal(c)'
  BY <1>2, <1>3, <1>7, <1>8 DEF AcceptanceIsReal
<1>11. ASSUME Undisturbed
       PROVE  Accounted(c)'
  <2>1. Accounted(c) /\ "store" \notin faults
    BY <1>3, <1>11 DEF Undisturbed
  <2>2. /\ worker'[w].at = {c} /\ worker'[w].batch = worker[w].batch /\ worker'[w].pc = "record"
        /\ worker'[w].count = delivery[c].count
    BY <1>4, <2>1
  <2>3. Owns(w, c) /\ Pursues(w, c)' /\ w \notin Unsent(c)'
    BY <1>1, <1>2, <1>8, <2>2 DEF Owns, Pursues, Unsent
  <2>4. \A v \in Workers : Owns(v, c)' => Owns(v, c)
    BY <1>7, <2>3 DEF Owns
  <2>5. Waiting(c)' => Waiting(c)
    <3>1. \A v \in Workers : Pursues(v, c) => Pursues(v, c)'
      BY <1>2, <1>7, <2>3 DEF Pursues
    <3>2. QED
      BY <1>2, <3>1 DEF Waiting
  <2>6. sends'[c] = sends[c]
    BY <1>2
  <2>7. QED
    BY <1>1, <1>2, <1>4, <1>5, <1>6, <1>8, <2>1, <2>3, <2>4, <2>5, <2>6, AccountedStep
<1>12. QED
  BY <1>1, <1>2, <1>4, <1>5, <1>6, <1>9, <1>10, <1>11, AssembleOne

-----------------------------------------------------------------------------
(* Operators, clock and stops.                                             *)

\* A step on the row of one delivery, with every dispatcher where it was.
LEMMA AssembleRow ==
    ASSUME NotificationInv, NEW c \in Channels,
           NotificationTypeOK', UNCHANGED <<attempts, sends, reached, worker, faults>>,
           \A q \in Retries : retry'[q].late => retry'[q].pc = "done",
           \A d \in Channels : d # c => KeepsRetries(d),
           \A d \in Channels : d # c => delivery'[d] = delivery[d],
           delivery'[c].count = delivery[c].count,
           delivery'[c].status \notin {"none", "accepted"},
           Undisturbed => Accounted(c)'
    PROVE  NotificationInv'
<1>1. \A v \in Workers : WorkerIsInOrder(v)'
  BY DEF WorkerIsInOrder, NotificationInv, InDelivery
<1>2. \A d \in Channels \ {c} : LeavesAlone(d) /\ TakesNoClaim(d)
  BY DEF LeavesAlone, TakesNoClaim
<1>3. Undisturbed' => Undisturbed
  BY DEF Undisturbed
<1>4. PICK S : S = {c}
  OBVIOUS
<1>5. S \in SUBSET Channels /\ \A d : d \in S <=> d = c
  BY <1>4
<1>6. \A v \in Workers : \A pcs : Does(v, c, pcs)' <=> Does(v, c, pcs)
  BY DEF Does
<1>7. CountIsShared(c)'
  BY <1>6 DEF CountIsShared, NotificationInv
<1>8. AcceptanceIsReal(c)'
  BY <1>6 DEF AcceptanceIsReal, NotificationInv
<1>9. QED
  BY <1>1, <1>2, <1>3, <1>5, <1>7, <1>8, Assemble

\* The switch of a channel is read when deliveries come to be, and by nothing here.
LEMMA SetChannelEnabledStep ==
    ASSUME NotificationInv, NEW c \in Channels, SetChannelEnabled(c)
    PROVE  NotificationInv'
<1>1. UNCHANGED <<event, delivery, attempts, sends, reached, worker, retry, faults>>
  BY DEF SetChannelEnabled
<1>2. NotificationTypeOK'
  BY <1>1 DEF NotificationInv, NotificationTypeOK
<1>3. \A v \in Workers : WorkerIsInOrder(v)'
  BY <1>1 DEF WorkerIsInOrder, NotificationInv, InDelivery
<1>4. \A d \in Channels : LeavesAlone(d) /\ TakesNoClaim(d)
  BY <1>1 DEF LeavesAlone, TakesNoClaim
<1>5. Undisturbed' => Undisturbed
  BY <1>1 DEF Undisturbed
<1>6. QED
  BY <1>1, <1>2, <1>3, <1>4, <1>5, AssembleNone

\* A retry that has read its delivery has changed nothing yet.
LEMMA ReadRetryStep ==
    ASSUME NotificationInv, NEW q \in Retries, NEW c \in Channels, ReadRetry(q, c)
    PROVE  NotificationInv'
<1>1. /\ UNCHANGED <<event, enabled, delivery, attempts, sends, reached, worker, faults>>
      /\ NotificationTypeOK /\ retry[q].pc = "new" /\ retry[q] \in Request /\ delivery[c].retries \in Nat
      /\ ~ retry[q].late
  BY DEF ReadRetry, NotificationInv, NotificationTypeOK, Delivery
<1>2. /\ retry' \in [Retries -> Request] /\ retry'[q].pc = "patch" /\ retry'[q].late = retry[q].late
      /\ \A r \in Retries : r # q => retry'[r] = retry[r]
  BY <1>1 DEF ReadRetry, NotificationTypeOK, Request
<1>3. NotificationTypeOK'
  BY <1>1, <1>2 DEF NotificationTypeOK
<1>4. \A v \in Workers : WorkerIsInOrder(v)'
  BY <1>1 DEF WorkerIsInOrder, NotificationInv, InDelivery
<1>5. \A d \in Channels : LeavesAlone(d) /\ TakesNoClaim(d)
  BY <1>1 DEF LeavesAlone, TakesNoClaim
<1>6. ASSUME NEW d \in Channels
      PROVE  KeepsRetries(d)
  <2>1. {r \in Retries : retry'[r].pc = "done" /\ d \in retry'[r].at} = {r \in Retries : retry[r].pc = "done" /\ d \in retry[r].at}
    BY <1>1, <1>2
  <2>2. Requeued(d)' = Requeued(d)
    BY <2>1 DEF Requeued
  <2>3. Overtaken(d) => Overtaken(d)'
    BY <1>1, <1>2 DEF Overtaken
  <2>4. Requeued(d) \in Nat
    BY Counts
  <2>5. Requeued(d)' >= Requeued(d)
    BY <2>2, <2>4
  <2>6. QED
    BY <2>3, <2>5 DEF KeepsRetries
<1>7. \A r \in Retries : retry'[r].late => retry'[r].pc = "done"
  BY <1>1, <1>2 DEF NotificationInv
<1>8. Undisturbed' => Undisturbed
  BY <1>1 DEF Undisturbed
<1>9. PICK S : S = {}
  OBVIOUS
<1>10. S \in SUBSET Channels /\ \A d : d \notin S
  BY <1>9
<1>11. QED
  BY <1>3, <1>4, <1>5, <1>6, <1>7, <1>8, <1>10, Assemble

\* One that writes gives its delivery one more send, whatever became of it; the
\* claim keeps its owner unless the delivery has moved on.
LEMMA PatchRetryStep ==
    ASSUME NotificationInv, NEW q \in Retries, NEW c \in Channels, PatchRetry(q, c)
    PROVE  NotificationInv'
<1>1. /\ UNCHANGED <<event, enabled, attempts, sends, reached, worker, faults>>
      /\ NotificationTypeOK /\ retry[q].pc = "patch" /\ retry[q] \in Request /\ c \in retry[q].at
      /\ delivery[c] \in Delivery /\ retry[q].generation + 1 \in Nat
  BY DEF PatchRetry, NotificationInv, NotificationTypeOK, Request
<1>2. /\ delivery' \in [Channels -> Delivery] /\ delivery'[c].status = "queued" /\ delivery'[c].old = FALSE
      /\ delivery'[c].count = delivery[c].count /\ \A d \in Channels : d # c => delivery'[d] = delivery[d]
  BY <1>1 DEF PatchRetry, NotificationTypeOK, Delivery
<1>3. /\ retry' \in [Retries -> Request] /\ retry'[q].pc = "done" /\ retry'[q].at = retry[q].at
      /\ retry'[q].late = (delivery[c].status \notin {"failed", "dead-letter"})
      /\ \A r \in Retries : r # q => retry'[r] = retry[r]
  BY <1>1 DEF PatchRetry, NotificationTypeOK, Request
<1>4. NotificationTypeOK'
  BY <1>1, <1>2, <1>3 DEF NotificationTypeOK
<1>5. \A r \in Retries : retry'[r].late => retry'[r].pc = "done"
  BY <1>3 DEF NotificationInv
<1>6. ASSUME NEW d \in Channels
      PROVE  /\ KeepsRetries(d)
             /\ d \in retry[q].at => Requeued(d)' = Requeued(d) + 1
  <2>1. PICK A, B : /\ A = {r \in Retries : retry[r].pc = "done" /\ d \in retry[r].at}
                    /\ B = {r \in Retries : retry'[r].pc = "done" /\ d \in retry'[r].at}
    OBVIOUS
  <2>2. IsFiniteSet(A) /\ Cardinality(A) = Requeued(d) /\ Cardinality(B) = Requeued(d)' /\ Requeued(d) \in Nat
    BY <2>1, FiniteCounts DEF Requeued
  <2>3. q \notin A /\ \A r : r # q => (r \in A <=> r \in B)
    BY <1>1, <1>3, <2>1
  <2>4. q \in B <=> d \in retry[q].at
    BY <1>3, <2>1
  <2>5. CASE d \in retry[q].at
    <3>1. B = A \cup {q}
      BY <2>3, <2>4, <2>5
    <3>2. Cardinality(B) = Cardinality(A) + 1
      BY <2>2, <2>3, <3>1, FS_AddElement
    <3>3. QED
      BY <1>1, <1>3, <2>2, <2>5, <3>2 DEF KeepsRetries, Overtaken, NotificationInv
  <2>6. CASE d \notin retry[q].at
    <3>1. A = B
      BY <2>3, <2>4, <2>6
    <3>2. QED
      BY <1>3, <2>2, <2>6, <3>1 DEF KeepsRetries, Overtaken
  <2>7. QED
    BY <2>5, <2>6
<1>7. ASSUME Undisturbed
      PROVE  Accounted(c)'
  <2>1. Accounted(c)
    BY <1>7 DEF NotificationInv
  <2>2. \A v \in Workers : (\A pcs : Does(v, c, pcs)' <=> Does(v, c, pcs)) /\ (Owns(v, c)' <=> Owns(v, c))
    BY <1>1 DEF Does, Owns
  <2>3. ~ Overtaken(c)' => ClaimIsOwned(c)'
    <3>1. SUFFICES ASSUME ~ Overtaken(c)' PROVE ClaimIsOwned(c)'
      OBVIOUS
    <3>2. ~ Overtaken(c)
      BY <1>6, <3>1 DEF KeepsRetries
    <3>3. delivery[c].status # "sending"
      BY <1>1, <1>3, <3>1 DEF Overtaken
    <3>4. \A v \in Workers : ~ Owns(v, c)'
      BY <2>1, <2>2, <3>2, <3>3 DEF Accounted, ClaimIsOwned
    <3>5. QED
      BY <3>4 DEF ClaimIsOwned
  <2>4. Budget(c)'
    <3>1. Unsent(c)' = Unsent(c)
      BY <1>1 DEF Unsent
    <3>2. PICK u, x \in Nat : u = Cardinality(Unsent(c)) /\ x = Requeued(c)
      BY FiniteCounts
    <3>3. PICK m \in Int : m = (IF delivery[c].count < MAX_ATTEMPTS THEN delivery[c].count ELSE MAX_ATTEMPTS - 1) + 1
      <4>1. delivery[c].count \in Nat
        BY <1>1 DEF Delivery
      <4>2. QED
        BY <4>1, MaxAttemptsAssumption
    <3>4. sends[c] + u + (IF Waiting(c) THEN 1 ELSE 0) <= m + x /\ sends[c] \in Nat
      BY <1>1, <2>1, <3>2, <3>3 DEF Accounted, Budget, NotificationTypeOK
    <3>5. sends[c] + u + 1 <= m + (x + 1)
      BY <3>2, <3>3, <3>4
    <3>6. Waiting(c)' /\ sends'[c] = sends[c] /\ Requeued(c)' = x + 1
      BY <1>1, <1>2, <1>6, <3>2 DEF Waiting
    <3>7. QED
      BY <1>2, <3>1, <3>2, <3>3, <3>5, <3>6 DEF Budget
  <2>5. QED
    BY <1>1, <1>2, <2>1, <2>2, <2>3, <2>4 DEF Accounted
<1>8. QED
  BY <1>1, <1>2, <1>4, <1>5, <1>6, <1>7, AssembleRow

\* While nothing is disturbed a claim ages only when its dispatcher left it.
LEMMA ClaimAgesStep ==
    ASSUME NotificationInv, ClaimAges
    PROVE  NotificationInv'
<1>1. UNCHANGED <<enabled, attempts, sends, reached, worker, retry, faults>>
  BY DEF ClaimAges
<1>2. CASE event' = [event EXCEPT !.old = TRUE] /\ UNCHANGED delivery
  <2>1. NotificationTypeOK'
    BY <1>1, <1>2 DEF NotificationInv, NotificationTypeOK
  <2>2. \A v \in Workers : WorkerIsInOrder(v)'
    BY <1>1 DEF WorkerIsInOrder, NotificationInv, InDelivery
  <2>3. \A d \in Channels : LeavesAlone(d) /\ TakesNoClaim(d)
    BY <1>1, <1>2 DEF LeavesAlone, TakesNoClaim
  <2>4. Undisturbed' => Undisturbed
    BY <1>1 DEF Undisturbed
  <2>5. QED
    BY <1>1, <2>1, <2>2, <2>3, <2>4, AssembleNone
<1>3. ASSUME NEW c \in Channels,
             delivery[c].status = "sending", "slow" \in faults \/ ~ Held(c),
             delivery' = [delivery EXCEPT ![c].old = TRUE], UNCHANGED event
      PROVE  NotificationInv'
  <2>1. NotificationTypeOK /\ delivery[c] \in Delivery
    BY DEF NotificationInv, NotificationTypeOK
  <2>2. /\ delivery' \in [Channels -> Delivery] /\ delivery'[c].status = "sending"
        /\ delivery'[c].count = delivery[c].count
        /\ \A d \in Channels : d # c => delivery'[d] = delivery[d]
    BY <1>3, <2>1 DEF NotificationTypeOK, Delivery
  <2>3. NotificationTypeOK'
    BY <1>1, <1>3, <2>1, <2>2 DEF NotificationTypeOK
  <2>4. ASSUME Undisturbed
        PROVE  Accounted(c)'
    <3>1. Accounted(c) /\ ~ Held(c)
      BY <1>3, <2>4 DEF NotificationInv, Undisturbed
    <3>2. \A v \in Workers : c \notin worker[v].batch
      <4>1. SUFFICES ASSUME NEW v \in Workers, c \in worker[v].batch
                     PROVE  FALSE
        OBVIOUS
      <4>2. worker[v].pc = "wait"
        BY <3>1, <4>1 DEF Held
      <4>3. PICK d \in worker[v].batch : worker[v].at = {d} /\ d \in Channels
        BY <2>1, <4>2 DEF NotificationInv, NotificationTypeOK, WorkerIsInOrder, InDelivery, Worker
      <4>4. Does(v, d, {"wait"}) /\ Accounted(d)
        BY <2>4, <4>2, <4>3 DEF Does, NotificationInv
      <4>5. QED
        BY <4>4 DEF Accounted
    <3>3. \A v \in Workers : (\A pcs : Does(v, c, pcs)' <=> Does(v, c, pcs)) /\ (Owns(v, c)' <=> Owns(v, c))
      BY <1>1 DEF Does, Owns
    <3>4. Budget(c)'
      <4>1. Unsent(c)' = Unsent(c) /\ Requeued(c)' = Requeued(c)
        BY <1>1, SameRetries DEF Unsent
      <4>2. Waiting(c)' <=> Waiting(c)
        BY <1>1, <1>3, <2>2 DEF Waiting, Pursues
      <4>3. QED
        BY <1>1, <2>2, <3>1, <4>1, <4>2 DEF Accounted, Budget
    <3>5. QED
      BY <1>1, <1>3, <2>2, <3>1, <3>2, <3>3, <3>4, SameRetries DEF Accounted, ClaimIsOwned
  <2>5. \A q \in Retries : retry'[q].late => retry'[q].pc = "done"
    BY <1>1 DEF NotificationInv
  <2>6. QED
    BY <1>1, <2>2, <2>3, <2>4, <2>5, SameRetries, AssembleRow
<1>4. QED
  BY <1>2, <1>3 DEF ClaimAges

\* A dispatcher that stops takes no attempt back, and from then on nothing is undisturbed.
LEMMA DispatcherStopsStep ==
    ASSUME NotificationInv, NEW w \in Workers, DispatcherStops(w)
    PROVE  NotificationInv'
<1>1. UNCHANGED <<event, enabled, delivery, attempts, sends, reached, retry>> /\ NotificationTypeOK
  BY DEF DispatcherStops, NotificationInv
<1>2. IdleWorker \in Worker /\ IdleWorker.at = {} /\ IdleWorker.batch = {} /\ IdleWorker.pc = "idle"
  BY DEF IdleWorker, Worker
<1>3. StepOf(w) /\ worker'[w] = IdleWorker
  BY <1>1, <1>2 DEF DispatcherStops, StepOf, NotificationTypeOK
<1>4. NotificationTypeOK'
  BY <1>1, <1>3 DEF NotificationTypeOK, StepOf
<1>5. \A v \in Workers : WorkerIsInOrder(v)'
  BY <1>2, <1>3 DEF WorkerIsInOrder, StepOf, NotificationInv, InDelivery
<1>6. ~ Undisturbed'
  BY DEF DispatcherStops, Undisturbed
<1>7. ASSUME NEW c \in Channels
      PROVE  CountIsShared(c)' /\ AcceptanceIsReal(c)'
  <2>1. \A v \in Workers : \A pcs : Does(v, c, pcs)' => Does(v, c, pcs) /\ worker'[v] = worker[v]
    BY <1>2, <1>3 DEF StepOf, Does
  <2>2. CountIsShared(c)'
    BY <1>1, <2>1 DEF CountIsShared, NotificationInv
  <2>3. AcceptanceIsReal(c)'
    BY <1>1, <2>1 DEF AcceptanceIsReal, NotificationInv
  <2>4. QED
    BY <2>2, <2>3
<1>8. QED
  BY <1>1, <1>4, <1>5, <1>6, <1>7 DEF NotificationInv

-----------------------------------------------------------------------------
(* The theorems.                                                           *)

\* At the start nothing is claimed, sent or counted.
LEMMA NotificationInit ==
    ASSUME NEW sc, NotificationStart(sc)
    PROVE  NotificationInv
<1>1. NoDelivery \in Delivery /\ NoDelivery.status = "none" /\ NoDelivery.count = 0 /\ NoDelivery.old = FALSE
  BY DEF NoDelivery, Delivery
<1>2. IdleWorker \in Worker /\ IdleWorker.at = {} /\ IdleWorker.batch = {} /\ IdleWorker.pc = "idle"
  BY DEF IdleWorker, Worker
<1>3. NotificationTypeOK /\ \A q \in Retries : retry[q].at = {} /\ ~ retry[q].late
  <2>1. \A q \in Retries : retry[q] \in Request /\ retry[q].at = {} /\ ~ retry[q].late
    BY DEF NotificationStart, Request
  <2>2. retry \in [Retries -> Request]
    BY <2>1 DEF NotificationStart
  <2>3. QED
    BY <1>1, <1>2, <2>1, <2>2 DEF NotificationStart, NotificationTypeOK
<1>4. \A w \in Workers : worker[w] = IdleWorker
  BY DEF NotificationStart
<1>5. \A w \in Workers : WorkerIsInOrder(w)
  BY <1>2, <1>4 DEF WorkerIsInOrder, InDelivery
<1>6. \A w \in Workers : \A c, pcs : ~ Does(w, c, pcs) /\ ~ Owns(w, c)
  BY <1>2, <1>4 DEF Does, Owns
<1>7. \A c \in Channels : delivery[c] = NoDelivery /\ attempts[c] = {} /\ sends[c] = 0
  BY DEF NotificationStart
<1>8. 1..0 = {}
  OBVIOUS
<1>9. \A c \in Channels : CountIsShared(c)
  BY <1>1, <1>6, <1>7, <1>8 DEF CountIsShared
<1>10. \A c \in Channels : AcceptanceIsReal(c)
  BY <1>1, <1>6, <1>7 DEF AcceptanceIsReal
<1>11. ASSUME NEW c \in Channels
       PROVE  Accounted(c)
  <2>1. /\ delivery[c].count = 0 /\ delivery[c].status = "none" /\ delivery[c].old = FALSE
        /\ attempts[c] = 1..0 /\ sends[c] = 0
    BY <1>1, <1>7, <1>8
  <2>2. \A w \in Workers : \A pcs : ~ Does(w, c, pcs) /\ ~ Owns(w, c)
    BY <1>6
  <2>3. Unsent(c) = {} /\ {q \in Retries : retry[q].pc = "done" /\ c \in retry[q].at} = {}
    BY <1>2, <1>3, <1>4 DEF Unsent
  <2>4. Cardinality(Unsent(c)) = 0 /\ Requeued(c) = 0
    BY <2>3, FS_EmptySet DEF Requeued
  <2>5. Budget(c)
    BY <2>1, <2>4, MaxAttemptsAssumption DEF Budget
  <2>6. QED
    BY <2>1, <2>2, <2>5 DEF Accounted, ClaimIsOwned
<1>12. QED
  BY <1>3, <1>5, <1>9, <1>10, <1>11 DEF NotificationInv

\* Every step, of a dispatcher, an operator or the clock, keeps the invariant.
LEMMA NotificationStep ==
    ASSUME NotificationInv, [NotificationNext]_notificationVars
    PROVE  NotificationInv'
<1>1. ASSUME NEW w \in Workers, RunOnce(w)
      PROVE  NotificationInv'
  BY <1>1, ClaimEventStep, MaterializeStep, ClaimDeliveriesStep, ReadContextStep, SendStep,
     RecordAttemptStep, SettleDeliveryStep, WriteHealthStep, CatchStep DEF RunOnce
<1>2. CASE UNCHANGED notificationVars
  <2>1. UNCHANGED <<event, enabled, delivery, attempts, sends, reached, worker, retry, faults>>
    BY <1>2 DEF notificationVars
  <2>2. NotificationTypeOK'
    BY <2>1 DEF NotificationInv, NotificationTypeOK
  <2>3. \A v \in Workers : WorkerIsInOrder(v)'
    BY <2>1 DEF WorkerIsInOrder, NotificationInv, InDelivery
  <2>4. \A d \in Channels : LeavesAlone(d) /\ TakesNoClaim(d)
    BY <2>1 DEF LeavesAlone, TakesNoClaim
  <2>5. Undisturbed' => Undisturbed
    BY <2>1 DEF Undisturbed
  <2>6. QED
    BY <2>1, <2>2, <2>3, <2>4, <2>5, AssembleNone
<1>3. QED
  BY <1>1, <1>2, DispatcherStopsStep, SmtpAnswersStep, SetChannelEnabledStep, ReadRetryStep, PatchRetryStep,
     ClaimAgesStep DEF NotificationNext

\* The inductive invariant: numbers are shared, acceptances are real, and while
\* nothing is disturbed the sends to come are accounted for, and a claim has one
\* owner until a retry comes late.
THEOREM NotificationInvariant == NotificationSpec => []NotificationInv
<1>1. (\E sc \in NotificationScenes : NotificationStart(sc)) => NotificationInv
  BY NotificationInit
<1>2. NotificationInv /\ [NotificationNext]_notificationVars => NotificationInv'
  BY NotificationStep
<1>3. QED
  BY <1>1, <1>2, PTL DEF NotificationSpec

\* The event, the deliveries and the dispatchers keep their shapes.
THEOREM NotificationTypeCorrectness == NotificationSpec => []NotificationTypeOK
<1>1. NotificationInv => NotificationTypeOK
  BY DEF NotificationInv
<1>2. QED
  BY <1>1, NotificationInvariant, PTL

\* Whatever stops, slows down or fails, completeDelivery numbers the attempts
\* of a delivery without a gap, and its count keeps up with them but for one.
THEOREM CountedAttempts == NotificationSpec => []AttemptsAreCounted
<1>1. NotificationInv => AttemptsAreCounted
  <2>1. SUFFICES ASSUME NotificationInv, NEW c \in Channels
                 PROVE  /\ attempts[c] = 1..Cardinality(attempts[c])
                        /\ delivery[c].count \in {Cardinality(attempts[c]) - 1, Cardinality(attempts[c])}
    BY DEF AttemptsAreCounted
  <2>2. delivery[c].count \in Nat /\ CountIsShared(c)
    BY <2>1 DEF NotificationInv, NotificationTypeOK, Delivery
  <2>3. \A m \in Nat : Cardinality(1..m) = m
    <3>1. ASSUME NEW m \in Nat
          PROVE  Cardinality(1..m) = m
      <4>1. 1 \in Int /\ m \in Int
        OBVIOUS
      <4>2. Cardinality(1..m) = IF 1 > m THEN 0 ELSE m - 1 + 1
        BY <4>1, FS_Interval
      <4>3. QED
        BY <4>2
    <3>2. QED
      BY <3>1
  <2>4. CASE attempts[c] = 1..delivery[c].count
    BY <2>2, <2>3, <2>4
  <2>5. CASE attempts[c] = 1..(delivery[c].count + 1)
    BY <2>2, <2>3, <2>5
  <2>6. QED
    BY <2>2, <2>4, <2>5 DEF CountIsShared
<1>2. QED
  BY <1>1, NotificationInvariant, PTL

\* While no dispatcher stops, waits for a silent server or outlives its claim
\* and the store answers, a provider is called at most MAX_ATTEMPTS times, plus
\* once per retry, also when retryDelivery queues a delivery that is being sent.
THEOREM LimitedSends == NotificationSpec => []SendsAreLimited
<1>1. NotificationInv => SendsAreLimited
  <2>1. SUFFICES ASSUME NotificationInv, Undisturbed, NEW c \in Channels
                 PROVE  sends[c] <= MAX_ATTEMPTS + Requeued(c)
    BY DEF SendsAreLimited
  <2>2. delivery[c].count \in Nat /\ sends[c] \in Nat /\ Budget(c)
    BY <2>1 DEF NotificationInv, NotificationTypeOK, Delivery, Accounted
  <2>3. PICK u, x \in Nat : u = Cardinality(Unsent(c)) /\ x = Requeued(c)
    BY FiniteCounts
  <2>4. PICK i \in 0..1 : i = IF Waiting(c) THEN 1 ELSE 0
    OBVIOUS
  <2>5. sends[c] + u + i <= (IF delivery[c].count < MAX_ATTEMPTS THEN delivery[c].count ELSE MAX_ATTEMPTS - 1) + 1 + x
    BY <2>2, <2>3, <2>4 DEF Budget
  <2>6. QED
    BY <2>2, <2>3, <2>4, <2>5, MaxAttemptsAssumption
<1>2. QED
  BY <1>1, NotificationInvariant, PTL

\* A delivery reported accepted was taken by its provider; while nothing is
\* disturbed and no retry came late it stays accepted and is not sent again.
THEOREM FinalAcceptance == NotificationSpec => AcceptedIsFinal
<1> DEFINE Final == \A c \in Channels :
                       /\ delivery'[c].status = "accepted" => c \in reached'
                       /\ Undisturbed /\ ~ Overtaken(c)' /\ delivery[c].status = "accepted" =>
                             delivery'[c].status = "accepted" /\ sends'[c] = sends[c]
<1>1. ASSUME NotificationInv, NotificationInv', [NotificationNext]_notificationVars
      PROVE  [Final]_notificationVars
  <2>1. SUFFICES ASSUME NotificationNext, NEW c \in Channels
                 PROVE  /\ delivery'[c].status = "accepted" => c \in reached'
                        /\ Undisturbed /\ ~ Overtaken(c)' /\ delivery[c].status = "accepted" =>
                              delivery'[c].status = "accepted" /\ sends'[c] = sends[c]
    BY <1>1
  <2>2. delivery'[c].status = "accepted" => c \in reached'
    BY <1>1 DEF NotificationInv, AcceptanceIsReal
  <2>3. SUFFICES ASSUME Undisturbed, ~ Overtaken(c)', delivery[c].status = "accepted"
                 PROVE  delivery'[c].status = "accepted" /\ sends'[c] = sends[c]
    BY <2>2
  <2>4. ASSUME NEW w \in Workers, c \in worker[w].at
        PROVE  worker[w].pc = "health" \/ Overtaken(c)
    <3>1. Owns(w, c) => Overtaken(c)
      BY <1>1, <2>3 DEF NotificationInv, Accounted, ClaimIsOwned
    <3>2. QED
      BY <1>1, <2>4, <3>1, AtChannel DEF Owns, Does
  <2>5. NotificationTypeOK
    BY <1>1 DEF NotificationInv
  <2>6. ASSUME NEW w \in Workers, Materialize(w)
        PROVE  delivery'[c].status = "accepted" /\ sends'[c] = sends[c]
    BY <2>3, <2>5, <2>6 DEF Materialize, NotificationTypeOK
  <2>7. ASSUME NEW w \in Workers, ClaimDeliveries(w)
        PROVE  delivery'[c].status = "accepted" /\ sends'[c] = sends[c]
    BY <2>3, <2>5, <2>7 DEF ClaimDeliveries, Claimable, NotificationTypeOK
  <2>8. ASSUME NEW w \in Workers, NEW d \in Channels, Send(w, d)
        PROVE  delivery'[c].status = "accepted" /\ sends'[c] = sends[c]
    <3>1. d # c
      BY <2>3, <2>4, <2>8, SameRetries DEF Send
    <3>2. QED
      BY <2>3, <2>5, <2>8, <3>1 DEF Send, NotificationTypeOK
  <2>9. ASSUME NEW w \in Workers, NEW d \in Channels, SettleDelivery(w, d)
        PROVE  delivery'[c].status = "accepted" /\ sends'[c] = sends[c]
    <3>1. d # c
      BY <2>3, <2>4, <2>9, SameRetries DEF SettleDelivery
    <3>2. QED
      BY <2>3, <2>5, <2>9, <3>1 DEF SettleDelivery, NotificationTypeOK
  <2>10. ASSUME NEW q \in Retries, NEW d \in Channels, PatchRetry(q, d)
         PROVE  delivery'[c].status = "accepted" /\ sends'[c] = sends[c]
    <3>1. d # c
      <4>1. SUFFICES ASSUME d = c PROVE FALSE
        OBVIOUS
      <4>2. retry[q] \in Request /\ c \in retry[q].at /\ retry \in [Retries -> Request]
        BY <2>5, <2>10, <4>1 DEF PatchRetry, NotificationTypeOK
      <4>3. retry'[q].late /\ c \in retry'[q].at
        BY <2>3, <2>10, <4>1, <4>2 DEF PatchRetry, Request
      <4>4. QED
        BY <2>3, <4>3 DEF Overtaken
    <3>2. QED
      BY <2>3, <2>5, <2>10, <3>1 DEF PatchRetry, NotificationTypeOK
  <2>11. CASE ClaimAges
    BY <2>3, <2>5, <2>11 DEF ClaimAges, NotificationTypeOK
  <2>12. ASSUME NEW w \in Workers, NEW d \in Channels,
                \/ ClaimEvent(w) \/ ReadContext(w, d) \/ RecordAttempt(w, d) \/ WriteHealth(w, d) \/ Catch(w, d)
                \/ DispatcherStops(w)
         PROVE  delivery'[c].status = "accepted" /\ sends'[c] = sends[c]
    BY <2>3, <2>12 DEF ClaimEvent, ReadContext, RecordAttempt, WriteHealth, Catch, DispatcherStops
  <2>13. ASSUME NEW d \in Channels, SetChannelEnabled(d)
         PROVE  delivery'[c].status = "accepted" /\ sends'[c] = sends[c]
    BY <2>3, <2>13 DEF SetChannelEnabled
  <2>14. ASSUME NEW q \in Retries, NEW d \in Channels, ReadRetry(q, d)
         PROVE  delivery'[c].status = "accepted" /\ sends'[c] = sends[c]
    BY <2>3, <2>14 DEF ReadRetry
  <2>15. ASSUME NEW w \in Workers, NEW d \in Channels, SmtpAnswers(w, d)
         PROVE  delivery'[c].status = "accepted" /\ sends'[c] = sends[c]
    BY <2>3, <2>15 DEF SmtpAnswers
  <2>16. QED
    BY <2>1, <2>6, <2>7, <2>8, <2>9, <2>10, <2>11, <2>12, <2>13, <2>14, <2>15 DEF NotificationNext, RunOnce
<1>2. QED
  BY <1>1, NotificationInvariant, PTL DEF NotificationSpec, AcceptedIsFinal
=============================================================================
