------------------------- MODULE NotificationDispatch -------------------------
(***************************************************************************)
(* C_NOTIFY: dispatcher replicas that turn an event into one delivery per  *)
(* channel and send each delivery to its provider.  Supabase is reached by *)
(* REST, one request per table: the send, the attempt row, the delivery    *)
(* row and the channel row are four steps that a stop or a failed request  *)
(* can separate.  A delivery is claimed by status; a claim older than five *)
(* minutes may be taken again, and no write looks at who holds it.  An     *)
(* operator's retry reads a delivery and writes it in two requests.        *)
(*                                                                         *)
(* One event stands for all: claims and writes are keyed by delivery, and  *)
(* a batch of one event's channels has the shape of any batch.             *)
(***************************************************************************)
EXTENDS Naturals, FiniteSets

CONSTANTS
    Workers,                \* dispatcher replicas
    Channels,               \* channels the event's rules name
    MAX_ATTEMPTS,           \* NOTIFICATION_MAX_ATTEMPTS (8 by default)
    MaxSends,               \* messages to one channel are counted up to here
    Retries,                \* operators' requests to retry a delivery
    NotificationScenes      \* [channels, retries, faults] to start from, faults among "timeout",
                            \* "silent", "slow", "store", "crash", "paused" and "switch"

ASSUME MaxAttemptsAssumption == MAX_ATTEMPTS \in Nat \ {0}
ASSUME FiniteAssumption == IsFiniteSet(Workers) /\ IsFiniteSet(Retries)

VARIABLES
    event,      \* notification_event: state, and whether its claim is old
    enabled,    \* channels that are enabled
    delivery,   \* channel -> notification_delivery
    attempts,   \* channel -> attempt numbers in notification_attempt
    sends,      \* channel -> messages handed to the provider
    reached,    \* channels whose provider took a message
    worker,     \* dispatcher -> its run of runOnce
    retry,      \* request -> its run of retryDelivery
    faults      \* what may go wrong in this behaviour

notificationVars == <<event, enabled, delivery, attempts, sends, reached, worker, retry, faults>>

Terminal == {"accepted", "failed", "dead-letter"}
Delivery == [status : Terminal \cup {"none", "queued", "sending", "retrying"},
             count : Nat, old : BOOLEAN, retries : Nat]
Worker == [pc : {"idle", "materialize", "read", "send", "wait", "record", "settle", "health", "catch"},
           batch : SUBSET Channels, at : SUBSET Channels, count : Nat,
           kind : {"none", "accepted", "retryable", "permanent"}, caught : BOOLEAN]
\* late is history: the delivery had moved on when the request wrote it.
Request == [pc : {"new", "patch", "done"}, at : SUBSET Channels, generation : Nat, late : BOOLEAN]
NoDelivery == [status |-> "none", count |-> 0, old |-> FALSE, retries |-> 0]
IdleWorker == [pc |-> "idle", batch |-> {}, at |-> {}, count |-> 0, kind |-> "none", caught |-> FALSE]

NotificationStart(sc) ==
    /\ event = [state |-> "queued", old |-> FALSE]
    /\ enabled = sc.channels
    /\ delivery = [c \in Channels |-> NoDelivery]
    /\ attempts = [c \in Channels |-> {}]
    /\ sends = [c \in Channels |-> 0]
    /\ reached = {}
    /\ worker = [w \in Workers |-> IdleWorker]
    /\ retry = [q \in Retries |-> [pc |-> IF q \in sc.retries THEN "new" ELSE "done",
                                   at |-> {}, generation |-> 0, late |-> FALSE]]
    /\ faults = sc.faults

Moves(w, pc) == worker' = [worker EXCEPT ![w].pc = pc]

\* The delivery is done with, whatever came of it: the batch goes on.
NextInBatch(w, c) ==
    worker' = [worker EXCEPT ![w] = [IdleWorker EXCEPT !.batch = worker[w].batch \ {c},
                                                       !.pc = IF worker[w].batch = {c} THEN "idle" ELSE "read"]]

\* An exception: the first one in a delivery is caught, one in the handler
\* ends runOnce and leaves the rest of the batch claimed.
Throws(w) ==
    worker' = [worker EXCEPT ![w] = IF @.caught THEN IdleWorker ELSE [@ EXCEPT !.pc = "catch"]]

-----------------------------------------------------------------------------
(* Events.                                                                 *)

ClaimEvent(w) ==
    /\ worker[w].pc = "idle"
    /\ event.state = "queued" \/ (event.state = "processing" /\ event.old)
    /\ event' = [state |-> "processing", old |-> FALSE]
    /\ Moves(w, "materialize")
    /\ UNCHANGED <<enabled, delivery, attempts, sends, reached, retry, faults>>

\* A paused control ends the event without deliveries; an existing delivery is
\* kept (ON CONFLICT DO NOTHING).
Materialize(w) ==
    /\ worker[w].pc = "materialize"
    /\ delivery' = IF "paused" \in faults THEN delivery
                   ELSE [c \in Channels |-> IF c \in enabled /\ delivery[c].status = "none"
                                            THEN [NoDelivery EXCEPT !.status = "queued"] ELSE delivery[c]]
    /\ event' = [event EXCEPT !.state = "processed"]
    /\ Moves(w, "idle")
    /\ UNCHANGED <<enabled, attempts, sends, reached, retry, faults>>

-----------------------------------------------------------------------------
(* Deliveries.                                                             *)

\* mutants: a claim that takes a delivery in progress, or overlooks one to be retried.
ClaimableAtOnce(c) == delivery[c].status \in {"queued", "retrying", "sending"}
ClaimableOnce(c) == delivery[c].status = "queued" \/ (delivery[c].status = "sending" /\ delivery[c].old)

Claimable(c) ==
    \/ delivery[c].status \in {"queued", "retrying"}
    \/ delivery[c].status = "sending" /\ delivery[c].old

ClaimDeliveries(w) ==
    /\ worker[w].pc = "idle"
    /\ \E batch \in (SUBSET {c \in Channels : Claimable(c)}) \ {{}} :
         /\ delivery' = [c \in Channels |-> IF c \in batch THEN [delivery[c] EXCEPT !.status = "sending", !.old = FALSE]
                                            ELSE delivery[c]]
         /\ worker' = [worker EXCEPT ![w] = [IdleWorker EXCEPT !.pc = "read", !.batch = batch]]
    /\ UNCHANGED <<event, enabled, attempts, sends, reached, retry, faults>>

\* deliveryContext reads the attempt count this delivery will build on.
ReadContext(w, c) ==
    /\ worker[w].pc = "read" /\ c \in worker[w].batch
    /\ \/ worker' = [worker EXCEPT ![w].pc = "send", ![w].at = {c}, ![w].count = delivery[c].count]
       \/ "store" \in faults /\ worker' = [worker EXCEPT ![w].pc = "catch", ![w].at = {c}]
    /\ UNCHANGED <<event, enabled, delivery, attempts, sends, reached, retry, faults>>

\* The provider accepts, asks to come back or refuses for good; a timeout says
\* nothing about what it did.
Send(w, c) ==
    /\ worker[w].pc = "send" /\ c \in worker[w].at
    /\ sends' = [sends EXCEPT ![c] = IF @ < MaxSends THEN @ + 1 ELSE @]
    /\ \/ /\ \E kind \in {"accepted", "retryable", "permanent"} :
               worker' = [worker EXCEPT ![w].pc = "record", ![w].kind = kind]
          /\ reached' = IF worker'[w].kind = "accepted" THEN reached \cup {c} ELSE reached
       \/ "timeout" \in faults /\ Throws(w) /\ reached' \in {reached, reached \cup {c}}
       \/ "silent" \in faults /\ Moves(w, "wait") /\ reached' \in {reached, reached \cup {c}}
    /\ UNCHANGED <<event, enabled, delivery, attempts, retry, faults>>

\* smtpSend has no timeout and does not hear the connection end: it goes on
\* when the server answers after all, or its socket fails.
SmtpAnswers(w, c) ==
    /\ worker[w].pc = "wait" /\ c \in worker[w].at
    /\ \/ /\ \E kind \in {"accepted", "retryable", "permanent"} :
               worker' = [worker EXCEPT ![w].pc = "record", ![w].kind = kind]
          /\ reached' = IF worker'[w].kind = "accepted" THEN reached \cup {c} ELSE reached
       \/ Throws(w) /\ UNCHANGED reached
    /\ UNCHANGED <<event, enabled, delivery, attempts, sends, retry, faults>>

Attempt(w) == worker[w].count + 1

\* mutant: an attempt row that replaces the one there is.
UpsertAttempt(w, c) ==
    /\ worker[w].pc = "record" /\ c \in worker[w].at
    /\ Moves(w, "settle") /\ attempts' = [attempts EXCEPT ![c] = @ \cup {Attempt(w)}]
    /\ UNCHANGED <<event, enabled, delivery, sends, reached, retry, faults>>

\* completeDelivery first appends the attempt; its number is unique.
RecordAttempt(w, c) ==
    /\ worker[w].pc = "record" /\ c \in worker[w].at
    /\ \/ Attempt(w) \notin attempts[c] /\ Moves(w, "settle") /\ attempts' = [attempts EXCEPT ![c] = @ \cup {Attempt(w)}]
       \/ Attempt(w) \in attempts[c] /\ Throws(w) /\ UNCHANGED attempts
       \/ "store" \in faults /\ Throws(w) /\ attempts' \in {attempts, [attempts EXCEPT ![c] = @ \cup {Attempt(w)}]}
    /\ UNCHANGED <<event, enabled, delivery, sends, reached, retry, faults>>

\* mutant: one attempt too many
SettledLate(w) ==
    CASE worker[w].kind = "accepted" -> "accepted"
      [] worker[w].kind = "permanent" -> "failed"
      [] OTHER -> IF Attempt(w) > MAX_ATTEMPTS THEN "dead-letter" ELSE "retrying"

Settled(w) ==
    CASE worker[w].kind = "accepted" -> "accepted"
      [] worker[w].kind = "permanent" -> "failed"
      [] OTHER -> IF Attempt(w) >= MAX_ATTEMPTS THEN "dead-letter" ELSE "retrying"

\* Then it writes the delivery, whoever holds it by now.
SettleDelivery(w, c) ==
    /\ worker[w].pc = "settle" /\ c \in worker[w].at
    /\ LET settled == [delivery EXCEPT ![c].status = Settled(w), ![c].count = Attempt(w), ![c].old = FALSE]
       IN  \/ delivery' = settled /\ Moves(w, "health")
           \/ "store" \in faults /\ delivery' \in {delivery, settled} /\ Throws(w)
    /\ UNCHANGED <<event, enabled, attempts, sends, reached, retry, faults>>

\* And the channel's health; a failure here, too, is a failed delivery.
WriteHealth(w, c) ==
    /\ worker[w].pc = "health" /\ c \in worker[w].at
    /\ NextInBatch(w, c) \/ ("store" \in faults /\ Throws(w))
    /\ UNCHANGED <<event, enabled, delivery, attempts, sends, reached, retry, faults>>

\* The handler reads the delivery again and completes it as retryable.
Catch(w, c) ==
    /\ worker[w].pc = "catch" /\ c \in worker[w].at
    /\ \/ worker' = [worker EXCEPT ![w].pc = "record", ![w].count = delivery[c].count, ![w].kind = "retryable",
                                   ![w].caught = TRUE]
       \/ "store" \in faults /\ NextInBatch(w, c)
    /\ UNCHANGED <<event, enabled, delivery, attempts, sends, reached, retry, faults>>

-----------------------------------------------------------------------------
(* Operators, clock and stops.                                             *)

SetChannelEnabled(c) ==
    /\ "switch" \in faults
    /\ enabled' = IF c \in enabled THEN enabled \ {c} ELSE enabled \cup {c}
    /\ UNCHANGED <<event, delivery, attempts, sends, reached, worker, retry, faults>>

\* retryDelivery reads the delivery and takes only a failed one.
ReadRetry(q, c) ==
    /\ retry[q].pc = "new" /\ delivery[c].status \in {"failed", "dead-letter"}
    /\ retry' = [retry EXCEPT ![q].pc = "patch", ![q].at = {c}, ![q].generation = delivery[c].retries]
    /\ UNCHANGED <<event, enabled, delivery, attempts, sends, reached, worker, faults>>

\* Then it queues it again by its id alone, whatever it has become; the attempt
\* count stays.
PatchRetry(q, c) ==
    /\ retry[q].pc = "patch" /\ c \in retry[q].at
    /\ delivery' = [delivery EXCEPT ![c].status = "queued", ![c].old = FALSE, ![c].retries = retry[q].generation + 1]
    /\ retry' = [retry EXCEPT ![q].pc = "done", ![q].late = delivery[c].status \notin {"failed", "dead-letter"}]
    /\ UNCHANGED <<event, enabled, attempts, sends, reached, worker, faults>>

\* Claims age under a dispatcher that is gone or waits for a silent server or,
\* if "slow", in a long batch.
Held(c) == \E w \in Workers : c \in worker[w].batch /\ worker[w].pc # "wait"
ClaimAges ==
    /\ \/ /\ event.state = "processing" /\ ~ event.old
          /\ "slow" \in faults \/ ~ \E w \in Workers : worker[w].pc = "materialize"
          /\ event' = [event EXCEPT !.old = TRUE]
          /\ UNCHANGED delivery
       \/ \E c \in Channels :
          /\ delivery[c].status = "sending" /\ ~ delivery[c].old
          /\ "slow" \in faults \/ ~ Held(c)
          /\ delivery' = [delivery EXCEPT ![c].old = TRUE]
          /\ UNCHANGED event
    /\ UNCHANGED <<enabled, attempts, sends, reached, worker, retry, faults>>

DispatcherStops(w) ==
    /\ "crash" \in faults /\ worker[w].pc # "idle"
    /\ worker' = [worker EXCEPT ![w] = IdleWorker]
    /\ faults' = (faults \ {"crash"}) \cup {"crashed"}
    /\ UNCHANGED <<event, enabled, delivery, attempts, sends, reached, retry>>

RunOnce(w) == \/ ClaimEvent(w) \/ Materialize(w) \/ ClaimDeliveries(w)
              \/ \E c \in Channels : \/ ReadContext(w, c) \/ Send(w, c) \/ RecordAttempt(w, c)
                                     \/ SettleDelivery(w, c) \/ WriteHealth(w, c) \/ Catch(w, c)

NotificationNext == \/ \E w \in Workers : RunOnce(w) \/ DispatcherStops(w)
                    \/ \E w \in Workers, c \in Channels : SmtpAnswers(w, c)
                    \/ \E c \in Channels : SetChannelEnabled(c)
                    \/ \E q \in Retries, c \in Channels : ReadRetry(q, c) \/ PatchRetry(q, c)
                    \/ ClaimAges

\* The dispatchers poll on a timer, and their calls to Supabase and to the
\* HTTP providers time out; SMTP does not, so nothing makes SmtpAnswers happen.
NotificationFairness == WF_notificationVars(ClaimAges) /\ \A w \in Workers : WF_notificationVars(RunOnce(w))

NotificationSpec == /\ \E sc \in NotificationScenes : NotificationStart(sc)
                    /\ [][NotificationNext]_notificationVars
                    /\ NotificationFairness

-----------------------------------------------------------------------------
\* The event, the deliveries and the dispatchers keep their shapes.
NotificationTypeOK ==
    /\ event \in [state : {"queued", "processing", "processed"}, old : BOOLEAN]
    /\ delivery \in [Channels -> Delivery]
    /\ attempts \in [Channels -> SUBSET Nat]
    /\ sends \in [Channels -> Nat]
    /\ reached \subseteq Channels
    /\ worker \in [Workers -> Worker]
    /\ retry \in [Retries -> Request]

\* No dispatcher stops, waits for a silent server or outlives its claim, and
\* the store answers.
Undisturbed == faults \cap {"silent", "slow", "store", "crash", "crashed"} = {}

\* The times an operator queued a delivery again, and whether one of them came
\* late: two retries overlapped.
Requeued(c) == Cardinality({q \in Retries : retry[q].pc = "done" /\ c \in retry[q].at})
Overtaken(c) == \E q \in Retries : c \in retry[q].at /\ retry[q].late

\* The attempts of a delivery are numbered without a gap and its own count
\* keeps up with them but for one: two dispatchers that complete the same
\* claim cannot both count it, whichever writes first.
AttemptsAreCounted ==
    \A c \in Channels : LET n == Cardinality(attempts[c])
                        IN  attempts[c] = 1..n /\ delivery[c].count \in {n - 1, n}

\* "Maximum automatic attempts": undisturbed, a provider is called at most
\* MAX_ATTEMPTS times, once more per retry, also when retries overlap and two
\* dispatchers hold the delivery at once.
SendsAreLimited ==
    Undisturbed => \A c \in Channels : sends[c] <= MAX_ATTEMPTS + Requeued(c)

\* A delivery reported accepted was taken by its provider; undisturbed, and
\* until a late retry, it stays accepted and is not sent again.
AcceptedIsFinal ==
    [][\A c \in Channels :
          /\ delivery'[c].status = "accepted" => c \in reached'
          /\ Undisturbed /\ ~ Overtaken(c)' /\ delivery[c].status = "accepted" =>
                delivery'[c].status = "accepted" /\ sends'[c] = sends[c]]_notificationVars

\* The limit on sends, whatever happens to the dispatchers.
SendsAreAlwaysLimited == \A c \in Channels : sends[c] <= MAX_ATTEMPTS + Requeued(c)

\* What the plan says of a retry: an accepted delivery cannot be retried.
AcceptedIsNotRetried ==
    [][\A c \in Channels : delivery[c].status = "accepted" => delivery'[c].status # "queued"]_notificationVars

\* What the plan says of a request to a provider: it ends, after ten seconds at most.
RequestsEnd == \A w \in Workers : worker[w].pc = "wait" ~> worker[w].pc # "wait"

\* A queued delivery is accepted or reported failed, slow dispatchers, silent
\* servers and overlapping retries or not, unless every dispatcher waits for a
\* silent server, one stops halfway or the store fails.
DeliveryConcludes ==
    faults \cap {"store", "crash"} = {} =>
        \A c \in Channels : delivery[c].status = "queued" ~>
            delivery[c].status \in Terminal \/ \A w \in Workers : worker[w].pc = "wait"
=============================================================================
