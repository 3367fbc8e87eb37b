---------------------------- MODULE DialogueState ----------------------------
(***************************************************************************)
(* C_DST, the dialogue state tracker, and the OSAA gateways that run turns *)
(* on it, for one conversation: every statement is keyed by conversation   *)
(* id, so conversations do not meet.  A turn is a user message that a      *)
(* gateway leases, executes and answers; the answer may carry a transition *)
(* of the dialogue state.  Maintenance fails turns whose lease ran out and *)
(* purges conversations whose retention is over.                           *)
(*                                                                         *)
(* A lease id is drawn at every begin and the attempt of the message grows *)
(* at every begin, so the attempt stands for the lease id.  A heartbeat is *)
(* an UPDATE and a COMMIT: between the two the message is locked and other *)
(* sessions still read the expiry it had before.                           *)
(***************************************************************************)
EXTENDS Naturals, Sequences, FiniteSets

CONSTANTS
    Turns,              \* client request ids
    Gateways,           \* gateway executions that may run at once
    MAX_TURN_ATTEMPTS,  \* conversation-store.js (5 there)
    DialogueFaults      \* of "crash", "lost", "pause"

ASSUME AttemptsAssumption == MAX_TURN_ATTEMPTS \in Nat \ {0}
ASSUME DialogueFaultsAssumption == DialogueFaults \subseteq {"crash", "lost", "pause"}

VARIABLES
    conv,       \* status, revision log and retention of the conversation
    turn,       \* turn -> user message, lease and answer
    exec,       \* gateway -> the execution it is in
    receipts,   \* <<turn, attempt, action>> of recovered turns
    revived     \* a heartbeat committed after its lease had run out

dialogueVars == <<conv, turn, exec, receipts, revived>>

NoTurn == [status |-> "none", lease |-> 0, live |-> FALSE, attempt |-> 0, answer |-> 0]
NoExec == [pc |-> "idle", turn |-> {}, lease |-> 0, read |-> 0, beat |-> FALSE]

DialogueStart ==
    /\ conv = [status |-> "none", log |-> <<>>, elapsed |-> FALSE]
    /\ turn = [t \in Turns |-> NoTurn]
    /\ exec = [g \in Gateways |-> NoExec]
    /\ receipts = {}
    /\ revived = FALSE

Revision == Len(conv.log)
Pending(t) == turn[t].status = "pending"
Runs(g, t) == t \in exec[g].turn
Holds(g, t) == Runs(g, t) /\ Pending(t) /\ turn[t].lease = exec[g].lease
Locked(t) == \E g \in Gateways : Runs(g, t) /\ exec[g].beat
Ended(t, status) == [turn[t] EXCEPT !.status = status, !.lease = 0, !.live = FALSE]

-----------------------------------------------------------------------------
(* Turns.                                                                  *)

\* mutants: a begin that overlooks a live turn, or an answer
MayBeginBeside(t) ==
    conv.status \in {"none", "active"} /\ turn[t].answer = 0 /\ ~ Pending(t) /\ turn[t].attempt < MAX_TURN_ATTEMPTS
MayBeginAgain(t) ==
    /\ conv.status \in {"none", "active"}
    /\ \A u \in Turns \ {t} : ~ (Pending(u) /\ turn[u].live)
    /\ ~ Pending(t) /\ turn[t].attempt < MAX_TURN_ATTEMPTS

\* beginTurn refuses a deleted or archived conversation, a second live turn,
\* an answered, a running or an expired turn, and an attempt too many.
MayBegin(t) ==
    /\ conv.status \in {"none", "active"}
    /\ \A u \in Turns \ {t} : ~ (Pending(u) /\ turn[u].live)
    /\ turn[t].answer = 0 /\ ~ Pending(t)
    /\ turn[t].attempt < MAX_TURN_ATTEMPTS

\* mutant: a retry that keeps its attempt.
SameAttempt(t) == IF turn[t].attempt = 0 THEN 1 ELSE turn[t].attempt

NextAttempt(t) == turn[t].attempt + 1

BeginTurn(g, t) ==
    /\ exec[g].pc = "idle" /\ MayBegin(t)
    /\ conv' = [conv EXCEPT !.status = "active"]
    /\ turn' = [turn EXCEPT ![t].status = "pending", ![t].live = TRUE,
                            ![t].lease = NextAttempt(t), ![t].attempt = NextAttempt(t)]
    /\ exec' = [exec EXCEPT ![g] = [NoExec EXCEPT !.pc = "running", !.turn = {t}, !.lease = NextAttempt(t),
                                                  !.read = Revision]]
    /\ UNCHANGED <<receipts, revived>>

\* mutant: a completion that does not look at the clock.
MayCompleteLate(g, t) == conv.status \in {"active", "archived"} /\ Holds(g, t)

\* completeTurn needs the conversation, the lease and the time left on it.
MayComplete(g, t) == conv.status \in {"active", "archived"} /\ Holds(g, t) /\ turn[t].live

\* The answer, the transition that may come with it and the end of the lease
\* are one transaction; "lost" loses its reply.
CompleteTurn(g, t) ==
    /\ exec[g].pc = "running" /\ ~ Locked(t) /\ MayComplete(g, t)
    /\ \E transition \in BOOLEAN :
         conv' = IF transition THEN [conv EXCEPT !.log = Append(@, [turn |-> t, read |-> exec[g].read])] ELSE conv
    /\ turn' = [turn EXCEPT ![t] = [Ended(t, "completed") EXCEPT !.answer = exec[g].lease]]
    /\ \/ exec' = [exec EXCEPT ![g] = NoExec]
       \/ "lost" \in DialogueFaults /\ exec' = [exec EXCEPT ![g].pc = "failing"]
    /\ UNCHANGED <<receipts, revived>>

\* The provider or a tool fails, or the completion is refused.
ExecutionFails(g) ==
    /\ exec[g].pc = "running"
    /\ exec' = [exec EXCEPT ![g].pc = "failing"]
    /\ UNCHANGED <<conv, turn, receipts, revived>>

\* failTurn touches the message only under its own lease, expired or not.
FailTurn(g, t) ==
    /\ exec[g].pc = "failing" /\ Runs(g, t) /\ ~ Locked(t)
    /\ turn' = IF Holds(g, t) THEN [turn EXCEPT ![t] = Ended(t, "failed")] ELSE turn
    /\ exec' = [exec EXCEPT ![g] = NoExec]
    /\ UNCHANGED <<conv, receipts, revived>>

\* heartbeatTurn renews a lease that has not run out; a refusal aborts the
\* execution.
Heartbeat(g, t) ==
    /\ exec[g].pc = "running" /\ Runs(g, t) /\ ~ Locked(t)
    /\ exec' = [exec EXCEPT ![g] = IF Holds(g, t) /\ turn[t].live THEN [@ EXCEPT !.beat = TRUE]
                                   ELSE [@ EXCEPT !.pc = "failing"]]
    /\ UNCHANGED <<conv, turn, receipts, revived>>

HeartbeatCommit(g, t) ==
    /\ exec[g].beat /\ Runs(g, t)
    /\ turn' = [turn EXCEPT ![t].live = TRUE]
    /\ exec' = [exec EXCEPT ![g].beat = FALSE]
    /\ revived' = (revived \/ ~ turn[t].live)
    /\ UNCHANGED <<conv, receipts>>

\* A heartbeat the stopped gateway left open is rolled back.
GatewayStops(g) ==
    /\ "crash" \in DialogueFaults /\ exec[g].pc # "idle"
    /\ exec' = [exec EXCEPT ![g] = NoExec]
    /\ UNCHANGED <<conv, turn, receipts, revived>>

-----------------------------------------------------------------------------
(* Conversation, clock and maintenance.                                    *)

Archive ==
    /\ conv.status \in {"active", "archived"}
    /\ \E status \in {"active", "archived"} \ {conv.status} : conv' = [conv EXCEPT !.status = status]
    /\ UNCHANGED <<turn, exec, receipts, revived>>

Remove ==
    /\ conv.status \in {"active", "archived"}
    /\ conv' = [conv EXCEPT !.status = "deleted"]
    /\ UNCHANGED <<turn, exec, receipts, revived>>

\* A lease runs out under a stopped or silent gateway; under an open heartbeat
\* only if the tracker pauses between the UPDATE and the COMMIT.
LeaseExpires(t) ==
    /\ Pending(t) /\ turn[t].live /\ (Locked(t) => "pause" \in DialogueFaults)
    /\ turn' = [turn EXCEPT ![t].live = FALSE]
    /\ UNCHANGED <<conv, exec, receipts, revived>>

Abandoned(t) == ~ \E g \in Gateways : Holds(g, t)

Recovered(t, action) == <<t, turn[t].attempt, action>>

\* reap_expired_dialogue_turns skips locked messages; a receipt that exists
\* already aborts the whole batch.
ReapTurns ==
    LET due == {t \in Turns : Pending(t) /\ ~ turn[t].live /\ ~ Locked(t)} IN
    /\ due # {}
    /\ \A t \in due : Recovered(t, "lease-expired") \notin receipts
    /\ turn' = [t \in Turns |-> IF t \in due THEN Ended(t, "failed") ELSE turn[t]]
    /\ receipts' = receipts \cup {Recovered(t, "lease-expired") : t \in due}
    /\ UNCHANGED <<conv, exec, revived>>

\* recover_dialogue_turn takes any pending turn from its gateway.
RecoverTurn(t) ==
    /\ Pending(t) /\ ~ Locked(t) /\ Recovered(t, "admin-recovery") \notin receipts
    /\ turn' = [turn EXCEPT ![t] = Ended(t, "failed")]
    /\ receipts' = receipts \cup {Recovered(t, "admin-recovery")}
    /\ UNCHANGED <<conv, exec, revived>>

RetentionElapses ==
    /\ conv.status = "deleted" /\ ~ conv.elapsed
    /\ conv' = [conv EXCEPT !.elapsed = TRUE]
    /\ UNCHANGED <<turn, exec, receipts, revived>>

\* mutant: a purge that waits for every message to be answered.
MayPurgeAnswered ==
    conv.status = "deleted" /\ conv.elapsed /\ \A t \in Turns : turn[t].status \in {"none", "completed"}

MayPurge == conv.status = "deleted" /\ conv.elapsed /\ \A t \in Turns : ~ Pending(t)

\* purge_dialogue_state deletes messages, transitions and conversation.
Purge ==
    /\ MayPurge
    /\ conv' = [conv EXCEPT !.status = "purged", !.log = <<>>]
    /\ turn' = [t \in Turns |-> NoTurn]
    /\ UNCHANGED <<exec, receipts, revived>>

TurnStep(g, t) == BeginTurn(g, t) \/ CompleteTurn(g, t) \/ FailTurn(g, t) \/ Heartbeat(g, t) \/ HeartbeatCommit(g, t)

DialogueNext ==
    \/ \E g \in Gateways : ExecutionFails(g) \/ GatewayStops(g) \/ \E t \in Turns : TurnStep(g, t)
    \/ \E t \in Turns : LeaseExpires(t) \/ RecoverTurn(t)
    \/ ReapTurns \/ Archive \/ Remove \/ RetentionElapses \/ Purge

\* Executions end (every provider and tool call has a timeout), a lease nobody
\* renews runs out, and maintenance runs on a timer.
DialogueFairness ==
    /\ \A g \in Gateways :
         /\ WF_dialogueVars(ExecutionFails(g))
         /\ \A t \in Turns : WF_dialogueVars(FailTurn(g, t)) /\ WF_dialogueVars(HeartbeatCommit(g, t))
    /\ \A t \in Turns : WF_dialogueVars(Abandoned(t) /\ LeaseExpires(t))
    /\ WF_dialogueVars(ReapTurns) /\ WF_dialogueVars(RetentionElapses) /\ WF_dialogueVars(Purge)

DialogueSpec == DialogueStart /\ [][DialogueNext]_dialogueVars /\ DialogueFairness

-----------------------------------------------------------------------------
Transition == [turn : Turns, read : Nat]
Conversation == [status : {"none", "active", "archived", "deleted", "purged"},
                 log : Seq(Transition), elapsed : BOOLEAN]
UserMessage == [status : {"none", "pending", "completed", "failed"}, lease : 0..MAX_TURN_ATTEMPTS,
                live : BOOLEAN, attempt : 0..MAX_TURN_ATTEMPTS, answer : 0..MAX_TURN_ATTEMPTS]
Execution == [pc : {"idle", "running", "failing"}, turn : SUBSET Turns, lease : 0..MAX_TURN_ATTEMPTS,
              read : Nat, beat : BOOLEAN]
Actions == {"lease-expired", "admin-recovery"}

\* The rows and executions have the shapes of their tables and records.
DialogueTypeOK ==
    /\ conv \in Conversation
    /\ turn \in [Turns -> UserMessage]
    /\ exec \in [Gateways -> Execution]
    /\ receipts \subseteq Turns \X Nat \X Actions
    /\ revived \in BOOLEAN

\* One conversation serialises its turns: two of them have time left only after
\* a heartbeat was paused across the end of its lease (beginTurn's check reads
\* what is committed, and heartbeatTurn does not lock the conversation).
TurnsAreSerial ==
    ~ revived => Cardinality({t \in Turns : Pending(t) /\ turn[t].live}) <= 1

\* A transition was computed from the revision it extends, and a turn commits
\* at most one, under the same condition on heartbeats.
TransitionsAreFresh ==
    ~ revived => \A i \in 1..Revision :
                    conv.log[i].read = i - 1 /\ \A j \in 1..(i - 1) : conv.log[i].turn # conv.log[j].turn

\* An answered turn is never executed again and keeps its answer until the
\* conversation is purged, whatever late or repeated calls arrive.
AnswerIsFinal ==
    [][\A t \in Turns : turn[t].answer # 0 /\ conv'.status # "purged" =>
          turn'[t].answer = turn[t].answer /\ turn'[t].status = "completed"]_dialogueVars

\* A pending turn is answered or failed, even when its gateway is gone: no
\* receipt of an earlier attempt stands in the reaper's way.
TurnConcludes == \A t \in Turns : Pending(t) ~> ~ Pending(t)

\* A deleted conversation is purged in the end, pending turns or not.
DeletedIsPurged == conv.status = "deleted" ~> conv.status = "purged"
=============================================================================
