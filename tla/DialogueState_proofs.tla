------------------------ MODULE DialogueState_proofs ------------------------
(***************************************************************************)
(* Proofs about C_DST, for any turns, gateways, faults and attempt limit.  *)
(* The argument is the one of a fencing token: a begin draws an attempt no *)
(* execution holds, so an execution holds its turn only while no later one *)
(* began; as long as no heartbeat revived a lapsed lease, a turn with time *)
(* left is the only one, and what its execution read is still the head of  *)
(* the transition log.                                                     *)
(***************************************************************************)
EXTENDS DialogueState, FiniteSetTheorems, TLAPS

\* A pending turn carries the lease of its last attempt and no answer; an answer
\* is the end of a turn.
TurnsAreLeased ==
    \A t \in Turns :
        /\ Pending(t) => turn[t].lease = turn[t].attempt /\ turn[t].attempt > 0 /\ turn[t].answer = 0
        /\ turn[t].answer # 0 => turn[t].status = "completed"

\* No execution holds an attempt that was not drawn yet; after a purge nothing is
\* pending and nothing begins.
LeasesAreDrawn ==
    /\ conv.status = "purged" => \A t \in Turns : ~ Pending(t)
    /\ conv.status # "purged" => \A g \in Gateways, t \in Turns : Runs(g, t) => exec[g].lease <= turn[t].attempt

\* The transitions of the log are those of answered turns, one each.
LogIsAnswered ==
    \A i \in 1..Revision :
        /\ turn[conv.log[i].turn].answer # 0
        /\ \A j \in 1..(i - 1) : conv.log[i].turn # conv.log[j].turn

\* Two turns with time left are one, what its execution read is the head of the
\* log, and so was what every committed transition read.
Live(t) == Pending(t) /\ turn[t].live
ReadsAreCurrent ==
    ~ revived =>
        /\ \A t, u \in Turns : Live(t) /\ Live(u) => t = u
        /\ \A g \in Gateways, t \in Turns : Holds(g, t) /\ turn[t].live => exec[g].read = Revision
        /\ \A i \in 1..Revision : conv.log[i].read = i - 1

\* A receipt is of an attempt that was drawn, and not of the one that is pending.
ReceiptsAreOld ==
    conv.status # "purged" =>
        \A t \in Turns, n \in Nat, a \in Actions :
            <<t, n, a>> \in receipts => n <= turn[t].attempt /\ (Pending(t) => n < turn[t].attempt)

\* The inductive invariant.
DialogueInv ==
    DialogueTypeOK /\ TurnsAreLeased /\ LeasesAreDrawn /\ LogIsAnswered /\ ReadsAreCurrent /\ ReceiptsAreOld

-----------------------------------------------------------------------------
(* Steps that draw no attempt and write no transition.                      *)

\* What the shape of the rows says of one turn and one execution.
LEMMA TurnFacts ==
    ASSUME DialogueTypeOK, NEW t \in Turns
    PROVE  /\ turn[t].status \in {"none", "pending", "completed", "failed"}
           /\ turn[t].lease \in Nat /\ turn[t].live \in BOOLEAN
           /\ turn[t].attempt \in Nat /\ turn[t].answer \in Nat
BY AttemptsAssumption DEF DialogueTypeOK, UserMessage

\* A turn that a failure, the reaper or an administrator ends has no lease left.
LEMMA EndedFacts ==
    ASSUME DialogueTypeOK, NEW t \in Turns, NEW status \in {"completed", "failed"}
    PROVE  /\ Ended(t, status) \in UserMessage
           /\ Ended(t, status).status = status /\ Ended(t, status).attempt = turn[t].attempt
           /\ Ended(t, status).answer = turn[t].answer /\ Ended(t, status).live = FALSE
<1> DEFINE row == [turn[t] EXCEPT !.status = status, !.lease = 0, !.live = FALSE]
<1>1. turn[t] \in UserMessage /\ 0 \in 0..MAX_TURN_ATTEMPTS
  BY AttemptsAssumption DEF DialogueTypeOK
<1>2. row \in UserMessage
  BY <1>1 DEF UserMessage
<1>3. /\ row.status = status /\ row.attempt = turn[t].attempt
      /\ row.answer = turn[t].answer /\ row.live = FALSE
  BY <1>1 DEF UserMessage
<1> QED BY <1>2, <1>3 DEF Ended

\* The log is a sequence of transitions of turns.
LEMMA LogFacts ==
    ASSUME DialogueTypeOK
    PROVE  /\ conv.log \in Seq(Transition) /\ Revision \in Nat
           /\ \A i \in 1..Revision : conv.log[i].turn \in Turns /\ conv.log[i].read \in Nat
<1>1. conv.log \in Seq(Transition)
  BY DEF DialogueTypeOK, Conversation
<1>2. \A i \in 1..Len(conv.log) : conv.log[i] \in Transition
  BY <1>1
<1> QED BY <1>1, <1>2 DEF Revision, Transition

\* A turn lapses: it stays, loses the time it had, or a pending one fails.
Lapses(t) ==
    /\ turn'[t].attempt = turn[t].attempt
    /\ turn'[t].answer = turn[t].answer
    /\ \/ turn'[t].status = turn[t].status /\ turn'[t].lease = turn[t].lease
          /\ (turn'[t].live => turn[t].live)
       \/ Pending(t) /\ turn'[t].status = "failed"

\* An execution ends or goes on with the turn, lease and revision it began with.
GoesOn(g) ==
    \/ exec'[g] = NoExec
    \/ exec'[g].turn = exec[g].turn /\ exec'[g].lease = exec[g].lease /\ exec'[g].read = exec[g].read

\* Steps in which turns only lapse and executions only go on keep the invariant:
\* nothing is held, live or read that was not before.
LEMMA LapseKeepsInv ==
    ASSUME DialogueInv, DialogueTypeOK', conv' = conv, revived' = revived,
           \A t \in Turns : Lapses(t), \A g \in Gateways : GoesOn(g),
           \A t \in Turns, n \in Nat, a \in Actions :
               <<t, n, a>> \in receipts' =>
                   \/ <<t, n, a>> \in receipts
                   \/ Pending(t) /\ turn'[t].status = "failed" /\ n = turn[t].attempt
    PROVE  DialogueInv'
<1>1. \A t \in Turns : Pending(t)' => Pending(t) /\ turn'[t].lease = turn[t].lease
                                      /\ (turn'[t].live => turn[t].live)
  BY DEF Lapses, Pending
<1>2. \A g \in Gateways, t \in Turns : Runs(g, t)' => Runs(g, t) /\ exec'[g].lease = exec[g].lease
                                                      /\ exec'[g].read = exec[g].read
  BY DEF GoesOn, Runs, NoExec
<1>3. TurnsAreLeased'
  BY <1>1 DEF DialogueInv, TurnsAreLeased, Lapses, Pending
<1>4. LeasesAreDrawn'
  BY <1>1, <1>2 DEF DialogueInv, LeasesAreDrawn, Lapses
<1>5. LogIsAnswered'
  <2>1. \A i \in 1..Revision : conv.log[i].turn \in Turns
    BY LogFacts DEF DialogueInv
  <2> QED BY <2>1 DEF DialogueInv, LogIsAnswered, Revision, Lapses
<1>6. ReadsAreCurrent'
  <2>1. \A g \in Gateways, t \in Turns : Holds(g, t)' => Holds(g, t)
    BY <1>1, <1>2 DEF Holds
  <2>2. \A t \in Turns : Live(t)' => Live(t)
    BY <1>1 DEF Live
  <2> QED BY <1>1, <1>2, <2>1, <2>2 DEF DialogueInv, ReadsAreCurrent, Revision, Holds
<1>7. ReceiptsAreOld'
  <2> SUFFICES ASSUME conv.status # "purged", NEW t \in Turns, NEW n \in Nat,
                      NEW a \in Actions, <<t, n, a>> \in receipts'
               PROVE  n <= turn'[t].attempt /\ (Pending(t)' => n < turn'[t].attempt)
    BY DEF ReceiptsAreOld
  <2>1. turn'[t].attempt = turn[t].attempt /\ turn[t].attempt \in Nat
    BY TurnFacts DEF Lapses, DialogueInv
  <2>2. CASE <<t, n, a>> \in receipts
    BY <1>1, <2>1, <2>2 DEF DialogueInv, ReceiptsAreOld
  <2>3. CASE Pending(t) /\ turn'[t].status = "failed" /\ n = turn[t].attempt
    BY <2>1, <2>3 DEF Pending
  <2> QED BY <2>2, <2>3
<1> QED BY <1>3, <1>4, <1>5, <1>6, <1>7 DEF DialogueInv

\* An execution that no gateway is in.
LEMMA NoExecType == NoExec \in Execution
BY AttemptsAssumption DEF NoExec, Execution

\* One execution is replaced by one that ends or goes on; the tables stay.
LEMMA ExecStep ==
    ASSUME DialogueInv, NEW g \in Gateways, NEW e \in Execution,
           exec' = [exec EXCEPT ![g] = e],
           \/ e = NoExec
           \/ e.turn = exec[g].turn /\ e.lease = exec[g].lease /\ e.read = exec[g].read
    PROVE  exec' \in [Gateways -> Execution] /\ \A h \in Gateways : GoesOn(h)
BY DEF DialogueInv, DialogueTypeOK, GoesOn

\* Nothing lapses in a step that leaves the messages alone.
LEMMA TurnsStay ==
    ASSUME turn' = turn PROVE \A t \in Turns : Lapses(t)
BY DEF Lapses

\* A provider or a tool fails.
LEMMA ExecutionFailsKeepsInv ==
    ASSUME DialogueInv, NEW g \in Gateways, ExecutionFails(g)
    PROVE  DialogueInv'
<1> DEFINE e == [exec[g] EXCEPT !.pc = "failing"]
<1>1. e \in Execution /\ e.turn = exec[g].turn /\ e.lease = exec[g].lease /\ e.read = exec[g].read
  BY DEF DialogueInv, DialogueTypeOK, Execution
<1>2. exec' = [exec EXCEPT ![g] = e] /\ UNCHANGED <<conv, turn, receipts, revived>>
  BY DEF ExecutionFails
<1> HIDE DEF e
<1>3. exec' \in [Gateways -> Execution] /\ \A h \in Gateways : GoesOn(h)
  BY <1>1, <1>2, ExecStep
<1>4. DialogueTypeOK'
  BY <1>2, <1>3 DEF DialogueInv, DialogueTypeOK
<1> QED BY <1>2, <1>3, <1>4, TurnsStay, LapseKeepsInv

\* A gateway stops.
LEMMA GatewayStopsKeepsInv ==
    ASSUME DialogueInv, NEW g \in Gateways, GatewayStops(g)
    PROVE  DialogueInv'
<1>1. exec' = [exec EXCEPT ![g] = NoExec] /\ UNCHANGED <<conv, turn, receipts, revived>>
  BY DEF GatewayStops
<1>2. exec' \in [Gateways -> Execution] /\ \A h \in Gateways : GoesOn(h)
  BY <1>1, ExecStep, NoExecType
<1>3. DialogueTypeOK'
  BY <1>1, <1>2 DEF DialogueInv, DialogueTypeOK
<1> QED BY <1>1, <1>2, <1>3, TurnsStay, LapseKeepsInv

\* heartbeatTurn takes the lock or learns that the lease is gone.
LEMMA HeartbeatKeepsInv ==
    ASSUME DialogueInv, NEW g \in Gateways, NEW t \in Turns, Heartbeat(g, t)
    PROVE  DialogueInv'
<1>1. UNCHANGED <<conv, turn, receipts, revived>>
  BY DEF Heartbeat
<1>2. PICK e : /\ exec' = [exec EXCEPT ![g] = e]
               /\ e \in {[exec[g] EXCEPT !.beat = TRUE], [exec[g] EXCEPT !.pc = "failing"]}
  BY DEF Heartbeat
<1>3. e \in Execution /\ e.turn = exec[g].turn /\ e.lease = exec[g].lease /\ e.read = exec[g].read
  BY <1>2 DEF DialogueInv, DialogueTypeOK, Execution
<1>4. exec' \in [Gateways -> Execution] /\ \A h \in Gateways : GoesOn(h)
  BY <1>2, <1>3, ExecStep
<1>5. DialogueTypeOK'
  BY <1>1, <1>4 DEF DialogueInv, DialogueTypeOK
<1> QED BY <1>1, <1>4, <1>5, TurnsStay, LapseKeepsInv

\* failTurn fails the message under its own lease and ends the execution.
LEMMA FailTurnKeepsInv ==
    ASSUME DialogueInv, NEW g \in Gateways, NEW t \in Turns, FailTurn(g, t)
    PROVE  DialogueInv'
<1>1. /\ exec' = [exec EXCEPT ![g] = NoExec] /\ UNCHANGED <<conv, receipts, revived>>
      /\ turn' = IF Holds(g, t) THEN [turn EXCEPT ![t] = Ended(t, "failed")] ELSE turn
  BY DEF FailTurn
<1>2. exec' \in [Gateways -> Execution] /\ \A h \in Gateways : GoesOn(h)
  BY <1>1, ExecStep, NoExecType
<1>3. Holds(g, t) => Pending(t)
  BY DEF Holds
<1>4. Ended(t, "failed") \in UserMessage /\ turn \in [Turns -> UserMessage]
  BY EndedFacts DEF DialogueInv, DialogueTypeOK
<1>5. turn' \in [Turns -> UserMessage]
  BY <1>1, <1>4
<1>6. \A u \in Turns : Lapses(u)
  BY <1>1, <1>3, <1>4, EndedFacts DEF Lapses, DialogueInv
<1>7. DialogueTypeOK'
  BY <1>1, <1>2, <1>5 DEF DialogueInv, DialogueTypeOK
<1> QED BY <1>1, <1>2, <1>6, <1>7, LapseKeepsInv

\* A lease runs out.
LEMMA LeaseExpiresKeepsInv ==
    ASSUME DialogueInv, NEW t \in Turns, LeaseExpires(t)
    PROVE  DialogueInv'
<1> DEFINE row == [turn[t] EXCEPT !.live = FALSE]
<1>1. turn \in [Turns -> UserMessage]
  BY DEF DialogueInv, DialogueTypeOK
<1>2. row \in UserMessage /\ row.attempt = turn[t].attempt /\ row.answer = turn[t].answer
      /\ row.status = turn[t].status /\ row.lease = turn[t].lease /\ row.live = FALSE
  BY <1>1 DEF UserMessage
<1>3. turn' = [turn EXCEPT ![t] = row] /\ UNCHANGED <<conv, exec, receipts, revived>>
  BY DEF LeaseExpires
<1> HIDE DEF row
<1>4. turn' \in [Turns -> UserMessage]
  BY <1>1, <1>2, <1>3
<1>5. \A u \in Turns : Lapses(u)
  BY <1>1, <1>2, <1>3 DEF Lapses
<1>6. \A g \in Gateways : GoesOn(g)
  BY <1>3 DEF GoesOn
<1>7. DialogueTypeOK'
  BY <1>3, <1>4 DEF DialogueInv, DialogueTypeOK
<1> QED BY <1>3, <1>5, <1>6, <1>7, LapseKeepsInv

\* The reaper fails every turn whose lease ran out and leaves a receipt of each.
LEMMA ReapTurnsKeepsInv ==
    ASSUME DialogueInv, ReapTurns
    PROVE  DialogueInv'
<1> DEFINE due == {t \in Turns : Pending(t) /\ ~ turn[t].live /\ ~ Locked(t)}
<1>1. /\ turn' = [t \in Turns |-> IF t \in due THEN Ended(t, "failed") ELSE turn[t]]
      /\ receipts' = receipts \cup {Recovered(t, "lease-expired") : t \in due}
      /\ UNCHANGED <<conv, exec, revived>>
  BY DEF ReapTurns
<1>2. \A t \in due : t \in Turns /\ Pending(t)
  OBVIOUS
<1> HIDE DEF due
<1>3. turn \in [Turns -> UserMessage]
  BY DEF DialogueInv, DialogueTypeOK
<1>4. \A t \in Turns : turn'[t] \in UserMessage /\ Lapses(t)
  <2> SUFFICES ASSUME NEW t \in Turns PROVE turn'[t] \in UserMessage /\ Lapses(t)
    OBVIOUS
  <2>1. CASE t \in due
    BY <1>1, <1>2, <2>1, EndedFacts DEF Lapses, DialogueInv
  <2>2. CASE t \notin due
    BY <1>1, <1>3, <2>2 DEF Lapses
  <2> QED BY <2>1, <2>2
<1>5. turn' \in [Turns -> UserMessage]
  BY <1>1, <1>4
<1>6. \A t \in due : Recovered(t, "lease-expired") \in Turns \X Nat \X Actions
  BY <1>2, TurnFacts DEF Recovered, Actions, DialogueInv
<1>7. DialogueTypeOK'
  BY <1>1, <1>5, <1>6 DEF DialogueInv, DialogueTypeOK
<1>8. \A g \in Gateways : GoesOn(g)
  BY <1>1 DEF GoesOn
<1>9. \A t \in Turns, n \in Nat, a \in Actions :
          <<t, n, a>> \in receipts' =>
              \/ <<t, n, a>> \in receipts
              \/ Pending(t) /\ turn'[t].status = "failed" /\ n = turn[t].attempt
  <2> SUFFICES ASSUME NEW t \in Turns, NEW n \in Nat, NEW a \in Actions,
                      NEW u \in due, <<t, n, a>> = Recovered(u, "lease-expired")
               PROVE  Pending(t) /\ turn'[t].status = "failed" /\ n = turn[t].attempt
    BY <1>1
  <2>1. t = u /\ n = turn[t].attempt
    BY DEF Recovered
  <2> QED BY <1>1, <1>2, <2>1, EndedFacts DEF DialogueInv
<1> QED BY <1>1, <1>4, <1>7, <1>8, <1>9, LapseKeepsInv

\* recover_dialogue_turn fails one pending turn and leaves a receipt.
LEMMA RecoverTurnKeepsInv ==
    ASSUME DialogueInv, NEW t \in Turns, RecoverTurn(t)
    PROVE  DialogueInv'
<1>1. /\ turn' = [turn EXCEPT ![t] = Ended(t, "failed")] /\ Pending(t)
      /\ receipts' = receipts \cup {Recovered(t, "admin-recovery")}
      /\ UNCHANGED <<conv, exec, revived>>
  BY DEF RecoverTurn
<1>2. Ended(t, "failed") \in UserMessage /\ turn \in [Turns -> UserMessage]
  BY EndedFacts DEF DialogueInv, DialogueTypeOK
<1>3. turn' \in [Turns -> UserMessage]
  BY <1>1, <1>2
<1>4. \A u \in Turns : Lapses(u)
  BY <1>1, <1>2, EndedFacts DEF Lapses, DialogueInv
<1>5. Recovered(t, "admin-recovery") \in Turns \X Nat \X Actions
  BY TurnFacts DEF Recovered, Actions, DialogueInv
<1>6. DialogueTypeOK'
  BY <1>1, <1>3, <1>5 DEF DialogueInv, DialogueTypeOK
<1>7. \A g \in Gateways : GoesOn(g)
  BY <1>1 DEF GoesOn
<1>8. \A u \in Turns, n \in Nat, a \in Actions :
          <<u, n, a>> \in receipts' =>
              \/ <<u, n, a>> \in receipts
              \/ Pending(u) /\ turn'[u].status = "failed" /\ n = turn[u].attempt
  <2> SUFFICES ASSUME NEW u \in Turns, NEW n \in Nat, NEW a \in Actions,
                      <<u, n, a>> = Recovered(t, "admin-recovery")
               PROVE  Pending(u) /\ turn'[u].status = "failed" /\ n = turn[u].attempt
    BY <1>1
  <2>1. u = t /\ n = turn[t].attempt
    BY DEF Recovered
  <2> QED BY <1>1, <1>2, <2>1, EndedFacts DEF DialogueInv
<1> QED BY <1>1, <1>4, <1>6, <1>7, <1>8, LapseKeepsInv

-----------------------------------------------------------------------------
(* The steps that draw an attempt, write a transition or move the clock.    *)

\* beginTurn draws an attempt no execution holds, and no other turn has time left.
LEMMA BeginTurnKeepsInv ==
    ASSUME DialogueInv, NEW g \in Gateways, NEW t \in Turns, BeginTurn(g, t)
    PROVE  DialogueInv'
<1> DEFINE n == turn[t].attempt + 1
           row == [turn[t] EXCEPT !.status = "pending", !.live = TRUE, !.lease = n, !.attempt = n]
           e == [NoExec EXCEPT !.pc = "running", !.turn = {t}, !.lease = n, !.read = Revision]
<1>1. DialogueTypeOK /\ MayBegin(t)
  BY DEF DialogueInv, BeginTurn
<1>2. turn[t].attempt \in Nat /\ n \in 0..MAX_TURN_ATTEMPTS /\ n > turn[t].attempt /\ n > 0
  BY <1>1, TurnFacts, AttemptsAssumption DEF MayBegin
<1>3. turn' = [turn EXCEPT ![t] = row]
  BY DEF BeginTurn, NextAttempt
<1>4. exec' = [exec EXCEPT ![g] = e]
  BY DEF BeginTurn, NextAttempt
<1>5. conv' = [conv EXCEPT !.status = "active"] /\ UNCHANGED <<receipts, revived>>
  BY DEF BeginTurn
<1> HIDE DEF n
<1>6. turn[t] \in UserMessage /\ turn \in [Turns -> UserMessage] /\ exec \in [Gateways -> Execution]
      /\ conv \in Conversation /\ Revision \in Nat
  BY <1>1, LogFacts DEF DialogueTypeOK
<1>7. row \in UserMessage /\ row.status = "pending" /\ row.live = TRUE /\ row.lease = n
      /\ row.attempt = n /\ row.answer = turn[t].answer
  BY <1>2, <1>6 DEF UserMessage
<1>8. e \in Execution /\ e.turn = {t} /\ e.lease = n /\ e.read = Revision
  BY <1>2, <1>6, NoExecType DEF Execution
<1>9. conv' \in Conversation /\ conv'.log = conv.log /\ conv'.status = "active" /\ conv.status # "purged"
  BY <1>1, <1>5, <1>6 DEF Conversation, MayBegin
<1> HIDE DEF row, e
<1>10. /\ turn' \in [Turns -> UserMessage] /\ turn'[t] = row
       /\ \A u \in Turns : u # t => turn'[u] = turn[u]
  BY <1>3, <1>6, <1>7
<1>11. /\ exec' \in [Gateways -> Execution] /\ exec'[g] = e
       /\ \A h \in Gateways : h # g => exec'[h] = exec[h]
  BY <1>4, <1>6, <1>8
<1>12. DialogueTypeOK'
  BY <1>1, <1>5, <1>9, <1>10, <1>11 DEF DialogueTypeOK
<1>13. TurnsAreLeased'
  BY <1>1, <1>2, <1>7, <1>10 DEF DialogueInv, TurnsAreLeased, Pending, MayBegin
<1>14. \A h \in Gateways, u \in Turns : h # g /\ Runs(h, u) => exec[h].lease <= turn[u].attempt
  BY <1>9 DEF DialogueInv, LeasesAreDrawn
<1>15. \A h \in Gateways : exec[h].lease \in Nat
  BY <1>6, AttemptsAssumption DEF Execution
<1>16. LeasesAreDrawn'
  <2> SUFFICES ASSUME NEW h \in Gateways, NEW u \in Turns, Runs(h, u)'
               PROVE  exec'[h].lease <= turn'[u].attempt
    BY <1>9 DEF LeasesAreDrawn
  <2>1. CASE h = g
    BY <1>2, <1>7, <1>8, <1>10, <1>11, <2>1 DEF Runs
  <2>2. CASE h # g
    <3>1. exec'[h] = exec[h] /\ exec[h].lease <= turn[u].attempt
      BY <1>11, <1>14, <2>2 DEF Runs
    <3> QED BY <1>2, <1>7, <1>10, <1>15, <3>1
  <2> QED BY <2>1, <2>2
<1>17. LogIsAnswered'
  BY <1>7, <1>9, <1>10, <1>1, LogFacts DEF DialogueInv, LogIsAnswered, Revision
<1>18. ReadsAreCurrent'
  <2>1. \A u \in Turns : Live(u)' => u = t
    BY <1>1, <1>10 DEF MayBegin, Live, Pending
  <2>2. ASSUME NEW h \in Gateways, NEW u \in Turns, Holds(h, u)', turn'[u].live
        PROVE  exec'[h].read = Revision
    <3>1. u = t
      BY <2>1, <2>2 DEF Live, Holds
    <3>2. h = g
      <4> SUFFICES ASSUME h # g PROVE FALSE
        OBVIOUS
      <4>1. Runs(h, t) /\ exec[h].lease = n
        BY <1>7, <1>10, <1>11, <2>2, <3>1 DEF Holds, Runs
      <4> QED BY <1>2, <1>14, <4>1
    <3> QED BY <1>8, <1>11, <3>2
  <2>3. Revision' = Revision
    BY <1>9 DEF Revision
  <2> QED BY <1>5, <1>9, <2>1, <2>2, <2>3 DEF DialogueInv, ReadsAreCurrent
<1>19. ReceiptsAreOld'
  <2> SUFFICES ASSUME NEW u \in Turns, NEW m \in Nat, NEW a \in Actions, <<u, m, a>> \in receipts
               PROVE  m <= turn'[u].attempt /\ (Pending(u)' => m < turn'[u].attempt)
    BY <1>5 DEF ReceiptsAreOld
  <2>1. m <= turn[u].attempt /\ (Pending(u) => m < turn[u].attempt)
    BY <1>9 DEF DialogueInv, ReceiptsAreOld
  <2> QED BY <1>2, <1>7, <1>10, <2>1 DEF Pending
<1> QED BY <1>12, <1>13, <1>16, <1>17, <1>18, <1>19 DEF DialogueInv

\* completeTurn answers the one turn that has time left; the transition it may write
\* extends the revision its execution read.
LEMMA CompleteTurnKeepsInv ==
    ASSUME DialogueInv, NEW g \in Gateways, NEW t \in Turns, CompleteTurn(g, t)
    PROVE  DialogueInv'
<1> DEFINE row == [Ended(t, "completed") EXCEPT !.answer = exec[g].lease]
           entry == [turn |-> t, read |-> exec[g].read]
<1>1. DialogueTypeOK /\ Holds(g, t) /\ Pending(t) /\ turn[t].live /\ conv.status \in {"active", "archived"}
  BY DEF DialogueInv, CompleteTurn, MayComplete, Holds
<1>2. turn \in [Turns -> UserMessage] /\ exec \in [Gateways -> Execution] /\ conv \in Conversation
  BY <1>1 DEF DialogueTypeOK
<1>3. exec[g].lease \in 0..MAX_TURN_ATTEMPTS /\ exec[g].lease = turn[t].attempt /\ turn[t].attempt > 0
      /\ turn[t].answer = 0
  BY <1>1, <1>2 DEF Execution, DialogueInv, TurnsAreLeased, Holds
<1>4. row \in UserMessage /\ row.status = "completed" /\ row.answer = exec[g].lease
      /\ row.attempt = turn[t].attempt
  BY <1>1, <1>3, EndedFacts DEF UserMessage
<1>5. turn' = [turn EXCEPT ![t] = row] /\ UNCHANGED <<receipts, revived>>
  BY DEF CompleteTurn
<1>6. /\ turn' \in [Turns -> UserMessage] /\ turn'[t] = row
      /\ \A u \in Turns : u # t => turn'[u] = turn[u]
  BY <1>2, <1>4, <1>5
<1> HIDE DEF row
<1>7. exec' \in [Gateways -> Execution] /\ \A h \in Gateways : GoesOn(h)
  <2>1. CASE exec' = [exec EXCEPT ![g] = NoExec]
    BY <2>1, ExecStep, NoExecType
  <2>2. CASE exec' = [exec EXCEPT ![g].pc = "failing"]
    <3> DEFINE e == [exec[g] EXCEPT !.pc = "failing"]
    <3>1. e \in Execution /\ e.turn = exec[g].turn /\ e.lease = exec[g].lease /\ e.read = exec[g].read
      BY <1>2 DEF Execution
    <3>2. exec' = [exec EXCEPT ![g] = e]
      BY <2>2
    <3> HIDE DEF e
    <3> QED BY <3>1, <3>2, ExecStep
  <2> QED BY <2>1, <2>2 DEF CompleteTurn
<1>8. conv' = conv \/ conv' = [conv EXCEPT !.log = Append(conv.log, entry)]
  BY DEF CompleteTurn
<1>9. entry \in Transition /\ entry.turn = t /\ entry.read = exec[g].read
  BY <1>2 DEF Transition, Execution
<1>10. conv' \in Conversation /\ conv'.status = conv.status
       /\ (conv'.log = conv.log \/ conv'.log = Append(conv.log, entry))
  <2> HIDE DEF entry
  <2>1. CASE conv' = conv
    BY <1>2, <2>1
  <2>2. CASE conv' = [conv EXCEPT !.log = Append(conv.log, entry)]
    <3> DEFINE log == Append(conv.log, entry)
    <3>1. log \in Seq(Transition)
      BY <1>1, <1>9, LogFacts
    <3> HIDE DEF log
    <3>2. conv' = [conv EXCEPT !.log = log]
      BY <2>2 DEF log
    <3>3. conv' \in Conversation /\ conv'.status = conv.status /\ conv'.log = log
      BY <1>2, <3>1, <3>2 DEF Conversation
    <3> QED BY <3>3 DEF log
  <2> QED BY <1>8, <2>1, <2>2
<1> HIDE DEF entry
<1>11. DialogueTypeOK'
  BY <1>1, <1>5, <1>6, <1>7, <1>10 DEF DialogueTypeOK
<1>12. TurnsAreLeased'
  BY <1>4, <1>6 DEF DialogueInv, TurnsAreLeased, Pending
<1>13. \A h \in Gateways, u \in Turns : Runs(h, u)' => Runs(h, u) /\ exec'[h].lease = exec[h].lease
                                                       /\ exec'[h].read = exec[h].read
  BY <1>7 DEF GoesOn, Runs, NoExec
<1>14. LeasesAreDrawn'
  BY <1>1, <1>4, <1>6, <1>10, <1>13 DEF DialogueInv, LeasesAreDrawn, Pending
<1>15. conv.log \in Seq(Transition) /\ Revision \in Nat
       /\ \A i \in 1..Revision : conv.log[i].turn \in Turns /\ conv.log[i].turn # t
  BY <1>1, <1>3, LogFacts DEF DialogueInv, LogIsAnswered
<1>16. \/ Revision' = Revision /\ \A i \in 1..Revision : conv'.log[i] = conv.log[i]
       \/ /\ Revision' = Revision + 1 /\ \A i \in 1..Revision : conv'.log[i] = conv.log[i]
          /\ conv'.log[Revision + 1] = entry
  BY <1>9, <1>10, <1>15 DEF Revision
<1>17. LogIsAnswered'
  <2>1. \A i \in 1..Revision : /\ turn'[conv'.log[i].turn].answer # 0
                               /\ \A j \in 1..(i - 1) : conv'.log[i].turn # conv'.log[j].turn
    BY <1>6, <1>15, <1>16 DEF DialogueInv, LogIsAnswered
  <2>2. ASSUME Revision' = Revision + 1
        PROVE  /\ turn'[conv'.log[Revision + 1].turn].answer # 0
               /\ \A j \in 1..Revision : conv'.log[Revision + 1].turn # conv'.log[j].turn
    BY <1>3, <1>4, <1>6, <1>9, <1>15, <1>16, <2>2
  <2> QED BY <1>15, <1>16, <2>1, <2>2 DEF LogIsAnswered
<1>18. ReadsAreCurrent'
  <2> SUFFICES ASSUME ~ revived PROVE ReadsAreCurrent'
    BY <1>5 DEF ReadsAreCurrent
  <2>1. \A u \in Turns : ~ Live(u)'
    BY <1>1, <1>4, <1>6 DEF DialogueInv, ReadsAreCurrent, Live, Pending
  <2>2. exec[g].read = Revision
    BY <1>1 DEF DialogueInv, ReadsAreCurrent
  <2>3. \A i \in 1..Revision' : conv'.log[i].read = i - 1
    <3>1. \A i \in 1..Revision : conv.log[i].read = i - 1
      BY DEF DialogueInv, ReadsAreCurrent
    <3>2. \A i \in 1..Revision : conv'.log[i].read = i - 1
      BY <1>16, <3>1
    <3>3. CASE Revision' = Revision
      BY <3>2, <3>3
    <3>4. CASE Revision' = Revision + 1 /\ conv'.log[Revision + 1] = entry
      BY <1>9, <1>15, <2>2, <3>2, <3>4
    <3> QED BY <1>16, <3>3, <3>4
  <2> QED BY <2>1, <2>3 DEF ReadsAreCurrent, Live, Holds
<1>19. ReceiptsAreOld'
  BY <1>4, <1>5, <1>6, <1>10 DEF DialogueInv, ReceiptsAreOld, Pending
<1> QED BY <1>11, <1>12, <1>14, <1>17, <1>18, <1>19 DEF DialogueInv

\* A heartbeat commits: it changes nothing but the lock, or the lease had lapsed and
\* the conversation is marked.
LEMMA HeartbeatCommitKeepsInv ==
    ASSUME DialogueInv, NEW g \in Gateways, NEW t \in Turns, HeartbeatCommit(g, t)
    PROVE  DialogueInv'
<1> DEFINE row == [turn[t] EXCEPT !.live = TRUE]
           e == [exec[g] EXCEPT !.beat = FALSE]
<1>1. turn \in [Turns -> UserMessage] /\ exec \in [Gateways -> Execution] /\ revived \in BOOLEAN
  BY DEF DialogueInv, DialogueTypeOK
<1>2. row \in UserMessage /\ row.status = turn[t].status /\ row.lease = turn[t].lease
      /\ row.attempt = turn[t].attempt /\ row.answer = turn[t].answer /\ row.live = TRUE
  BY <1>1 DEF UserMessage
<1>3. e \in Execution /\ e.turn = exec[g].turn /\ e.lease = exec[g].lease /\ e.read = exec[g].read
  BY <1>1 DEF Execution
<1>4. turn' = [turn EXCEPT ![t] = row] /\ exec' = [exec EXCEPT ![g] = e]
      /\ revived' = (revived \/ ~ turn[t].live) /\ UNCHANGED <<conv, receipts>>
  BY DEF HeartbeatCommit
<1> HIDE DEF row, e
<1>5. /\ turn' \in [Turns -> UserMessage] /\ turn'[t] = row
      /\ \A u \in Turns : u # t => turn'[u] = turn[u]
  BY <1>1, <1>2, <1>4
<1>6. exec' \in [Gateways -> Execution] /\ \A h \in Gateways : GoesOn(h)
  BY <1>3, <1>4, ExecStep
<1>7. revived' \in BOOLEAN
  BY <1>4
<1>8. DialogueTypeOK'
  BY <1>4, <1>5, <1>6, <1>7 DEF DialogueInv, DialogueTypeOK
<1>9. \A u \in Turns : Pending(u)' <=> Pending(u)
  BY <1>2, <1>5 DEF Pending
<1>10. \A h \in Gateways, u \in Turns : Runs(h, u)' => Runs(h, u) /\ exec'[h].lease = exec[h].lease
                                                       /\ exec'[h].read = exec[h].read
  BY <1>6 DEF GoesOn, Runs, NoExec
<1>11. TurnsAreLeased'
  BY <1>2, <1>5, <1>9 DEF DialogueInv, TurnsAreLeased
<1>12. LeasesAreDrawn'
  BY <1>2, <1>4, <1>5, <1>9, <1>10 DEF DialogueInv, LeasesAreDrawn
<1>13. LogIsAnswered'
  BY <1>2, <1>4, <1>5, LogFacts DEF DialogueInv, LogIsAnswered, Revision
<1>14. ReadsAreCurrent'
  <2> SUFFICES ASSUME ~ revived' PROVE ReadsAreCurrent'
    BY DEF ReadsAreCurrent
  <2>1. ~ revived /\ turn[t].live
    BY <1>4
  <2>2. \A u \in Turns : turn'[u].live = turn[u].live /\ turn'[u].lease = turn[u].lease
    BY <1>2, <1>5, <2>1, TurnFacts DEF DialogueInv
  <2>3. \A u \in Turns : Live(u)' => Live(u)
    BY <1>9, <2>2 DEF Live
  <2>4. \A h \in Gateways, u \in Turns : Holds(h, u)' => Holds(h, u) /\ exec'[h].read = exec[h].read
    BY <1>9, <1>10, <2>2 DEF Holds
  <2> QED BY <1>4, <2>1, <2>2, <2>3, <2>4 DEF DialogueInv, ReadsAreCurrent, Revision
<1>15. ReceiptsAreOld'
  BY <1>2, <1>4, <1>5, <1>9 DEF DialogueInv, ReceiptsAreOld
<1> QED BY <1>8, <1>11, <1>12, <1>13, <1>14, <1>15 DEF DialogueInv

\* Archiving, deleting and the end of the retention touch no turn.
LEMMA ConversationKeepsInv ==
    ASSUME DialogueInv, Archive \/ Remove \/ RetentionElapses
    PROVE  DialogueInv'
<1>1. conv \in Conversation /\ UNCHANGED <<turn, exec, receipts, revived>>
  BY DEF DialogueInv, DialogueTypeOK, Archive, Remove, RetentionElapses
<1>2. conv' \in Conversation /\ conv'.log = conv.log /\ conv.status # "purged" /\ conv'.status # "purged"
  BY <1>1 DEF Archive, Remove, RetentionElapses, Conversation
<1>3. DialogueTypeOK'
  BY <1>1, <1>2 DEF DialogueInv, DialogueTypeOK
<1>4. TurnsAreLeased' /\ LeasesAreDrawn'
  BY <1>1, <1>2 DEF DialogueInv, TurnsAreLeased, LeasesAreDrawn, Pending, Runs
<1>5. LogIsAnswered' /\ ReadsAreCurrent'
  BY <1>1, <1>2 DEF DialogueInv, LogIsAnswered, ReadsAreCurrent, Revision, Live, Holds, Pending, Runs
<1>6. ReceiptsAreOld'
  BY <1>1, <1>2 DEF DialogueInv, ReceiptsAreOld, Pending
<1> QED BY <1>3, <1>4, <1>5, <1>6 DEF DialogueInv

\* A purge leaves no message and no transition.
LEMMA PurgeKeepsInv ==
    ASSUME DialogueInv, Purge
    PROVE  DialogueInv'
<1>1. /\ conv' = [conv EXCEPT !.status = "purged", !.log = <<>>]
      /\ turn' = [t \in Turns |-> NoTurn] /\ UNCHANGED <<exec, receipts, revived>>
  BY DEF Purge
<1>2. conv' \in Conversation /\ conv'.log = <<>> /\ conv'.status = "purged"
  <2>1. conv \in Conversation /\ <<>> \in Seq(Transition)
    BY DEF DialogueInv, DialogueTypeOK
  <2> QED BY <1>1, <2>1 DEF Conversation
<1>3. NoTurn \in UserMessage
  BY AttemptsAssumption DEF NoTurn, UserMessage
<1>4. DialogueTypeOK'
  BY <1>1, <1>2, <1>3 DEF DialogueInv, DialogueTypeOK
<1>5. \A t \in Turns : ~ Pending(t)' /\ turn'[t].answer = 0
  BY <1>1 DEF Pending, NoTurn
<1>6. TurnsAreLeased' /\ LeasesAreDrawn'
  BY <1>2, <1>5 DEF TurnsAreLeased, LeasesAreDrawn
<1>7. Revision' = 0
  BY <1>2 DEF Revision
<1>8. LogIsAnswered' /\ ReadsAreCurrent'
  BY <1>5, <1>7 DEF LogIsAnswered, ReadsAreCurrent, Live, Holds
<1>9. ReceiptsAreOld'
  BY <1>2 DEF ReceiptsAreOld
<1> QED BY <1>4, <1>6, <1>8, <1>9 DEF DialogueInv

-----------------------------------------------------------------------------
(* The theorems.                                                            *)

\* A conversation starts without turns, executions or receipts.
LEMMA StartDialogueInv == DialogueStart => DialogueInv
<1> SUFFICES ASSUME DialogueStart PROVE DialogueInv
  OBVIOUS
<1>1. NoTurn \in UserMessage
  BY AttemptsAssumption DEF NoTurn, UserMessage
<1>2. conv \in Conversation /\ conv.log = <<>> /\ conv.status = "none"
  BY DEF DialogueStart, Conversation
<1>3. DialogueTypeOK
  BY <1>1, <1>2, NoExecType DEF DialogueStart, DialogueTypeOK
<1>4. \A t \in Turns : ~ Pending(t) /\ turn[t].answer = 0
  BY DEF DialogueStart, Pending, NoTurn
<1>5. \A g \in Gateways, t \in Turns : ~ Runs(g, t)
  BY DEF DialogueStart, Runs, NoExec
<1>6. Revision = 0
  BY <1>2 DEF Revision
<1>7. TurnsAreLeased /\ LeasesAreDrawn /\ LogIsAnswered
  BY <1>2, <1>4, <1>5, <1>6 DEF TurnsAreLeased, LeasesAreDrawn, LogIsAnswered
<1>8. ReadsAreCurrent
  BY <1>4, <1>6 DEF ReadsAreCurrent, Live, Holds
<1>9. ReceiptsAreOld
  BY DEF DialogueStart, ReceiptsAreOld
<1> QED BY <1>3, <1>7, <1>8, <1>9 DEF DialogueInv

\* Every step of a gateway, of the clock and of maintenance keeps the invariant.
LEMMA NextKeepsDialogueInv == ASSUME DialogueInv, [DialogueNext]_dialogueVars PROVE DialogueInv'
<1>1. CASE UNCHANGED dialogueVars
  BY <1>1 DEF dialogueVars, DialogueInv, DialogueTypeOK, TurnsAreLeased, LeasesAreDrawn, LogIsAnswered,
              ReadsAreCurrent, ReceiptsAreOld, Revision, Live, Holds, Pending, Runs
<1>2. CASE DialogueNext
  <2>1. ASSUME NEW g \in Gateways, NEW t \in Turns, TurnStep(g, t) PROVE DialogueInv'
    BY <2>1, BeginTurnKeepsInv, CompleteTurnKeepsInv, FailTurnKeepsInv, HeartbeatKeepsInv,
       HeartbeatCommitKeepsInv DEF TurnStep
  <2> QED BY <1>2, <2>1, ExecutionFailsKeepsInv, GatewayStopsKeepsInv, LeaseExpiresKeepsInv,
             RecoverTurnKeepsInv, ReapTurnsKeepsInv, ConversationKeepsInv, PurgeKeepsInv
          DEF DialogueNext
<1> QED BY <1>1, <1>2

\* The inductive invariant holds of every behaviour of the tracker.
THEOREM DialogueInvariant == DialogueSpec => []DialogueInv
BY StartDialogueInv, NextKeepsDialogueInv, PTL DEF DialogueSpec

\* Every message, execution, transition and receipt has its columns' types.
THEOREM DialogueTypeCorrectness == DialogueSpec => []DialogueTypeOK
BY DialogueInvariant, PTL DEF DialogueInv

\* A set whose elements are all the same has at most one.
LEMMA AtMostOne ==
    ASSUME NEW S, \A x, y \in S : x = y
    PROVE  Cardinality(S) <= 1
<1>1. CASE S = {}
  BY <1>1, FS_EmptySet
<1>2. CASE S # {}
  <2>1. PICK x \in S : S = {x}
    BY <1>2
  <2> QED BY <2>1, FS_Singleton
<1> QED BY <1>1, <1>2

\* At most one turn of a conversation has time left, for any number of gateways,
\* turns and attempts, until a heartbeat is paused across the end of its lease.
THEOREM SerialTurns == DialogueSpec => []TurnsAreSerial
<1>1. DialogueInv => TurnsAreSerial
  <2> SUFFICES ASSUME DialogueInv, ~ revived
               PROVE  Cardinality({t \in Turns : Pending(t) /\ turn[t].live}) <= 1
    BY DEF TurnsAreSerial
  <2> DEFINE S == {t \in Turns : Pending(t) /\ turn[t].live}
  <2>1. \A x, y \in S : x = y
    BY DEF DialogueInv, ReadsAreCurrent, Live
  <2> HIDE DEF S
  <2>2. Cardinality(S) <= 1
    BY <2>1, AtMostOne
  <2> QED BY <2>2 DEF S
<1> QED BY <1>1, DialogueInvariant, PTL

\* Every committed transition was computed from the revision it extends, and each
\* turn commits at most one.
THEOREM FreshTransitions == DialogueSpec => []TransitionsAreFresh
<1>1. DialogueInv => TransitionsAreFresh
  BY DEF DialogueInv, ReadsAreCurrent, LogIsAnswered, TransitionsAreFresh
<1> QED BY <1>1, DialogueInvariant, PTL

\* No receipt of an earlier attempt makes the reaper or an administrator fail on a
\* pending turn: this is the safety half of TurnConcludes.
RecoveryIsOpen == \A t \in Turns, a \in Actions : Pending(t) => Recovered(t, a) \notin receipts

\* The receipts of recovered turns never stand in the way of a later recovery.
THEOREM OpenRecovery == DialogueSpec => []RecoveryIsOpen
<1>1. DialogueInv => RecoveryIsOpen
  <2> SUFFICES ASSUME DialogueInv, NEW t \in Turns, NEW a \in Actions, Pending(t),
                      Recovered(t, a) \in receipts
               PROVE  FALSE
    BY DEF RecoveryIsOpen
  <2>1. turn[t].attempt \in Nat /\ conv.status # "purged"
    BY TurnFacts DEF DialogueInv, LeasesAreDrawn
  <2> QED BY <2>1 DEF DialogueInv, ReceiptsAreOld, Recovered
<1> QED BY <1>1, DialogueInvariant, PTL

\* Nothing but a purge touches a message that has its answer.
LEMMA AnsweredStays ==
    ASSUME DialogueInv, DialogueNext, NEW t \in Turns, turn[t].answer # 0, conv'.status # "purged"
    PROVE  turn'[t].answer = turn[t].answer /\ turn'[t].status = "completed"
<1>1. turn[t].status = "completed" /\ ~ Pending(t) /\ turn \in [Turns -> UserMessage]
  BY DEF DialogueInv, DialogueTypeOK, TurnsAreLeased, Pending
<1>2. SUFFICES turn'[t].answer = turn[t].answer /\ turn'[t].status = turn[t].status
  BY <1>1
<1>3. ASSUME NEW g \in Gateways, NEW u \in Turns, TurnStep(g, u)
      PROVE  turn'[t].answer = turn[t].answer /\ turn'[t].status = turn[t].status
  <2>1. CASE BeginTurn(g, u) \/ CompleteTurn(g, u) \/ FailTurn(g, u)
    <3>1. u # t \/ turn' = turn
      BY <1>1, <2>1 DEF BeginTurn, MayBegin, CompleteTurn, MayComplete, FailTurn, Holds
    <3>2. turn' = turn \/ \E row : turn' = [turn EXCEPT ![u] = row]
      BY <2>1 DEF BeginTurn, CompleteTurn, FailTurn
    <3> QED BY <1>1, <3>1, <3>2
  <2>2. CASE Heartbeat(g, u)
    BY <2>2 DEF Heartbeat
  <2>3. CASE HeartbeatCommit(g, u)
    BY <1>1, <2>3 DEF HeartbeatCommit, UserMessage
  <2> QED BY <1>3, <2>1, <2>2, <2>3 DEF TurnStep
<1>4. ASSUME NEW u \in Turns, LeaseExpires(u) \/ RecoverTurn(u)
      PROVE  turn'[t].answer = turn[t].answer /\ turn'[t].status = turn[t].status
  BY <1>1, <1>4 DEF LeaseExpires, RecoverTurn
<1>5. CASE ReapTurns
  BY <1>1, <1>5 DEF ReapTurns
<1>6. ASSUME NEW g \in Gateways, ExecutionFails(g) \/ GatewayStops(g)
      PROVE  turn'[t].answer = turn[t].answer /\ turn'[t].status = turn[t].status
  BY <1>6 DEF ExecutionFails, GatewayStops
<1>7. CASE Archive \/ Remove \/ RetentionElapses
  BY <1>7 DEF Archive, Remove, RetentionElapses
<1>8. CASE Purge
  BY <1>8, PurgeKeepsInv DEF Purge, DialogueInv, DialogueTypeOK, Conversation
<1> QED BY <1>3, <1>4, <1>5, <1>6, <1>7, <1>8 DEF DialogueNext

\* An answered turn keeps its answer until the purge and is never run again.
THEOREM AnswerFinality == DialogueSpec => AnswerIsFinal
<1> DEFINE Final == \A t \in Turns : turn[t].answer # 0 /\ conv'.status # "purged" =>
                       turn'[t].answer = turn[t].answer /\ turn'[t].status = "completed"
<1>1. DialogueInv /\ [DialogueNext]_dialogueVars => [Final]_dialogueVars
  BY AnsweredStays
<1> QED BY <1>1, DialogueInvariant, PTL DEF DialogueSpec, AnswerIsFinal
=============================================================================
