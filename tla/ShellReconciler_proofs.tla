----------------------- MODULE ShellReconciler_proofs -----------------------
(***************************************************************************)
(* Proofs about the OS Shell authority and its reconcilers, for any        *)
(* sessions, tickets, workers and bounds.  Every function of console_shell *)
(* rewrites at most one session row, or only intents; so the argument is   *)
(* about one row: what it may become (RowMoves) follows from the guard of  *)
(* each function, and the properties from what a row may become.  Steps of *)
(* the reconcilers are calls of these functions and of Kubernetes; what    *)
(* they add is that a UID belongs to the session its Pod was created for.  *)
(***************************************************************************)
EXTENDS ShellReconciler, TLAPS

\* A session that was never created has the row of nothing: no function writes one
\* whose fence (epoch 1, no worker) was never handed out.
RowsStartEmpty == \A s \in Sessions : ~ Exists(s) => sess[s] = NoRow

\* A ticket in use names a session; the null session of the others is never read.
TicketsAreBound == \A t \in Tickets : tickets[t] # NoTicket => tickets[t].session \in Sessions

\* The inductive invariant.
ShellInv == TypeOK /\ RowsStartEmpty /\ TicketsAreBound /\ ReadyIsRegistered /\ DrainHolds

-----------------------------------------------------------------------------
(* What a step may do to a row, to a ticket and to the feature gate.        *)

\* Ready only with a registration, a registration only of a bound runtime.
SoundRow(row) ==
    /\ row \in Session
    /\ row.observed = "Ready" => row.registered
    /\ row.registered => row.uid # NoUid /\ row.observed # "Pending"

\* The row exists afterwards; fences grow; Terminated and the intent to terminate
\* stay; a bound runtime is replaced only with a new generation.
RowMoves(old, new) ==
    /\ SoundRow(new)
    /\ new.observed # "None"
    /\ new.gen >= old.gen
    /\ new.epoch >= old.epoch
    /\ (old.uid # NoUid /\ new.uid # old.uid) => new.gen # old.gen
    /\ old.observed = "Terminated" => new.observed = "Terminated"
    /\ (old.observed # "None" /\ old.desired = "Terminated") => new.desired = "Terminated"

SessionsMove ==
    /\ sess' \in [Sessions -> Session]
    /\ \A s \in Sessions : sess'[s] = sess[s] \/ RowMoves(sess[s], sess'[s])

\* A ticket keeps its session, its consumption and its authorization, or its
\* session admits terminals.
TicketsMove ==
    /\ tickets' \in [Tickets -> Ticket]
    /\ \A t \in Tickets :
          \/ /\ tickets'[t] # NoTicket => tickets[t] # NoTicket
             /\ tickets'[t].session = tickets[t].session
             /\ tickets'[t].consumed = tickets[t].consumed
             /\ tickets'[t].by = tickets[t].by
          \/ /\ tickets'[t].session \in Sessions
             /\ Attachable(tickets'[t].session)
             
IdentityMoves == perm' \in [Actors -> [rev : Nat, attach : BOOLEAN]] /\ browser' \in [Sessions -> BOOLEAN]

Moves == SessionsMove /\ TicketsMove /\ IdentityMoves /\ feature' \in Feature /\ DrainHolds'

-----------------------------------------------------------------------------
(* Steps that change one row, one ticket or neither.                        *)

\* One row is rewritten, and comes into being only while the feature is enabled.
LEMMA OneRowMoves ==
    ASSUME ShellInv, NEW s \in Sessions, NEW row, RowMoves(sess[s], row),
           Exists(s) \/ feature.enabled,
           sess' = [sess EXCEPT ![s] = row], feature' = feature
    PROVE  SessionsMove /\ feature' \in Feature /\ DrainHolds'
<1>1. row \in Session /\ sess \in [Sessions -> Session] /\ feature \in Feature
  BY DEF ShellInv, TypeOK, RowMoves, SoundRow
<1>2. sess' \in [Sessions -> Session] /\ sess'[s] = row
      /\ \A q \in Sessions : q # s => sess'[q] = sess[q]
  BY <1>1
<1>3. SessionsMove
  BY <1>2 DEF SessionsMove
<1>4. \A q \in Sessions : feature.drained => sess'[q].observed \in {"None", "Terminated"}
  <2> SUFFICES ASSUME NEW q \in Sessions, feature.drained
               PROVE  sess'[q].observed \in {"None", "Terminated"}
    OBVIOUS
  <2>1. ~ feature.enabled /\ sess[q].observed \in {"None", "Terminated"}
    BY DEF ShellInv, DrainHolds
  <2>2. CASE q # s
    BY <2>1, <2>2, <1>2
  <2>3. CASE q = s
    BY <2>1, <2>3, <1>2 DEF RowMoves, Exists
  <2> QED BY <2>2, <2>3
<1>5. DrainHolds'
  BY <1>4 DEF ShellInv, DrainHolds
<1> QED BY <1>1, <1>3, <1>5

\* Nothing of the session table or the gate is written.
LEMMA NoRowMoves ==
    ASSUME ShellInv, sess' = sess, feature' = feature
    PROVE  SessionsMove /\ feature' \in Feature /\ DrainHolds'
BY DEF ShellInv, TypeOK, SessionsMove, DrainHolds

\* Tickets that only lose their lifetime move; so do tickets nobody writes.
LEMMA TicketsExpire ==
    ASSUME ShellInv, NEW which, tickets' = Expire(which) \/ tickets' = tickets
    PROVE  TicketsMove
<1>1. tickets \in [Tickets -> Ticket]
  BY DEF ShellInv, TypeOK
<1>2. CASE tickets' = tickets
  BY <1>1, <1>2 DEF TicketsMove
<1>3. CASE tickets' = Expire(which)
  <2>1. \A t \in Tickets : tickets'[t] = tickets[t] \/ tickets'[t] = [tickets[t] EXCEPT !.live = FALSE]
    BY <1>3 DEF Expire
  <2>2. \A t \in Tickets : [tickets[t] EXCEPT !.live = FALSE] \in Ticket
    BY <1>1 DEF Ticket
  <2>3. tickets' = [t \in Tickets |-> tickets'[t]]
    BY <1>3 DEF Expire
  <2>4. tickets' \in [Tickets -> Ticket]
    BY <1>1, <2>1, <2>2, <2>3
  <2>6. \A t \in Tickets : tickets'[t] # NoTicket => tickets[t] # NoTicket
    <3> SUFFICES ASSUME NEW t \in Tickets, tickets[t] = NoTicket PROVE tickets'[t] = NoTicket
      OBVIOUS
    <3>1. NoTicket.live = FALSE
      BY DEF NoTicket
    <3>2. [tickets[t] EXCEPT !.live = FALSE] = tickets[t]
      BY <1>1, <3>1 DEF Ticket
    <3> QED BY <2>1, <3>2
  <2>5. \A t \in Tickets : /\ tickets'[t].session = tickets[t].session
                           /\ tickets'[t].consumed = tickets[t].consumed
                           /\ tickets'[t].by = tickets[t].by
    BY <1>1, <2>1 DEF Ticket
  <2> QED BY <2>4, <2>5, <2>6 DEF TicketsMove
<1> QED BY <1>2, <1>3

\* One ticket is rewritten while its session admits terminals.
LEMMA OneTicketMoves ==
    ASSUME ShellInv, NEW t \in Tickets, NEW row \in Ticket, row.session \in Sessions,
           Attachable(row.session), tickets' = [tickets EXCEPT ![t] = row]
    PROVE  TicketsMove
BY DEF ShellInv, TypeOK, TicketsMove

\* A step that leaves identity alone.
LEMMA NoIdentityMoves ==
    ASSUME ShellInv, perm' = perm, browser' = browser
    PROVE  IdentityMoves
BY DEF ShellInv, TypeOK, IdentityMoves

\* The permission revision that a session's functions read is a number.
LEMMA RevIsNat == ASSUME TypeOK, NEW s \in Sessions PROVE Rev(s) \in Nat
BY SessionsAssumption DEF TypeOK, Rev

\* The row of nothing is a row.
LEMMA NoRowType == NoRow \in Session
BY DEF Session, NoRow, Observed

\* What the invariant says of one row.
LEMMA RowFacts ==
    ASSUME ShellInv, NEW s \in Sessions
    PROVE  SoundRow(sess[s]) /\ (sess[s].observed = "None" => sess[s] = NoRow)
BY DEF ShellInv, TypeOK, RowsStartEmpty, Exists, ReadyIsRegistered, SoundRow

-----------------------------------------------------------------------------
(* Identity and browser.                                                    *)

\* console_auth moves a permission revision; no shell row is written.
LEMMA PermissionChangesMoves ==
    ASSUME ShellInv, NEW a \in Actors, NEW attach \in BOOLEAN, PermissionChanges(a, attach)
    PROVE  Moves
<1>1. perm' \in [Actors -> [rev : Nat, attach : BOOLEAN]] /\ browser' \in [Sessions -> BOOLEAN]
  BY DEF ShellInv, TypeOK, PermissionChanges
<1> QED BY <1>1, NoRowMoves, TicketsExpire DEF PermissionChanges, Moves, IdentityMoves

\* A browser session ends; its shell session is told by a later heartbeat.
LEMMA BrowserSessionEndsMoves ==
    ASSUME ShellInv, NEW s \in Sessions, BrowserSessionEnds(s)
    PROVE  Moves
<1>1. perm' \in [Actors -> [rev : Nat, attach : BOOLEAN]] /\ browser' \in [Sessions -> BOOLEAN]
  BY DEF ShellInv, TypeOK, BrowserSessionEnds
<1> QED BY <1>1, NoRowMoves, TicketsExpire DEF BrowserSessionEnds, Moves, IdentityMoves

\* create_shell_session inserts the first row of a session, enabled.
LEMMA CreateSessionMoves ==
    ASSUME ShellInv, NEW s \in Sessions, CreateSession(s)
    PROVE  Moves
<1> DEFINE row == [NoRow EXCEPT !.observed = "Pending", !.rev = Rev(s)]
<1>0. Rev(s) \in Nat
  BY RevIsNat DEF ShellInv
<1>1. sess[s] = NoRow
  BY RowFacts DEF CreateSession, Exists
<1>2. row \in Session
  BY <1>0, NoRowType DEF Session, Observed
<1>3. /\ row.observed = "Pending" /\ row.registered = FALSE /\ row.gen = 1 /\ row.epoch = 1
      /\ row.uid = NoUid
  BY DEF NoRow
<1>4. sess[s].gen = 1 /\ sess[s].epoch = 1 /\ sess[s].observed = "None" /\ sess[s].uid = NoUid
  BY <1>1 DEF NoRow
<1>5. RowMoves(sess[s], row)
  BY <1>2, <1>3, <1>4 DEF RowMoves, SoundRow
<1>6. feature.enabled /\ sess' = [sess EXCEPT ![s] = row] /\ feature' = feature
      /\ tickets' = tickets /\ perm' = perm /\ browser' = browser
  BY DEF CreateSession
<1> HIDE DEF row
<1> QED BY <1>5, <1>6, OneRowMoves, TicketsExpire, NoIdentityMoves DEF Moves

\* issue_shell_attach_ticket inserts a ticket of an attachable session.
LEMMA IssueAttachTicketMoves ==
    ASSUME ShellInv, NEW s \in Sessions, NEW t \in Tickets, IssueAttachTicket(s, t)
    PROVE  Moves
<1> DEFINE row == [NoTicket EXCEPT !.session = s, !.gen = sess[s].gen, !.epoch = sess[s].epoch,
                                   !.rev = Rev(s), !.live = TRUE]
<1>1. Rev(s) \in Nat /\ sess[s].gen \in Nat /\ sess[s].epoch \in Nat
  BY RevIsNat, RowFacts DEF ShellInv, SoundRow, Session
<1>2. row \in Ticket /\ row.session = s
  BY <1>1 DEF Ticket, NoTicket
<1>3. /\ Attachable(s) /\ tickets' = [tickets EXCEPT ![t] = row]
      /\ sess' = sess /\ feature' = feature /\ perm' = perm /\ browser' = browser
  BY DEF IssueAttachTicket
<1> HIDE DEF row
<1> QED BY <1>2, <1>3, OneTicketMoves, NoRowMoves, NoIdentityMoves DEF Moves


\* What the invariant says of a ticket in use.
LEMMA TicketFacts ==
    ASSUME ShellInv, NEW t \in Tickets, tickets[t] # NoTicket
    PROVE  tickets[t] \in Ticket /\ tickets[t].session \in Sessions
BY DEF ShellInv, TypeOK, TicketsAreBound

\* consume_shell_attach_ticket spends a ticket of a session that admits terminals.
LEMMA ConsumeAttachTicketMoves ==
    ASSUME ShellInv, NEW t \in Tickets, ConsumeAttachTicket(t)
    PROVE  Moves
<1> DEFINE row == [tickets[t] EXCEPT !.consumed = TRUE]
<1>1. tickets[t] \in Ticket /\ tickets[t].session \in Sessions
  BY TicketFacts DEF ConsumeAttachTicket
<1>2. row \in Ticket /\ row.session = tickets[t].session
  BY <1>1 DEF Ticket
<1>3. /\ Attachable(tickets[t].session) /\ tickets' = [tickets EXCEPT ![t] = row]
      /\ sess' = sess /\ feature' = feature /\ perm' = perm /\ browser' = browser
  BY DEF ConsumeAttachTicket
<1> HIDE DEF row
<1> QED BY <1>1, <1>2, <1>3, OneTicketMoves, NoRowMoves, NoIdentityMoves DEF Moves

\* authorize_shell_runtime_attach binds a consumed ticket to the session's runtime.
LEMMA AuthorizeRuntimeAttachMoves ==
    ASSUME ShellInv, NEW t \in Tickets, NEW uid \in Uids, NEW g, NEW e,
           AuthorizeRuntimeAttach(t, uid, g, e)
    PROVE  Moves
<1> DEFINE row == [tickets[t] EXCEPT !.by = uid]
<1>1. tickets[t] \in Ticket /\ tickets[t].session \in Sessions
  BY TicketFacts DEF AuthorizeRuntimeAttach
<1>2. row \in Ticket /\ row.session = tickets[t].session
  BY <1>1 DEF Ticket
<1>3. /\ Attachable(tickets[t].session) /\ tickets' = [tickets EXCEPT ![t] = row]
      /\ sess' = sess /\ feature' = feature /\ perm' = perm /\ browser' = browser
  BY DEF AuthorizeRuntimeAttach
<1> HIDE DEF row
<1> QED BY <1>1, <1>2, <1>3, OneTicketMoves, NoRowMoves, NoIdentityMoves DEF Moves

\* touch_shell_session_activity gives a Ready session its idle time back.
LEMMA TouchActivityMoves ==
    ASSUME ShellInv, NEW t \in Tickets, TouchActivity(t)
    PROVE  Moves
<1> DEFINE s == tickets[t].session
           row == [sess[s] EXCEPT !.life = "live"]
<1>1. s \in Sessions
  BY TicketFacts DEF TouchActivity, NoTicket
<1>2. SoundRow(sess[s]) /\ sess[s].observed = "Ready"
  BY <1>1, RowFacts DEF TouchActivity, Attachable
<1>3. RowMoves(sess[s], row)
  BY <1>2 DEF RowMoves, SoundRow, Session
<1>4. sess' = [sess EXCEPT ![s] = row] /\ feature' = feature
      /\ tickets' = tickets /\ perm' = perm /\ browser' = browser
  BY DEF TouchActivity
<1>5. Exists(s)
  BY <1>2 DEF Exists
<1> HIDE DEF row, s
<1> QED BY <1>1, <1>3, <1>4, <1>5, OneRowMoves, TicketsExpire, NoIdentityMoves DEF Moves

\* Recording the intent to terminate, under a new permission revision, is a move.
LEMMA IntentMoves ==
    ASSUME NEW old, SoundRow(old), old.observed # "None", NEW rev \in Nat
    PROVE  RowMoves(old, [old EXCEPT !.desired = "Terminated", !.rev = rev])
<1> DEFINE row == [old EXCEPT !.desired = "Terminated", !.rev = rev]
<1>1. row \in Session
  BY DEF SoundRow, Session
<1>2. /\ row.observed = old.observed /\ row.registered = old.registered /\ row.uid = old.uid
      /\ row.gen = old.gen /\ row.epoch = old.epoch /\ row.desired = "Terminated"
  BY DEF SoundRow, Session
<1>3. old.gen \in Nat /\ old.epoch \in Nat
  BY DEF SoundRow, Session
<1> HIDE DEF row
<1>4. RowMoves(old, row)
  BY <1>1, <1>2, <1>3 DEF RowMoves, SoundRow
<1> QED BY <1>4 DEF row

\* request_shell_teardown records the intent and expires what was not consumed.
LEMMA RequestTeardownMoves ==
    ASSUME ShellInv, NEW s \in Sessions, RequestTeardown(s)
    PROVE  Moves
<1> DEFINE row == [sess[s] EXCEPT !.desired = "Terminated", !.rev = Rev(s)]
<1>1. Rev(s) \in Nat /\ SoundRow(sess[s]) /\ Exists(s)
  BY RevIsNat, RowFacts DEF RequestTeardown, ShellInv
<1>3. RowMoves(sess[s], row)
  BY <1>1, IntentMoves DEF Exists
<1>4. sess' = [sess EXCEPT ![s] = row] /\ feature' = feature /\ perm' = perm /\ browser' = browser
  BY DEF RequestTeardown
<1>5. PICK which : tickets' = Expire(which)
  BY DEF RequestTeardown
<1> HIDE DEF row
<1> QED BY <1>1, <1>3, <1>4, <1>5, OneRowMoves, TicketsExpire, NoIdentityMoves DEF Moves

-----------------------------------------------------------------------------
(* Runtimes and reconciler.                                                 *)

\* register_shell_runtime registers the runtime that is bound to the row.
LEMMA RegisterRuntimeMoves ==
    ASSUME ShellInv, NEW s \in Sessions, NEW uid \in Uids, NEW g, NEW e,
           RegisterRuntime(s, uid, g, e)
    PROVE  Moves
<1> DEFINE row == [sess[s] EXCEPT !.registered = TRUE]
<1>1. SoundRow(sess[s]) /\ sess[s].observed = "Provisioning" /\ sess[s].uid # NoUid
  BY RowFacts, NamesAssumption DEF RegisterRuntime, BoundRuntime
<1>2. row \in Session /\ sess[s].gen \in Nat /\ sess[s].epoch \in Nat
  BY <1>1 DEF SoundRow, Session
<1>3. /\ row.observed = "Provisioning" /\ row.uid = sess[s].uid /\ row.gen = sess[s].gen
      /\ row.epoch = sess[s].epoch /\ row.desired = sess[s].desired
  BY <1>1 DEF SoundRow, Session
<1>4. sess' = [sess EXCEPT ![s] = row] /\ feature' = feature
      /\ tickets' = tickets /\ perm' = perm /\ browser' = browser
  BY DEF RegisterRuntime
<1> HIDE DEF row
<1>5. RowMoves(sess[s], row)
  BY <1>1, <1>2, <1>3 DEF RowMoves, SoundRow
<1>6. Exists(s)
  BY <1>1 DEF Exists
<1> QED BY <1>4, <1>5, <1>6, OneRowMoves, TicketsExpire, NoIdentityMoves DEF Moves

\* claim_shell_sessions takes an existing session and a new epoch.
LEMMA ClaimSessionMoves ==
    ASSUME ShellInv, NEW s \in Sessions, NEW w \in Workers, ClaimSession(w, s)
    PROVE  Moves
<1> DEFINE row == Claimed(sess[s], w)
<1>1. SoundRow(sess[s]) /\ Exists(s)
  BY RowFacts DEF ClaimSession, Claimable, Exists
<1> DEFINE epoch == IF sess[s].epoch < MaxEpoch THEN sess[s].epoch + 1 ELSE sess[s].epoch
<1>2. epoch \in Nat \ {0} /\ epoch >= sess[s].epoch /\ sess[s].gen \in Nat
  BY <1>1, BoundsAssumption DEF SoundRow, Session
<1>3. row = [sess[s] EXCEPT !.owner = w, !.leased = TRUE, !.epoch = epoch]
  BY DEF Claimed
<1> HIDE DEF epoch, row
<1>4. row \in Session
  BY <1>1, <1>2, <1>3 DEF SoundRow, Session
<1>5. /\ row.observed = sess[s].observed /\ row.registered = sess[s].registered
      /\ row.uid = sess[s].uid /\ row.gen = sess[s].gen /\ row.epoch = epoch
      /\ row.desired = sess[s].desired
  BY <1>1, <1>3 DEF SoundRow, Session
<1>6. RowMoves(sess[s], row)
  BY <1>1, <1>2, <1>4, <1>5 DEF RowMoves, SoundRow, Exists
<1>7. sess' = [sess EXCEPT ![s] = row] /\ feature' = feature
      /\ tickets' = tickets /\ perm' = perm /\ browser' = browser
  BY DEF ClaimSession, row
<1> QED BY <1>1, <1>6, <1>7, OneRowMoves, TicketsExpire, NoIdentityMoves DEF Moves

\* A fence that a claim handed out is not that of a session without a row.
LEMMA FencedExists ==
    ASSUME ShellInv, NEW s \in Sessions, NEW w, NEW g, NEW e \in 2 .. MaxEpoch,
           FenceNotLost(w, s, g, e) \/ Fence(w, s, g, e)
    PROVE  SoundRow(sess[s]) /\ Exists(s)
<1>1. sess[s].epoch # 1
  BY BoundsAssumption DEF FenceNotLost, Fence
<1> QED BY <1>1, RowFacts DEF Exists, NoRow

\* heartbeat_shell_session writes at most the intent to terminate.
LEMMA HeartbeatMoves ==
    ASSUME ShellInv, NEW s \in Sessions, NEW w \in Workers, NEW g, NEW e, Exists(s),
           NEW rev, Heartbeat(w, s, g, e, rev)
    PROVE  Moves
<1> DEFINE row == [sess[s] EXCEPT !.desired = "Terminated"]
<1>1. SoundRow(sess[s]) /\ Exists(s)
  BY RowFacts
<1>2. RowMoves(sess[s], row)
  BY <1>1 DEF RowMoves, SoundRow, Session, Exists
<1>3. /\ sess' = [sess EXCEPT ![s] = row] \/ sess' = sess
      /\ feature' = feature /\ tickets' = tickets /\ perm' = perm /\ browser' = browser
  BY DEF Heartbeat
<1> HIDE DEF row
<1> QED BY <1>1, <1>2, <1>3, OneRowMoves, NoRowMoves, TicketsExpire, NoIdentityMoves DEF Moves

\* reproject_shell_runtime takes the runtime and its registration off the row and
\* opens a new generation.
LEMMA ReprojectRuntimeMoves ==
    ASSUME ShellInv, NEW s \in Sessions, NEW w \in Workers, NEW g, NEW e, Exists(s),
           NEW uid, ReprojectRuntime(w, s, g, e, uid)
    PROVE  Moves
<1> DEFINE row == Reprojected(sess[s])
<1>1. SoundRow(sess[s]) /\ Exists(s) /\ sess[s].desired = "Running"
      /\ sess[s].observed \in {"Provisioning", "Ready", "Failed"}
  BY RowFacts DEF ReprojectRuntime, MayReproject
<1>2. sess[s].gen + 1 \in Nat \ {0} /\ sess[s].gen \in Nat /\ sess[s].epoch \in Nat
  BY <1>1 DEF SoundRow, Session
<1>3. row \in Session
  BY <1>1, <1>2 DEF Reprojected, SoundRow, Session, Observed
<1>4. /\ row.observed = "Pending" /\ row.registered = FALSE
      /\ row.gen = sess[s].gen + 1 /\ row.epoch = sess[s].epoch
  BY <1>1 DEF Reprojected, SoundRow, Session
<1> HIDE DEF row
<1>5. RowMoves(sess[s], row)
  BY <1>1, <1>2, <1>3, <1>4 DEF RowMoves, SoundRow
<1>6. sess' = [sess EXCEPT ![s] = row] /\ feature' = feature /\ perm' = perm /\ browser' = browser
  BY DEF ReprojectRuntime, row
<1>7. PICK which : tickets' = Expire(which)
  BY DEF ReprojectRuntime
<1> QED BY <1>1, <1>5, <1>6, <1>7, OneRowMoves, TicketsExpire, NoIdentityMoves DEF Moves

\* revoke_shell_session_authority records the intent and expires what no runtime authorized.
LEMMA RevokeAuthorityMoves ==
    ASSUME ShellInv, NEW s \in Sessions, NEW w \in Workers, NEW g, NEW e, Exists(s),
           RevokeAuthority(w, s, g, e)
    PROVE  Moves
<1> DEFINE row == [sess[s] EXCEPT !.desired = "Terminated", !.rev = Rev(s)]
<1>1. Rev(s) \in Nat /\ SoundRow(sess[s]) /\ Exists(s)
  BY RevIsNat, RowFacts DEF ShellInv
<1>2. RowMoves(sess[s], row)
  BY <1>1, IntentMoves DEF Exists
<1>3. sess' = [sess EXCEPT ![s] = row] /\ feature' = feature /\ perm' = perm /\ browser' = browser
  BY DEF RevokeAuthority
<1>4. PICK which : tickets' = Expire(which)
  BY DEF RevokeAuthority
<1> HIDE DEF row
<1> QED BY <1>1, <1>2, <1>3, <1>4, OneRowMoves, TicketsExpire, NoIdentityMoves DEF Moves

\* No transition leaves Terminated or "None", none leads back to Pending or "None",
\* and Ready is entered from Provisioning.
LEMMA TransitionFacts ==
    ASSUME NEW from \in Observed \cup {"None"}, NEW next \in Transitions[from]
    PROVE  /\ from \notin {"None", "Terminated"}
           /\ next \in Observed \ {"Pending"}
BY DEF Transitions, Observed

\* transition_shell_session moves the row along Transitions: Ready needs the registration,
\* a bound runtime stays bound and an end never takes the intent back.
LEMMA TransitMoves ==
    ASSUME ShellInv, NEW s \in Sessions, NEW w \in Workers, NEW g, NEW e, Exists(s),
           NEW next \in Observed, NEW rev \in Nat, NEW uid \in Uids \cup {NoUid},
           Transit(w, s, g, e, sess[s].observed, next, rev, uid)
    PROVE  Moves
<1> DEFINE old == sess[s]
           ends == next \in {"Terminating", "Terminated"}
           frees == next \in {"Terminated", "Failed"}
           desired == IF ends THEN "Terminated" ELSE old.desired
           bound == IF old.uid = NoUid THEN uid ELSE old.uid
           owner == IF frees THEN NoWorker ELSE old.owner
           leased == ~ frees /\ old.leased
           row == [old EXCEPT !.observed = next, !.desired = desired, !.rev = rev,
                              !.uid = bound, !.owner = owner, !.leased = leased]
<1>1. SoundRow(old) /\ Exists(s) /\ next \in Transitions[old.observed] /\ MayBecome(s, next)
  BY RowFacts DEF Transit, MayTransit
<1>2. old.observed \in Observed \cup {"None"} /\ old.gen \in Nat /\ old.epoch \in Nat
  BY <1>1 DEF SoundRow, Session
<1>3. old.observed \notin {"None", "Terminated"} /\ next \in Observed \ {"Pending"}
  BY <1>1, <1>2, TransitionFacts
<1>4. sess' = [sess EXCEPT ![s] = row]
  BY DEF Transit, Transited
<1>5. /\ old.desired \in {"Running", "Terminated"} /\ old.uid \in Uids \cup {NoUid}
      /\ old.owner \in Workers \cup {NoWorker} /\ old.leased \in BOOLEAN
  BY <1>1 DEF SoundRow, Session
<1>13. desired \in {"Running", "Terminated"} /\ bound \in Uids \cup {NoUid}
  BY <1>5
<1>14. owner \in Workers \cup {NoWorker} /\ leased \in BOOLEAN
  BY <1>5
<1>6. /\ old.desired = "Terminated" => desired = "Terminated"
      /\ old.uid # NoUid => bound = old.uid
  OBVIOUS
<1> HIDE DEF desired, bound, owner, leased
<1>7. row \in Session
  BY <1>1, <1>13, <1>14 DEF SoundRow, Session
<1>8. /\ row.observed = next /\ row.desired = desired /\ row.uid = bound
      /\ row.gen = old.gen /\ row.epoch = old.epoch /\ row.registered = old.registered
  BY <1>1 DEF SoundRow, Session
<1> HIDE DEF row
<1>9. next = "Ready" => old.registered
  BY <1>1 DEF MayBecome
<1>10. next # "None"
  BY DEF Observed
<1>11. RowMoves(old, row)
  BY <1>1, <1>2, <1>3, <1>6, <1>7, <1>8, <1>9, <1>10 DEF RowMoves, SoundRow
<1>12. feature' = feature /\ tickets' = tickets /\ perm' = perm /\ browser' = browser
  BY DEF Transit
<1> QED BY <1>1, <1>4, <1>11, <1>12, OneRowMoves, TicketsExpire, NoIdentityMoves DEF Moves

-----------------------------------------------------------------------------
(* The feature gate.                                                        *)

\* apply_shell_feature_state never writes an operation that claims a scale-down,
\* and what it drains it only asks to terminate.
LEMMA ApplyFeatureStateMoves ==
    ASSUME ShellInv, NEW on \in BOOLEAN, NEW op \in {"None", "Enabled", "Draining"},
           ApplyFeatureState(on, op)
    PROVE  Moves
<1>1. feature \in Feature /\ sess \in [Sessions -> Session]
  BY DEF ShellInv, TypeOK
<1>2. CASE /\ on = feature.enabled
           /\ feature' = [feature EXCEPT !.op = op, !.claimed = FALSE]
           /\ sess' = sess /\ tickets' = tickets
  <2>1. feature' \in Feature /\ feature'.drained = feature.drained
        /\ feature'.enabled = feature.enabled /\ feature'.op = op
    BY <1>1, <1>2 DEF Feature
  <2>2. DrainHolds'
    BY <1>2, <2>1 DEF ShellInv, DrainHolds
  <2>3. SessionsMove
    BY <1>1, <1>2 DEF SessionsMove
  <2> QED BY <1>2, <2>1, <2>2, <2>3, TicketsExpire, NoIdentityMoves
          DEF Moves, ApplyFeatureState
<1>3. CASE /\ feature' = [enabled |-> on, drained |-> FALSE, op |-> op, claimed |-> FALSE]
           /\ IF on THEN UNCHANGED <<sess, tickets>>
              ELSE /\ sess' = [s \in Sessions |->
                         IF sess[s].observed \in {"None", "Terminated"} THEN sess[s]
                         ELSE [sess[s] EXCEPT !.desired = "Terminated"]]
                   /\ tickets' = Expire([t \in Tickets |-> ~ tickets[t].consumed])
  <2>1. feature' \in Feature /\ feature'.drained = FALSE /\ feature'.op = op
    BY <1>3 DEF Feature
  <2>2. DrainHolds'
    BY <2>1 DEF DrainHolds
  <2>3. \E which : tickets' = Expire(which) \/ tickets' = tickets
    BY <1>3
  <2>4. TicketsMove
    BY <2>3, TicketsExpire
  <2>5. SessionsMove
    <3>1. CASE sess' = sess
      BY <1>1, <3>1 DEF SessionsMove
    <3>2. CASE sess' = [s \in Sessions |->
                  IF sess[s].observed \in {"None", "Terminated"} THEN sess[s]
                  ELSE [sess[s] EXCEPT !.desired = "Terminated"]]
      <4>1. ASSUME NEW s \in Sessions
            PROVE  /\ sess'[s] \in Session
                   /\ sess'[s] = sess[s] \/ RowMoves(sess[s], sess'[s])
        <5>1. CASE sess[s].observed \in {"None", "Terminated"}
          BY <1>1, <3>2, <5>1
        <5>2. CASE sess[s].observed \notin {"None", "Terminated"}
          <6>1. sess'[s] = [sess[s] EXCEPT !.desired = "Terminated"]
            BY <3>2, <5>2
          <6>2. RowMoves(sess[s], [sess[s] EXCEPT !.desired = "Terminated"])
            BY <5>2, RowFacts DEF RowMoves, SoundRow, Session
          <6> QED BY <6>1, <6>2 DEF RowMoves, SoundRow
        <5> QED BY <5>1, <5>2
      <4>2. sess' \in [Sessions -> Session]
        BY <3>2, <4>1
      <4> QED BY <4>1, <4>2 DEF SessionsMove
    <3> QED BY <1>3, <3>1, <3>2
  <2> QED BY <2>1, <2>2, <2>4, <2>5, NoIdentityMoves DEF Moves, ApplyFeatureState
<1> QED BY <1>2, <1>3 DEF ApplyFeatureState

\* The setup enables the feature, and ends with that what it found under way.
LEMMA SetupActivatesMoves == ASSUME ShellInv, SetupActivates PROVE Moves
<1>1. feature' \in Feature /\ feature'.drained = FALSE /\ feature'.op = "Enabled"
  BY DEF SetupActivates, Feature
<1>2. DrainHolds'
  BY <1>1 DEF DrainHolds
<1>3. SessionsMove
  BY DEF SetupActivates, SessionsMove, ShellInv, TypeOK
<1> QED BY <1>1, <1>2, <1>3, TicketsExpire, NoIdentityMoves DEF Moves, SetupActivates

\* get_shell_feature_state and the two functions of the scale-down.
LEMMA DrainMoves ==
    ASSUME ShellInv, ObserveDrain \/ ClaimScaleDown \/ CompleteScaleDown \/ ScaleDownClaimRunsOut
    PROVE  Moves
<1>1. feature \in Feature /\ sess' = sess /\ tickets' = tickets /\ perm' = perm /\ browser' = browser
  BY DEF ShellInv, TypeOK, ObserveDrain, ClaimScaleDown, CompleteScaleDown, ScaleDownClaimRunsOut
<1>2. feature' \in Feature
  BY <1>1 DEF Feature, ObserveDrain, ClaimScaleDown, CompleteScaleDown, ScaleDownClaimRunsOut
<1>3. DrainHolds'
  <2>1. CASE ObserveDrain
    BY <1>1, <2>1 DEF ShellInv, DrainHolds, ObserveDrain, Quiet, Exists, Feature
  <2>2. CASE ClaimScaleDown
    BY <1>1, <2>2 DEF ShellInv, DrainHolds, ClaimScaleDown, Quiet, Exists, Feature
  <2>3. CASE CompleteScaleDown
    BY <1>1, <2>3 DEF ShellInv, DrainHolds, CompleteScaleDown, Feature
  <2>4. CASE ScaleDownClaimRunsOut
    BY <1>1, <2>4 DEF ShellInv, DrainHolds, ScaleDownClaimRunsOut, Feature
  <2> QED BY <2>1, <2>2, <2>3, <2>4
<1>4. SessionsMove
  BY <1>1 DEF ShellInv, TypeOK, SessionsMove
<1> QED BY <1>1, <1>2, <1>3, <1>4, TicketsExpire, NoIdentityMoves DEF Moves

-----------------------------------------------------------------------------
(* Time.                                                                    *)

\* A lease runs out.
LEMMA LeaseRunsOutMoves ==
    ASSUME ShellInv, NEW s \in Sessions, LeaseRunsOut(s) \/ LastLeaseRunsOut(s)
    PROVE  Moves
<1> DEFINE row == [sess[s] EXCEPT !.leased = FALSE]
<1>1. SoundRow(sess[s]) /\ sess[s].leased /\ (sess[s].observed = "None" => sess[s] = NoRow)
  BY RowFacts DEF LeaseRunsOut, LastLeaseRunsOut
<1>2. Exists(s)
  BY <1>1 DEF Exists, NoRow
<1>3. row \in Session /\ sess[s].gen \in Nat /\ sess[s].epoch \in Nat
  BY <1>1 DEF SoundRow, Session
<1>4. /\ row.observed = sess[s].observed /\ row.uid = sess[s].uid /\ row.gen = sess[s].gen
      /\ row.registered = sess[s].registered
      /\ row.epoch = sess[s].epoch /\ row.desired = sess[s].desired
  BY <1>1 DEF SoundRow, Session
<1>5. sess' = [sess EXCEPT ![s] = row] /\ feature' = feature
      /\ tickets' = tickets /\ perm' = perm /\ browser' = browser
  BY DEF LeaseRunsOut, LastLeaseRunsOut
<1> HIDE DEF row
<1>6. RowMoves(sess[s], row)
  BY <1>1, <1>2, <1>3, <1>4 DEF RowMoves, SoundRow, Exists
<1> QED BY <1>2, <1>5, <1>6, OneRowMoves, TicketsExpire, NoIdentityMoves DEF Moves

\* A session becomes idle or over.
LEMMA SessionExpiresMoves ==
    ASSUME ShellInv, NEW s \in Sessions, NEW life \in {"idle", "over"}, SessionExpires(s, life)
    PROVE  Moves
<1> DEFINE row == [sess[s] EXCEPT !.life = life]
<1>1. SoundRow(sess[s]) /\ Exists(s)
  BY RowFacts DEF SessionExpires
<1>2. row \in Session /\ sess[s].gen \in Nat /\ sess[s].epoch \in Nat
  BY <1>1 DEF SoundRow, Session
<1>3. /\ row.observed = sess[s].observed /\ row.uid = sess[s].uid /\ row.gen = sess[s].gen
      /\ row.registered = sess[s].registered
      /\ row.epoch = sess[s].epoch /\ row.desired = sess[s].desired
  BY <1>1 DEF SoundRow, Session
<1>4. sess' = [sess EXCEPT ![s] = row] /\ feature' = feature
      /\ tickets' = tickets /\ perm' = perm /\ browser' = browser
  BY DEF SessionExpires
<1> HIDE DEF row
<1>5. RowMoves(sess[s], row)
  BY <1>1, <1>2, <1>3 DEF RowMoves, SoundRow, Exists
<1> QED BY <1>1, <1>4, <1>5, OneRowMoves, TicketsExpire, NoIdentityMoves DEF Moves

\* A ticket's minute is over.
LEMMA TicketExpiresMoves ==
    ASSUME ShellInv, NEW t \in Tickets, TicketExpires(t)
    PROVE  Moves
<1>1. tickets \in [Tickets -> Ticket]
  BY DEF ShellInv, TypeOK
<1>2. tickets' = Expire([q \in Tickets |-> q = t])
  BY <1>1 DEF TicketExpires, Expire
<1>3. sess' = sess /\ feature' = feature /\ perm' = perm /\ browser' = browser
  BY DEF TicketExpires
<1> QED BY <1>2, <1>3, TicketsExpire, NoRowMoves, NoIdentityMoves DEF Moves

-----------------------------------------------------------------------------
(* The invariant and the theorems.                                          *)

\* Every step of the authority moves rows, tickets and gate as described.
LEMMA NextMoves == ASSUME ShellInv, Next PROVE Moves
<1>1. CASE BrowserStep
  BY <1>1, CreateSessionMoves, RequestTeardownMoves, BrowserSessionEndsMoves,
     IssueAttachTicketMoves, ConsumeAttachTicketMoves, TouchActivityMoves,
     PermissionChangesMoves DEF BrowserStep
<1>2. CASE FeatureStep
  <2>1. CASE ObserveDrain \/ ClaimScaleDown \/ CompleteScaleDown
    BY <2>1, DrainMoves
  <2>2. CASE OperatorDisables
    BY <2>2, ApplyFeatureStateMoves DEF OperatorDisables
  <2>3. CASE ReleaseEnables
    BY <2>3, ApplyFeatureStateMoves DEF ReleaseEnables
  <2>4. CASE ReleaseDisables
    BY <2>4, ApplyFeatureStateMoves DEF ReleaseDisables
  <2>5. CASE SetupActivates
    BY <2>5, SetupActivatesMoves
  <2> QED BY <1>2, <2>1, <2>2, <2>3, <2>4, <2>5 DEF FeatureStep
<1>3. CASE TimeStep
  BY <1>3, LeaseRunsOutMoves, SessionExpiresMoves, TicketExpiresMoves, DrainMoves DEF TimeStep
<1>4. ASSUME NEW w \in Workers, NEW s \in Sessions, ClaimSession(w, s)
      PROVE  Moves
  BY <1>4, ClaimSessionMoves
<1>5. ASSUME NEW w \in Workers, NEW s \in Sessions, NEW f \in Fences, WorkerCall(w, s, f[1], f[2])
      PROVE  Moves
  <2>1. f[2] \in 2 .. MaxEpoch /\ 0 .. MaxRevision \subseteq Nat
    BY BoundsAssumption DEF Fences
  <2>2. Exists(s)
    BY <1>5, <2>1, FencedExists DEF WorkerCall, Heartbeat, MayHeartbeat, MayInspect, ReprojectRuntime, MayReproject,
       RevokeAuthority, MayRevoke, Transit, MayTransit
  <2> QED BY <1>5, <2>1, <2>2, HeartbeatMoves, ReprojectRuntimeMoves, RevokeAuthorityMoves, TransitMoves DEF WorkerCall
<1>6. ASSUME NEW uid \in Uids, NEW f \in Fences,
             \/ \E s \in Sessions : RegisterRuntime(s, uid, f[1], f[2])
             \/ \E t \in Tickets : AuthorizeRuntimeAttach(t, uid, f[1], f[2])
      PROVE  Moves
  BY <1>6, RegisterRuntimeMoves, AuthorizeRuntimeAttachMoves
<1> QED BY <1>1, <1>2, <1>3, <1>4, <1>5, <1>6 DEF Next

\* A move keeps the invariant.
LEMMA MovesKeepShellInv == ASSUME ShellInv, Moves PROVE ShellInv'
<1>1. TypeOK'
  BY DEF Moves, SessionsMove, TicketsMove, IdentityMoves, TypeOK
<1>2. RowsStartEmpty'
  BY RowFacts DEF Moves, SessionsMove, RowMoves, RowsStartEmpty, Exists
<1>3. ReadyIsRegistered'
  BY RowFacts DEF Moves, SessionsMove, RowMoves, SoundRow, ReadyIsRegistered
<1>4. TicketsAreBound'
  BY DEF Moves, TicketsMove, ShellInv, TicketsAreBound
<1> QED BY <1>1, <1>2, <1>3, <1>4 DEF Moves, ShellInv

\* The authority starts with no rows, no tickets and the feature disabled.
LEMMA InitShellInv == Init => ShellInv
<1> SUFFICES ASSUME Init PROVE ShellInv
  OBVIOUS
<1>1. NoTicket \in Ticket
  BY DEF Ticket, NoTicket
<1>2. TypeOK
  BY <1>1, NoRowType DEF Init, TypeOK, Feature
<1>3. RowsStartEmpty /\ TicketsAreBound
  BY DEF Init, RowsStartEmpty, TicketsAreBound
<1>4. ReadyIsRegistered
  BY DEF Init, ReadyIsRegistered, NoRow
<1>5. DrainHolds
  BY DEF Init, DrainHolds
<1> QED BY <1>2, <1>3, <1>4, <1>5 DEF ShellInv

\* The inductive invariant holds of every behaviour of the shell authority.
THEOREM ShellInvariant == Spec => []ShellInv
<1>1. ShellInv /\ [Next]_vars => ShellInv'
  <2>1. CASE UNCHANGED vars
    BY <2>1 DEF vars, ShellInv, TypeOK, RowsStartEmpty, TicketsAreBound, ReadyIsRegistered,
                DrainHolds, Exists
  <2> QED BY <2>1, NextMoves, MovesKeepShellInv
<1> QED BY <1>1, InitShellInv, PTL DEF Spec

\* Every row of the three tables has its columns' types.
THEOREM ShellTypeCorrectness == Spec => []TypeOK
BY ShellInvariant, PTL DEF ShellInv

\* A Ready session has a bound runtime that registered, for any number of workers,
\* runtimes, claims and reprojections.
THEOREM ReadinessIsRegistration == Spec => []ReadyIsRegistered
BY ShellInvariant, PTL DEF ShellInv

\* A completed drain stays complete until a release enables the feature again.
THEOREM DrainIsStable == Spec => []DrainHolds
BY ShellInvariant, PTL DEF ShellInv

\* What a step does to a session that is to end, and to its tickets.
EndIsKept ==
    \A s \in Sessions : (Exists(s) /\ sess[s].desired = "Terminated") =>
        /\ sess'[s].desired = "Terminated"
        /\ sess[s].observed = "Terminated" => sess'[s].observed = "Terminated"
        /\ \A t \in Tickets : tickets'[t].session = s =>
              /\ tickets[t].session = s
              /\ tickets'[t].consumed = tickets[t].consumed
              /\ tickets'[t].by = tickets[t].by

\* What the trigger guard_shell_session_mutation lets through.
WritesAreGuarded ==
    \A s \in Sessions :
        /\ sess'[s].gen >= sess[s].gen
        /\ sess'[s].epoch >= sess[s].epoch
        /\ (sess[s].uid # NoUid /\ sess'[s].uid # sess[s].uid)
              => sess'[s].gen # sess[s].gen

\* A session that is to end admits no terminal, so its tickets keep what they have.
LEMMA MovesKeepEnds == ASSUME Moves PROVE EndIsKept
<1> SUFFICES ASSUME NEW s \in Sessions, Exists(s), sess[s].desired = "Terminated"
             PROVE  /\ sess'[s].desired = "Terminated"
                    /\ sess[s].observed = "Terminated" => sess'[s].observed = "Terminated"
                    /\ \A t \in Tickets : tickets'[t].session = s =>
                          /\ tickets[t].session = s
                          /\ tickets'[t].consumed = tickets[t].consumed
                          /\ tickets'[t].by = tickets[t].by
  BY DEF EndIsKept
<1>1. SessionsMove /\ TicketsMove
  BY DEF Moves
<1>2. ~ Attachable(s)
  BY DEF Attachable
<1>3. sess'[s] = sess[s] \/ RowMoves(sess[s], sess'[s])
  BY <1>1 DEF SessionsMove
<1>4. /\ sess'[s].desired = "Terminated"
      /\ sess[s].observed = "Terminated" => sess'[s].observed = "Terminated"
  BY <1>3 DEF RowMoves, Exists
<1> QED BY <1>1, <1>2, <1>4 DEF TicketsMove

\* The fences of a row grow, and a bound runtime changes only with the generation.
LEMMA MovesAreGuarded == ASSUME ShellInv, Moves PROVE WritesAreGuarded
<1> SUFFICES ASSUME NEW s \in Sessions
             PROVE  /\ sess'[s].gen >= sess[s].gen
                    /\ sess'[s].epoch >= sess[s].epoch
                    /\ (sess[s].uid # NoUid /\ sess'[s].uid # sess[s].uid)
                          => sess'[s].gen # sess[s].gen
  BY DEF WritesAreGuarded
<1>1. sess'[s] = sess[s] \/ RowMoves(sess[s], sess'[s])
  BY DEF Moves, SessionsMove
<1>2. sess[s].gen \in Nat /\ sess[s].epoch \in Nat
  BY RowFacts DEF SoundRow, Session
<1> QED BY <1>1, <1>2 DEF RowMoves

\* A recorded teardown is final for the session and for every ticket of it.
THEOREM TeardownFinality == Spec => TeardownIsFinal
<1>1. ShellInv /\ [Next]_vars => [EndIsKept]_vars
  BY NextMoves, MovesKeepEnds
<1> QED BY <1>1, ShellInvariant, PTL DEF Spec, TeardownIsFinal, EndIsKept

\* No function asks for a write that guard_shell_session_mutation refuses.
THEOREM MutationGuard == Spec => MutationGuardHolds
<1>1. ShellInv /\ [Next]_vars => [WritesAreGuarded]_vars
  BY NextMoves, MovesAreGuarded
<1> QED BY <1>1, ShellInvariant, PTL DEF Spec, MutationGuardHolds, WritesAreGuarded

-----------------------------------------------------------------------------
(* The reconcilers.  What a worker holds of a session, it holds of a row   *)
(* that exists; every Pod UID it may bind was created for that session.    *)

\* A UID that a row, a job or a Pod of s names was made for s.
Owns(made, uid, s) == uid = NoUid \/ \E b \in made : b.uid = uid /\ b.session = s

JobFits(j, rows, made) ==
    j.pc # "idle" => /\ j.session \in Sessions /\ rows[j.session].observed # "None"
                     /\ Owns(made, j.row.uid, j.session) /\ Owns(made, j.uid, j.session)

BoundTicket(t) == [session |-> tickets[t].session, uid |-> tickets[t].by,
                   gen |-> tickets[t].gen, epoch |-> tickets[t].epoch]

\* The inductive invariant of the composition.
ReconcilerInv ==
    /\ ShellInv /\ ReconcilerTypeOK
    /\ \A w \in Workers : JobFits(job[w], sess, bindings)
    /\ \A w \in Workers, s \in Sessions : active[w][s] # NotActive => sess[s].observed # "None"
    /\ \A s \in Sessions : Owns(bindings, sess[s].uid, s)
    /\ \A s \in Sessions : pod[s] # NoPod => pod[s] \in bindings /\ pod[s].session = s
    /\ \A b, c \in bindings : b.uid = c.uid => b = c
    /\ AttachedRuntimeIsBound

\* What a step does to the authority: rows and tickets move as before, a row is
\* bound to a UID of its session, and a ticket to the runtime of its fence.
AuthorityMoves ==
    /\ Moves \/ UNCHANGED vars
    /\ \A s \in Sessions : sess'[s].uid = sess[s].uid \/ Owns(bindings, sess'[s].uid, s)
    /\ \A t \in Tickets : tickets'[t].by # NoUid =>
          \/ /\ tickets'[t].by = tickets[t].by /\ tickets'[t].session = tickets[t].session
             /\ tickets'[t].gen = tickets[t].gen /\ tickets'[t].epoch = tickets[t].epoch
          \/ BoundTicket(t)' \in bindings

JobsMove ==
    /\ job' \in [Workers -> Job]
    /\ \A w \in Workers : job'[w] = job[w] \/ JobFits(job'[w], sess', bindings')

ActiveMoves ==
    /\ active' \in [Workers -> [Sessions -> FenceType]]
    /\ \A w \in Workers, s \in Sessions : active'[w][s] \in {active[w][s], NotActive} \/ sess'[s].observed # "None"

PodsMove ==
    /\ pod' \in [Sessions -> Binding \cup {NoPod}] /\ bindings' \subseteq Binding
    /\ bindings \subseteq bindings'
    /\ \A s \in Sessions : pod'[s] \in {pod[s], NoPod} \/ (pod'[s] \in bindings' /\ pod'[s].session = s)
    /\ \A b, c \in bindings' : b.uid = c.uid => b = c

\* A row that exists goes on existing.
LEMMA RowsRemain ==
    ASSUME AuthorityMoves, NEW s \in Sessions, sess[s].observed # "None"
    PROVE  sess'[s].observed # "None"
BY DEF AuthorityMoves, Moves, SessionsMove, RowMoves, vars

\* The parts of a step together keep the invariant.
LEMMA ReconcilerFrame ==
    ASSUME ReconcilerInv, AuthorityMoves, JobsMove, ActiveMoves, PodsMove, scene' = scene
    PROVE  ReconcilerInv'
<1>1. ShellInv'
  <2>1. CASE UNCHANGED vars
    BY <2>1 DEF ReconcilerInv, vars, ShellInv, TypeOK, RowsStartEmpty, TicketsAreBound, ReadyIsRegistered,
                DrainHolds, Exists
  <2>2. QED
    BY <2>1, MovesKeepShellInv DEF AuthorityMoves, ReconcilerInv
<1>2. ReconcilerTypeOK'
  BY <1>1 DEF ReconcilerInv, ReconcilerTypeOK, ShellInv, JobsMove, ActiveMoves, PodsMove
<1>3. \A s \in Sessions : \A uid : Owns(bindings, uid, s) => Owns(bindings', uid, s)
  BY DEF Owns, PodsMove
<1>4. ASSUME NEW w \in Workers
      PROVE  JobFits(job'[w], sess', bindings')
  <2>1. JobFits(job[w], sess, bindings)
    BY DEF ReconcilerInv
  <2>2. JobFits(job[w], sess', bindings')
    BY <1>3, <2>1, RowsRemain DEF JobFits
  <2>3. QED
    BY <2>2 DEF JobsMove
<1>5. \A w \in Workers, s \in Sessions : active'[w][s] # NotActive => sess'[s].observed # "None"
  BY RowsRemain DEF ReconcilerInv, ActiveMoves
<1>6. \A s \in Sessions : Owns(bindings', sess'[s].uid, s)
  BY <1>3 DEF ReconcilerInv, AuthorityMoves
<1>7. \A s \in Sessions : pod'[s] # NoPod => pod'[s] \in bindings' /\ pod'[s].session = s
  BY DEF ReconcilerInv, PodsMove
<1>8. AttachedRuntimeIsBound'
  BY DEF ReconcilerInv, AuthorityMoves, AttachedRuntimeIsBound, BoundTicket, PodsMove
<1>9. QED
  BY <1>1, <1>2, <1>4, <1>5, <1>6, <1>7, <1>8 DEF ReconcilerInv, PodsMove

-----------------------------------------------------------------------------
(* What the authority's functions do to UIDs and tickets.                   *)

\* Tickets that nobody binds keep their binding.
LEMMA TicketsKeep ==
    ASSUME ShellInv, NEW t \in Tickets, tickets'[t].by # NoUid,
           tickets' = tickets \/ \E which : tickets' = Expire(which)
    PROVE  /\ tickets'[t].by = tickets[t].by /\ tickets'[t].session = tickets[t].session
           /\ tickets'[t].gen = tickets[t].gen /\ tickets'[t].epoch = tickets[t].epoch
<1>1. tickets[t] \in Ticket
  BY DEF ShellInv, TypeOK
<1>2. tickets'[t] = tickets[t] \/ tickets'[t] = [tickets[t] EXCEPT !.live = FALSE]
  BY DEF Expire
<1>3. QED
  BY <1>1, <1>2 DEF Ticket

\* A step of the authority that moves one row, keeps its UID or binds one of its
\* session, and lets tickets at most expire.
LEMMA RowStep ==
    ASSUME ReconcilerInv, Moves, NEW s \in Sessions, NEW row, sess' = [sess EXCEPT ![s] = row],
           row.uid = sess[s].uid \/ Owns(bindings, row.uid, s),
           tickets' = tickets \/ \E which : tickets' = Expire(which)
    PROVE  AuthorityMoves
<1>1. sess \in [Sessions -> Session]
  BY DEF ReconcilerInv, ShellInv, TypeOK
<1>2. \A q \in Sessions : sess'[q].uid = sess[q].uid \/ Owns(bindings, sess'[q].uid, q)
  BY <1>1
<1>3. QED
  BY <1>2, TicketsKeep DEF ReconcilerInv, AuthorityMoves

\* A step of the authority that moves no row.
LEMMA NoRowStep ==
    ASSUME ReconcilerInv, Moves \/ UNCHANGED vars, sess' = sess,
           tickets' = tickets \/ \E which : tickets' = Expire(which)
    PROVE  AuthorityMoves
BY TicketsKeep DEF ReconcilerInv, AuthorityMoves

\* A claim, a heartbeat, a reprojection and a revocation by a worker.
LEMMA FencedCalls ==
    ASSUME ReconcilerInv, NEW w \in Workers, NEW s \in Sessions, NEW g, NEW e, NEW rev, NEW uid,
           sess[s].observed # "None" \/ ClaimSession(w, s),
           \/ ClaimSession(w, s) \/ Heartbeat(w, s, g, e, rev) \/ ReprojectRuntime(w, s, g, e, uid)
           \/ RevokeAuthority(w, s, g, e)
    PROVE  AuthorityMoves
<1>1. ShellInv /\ sess[s] \in Session /\ (ClaimSession(w, s) \/ Exists(s))
  BY DEF ReconcilerInv, ShellInv, TypeOK, Exists
<1>2. Moves
  BY <1>1, ClaimSessionMoves, HeartbeatMoves, ReprojectRuntimeMoves, RevokeAuthorityMoves
<1>3. CASE ClaimSession(w, s)
  <2>1. PICK row : row = Claimed(sess[s], w)
    OBVIOUS
  <2>2. row.uid = sess[s].uid
    BY <1>1, <2>1 DEF Claimed, Session
  <2>3. sess' = [sess EXCEPT ![s] = row] /\ tickets' = tickets
    BY <1>3, <2>1 DEF ClaimSession
  <2>4. QED
    BY <1>2, <2>2, <2>3, RowStep
<1>4. CASE Heartbeat(w, s, g, e, rev)
  <2>1. PICK row : row = [sess[s] EXCEPT !.desired = "Terminated"]
    OBVIOUS
  <2>2. row.uid = sess[s].uid
    BY <1>1, <2>1 DEF Session
  <2>3. (sess' = [sess EXCEPT ![s] = row] \/ sess' = sess) /\ tickets' = tickets
    BY <1>4, <2>1 DEF Heartbeat
  <2>4. QED
    BY <1>2, <2>2, <2>3, RowStep, NoRowStep
<1>5. CASE ReprojectRuntime(w, s, g, e, uid)
  <2>1. PICK row : row = Reprojected(sess[s])
    OBVIOUS
  <2>2. row.uid = NoUid
    BY <1>1, <2>1 DEF Reprojected, Session
  <2>3. sess' = [sess EXCEPT ![s] = row] /\ \E which : tickets' = Expire(which)
    BY <1>5, <2>1 DEF ReprojectRuntime
  <2>4. QED
    BY <1>2, <2>2, <2>3, RowStep DEF Owns
<1>6. CASE RevokeAuthority(w, s, g, e)
  <2>1. PICK row : row = [sess[s] EXCEPT !.desired = "Terminated", !.rev = Rev(s)]
    OBVIOUS
  <2>2. row.uid = sess[s].uid
    BY <1>1, <2>1 DEF Session
  <2>3. sess' = [sess EXCEPT ![s] = row] /\ \E which : tickets' = Expire(which)
    BY <1>6, <2>1 DEF RevokeAuthority
  <2>4. QED
    BY <1>2, <2>2, <2>3, RowStep
<1>7. QED
  BY <1>3, <1>4, <1>5, <1>6

\* A transition binds at most the UID it is given.
LEMMA TransitCalls ==
    ASSUME ReconcilerInv, NEW w \in Workers, NEW s \in Sessions, NEW g, NEW e, NEW from, NEW next \in Observed,
           NEW rev \in Nat, NEW uid \in Uids \cup {NoUid}, sess[s].observed # "None", Owns(bindings, uid, s),
           Transit(w, s, g, e, from, next, rev, uid)
    PROVE  AuthorityMoves
<1>1. ShellInv /\ sess[s] \in Session /\ Exists(s) /\ from = sess[s].observed
  BY DEF ReconcilerInv, ShellInv, TypeOK, Exists, Transit, MayTransit
<1>2. Moves
  BY <1>1, TransitMoves
<1>3. PICK row : row = Transited(sess[s], next, rev, uid)
  OBVIOUS
<1>4. row.uid = IF sess[s].uid = NoUid THEN uid ELSE sess[s].uid
  BY <1>1, <1>3 DEF Transited, Session
<1>5. sess' = [sess EXCEPT ![s] = row] /\ tickets' = tickets
  BY <1>3 DEF Transit
<1>6. row.uid = sess[s].uid \/ Owns(bindings, row.uid, s)
  BY <1>4
<1>7. QED
  BY <1>2, <1>5, <1>6, RowStep
-----------------------------------------------------------------------------
(* What a step of a worker does to its job and to its active map.           *)

\* A worker that is done, in whatever way.
LEMMA DoneMoves ==
    ASSUME ReconcilerInv, NEW w \in Workers, Done(w)
    PROVE  JobsMove
<1>1. job \in [Workers -> Job] /\ NoRow \in Session
  BY NoRowType DEF ReconcilerInv, ReconcilerTypeOK
<1>2. Idle \in Job /\ Idle.pc = "idle"
  BY <1>1 DEF Idle, Job, Pcs, NotActive, FenceType
<1>3. QED
  BY <1>1, <1>2 DEF Done, JobsMove, JobFits

\* A job that fits the rows and the Pods there are afterwards.
LEMMA OneJobMoves ==
    ASSUME ReconcilerInv, NEW w \in Workers, NEW j \in Job, job' = [job EXCEPT ![w] = j],
           JobFits(j, sess', bindings')
    PROVE  JobsMove
BY DEF ReconcilerInv, ReconcilerTypeOK, JobsMove

\* A job that only moves on.
LEMMA GotoMoves ==
    ASSUME ReconcilerInv, NEW w \in Workers, NEW pc \in Pcs, Goto(w, pc), job[w].pc # "idle",
           AuthorityMoves, PodsMove
    PROVE  JobsMove
<1>1. job[w] \in Job /\ JobFits(job[w], sess, bindings)
  BY DEF ReconcilerInv, ReconcilerTypeOK
<1>2. PICK j : j = [job[w] EXCEPT !.pc = pc]
  OBVIOUS
<1>3. j \in Job /\ j.session = job[w].session /\ j.row = job[w].row /\ j.uid = job[w].uid
  BY <1>1, <1>2 DEF Job
<1>4. JobFits(j, sess', bindings')
  BY <1>1, <1>3, RowsRemain DEF JobFits, Owns, PodsMove
<1>5. job' = [job EXCEPT ![w] = j]
  BY <1>2 DEF Goto
<1>6. QED
  BY <1>3, <1>4, <1>5, OneJobMoves

\* A step that leaves the active maps alone.
LEMMA ActiveKept == ASSUME ReconcilerInv, active' = active PROVE ActiveMoves
BY DEF ReconcilerInv, ReconcilerTypeOK, ActiveMoves

\* The active map forgets a session, or has the fence of a row there is.
LEMMA SetActiveMoves ==
    ASSUME ReconcilerInv, NEW w \in Workers, NEW s, NEW f \in FenceType, SetActive(w, s, f),
           f = NotActive \/ (s \in Sessions => sess'[s].observed # "None")
    PROVE  ActiveMoves
<1>1. active \in [Workers -> [Sessions -> FenceType]]
  BY DEF ReconcilerInv, ReconcilerTypeOK
<1>2. active' = [active EXCEPT ![w] = [active[w] EXCEPT ![s] = f]]
  BY DEF SetActive
<1>3. [active[w] EXCEPT ![s] = f] \in [Sessions -> FenceType]
  BY <1>1
<1>4. active' \in [Workers -> [Sessions -> FenceType]]
  BY <1>1, <1>2, <1>3
<1>5. ASSUME NEW v \in Workers, NEW q \in Sessions
      PROVE  active'[v][q] \in {active[v][q], NotActive} \/ sess'[q].observed # "None"
  <2>1. CASE v = w
    <3>1. active'[w] = [active[w] EXCEPT ![s] = f]
      BY <1>1, <1>2, <1>3
    <3>2. QED
      BY <1>1, <2>1, <3>1
  <2>2. CASE v # w
    BY <1>1, <1>2, <2>2
  <2>3. QED
    BY <2>1, <2>2
<1>6. QED
  BY <1>4, <1>5 DEF ActiveMoves

\* No fence is a fence like the others, with numbers no row has.
LEMMA NotActiveType == NotActive \in FenceType
BY DEF NotActive, FenceType

\* An exception leaves the job where the mode says.
LEMMA ThrowMoves ==
    ASSUME ReconcilerInv, NEW w \in Workers, Throw(w), job[w].pc # "idle", AuthorityMoves, PodsMove
    PROVE  JobsMove /\ ActiveMoves
<1>1. job[w] \in Job /\ "catch" \in Pcs
  BY DEF ReconcilerInv, ReconcilerTypeOK, Pcs
<1>2. job[w].mode \in {"claimed", "active", "revoked"}
  BY <1>1 DEF Job
<1>3. CASE job[w].mode = "active"
  <2>1. Goto(w, "catch") /\ active' = active
    BY <1>3 DEF Throw
  <2>2. QED
    BY <1>1, <2>1, GotoMoves, ActiveKept
<1>4. CASE job[w].mode = "revoked"
  <2>1. Done(w) /\ SetActive(w, S(w), NotActive)
    BY <1>4 DEF Throw
  <2>2. QED
    BY <2>1, DoneMoves, SetActiveMoves, NotActiveType
<1>5. CASE job[w].mode = "claimed"
  <2>1. Done(w) /\ active' = active
    BY <1>5 DEF Throw
  <2>2. QED
    BY <2>1, DoneMoves, ActiveKept
<1>6. QED
  BY <1>2, <1>3, <1>4, <1>5

\* Where reconcile may go.
LEMMA BranchType ==
    ASSUME NEW row, NEW reclaimed
    PROVE  Branch(row, reclaimed) \subseteq Pcs /\ TeardownPc(row) \in Pcs \ {"idle"}
<1>1. TeardownPc(row) \in {"toTerminating", "deletePod", "toTerminated"}
  BY DEF TeardownPc
<1>2. Branch(row, reclaimed) \subseteq {"revokeExpired", "staleGet", "create", "toReady", "idle"} \cup {TeardownPc(row)}
  BY DEF Branch
<1>3. QED
  BY <1>1, <1>2 DEF Pcs

\* reconcile takes up a row that exists.
LEMMA ReconcileMoves ==
    ASSUME ReconcilerInv, NEW w \in Workers, NEW s \in Sessions, NEW mode \in {"claimed", "active", "revoked"},
           NEW row \in Session, NEW reclaimed, Reconcile(w, s, mode, row, reclaimed),
           sess'[s].observed # "None", Owns(bindings', row.uid, s)
    PROVE  JobsMove /\ ActiveMoves
<1>1. PICK pc \in Branch(row, reclaimed) :
          IF pc = "idle" THEN Done(w) /\ SetActive(w, s, FenceOf(row))
          ELSE /\ job' = [job EXCEPT ![w] = [pc |-> pc, session |-> s, mode |-> mode,
                              base |-> FenceOf(row), row |-> row, uid |-> NoUid]]
               /\ UNCHANGED active
  BY DEF Reconcile
<1>2. FenceOf(row) \in FenceType
  BY DEF FenceOf, FenceType, Session
<1>3. CASE pc = "idle"
  <2>1. Done(w) /\ SetActive(w, s, FenceOf(row))
    BY <1>1, <1>3
  <2>2. JobsMove
    BY <2>1, DoneMoves
  <2>3. QED
    BY <1>2, <2>1, <2>2, SetActiveMoves
<1>4. CASE pc # "idle"
  <2>1. PICK j : j = [pc |-> pc, session |-> s, mode |-> mode, base |-> FenceOf(row), row |-> row, uid |-> NoUid]
    OBVIOUS
  <2>2. pc \in Pcs
    BY BranchType
  <2>3. j \in Job /\ j.session = s /\ j.row = row /\ j.uid = NoUid
    BY <1>2, <2>1, <2>2 DEF Job
  <2>4. JobFits(j, sess', bindings')
    BY <2>3 DEF JobFits, Owns
  <2>5. job' = [job EXCEPT ![w] = j] /\ active' = active
    BY <1>1, <1>4, <2>1
  <2>6. QED
    BY <2>3, <2>4, <2>5, OneJobMoves, ActiveKept
<1>5. QED
  BY <1>3, <1>4

\* The job takes up the row that a call returned.
LEMMA GotoWithMoves ==
    ASSUME ReconcilerInv, NEW w \in Workers, NEW pc \in Pcs, NEW row \in Session, GotoWith(w, pc, row),
           job[w].pc # "idle", AuthorityMoves, PodsMove, Owns(bindings', row.uid, S(w))
    PROVE  JobsMove
<1>1. job[w] \in Job /\ JobFits(job[w], sess, bindings)
  BY DEF ReconcilerInv, ReconcilerTypeOK
<1>2. PICK j : j = [job[w] EXCEPT !.pc = pc, !.row = row]
  OBVIOUS
<1>3. j \in Job /\ j.session = job[w].session /\ j.row = row /\ j.uid = job[w].uid
  BY <1>1, <1>2 DEF Job
<1>4. JobFits(j, sess', bindings')
  BY <1>1, <1>3, RowsRemain DEF JobFits, Owns, PodsMove, S
<1>5. job' = [job EXCEPT ![w] = j]
  BY <1>2 DEF GotoWith
<1>6. QED
  BY <1>3, <1>4, <1>5, OneJobMoves

\* A step that leaves the authority alone.
LEMMA AuthorityKept == ASSUME ReconcilerInv, UNCHANGED vars PROVE AuthorityMoves
BY DEF vars, AuthorityMoves

\* A step that leaves the Pods alone.
LEMMA PodsKept == ASSUME ReconcilerInv, UNCHANGED podVars PROVE PodsMove
BY DEF ReconcilerInv, ReconcilerTypeOK, PodsMove, podVars

\* The rows after a step, and whose their UIDs are.
LEMMA RowsAfter ==
    ASSUME ReconcilerInv, AuthorityMoves, PodsMove, NEW s \in Sessions
    PROVE  sess'[s] \in Session /\ Owns(bindings', sess'[s].uid, s)
<1>1. sess'[s] \in Session
  BY DEF AuthorityMoves, Moves, SessionsMove, vars, ReconcilerInv, ShellInv, TypeOK
<1>2. Owns(bindings, sess'[s].uid, s)
  BY DEF ReconcilerInv, AuthorityMoves
<1>3. QED
  BY <1>1, <1>2 DEF Owns, PodsMove
-----------------------------------------------------------------------------
(* tick.                                                                    *)

\* A step that begins at w and leaves the scene alone.
WorkerMoves == AuthorityMoves /\ JobsMove /\ ActiveMoves /\ PodsMove

\* claim_shell_sessions, and reconcile with the row it returned.
LEMMA ClaimWorkStep ==
    ASSUME ReconcilerInv, NEW w \in Workers, ClaimWork(w)
    PROVE  WorkerMoves
<1>1. PICK s \in Sessions : ClaimSession(w, s) /\ Reconcile(w, s, "claimed", sess'[s], TRUE) /\ UNCHANGED podVars
  BY DEF ClaimWork
<1>2. AuthorityMoves /\ PodsMove
  BY <1>1, FencedCalls, PodsKept
<1>3. sess[s].observed # "None"
  BY <1>1 DEF ClaimSession, Claimable
<1>4. PICK row : row = sess'[s]
  OBVIOUS
<1>5. row \in Session /\ Owns(bindings', row.uid, s) /\ sess'[s].observed # "None"
  BY <1>2, <1>3, <1>4, RowsAfter, RowsRemain
<1>6. Reconcile(w, s, "claimed", row, TRUE)
  BY <1>1, <1>4
<1>7. QED
  BY <1>2, <1>5, <1>6, ReconcileMoves DEF WorkerMoves

\* The heartbeat of an active session.
LEMMA HeartbeatWorkStep ==
    ASSUME ReconcilerInv, NEW w \in Workers, HeartbeatWork(w)
    PROVE  WorkerMoves
<1>1. PICK s \in Sessions :
        LET f == active[w][s]
            here == [Idle EXCEPT !.session = s, !.mode = "active", !.row = sess[s]] IN
        /\ f # NotActive
        /\ \/ /\ job' = [job EXCEPT ![w] = [here EXCEPT !.pc = "catch"]]
              /\ UNCHANGED <<vars, active>>
           \/ /\ SetActive(w, s, NotActive)
              /\ UNCHANGED <<vars, job>>
           \/ /\ Heartbeat(w, s, f.gen, f.epoch, f.rev)
              /\ job' = [job EXCEPT ![w] = [here EXCEPT !.pc = "inspect"]]
              /\ UNCHANGED active
        /\ UNCHANGED podVars
  BY DEF HeartbeatWork
<1>2. PodsMove /\ sess[s].observed # "None" /\ sess[s] \in Session
  BY <1>1, PodsKept DEF ReconcilerInv, ShellInv, TypeOK
<1>3. AuthorityMoves
  BY <1>1, <1>2, FencedCalls, AuthorityKept
<1>4. PICK here : here = [Idle EXCEPT !.session = s, !.mode = "active", !.row = sess[s]]
  OBVIOUS
<1>5. Idle \in Job
  BY NoRowType DEF Idle, Job, Pcs, NotActive, FenceType
<1>6. here \in Job /\ here.session = s /\ here.row = sess[s] /\ here.uid = NoUid
  BY <1>2, <1>4, <1>5 DEF Job, Idle
<1>7. ASSUME NEW pc \in {"catch", "inspect"}, job' = [job EXCEPT ![w] = [here EXCEPT !.pc = pc]]
      PROVE  JobsMove
  <2>1. PICK j : j = [here EXCEPT !.pc = pc]
    OBVIOUS
  <2>2. j \in Job /\ j.session = s /\ j.row = sess[s] /\ j.uid = NoUid
    BY <1>6, <2>1 DEF Job, Pcs
  <2>3. Owns(bindings, sess[s].uid, s)
    BY DEF ReconcilerInv
  <2>4. JobFits(j, sess', bindings')
    BY <1>2, <1>3, <2>2, <2>3, RowsRemain DEF JobFits, Owns, PodsMove
  <2>5. QED
    BY <1>7, <2>1, <2>2, <2>4, OneJobMoves
<1>8. CASE SetActive(w, s, NotActive) /\ job' = job
  <2>1. JobsMove
    BY <1>8 DEF JobsMove, ReconcilerInv, ReconcilerTypeOK
  <2>2. QED
    BY <1>2, <1>3, <1>8, <2>1, SetActiveMoves, NotActiveType DEF WorkerMoves
<1>9. CASE /\ active' = active
           /\ \E pc \in {"catch", "inspect"} : job' = [job EXCEPT ![w] = [here EXCEPT !.pc = pc]]
  BY <1>2, <1>3, <1>7, <1>9, ActiveKept DEF WorkerMoves
<1>10. QED
  BY <1>1, <1>4, <1>8, <1>9

\* What a job at work knows.
LEMMA JobFacts ==
    ASSUME ReconcilerInv, NEW w \in Workers, job[w].pc # "idle"
    PROVE  /\ S(w) \in Sessions /\ sess[S(w)].observed # "None" /\ job[w] \in Job
           /\ Owns(bindings, job[w].row.uid, S(w)) /\ Owns(bindings, job[w].uid, S(w))
           /\ job[w].row \in Session /\ job[w].row.uid \in Uids \cup {NoUid} /\ job[w].uid \in Uids \cup {NoUid}
           /\ job[w].base \in FenceType /\ job[w].base.rev \in Nat
           /\ job[w].mode \in {"claimed", "active", "revoked"}
<1>1. job[w] \in Job /\ JobFits(job[w], sess, bindings)
  BY DEF ReconcilerInv, ReconcilerTypeOK
<1>2. job[w].row \in Session /\ job[w].base \in FenceType /\ job[w].uid \in Uids \cup {NoUid}
      /\ job[w].mode \in {"claimed", "active", "revoked"}
  BY <1>1 DEF Job
<1>3. job[w].row.uid \in Uids \cup {NoUid} /\ job[w].base.rev \in Nat
  BY <1>2 DEF Session, FenceType
<1>4. QED
  BY <1>1, <1>2, <1>3 DEF JobFits, S

\* Forgetting the session.
LEMMA ForgetMoves ==
    ASSUME ReconcilerInv, NEW w \in Workers, Done(w), NEW s, SetActive(w, s, NotActive)
    PROVE  JobsMove /\ ActiveMoves
BY DoneMoves, SetActiveMoves, NotActiveType

\* The inspection that follows a heartbeat.
LEMMA InspectStep ==
    ASSUME ReconcilerInv, NEW w \in Workers, Inspect(w)
    PROVE  WorkerMoves
<1>1. /\ job[w].pc # "idle" /\ UNCHANGED <<vars, podVars>>
      /\ \/ Reconcile(w, S(w), "active", sess[S(w)], FALSE)
         \/ Done(w) /\ SetActive(w, S(w), NotActive)
  BY DEF Inspect, At
<1>2. AuthorityMoves /\ PodsMove
  BY <1>1, AuthorityKept, PodsKept
<1>3. /\ S(w) \in Sessions /\ sess[S(w)].observed # "None" /\ sess[S(w)] \in Session
      /\ Owns(bindings, sess[S(w)].uid, S(w))
  BY <1>1, JobFacts DEF ReconcilerInv, ShellInv, TypeOK
<1>4. Owns(bindings', sess[S(w)].uid, S(w)) /\ sess'[S(w)].observed # "None"
  BY <1>1, <1>3 DEF podVars, vars
<1>5. QED
  BY <1>1, <1>2, <1>3, <1>4, ReconcileMoves, ForgetMoves DEF WorkerMoves

\* The catch of tick: the authority of the session is revoked.
LEMMA CatchStep ==
    ASSUME ReconcilerInv, NEW w \in Workers, Catch(w)
    PROVE  WorkerMoves
<1>1. job[w].pc # "idle" /\ UNCHANGED podVars
  BY DEF Catch, At
<1>2. S(w) \in Sessions /\ sess[S(w)].observed # "None" /\ PodsMove
  BY <1>1, JobFacts, PodsKept
<1>3. CASE Done(w) /\ SetActive(w, S(w), NotActive) /\ UNCHANGED vars
  BY <1>2, <1>3, ForgetMoves, AuthorityKept DEF WorkerMoves
<1>4. CASE /\ RevokeAuthority(w, S(w), active[w][S(w)].gen, active[w][S(w)].epoch)
           /\ Reconcile(w, S(w), "revoked", sess'[S(w)], FALSE)
  <2>1. AuthorityMoves
    BY <1>2, <1>4, FencedCalls
  <2>2. PICK row : row = sess'[S(w)]
    OBVIOUS
  <2>3. row \in Session /\ Owns(bindings', row.uid, S(w)) /\ sess'[S(w)].observed # "None"
    BY <1>2, <2>1, <2>2, RowsAfter, RowsRemain
  <2>4. Reconcile(w, S(w), "revoked", row, FALSE)
    BY <1>4, <2>2
  <2>5. QED
    BY <1>2, <2>1, <2>3, <2>4, ReconcileMoves DEF WorkerMoves
<1>5. QED
  BY <1>3, <1>4 DEF Catch

-----------------------------------------------------------------------------
(* reconcile.                                                               *)

\* An exception that changes nothing but the job.
LEMMA ThrowStep ==
    ASSUME ReconcilerInv, NEW w \in Workers, Throw(w), job[w].pc # "idle", UNCHANGED vars, PodsMove
    PROVE  WorkerMoves
BY AuthorityKept, ThrowMoves DEF WorkerMoves

\* A call of the authority that answers with the row, which the job takes up.
LEMMA TakeUp ==
    ASSUME ReconcilerInv, NEW w \in Workers, job[w].pc # "idle", AuthorityMoves, UNCHANGED <<podVars, active>>,
           GotoWith(w, TeardownPc(sess'[S(w)]), sess'[S(w)])
    PROVE  WorkerMoves
<1>1. S(w) \in Sessions /\ PodsMove /\ ActiveMoves
  BY JobFacts, PodsKept, ActiveKept
<1>2. PICK row : row = sess'[S(w)]
  OBVIOUS
<1>3. row \in Session /\ Owns(bindings', row.uid, S(w))
  BY <1>1, <1>2, RowsAfter
<1>4. GotoWith(w, TeardownPc(row), row) /\ TeardownPc(row) \in Pcs
  BY <1>2, BranchType
<1>5. QED
  BY <1>1, <1>3, <1>4, GotoWithMoves DEF WorkerMoves

\* The revocation of a session whose time is over.
LEMMA RevokeExpiredStep ==
    ASSUME ReconcilerInv, NEW w \in Workers, RevokeExpired(w)
    PROVE  WorkerMoves
<1>1. job[w].pc # "idle" /\ UNCHANGED podVars
  BY DEF RevokeExpired, At
<1>2. S(w) \in Sessions /\ sess[S(w)].observed # "None" /\ PodsMove
  BY <1>1, JobFacts, PodsKept
<1>3. CASE Throw(w) /\ UNCHANGED vars
  BY <1>1, <1>2, <1>3, ThrowStep
<1>4. CASE /\ RevokeAuthority(w, S(w), job[w].base.gen, job[w].base.epoch)
           /\ GotoWith(w, TeardownPc(sess'[S(w)]), sess'[S(w)])
           /\ UNCHANGED active
  <2>1. AuthorityMoves
    BY <1>2, <1>4, FencedCalls
  <2>2. QED
    BY <1>1, <1>4, <2>1, TakeUp
<1>5. QED
  BY <1>3, <1>4 DEF RevokeExpired

\* A transition of a job at work.
LEMMA DoMoves ==
    ASSUME ReconcilerInv, NEW w \in Workers, job[w].pc # "idle", NEW from, NEW next \in Observed, NEW uid,
           uid \in {job[w].uid, job[w].row.uid}, Do(w, from, next, uid)
    PROVE  AuthorityMoves
<1>1. /\ S(w) \in Sessions /\ sess[S(w)].observed # "None" /\ uid \in Uids \cup {NoUid}
      /\ Owns(bindings, uid, S(w)) /\ job[w].base.rev \in Nat
  BY JobFacts
<1>2. Transit(w, S(w), job[w].base.gen, job[w].base.epoch, from, next, job[w].base.rev, uid)
  BY DEF Do
<1>3. QED
  BY <1>1, <1>2, TransitCalls

\* The teardown takes the session to Terminating.
LEMMA ToTerminatingStep ==
    ASSUME ReconcilerInv, NEW w \in Workers, ToTerminating(w)
    PROVE  WorkerMoves
<1>1. job[w].pc # "idle" /\ UNCHANGED podVars /\ "Terminating" \in Observed
  BY DEF ToTerminating, At, Observed
<1>2. PodsMove
  BY <1>1, PodsKept
<1>3. CASE Throw(w) /\ UNCHANGED vars
  BY <1>1, <1>2, <1>3, ThrowStep
<1>4. CASE /\ Do(w, job[w].row.observed, "Terminating", job[w].row.uid)
           /\ GotoWith(w, TeardownPc(sess'[S(w)]), sess'[S(w)])
           /\ UNCHANGED active
  <2>1. AuthorityMoves
    BY <1>1, <1>4, DoMoves
  <2>2. QED
    BY <1>1, <1>4, <2>1, TakeUp
<1>5. QED
  BY <1>3, <1>4 DEF ToTerminating

\* The teardown ends, and the session is forgotten.
LEMMA ToTerminatedStep ==
    ASSUME ReconcilerInv, NEW w \in Workers, ToTerminated(w)
    PROVE  WorkerMoves
<1>1. job[w].pc # "idle" /\ UNCHANGED podVars /\ "Terminated" \in Observed
  BY DEF ToTerminated, At, Observed
<1>2. PodsMove
  BY <1>1, PodsKept
<1>3. CASE Throw(w) /\ UNCHANGED vars
  BY <1>1, <1>2, <1>3, ThrowStep
<1>4. CASE /\ Do(w, "Terminating", "Terminated", job[w].row.uid)
           /\ Done(w) /\ SetActive(w, S(w), NotActive)
  <2>1. AuthorityMoves
    BY <1>1, <1>4, DoMoves
  <2>2. QED
    BY <1>2, <1>4, <2>1, ForgetMoves DEF WorkerMoves
<1>5. QED
  BY <1>3, <1>4 DEF ToTerminated

\* A Pod is removed.
LEMMA PodGoes ==
    ASSUME ReconcilerInv, NEW s, pod' = [pod EXCEPT ![s] = NoPod], bindings' = bindings
    PROVE  PodsMove
BY DEF ReconcilerInv, ReconcilerTypeOK, PodsMove

\* A deletion with a UID precondition.
LEMMA DeletePodStep ==
    ASSUME ReconcilerInv, NEW w \in Workers, job[w].pc # "idle", NEW uid, NEW next \in Pcs, DeletePod(w, uid, next)
    PROVE  WorkerMoves
<1>1. UNCHANGED vars /\ bindings' = bindings
  BY DEF DeletePod
<1>2. AuthorityMoves
  BY <1>1, AuthorityKept
<1>3. CASE Throw(w) /\ UNCHANGED pod
  <2>1. PodsMove
    BY <1>1, <1>3, PodsKept DEF podVars
  <2>2. QED
    BY <1>1, <1>3, <2>1, ThrowStep
<1>4. CASE pod' = [pod EXCEPT ![S(w)] = NoPod] /\ Goto(w, next) /\ active' = active
  <2>1. PodsMove
    BY <1>1, <1>4, PodGoes
  <2>2. QED
    BY <1>2, <1>4, <2>1, GotoMoves, ActiveKept DEF WorkerMoves
<1>5. QED
  BY <1>3, <1>4 DEF DeletePod

\* The deletions of a teardown, of a stale runtime and after a collision.
LEMMA DeletionSteps ==
    ASSUME ReconcilerInv, NEW w \in Workers, TeardownDeletes(w) \/ StaleDelete(w) \/ CollisionDelete(w)
    PROVE  WorkerMoves
<1>1. job[w].pc # "idle" /\ \E uid : \E next \in {"toTerminated", "reproject", "createAgain"} : DeletePod(w, uid, next)
  BY DEF TeardownDeletes, StaleDelete, CollisionDelete, At
<1>2. {"toTerminated", "reproject", "createAgain"} \subseteq Pcs
  BY DEF Pcs
<1>3. QED
  BY <1>1, <1>2, DeletePodStep

\* A stale runtime is looked up.
LEMMA StaleGetStep ==
    ASSUME ReconcilerInv, NEW w \in Workers, StaleGet(w)
    PROVE  WorkerMoves
<1>1. job[w].pc # "idle" /\ UNCHANGED <<vars, podVars>> /\ "reproject" \in Pcs /\ "staleDelete" \in Pcs
  BY DEF StaleGet, At, Pcs
<1>2. AuthorityMoves /\ PodsMove
  BY <1>1, AuthorityKept, PodsKept
<1>3. \/ Throw(w)
      \/ active' = active /\ (Goto(w, "reproject") \/ Goto(w, "staleDelete"))
  BY DEF StaleGet
<1>4. QED
  BY <1>1, <1>2, <1>3, ThrowMoves, GotoMoves, ActiveKept DEF WorkerMoves

\* The session gets a new generation, and reconcile goes on with it.
LEMMA ReprojectStaleStep ==
    ASSUME ReconcilerInv, NEW w \in Workers, ReprojectStale(w)
    PROVE  WorkerMoves
<1>1. job[w].pc # "idle" /\ UNCHANGED podVars
  BY DEF ReprojectStale, At
<1>2. S(w) \in Sessions /\ sess[S(w)].observed # "None" /\ PodsMove /\ job[w].mode \in {"claimed", "active", "revoked"}
  BY <1>1, JobFacts, PodsKept
<1>3. CASE Throw(w) /\ UNCHANGED vars
  BY <1>1, <1>2, <1>3, ThrowStep
<1>4. CASE /\ ReprojectRuntime(w, S(w), job[w].base.gen, job[w].base.epoch, job[w].row.uid)
           /\ Reconcile(w, S(w), job[w].mode, sess'[S(w)], FALSE)
  <2>1. AuthorityMoves
    BY <1>2, <1>4, FencedCalls
  <2>2. PICK row : row = sess'[S(w)]
    OBVIOUS
  <2>3. row \in Session /\ Owns(bindings', row.uid, S(w)) /\ sess'[S(w)].observed # "None"
    BY <1>2, <2>1, <2>2, RowsAfter, RowsRemain
  <2>4. Reconcile(w, S(w), job[w].mode, row, FALSE)
    BY <1>4, <2>2
  <2>5. QED
    BY <1>2, <2>1, <2>3, <2>4, ReconcileMoves DEF WorkerMoves
<1>5. QED
  BY <1>3, <1>4 DEF ReprojectStale
\* A Pod is created under a UID that no Pod had before.
LEMMA PodComes ==
    ASSUME ReconcilerInv, NEW w \in Workers, job[w].pc # "idle", NEW uid \in Uids \ UsedUids, NewPod(w, uid)
    PROVE  PodsMove /\ Owns(bindings', uid, S(w))
<1>1. S(w) \in Sessions /\ job[w].row \in Session
  BY JobFacts
<1>2. PICK b : b = [session |-> S(w), uid |-> uid, gen |-> job[w].row.gen, epoch |-> job[w].row.epoch]
  OBVIOUS
<1>3. b \in Binding /\ b.uid = uid /\ b.session = S(w)
  BY <1>1, <1>2 DEF Binding, Session
<1>4. pod' = [pod EXCEPT ![S(w)] = b] /\ bindings' = bindings \cup {b}
  BY <1>2 DEF NewPod
<1>5. \A c \in bindings : c.uid # uid
  BY DEF UsedUids
<1>6. pod \in [Sessions -> Binding \cup {NoPod}] /\ bindings \subseteq Binding
  BY DEF ReconcilerInv, ReconcilerTypeOK
<1>7. \A c, d \in bindings' : c.uid = d.uid => c = d
  BY <1>3, <1>4, <1>5 DEF ReconcilerInv
<1>8. \A s \in Sessions : pod'[s] = pod[s] \/ (pod'[s] \in bindings' /\ pod'[s].session = s)
  BY <1>1, <1>3, <1>4, <1>6
<1>9. pod' \in [Sessions -> Binding \cup {NoPod}] /\ bindings' \subseteq Binding
  BY <1>3, <1>4, <1>6
<1>10. QED
  BY <1>3, <1>4, <1>7, <1>8, <1>9 DEF PodsMove, Owns

\* The job keeps the UID of a Pod of its session.
LEMMA JobKeepsUid ==
    ASSUME ReconcilerInv, NEW w \in Workers, job[w].pc # "idle", NEW pc \in Pcs, NEW uid \in Uids,
           job' = [job EXCEPT ![w].pc = pc, ![w].uid = uid],
           AuthorityMoves, PodsMove, Owns(bindings', uid, S(w))
    PROVE  JobsMove
<1>1. job[w] \in Job /\ JobFits(job[w], sess, bindings) /\ job \in [Workers -> Job]
  BY DEF ReconcilerInv, ReconcilerTypeOK
<1>2. PICK j : j = [job[w] EXCEPT !.pc = pc, !.uid = uid]
  OBVIOUS
<1>3. j \in Job /\ j.session = job[w].session /\ j.row = job[w].row /\ j.uid = uid
  BY <1>1, <1>2 DEF Job
<1>4. JobFits(j, sess', bindings')
  BY <1>1, <1>3, RowsRemain DEF JobFits, Owns, PodsMove, S
<1>5. job' = [job EXCEPT ![w] = j]
  BY <1>1, <1>2
<1>6. QED
  BY <1>3, <1>4, <1>5, OneJobMoves

\* POST of the Pod, or the name is taken.
LEMMA CreatePodStep ==
    ASSUME ReconcilerInv, NEW w \in Workers, CreatePod(w)
    PROVE  WorkerMoves
<1>1. job[w].pc # "idle" /\ UNCHANGED vars /\ "toProvisioning" \in Pcs /\ "collisionGet" \in Pcs
  BY DEF CreatePod, At, Pcs
<1>2. AuthorityMoves
  BY <1>1, AuthorityKept
<1>3. ASSUME NEW uid \in Uids \ UsedUids, NewPod(w, uid),
             job' = [job EXCEPT ![w].pc = "toProvisioning", ![w].uid = uid], active' = active
      PROVE  WorkerMoves
  <2>1. PodsMove /\ Owns(bindings', uid, S(w))
    BY <1>1, <1>3, PodComes
  <2>2. JobsMove
    BY <1>1, <1>2, <1>3, <2>1, JobKeepsUid
  <2>3. QED
    BY <1>2, <1>3, <2>1, <2>2, ActiveKept DEF WorkerMoves
<1>4. CASE UNCHANGED podVars /\ Throw(w)
  BY <1>1, <1>4, PodsKept, ThrowStep
<1>5. CASE UNCHANGED podVars /\ Goto(w, "collisionGet") /\ active' = active
  <2>1. PodsMove /\ ActiveMoves
    BY <1>5, PodsKept, ActiveKept
  <2>2. QED
    BY <1>1, <1>2, <1>5, <2>1, GotoMoves DEF WorkerMoves
<1>6. QED
  BY <1>3, <1>4, <1>5 DEF CreatePod

\* The Pod that has the name is looked up.
LEMMA CollisionGetStep ==
    ASSUME ReconcilerInv, NEW w \in Workers, CollisionGet(w)
    PROVE  WorkerMoves
<1>1. job[w].pc # "idle" /\ UNCHANGED <<vars, podVars>> /\ "collisionDelete" \in Pcs
  BY DEF CollisionGet, At, Pcs
<1>2. AuthorityMoves /\ PodsMove /\ S(w) \in Sessions
  BY <1>1, AuthorityKept, PodsKept, JobFacts
<1>3. CASE Throw(w)
  BY <1>1, <1>2, <1>3, ThrowStep
<1>4. CASE /\ pod[S(w)] # NoPod /\ job' = [job EXCEPT ![w].pc = "collisionDelete", ![w].uid = pod[S(w)].uid]
           /\ active' = active
  <2>1. PICK uid : uid = pod[S(w)].uid
    OBVIOUS
  <2>2. pod[S(w)] \in bindings /\ pod[S(w)].session = S(w) /\ pod[S(w)] \in Binding
    BY <1>2, <1>4 DEF ReconcilerInv, ReconcilerTypeOK
  <2>3. uid \in Uids /\ Owns(bindings', uid, S(w))
    BY <1>1, <2>1, <2>2 DEF Binding, Owns, podVars
  <2>4. JobsMove
    BY <1>1, <1>2, <1>4, <2>1, <2>3, JobKeepsUid
  <2>5. QED
    BY <1>2, <1>4, <2>4, ActiveKept DEF WorkerMoves
<1>5. QED
  BY <1>3, <1>4 DEF CollisionGet

\* The transition that ends a pass.
LEMMA AdvanceStep ==
    ASSUME ReconcilerInv, NEW w \in Workers, ToProvisioning(w) \/ ToReady(w)
    PROVE  WorkerMoves
<1>1. PICK from, next, uid : /\ next \in {"Provisioning", "Ready"} /\ uid \in {job[w].uid, job[w].row.uid}
                             /\ job[w].pc # "idle" /\ Advance(w, from, next, uid)
  BY DEF ToProvisioning, ToReady, At
<1>2. UNCHANGED podVars /\ PodsMove /\ next \in Observed /\ S(w) \in Sessions /\ sess[S(w)].observed # "None"
  BY <1>1, PodsKept, JobFacts DEF Advance, Observed
<1>3. CASE Throw(w) /\ UNCHANGED vars
  BY <1>1, <1>2, <1>3, ThrowStep
<1>4. CASE Do(w, from, next, uid) /\ Done(w) /\ SetActive(w, S(w), FenceOf(sess'[S(w)]))
  <2>1. AuthorityMoves
    BY <1>1, <1>2, <1>4, DoMoves
  <2>2. PICK row : row = sess'[S(w)]
    OBVIOUS
  <2>3. row \in Session /\ sess'[S(w)].observed # "None"
    BY <1>2, <2>1, <2>2, RowsAfter, RowsRemain
  <2>4. FenceOf(row) \in FenceType /\ SetActive(w, S(w), FenceOf(row))
    BY <1>4, <2>2, <2>3 DEF FenceOf, FenceType, Session
  <2>5. ActiveMoves
    BY <2>3, <2>4, SetActiveMoves
  <2>6. QED
    BY <1>2, <1>4, <2>1, <2>5, DoneMoves DEF WorkerMoves
<1>5. QED
  BY <1>1, <1>3, <1>4 DEF Advance

\* A Kubernetes request times out, with or without its effect.
LEMMA KubeTimesOutStep ==
    ASSUME ReconcilerInv, NEW w \in Workers, KubeTimesOut(w)
    PROVE  WorkerMoves
<1>1. job[w].pc # "idle" /\ UNCHANGED vars /\ Throw(w)
  BY DEF KubeTimesOut, KubePcs
<1>2. PodsMove
  <2>1. \/ UNCHANGED podVars
        \/ \E uid \in Uids \ UsedUids : NewPod(w, uid)
        \/ pod' = [pod EXCEPT ![S(w)] = NoPod] /\ bindings' = bindings
    BY DEF KubeTimesOut
  <2>2. QED
    BY <1>1, <2>1, PodsKept, PodComes, PodGoes
<1>3. QED
  BY <1>1, <1>2, ThrowStep

\* The process of a worker is replaced.
LEMMA CrashStep ==
    ASSUME ReconcilerInv, NEW w \in Workers, Crash(w)
    PROVE  WorkerMoves
<1>1. Done(w) /\ UNCHANGED <<vars, podVars>> /\ active' = [active EXCEPT ![w] = [s \in Sessions |-> NotActive]]
  BY DEF Crash
<1>2. active \in [Workers -> [Sessions -> FenceType]]
  BY DEF ReconcilerInv, ReconcilerTypeOK
<1>3. [s \in Sessions |-> NotActive] \in [Sessions -> FenceType]
  BY NotActiveType
<1>4. ActiveMoves
  BY <1>1, <1>2, <1>3 DEF ActiveMoves
<1>5. QED
  BY <1>1, <1>4, DoneMoves, AuthorityKept, PodsKept DEF WorkerMoves

-----------------------------------------------------------------------------
(* The rest of the system.                                                  *)

\* The workers see nothing of it.
LEMMA WorkersRest ==
    ASSUME ReconcilerInv, UNCHANGED <<job, active, podVars>>
    PROVE  JobsMove /\ ActiveMoves /\ PodsMove
<1>1. JobsMove
  BY DEF ReconcilerInv, ReconcilerTypeOK, JobsMove
<1>2. QED
  BY <1>1, ActiveKept, PodsKept

\* A runtime registers or authorizes a terminal with the binding it was created
\* with: it is let in only where that binding is the one of the session.
LEMMA RuntimeCallsStep ==
    ASSUME ReconcilerInv, RuntimeCalls
    PROVE  WorkerMoves
<1>1. JobsMove /\ ActiveMoves /\ PodsMove
  BY WorkersRest DEF RuntimeCalls
<1>2. PICK b \in bindings : \/ RegisterRuntime(b.session, b.uid, b.gen, b.epoch)
                            \/ \E t \in Tickets : AuthorizeRuntimeAttach(t, b.uid, b.gen, b.epoch)
  BY DEF RuntimeCalls
<1>3. b \in Binding /\ b.session \in Sessions /\ b.uid \in Uids /\ b.uid # NoUid
      /\ b = [session |-> b.session, uid |-> b.uid, gen |-> b.gen, epoch |-> b.epoch]
  BY NamesAssumption DEF ReconcilerInv, ReconcilerTypeOK, Binding
<1>4. ShellInv /\ sess \in [Sessions -> Session] /\ tickets \in [Tickets -> Ticket]
  BY DEF ReconcilerInv, ShellInv, TypeOK
<1>5. CASE RegisterRuntime(b.session, b.uid, b.gen, b.epoch)
  <2>1. Moves
    BY <1>3, <1>4, <1>5, RegisterRuntimeMoves
  <2>2. PICK row : row = [sess[b.session] EXCEPT !.registered = TRUE]
    OBVIOUS
  <2>3. row.uid = sess[b.session].uid
    BY <1>3, <1>4, <2>2 DEF Session
  <2>4. sess' = [sess EXCEPT ![b.session] = row] /\ tickets' = tickets
    BY <1>5, <2>2 DEF RegisterRuntime
  <2>5. AuthorityMoves
    BY <1>3, <2>1, <2>3, <2>4, RowStep
  <2>6. QED
    BY <1>1, <2>5 DEF WorkerMoves
<1>6. ASSUME NEW t \in Tickets, AuthorizeRuntimeAttach(t, b.uid, b.gen, b.epoch)
      PROVE  WorkerMoves
  <2>1. Moves
    BY <1>3, <1>4, <1>6, AuthorizeRuntimeAttachMoves
  <2>2. PICK row : row = [tickets[t] EXCEPT !.by = b.uid]
    OBVIOUS
  <2>3. tickets[t] \in Ticket /\ tickets[t].session \in Sessions
    BY <1>4, <1>6, TicketFacts DEF AuthorizeRuntimeAttach
  <2>4. /\ row.session = tickets[t].session /\ row.by = b.uid /\ row.gen = tickets[t].gen
        /\ row.epoch = tickets[t].epoch
    BY <2>2, <2>3 DEF Ticket
  <2>5. tickets' = [tickets EXCEPT ![t] = row] /\ sess' = sess
    BY <1>6, <2>2 DEF AuthorizeRuntimeAttach
  <2>6. /\ sess[tickets[t].session].uid = b.uid /\ tickets[t].gen = b.gen /\ tickets[t].epoch = b.epoch
    BY <1>6 DEF AuthorizeRuntimeAttach, BoundRuntime, SameFence
  <2>7. b.session = tickets[t].session
    <3>1. Owns(bindings, b.uid, tickets[t].session)
      BY <2>3, <2>6 DEF ReconcilerInv
    <3>2. PICK c \in bindings : c.uid = b.uid /\ c.session = tickets[t].session
      BY <1>3, <3>1 DEF Owns
    <3>3. QED
      BY <3>2 DEF ReconcilerInv
  <2>8. BoundTicket(t)' = b
    BY <1>3, <1>4, <2>4, <2>5, <2>6, <2>7 DEF BoundTicket
  <2>9. AuthorityMoves
    BY <1>4, <2>1, <2>5, <2>8 DEF AuthorityMoves
  <2>10. QED
    BY <1>1, <2>9 DEF WorkerMoves
<1>7. QED
  BY <1>2, <1>5, <1>6

\* A ticket that no runtime authorized yet is issued or consumed.
LEMMA TicketStep ==
    ASSUME ReconcilerInv, Moves, NEW t \in Tickets, NEW row, row.by = NoUid \/ (row.by = tickets[t].by
           /\ row.session = tickets[t].session /\ row.gen = tickets[t].gen /\ row.epoch = tickets[t].epoch),
           tickets' = [tickets EXCEPT ![t] = row], sess' = sess
    PROVE  AuthorityMoves
<1>1. tickets \in [Tickets -> Ticket]
  BY DEF ReconcilerInv, ShellInv, TypeOK
<1>2. QED
  BY <1>1 DEF AuthorityMoves

\* A disable records an intent in every row and expires tickets; an enable writes neither.
LEMMA FeatureCalls ==
    ASSUME ReconcilerInv, OperatorDisables \/ ReleaseEnables
    PROVE  AuthorityMoves
<1>1. ShellInv /\ sess \in [Sessions -> Session]
  BY DEF ReconcilerInv, ShellInv, TypeOK
<1>2. Moves
  BY <1>1, ApplyFeatureStateMoves DEF OperatorDisables, ReleaseEnables
<1>3. tickets' = tickets \/ \E which : tickets' = Expire(which)
  BY DEF OperatorDisables, ReleaseEnables, ApplyFeatureState
<1>4. \/ sess' = sess
      \/ sess' = [s \in Sessions |-> IF sess[s].observed \in {"None", "Terminated"} THEN sess[s]
                                     ELSE [sess[s] EXCEPT !.desired = "Terminated"]]
  BY DEF OperatorDisables, ReleaseEnables, ApplyFeatureState
<1>5. \A s \in Sessions : sess'[s].uid = sess[s].uid
  <2>1. \A s \in Sessions : [sess[s] EXCEPT !.desired = "Terminated"].uid = sess[s].uid
    BY <1>1 DEF Session
  <2>2. QED
    BY <1>4, <2>1
<1>6. QED
  BY <1>1, <1>2, <1>3, <1>5, TicketsKeep DEF AuthorityMoves

\* Users, the browser and the operator.
LEMMA UsersStep ==
    ASSUME ReconcilerInv, Users
    PROVE  WorkerMoves
<1>1. JobsMove /\ ActiveMoves /\ PodsMove /\ ShellInv /\ sess \in [Sessions -> Session]
  BY WorkersRest DEF Users, ReconcilerInv, ShellInv, TypeOK
<1>2. ASSUME NEW s \in Sessions, CreateSession(s)
      PROVE  AuthorityMoves
  <2>1. PICK row : row = [NoRow EXCEPT !.observed = "Pending", !.rev = Rev(s)]
    OBVIOUS
  <2>2. row.uid = NoUid
    BY <2>1 DEF NoRow
  <2>3. sess' = [sess EXCEPT ![s] = row] /\ tickets' = tickets
    BY <1>2, <2>1 DEF CreateSession
  <2>4. QED
    BY <1>1, <1>2, <2>2, <2>3, CreateSessionMoves, RowStep DEF Owns
<1>3. ASSUME NEW s \in Sessions, RequestTeardown(s)
      PROVE  AuthorityMoves
  <2>1. PICK row : row = [sess[s] EXCEPT !.desired = "Terminated", !.rev = Rev(s)]
    OBVIOUS
  <2>2. row.uid = sess[s].uid
    BY <1>1, <2>1 DEF Session
  <2>3. sess' = [sess EXCEPT ![s] = row] /\ \E which : tickets' = Expire(which)
    BY <1>3, <2>1 DEF RequestTeardown
  <2>4. QED
    BY <1>1, <1>3, <2>2, <2>3, RequestTeardownMoves, RowStep
<1>4. ASSUME \/ \E s \in Sessions : BrowserSessionEnds(s)
             \/ \E a \in Actors, attach \in BOOLEAN : PermissionChanges(a, attach)
      PROVE  AuthorityMoves
  <2>1. Moves
    BY <1>1, <1>4, BrowserSessionEndsMoves, PermissionChangesMoves
  <2>2. sess' = sess /\ tickets' = tickets
    BY <1>4 DEF BrowserSessionEnds, PermissionChanges
  <2>3. QED
    BY <2>1, <2>2, NoRowStep
<1>5. ASSUME NEW s \in Sessions, NEW t \in Tickets, IssueAttachTicket(s, t)
      PROVE  AuthorityMoves
  <2>1. PICK row : row = [NoTicket EXCEPT !.session = s, !.gen = sess[s].gen, !.epoch = sess[s].epoch,
                           !.rev = Rev(s), !.live = TRUE]
    OBVIOUS
  <2>2. row.by = NoUid
    BY <2>1 DEF NoTicket
  <2>3. tickets' = [tickets EXCEPT ![t] = row] /\ sess' = sess
    BY <1>5, <2>1 DEF IssueAttachTicket
  <2>4. QED
    BY <1>1, <1>5, <2>2, <2>3, IssueAttachTicketMoves, TicketStep
<1>6. ASSUME NEW t \in Tickets, ConsumeAttachTicket(t)
      PROVE  AuthorityMoves
  <2>1. PICK row : row = [tickets[t] EXCEPT !.consumed = TRUE]
    OBVIOUS
  <2>2. tickets[t] \in Ticket
    BY <1>1 DEF ShellInv, TypeOK
  <2>3. /\ row.by = tickets[t].by /\ row.session = tickets[t].session /\ row.gen = tickets[t].gen
        /\ row.epoch = tickets[t].epoch
    BY <2>1, <2>2 DEF Ticket
  <2>4. tickets' = [tickets EXCEPT ![t] = row] /\ sess' = sess
    BY <1>6, <2>1 DEF ConsumeAttachTicket
  <2>5. QED
    BY <1>1, <1>6, <2>3, <2>4, ConsumeAttachTicketMoves, TicketStep
<1>7. ASSUME NEW t \in Tickets, TouchActivity(t)
      PROVE  AuthorityMoves
  <2>1. PICK s : s = tickets[t].session
    OBVIOUS
  <2>2. s \in Sessions
    BY <1>1, <1>7, <2>1, TicketFacts DEF TouchActivity, NoTicket
  <2>3. PICK row : row = [sess[s] EXCEPT !.life = "live"]
    OBVIOUS
  <2>4. row.uid = sess[s].uid
    BY <1>1, <2>2, <2>3 DEF Session
  <2>5. sess' = [sess EXCEPT ![s] = row] /\ tickets' = tickets
    BY <1>7, <2>1, <2>3 DEF TouchActivity
  <2>6. QED
    BY <1>1, <1>7, <2>2, <2>4, <2>5, TouchActivityMoves, RowStep
<1>8. AuthorityMoves
  BY <1>2, <1>3, <1>4, <1>5, <1>6, <1>7, FeatureCalls DEF Users
<1>9. QED
  BY <1>1, <1>8 DEF WorkerMoves

\* Leases run out and sessions go idle.
LEMMA TimeSteps ==
    ASSUME ReconcilerInv, AnyLeaseRunsOut \/ GoesIdle
    PROVE  WorkerMoves
<1>1. JobsMove /\ ActiveMoves /\ PodsMove /\ ShellInv /\ sess \in [Sessions -> Session]
  BY WorkersRest DEF AnyLeaseRunsOut, GoesIdle, ReconcilerInv, ShellInv, TypeOK
<1>2. ASSUME NEW s \in Sessions, LeaseRunsOut(s) \/ LastLeaseRunsOut(s)
      PROVE  AuthorityMoves
  <2>1. PICK row : row = [sess[s] EXCEPT !.leased = FALSE]
    OBVIOUS
  <2>2. row.uid = sess[s].uid
    BY <1>1, <2>1 DEF Session
  <2>3. sess' = [sess EXCEPT ![s] = row] /\ tickets' = tickets
    BY <1>2, <2>1 DEF LeaseRunsOut, LastLeaseRunsOut
  <2>4. QED
    BY <1>1, <1>2, <2>2, <2>3, LeaseRunsOutMoves, RowStep
<1>3. ASSUME NEW s \in Sessions, SessionExpires(s, "idle")
      PROVE  AuthorityMoves
  <2>1. PICK row : row = [sess[s] EXCEPT !.life = "idle"]
    OBVIOUS
  <2>2. row.uid = sess[s].uid
    BY <1>1, <2>1 DEF Session
  <2>3. sess' = [sess EXCEPT ![s] = row] /\ tickets' = tickets
    BY <1>3, <2>1 DEF SessionExpires
  <2>4. QED
    BY <1>1, <1>3, <2>2, <2>3, SessionExpiresMoves, RowStep
<1>4. QED
  BY <1>1, <1>2, <1>3 DEF AnyLeaseRunsOut, GoesIdle, WorkerMoves

-----------------------------------------------------------------------------
(* The theorems about the composition.                                      *)

\* Every step of the composition moves the parts as described.
LEMMA ReconcilerNextMoves == ASSUME ReconcilerInv, ReconcilerNext PROVE WorkerMoves /\ scene' = scene
<1>1. ASSUME NEW w \in Workers, Process(w)
      PROVE  WorkerMoves
  BY <1>1, ClaimWorkStep, HeartbeatWorkStep, InspectStep, CatchStep, RevokeExpiredStep, ToTerminatingStep,
     DeletionSteps, ToTerminatedStep, StaleGetStep, ReprojectStaleStep, CreatePodStep, CollisionGetStep,
     AdvanceStep, KubeTimesOutStep, CrashStep DEF Process, WorkerStep
<1>2. QED
  BY <1>1, UsersStep, TimeSteps, RuntimeCallsStep DEF ReconcilerNext

\* At the start there is no session, no Pod and no work.
LEMMA ReconcilerInitInv == ReconcilerInit => ReconcilerInv
<1>1. SUFFICES ASSUME ReconcilerInit PROVE ReconcilerInv
  OBVIOUS
<1>2. ShellInv /\ Idle \in Job /\ Idle.pc = "idle"
  BY <1>1, InitShellInv, NoRowType DEF ReconcilerInit, Idle, Job, Pcs, NotActive, FenceType
<1>3. \A s \in Sessions : sess[s].uid = NoUid
  BY <1>1 DEF ReconcilerInit, Init, NoRow
<1>4. \A t \in Tickets : tickets[t].by = NoUid
  BY <1>1 DEF ReconcilerInit, Init, NoTicket
<1>5. ReconcilerTypeOK
  BY <1>1, <1>2, NotActiveType DEF ReconcilerInit, ReconcilerTypeOK, ShellInv
<1>6. QED
  BY <1>1, <1>2, <1>3, <1>4, <1>5 DEF ReconcilerInit, ReconcilerInv, JobFits, Owns, AttachedRuntimeIsBound

\* The inductive invariant of reconcilers, runtimes, users and authority together.
THEOREM ReconcilerInvariant == ReconcilerSpec => []ReconcilerInv
<1>1. ReconcilerInv /\ [ReconcilerNext]_allVars => ReconcilerInv'
  <2>1. CASE UNCHANGED allVars
    <3>1. ReconcilerInv => WorkerMoves /\ scene' = scene
      BY <2>1, AuthorityKept, WorkersRest DEF allVars, WorkerMoves
    <3>2. QED
      BY <3>1, ReconcilerFrame DEF WorkerMoves
  <2>2. QED
    BY <2>1, ReconcilerNextMoves, ReconcilerFrame DEF WorkerMoves
<1>2. QED
  BY <1>1, ReconcilerInitInv, PTL DEF ReconcilerSpec

\* A terminal is attached only to the runtime that was created under the very
\* generation and epoch of its ticket, for any number of workers, lost leases,
\* crashes and Pods.
THEOREM AttachedRuntimes == ReconcilerSpec => []AttachedRuntimeIsBound
<1>1. ReconcilerInv => AttachedRuntimeIsBound
  BY DEF ReconcilerInv
<1>2. QED
  BY <1>1, ReconcilerInvariant, PTL

\* Under the reconcilers the authority keeps what it promises by itself:
\* registration before Ready, a stable drain, final teardowns, guarded writes.
THEOREM AuthorityUnderReconcilers ==
    ReconcilerSpec => []ReadyIsRegistered /\ []DrainHolds /\ TeardownIsFinal /\ MutationGuardHolds
<1>1. ReconcilerInv => ReadyIsRegistered /\ DrainHolds
  BY DEF ReconcilerInv, ShellInv
<1>2. ReconcilerInv /\ [ReconcilerNext]_allVars => [EndIsKept]_vars /\ [WritesAreGuarded]_vars
  <2>1. UNCHANGED allVars => UNCHANGED vars
    BY DEF allVars
  <2>2. ASSUME ReconcilerInv, ReconcilerNext
        PROVE  Moves \/ UNCHANGED vars
    BY <2>2, ReconcilerNextMoves DEF WorkerMoves, AuthorityMoves
  <2> QED BY <2>1, <2>2, MovesKeepEnds, MovesAreGuarded DEF ReconcilerInv
<1> QED
  BY <1>1, <1>2, ReconcilerInvariant, PTL
  DEF ReconcilerSpec, TeardownIsFinal, MutationGuardHolds, EndIsKept, WritesAreGuarded
=============================================================================
