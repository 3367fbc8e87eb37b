----------------------- MODULE IdentityAuthority_proofs -----------------------
(***************************************************************************)
(* Proofs about the identities of the Console, for any subjects, sessions, *)
(* requests, devices and bounds.  Three arguments that meet in one         *)
(* invariant: who has an authority row, an Auth user and the               *)
(* administrator's role (AccountInv); what a challenge of a CLI device is  *)
(* worth (CliInv); and how far a session row, and a request that read one, *)
(* may be behind the subject's authority and the Auth session              *)
(* (SessionInv).  The last is shown through what a step may do to the      *)
(* sessions (SessionsStep).                                                *)
(***************************************************************************)
EXTENDS IdentityAuthority, FiniteSetTheorems, TLAPS

-----------------------------------------------------------------------------
(* The inductive invariant.                                                 *)

\* A request to create a user that has made it and may still delete it.
Creation(t) == t.kind \in {"create", "bootstrap"}
UnderWay(t) == Creation(t) /\ task[t].pc \in {"complete", "undo"}

CreatorsAreAlone ==
    \A t \in Tasks : UnderWay(t) =>
        /\ account[t.target].exists
        /\ \A o \in Tasks : (UnderWay(o) /\ o.target = t.target) => o = t

SomeoneIsManaged == \E u \in Subjects : authority[u].on
AdministratorIsThere == SomeoneIsManaged => \E u \in Subjects : Admin(u)

\* The bootstrap that completed left an authority row, which forbids another.
Bootstrapped(t) == t.kind = "bootstrap" /\ task[t].pc = "completed"
BootstrapsOnce ==
    /\ \A t \in Tasks : Bootstrapped(t) => SomeoneIsManaged
    /\ \A t, o \in Tasks : (Bootstrapped(t) /\ Bootstrapped(o)) => t = o

TasksAreInOrder ==
    \A t \in Tasks : /\ (t.kind \in Lifecycle /\ task[t].pc = "auth") => t \in accepted
                     /\ task[t].pc = "apply" => t.kind \in {"profile", "enable", "disable"}

AccountInv ==
    /\ AuthorityHasAccount
    /\ CreatorsAreAlone
    /\ AdministratorIsThere
    /\ BootstrapsOnce
    /\ TasksAreInOrder

\* A used challenge stays used, an active device has its person and an active CLI
\* session its device.
CliInv ==
    /\ \A e \in Enrollments : Device(e) = "active" => Holder(e) \in Subjects
    /\ \A h \in Challenges : challenge[h].state = "open" => challenge[h].enr \in Enrollments
    /\ \A k \in Answers : cli[k].chal # NoOne => challenge[cli[k].chal].state = "used"
    /\ \A k \in Answers : cli[k].state = "active" => cli[k].enr \in Enrollments
    /\ CliSessionsAreEarned

Present(s) == row[s].state # "absent"

\* A row lags behind its subject's authority and its Auth session.
RowLags(s) ==
    /\ authority[Owner[s]].on
    /\ row[s].rev <= authority[Owner[s]].rev
    /\ row[s].epoch <= authority[Owner[s]].epoch
    /\ row[s].gen <= family[s].gen
    /\ row[s].aal2 => family[s].aal2

RowsLag == \A s \in Sessions : Present(s) => RowLags(s)

EndedAreStale == \A s \in ended : Present(s) /\ row[s].epoch < authority[Owner[s]].epoch

ResetPending(u) ==
    \E t \in accepted : t.kind = "mfareset" /\ t.target = u /\ task[t].pc # "completed"

AssuranceIsEarned ==
    \A s \in Sessions : (Present(s) /\ Fresh(s) /\ family[s].aal2) =>
        account[Owner[s]].totp \/ ResetPending(Owner[s])

Reading == {"refresh", "rotate", "peer", "reject", "settle", "read", "verify", "complete"}
Issuing == {"issue", "issuepending"}

\* What a request knows: the pair it read is not newer than Auth's, the one it was
\* given is newer than the one it read, and a login finds its session unused.
CallIsCurrent(c) ==
    /\ call[c].pc \in Reading => Present(c.sess)
    /\ call[c].pc \in {"refresh", "verify"} => call[c].gen <= family[c.sess].gen
    /\ call[c].pc \in {"rotate", "complete"} =>
          /\ call[c].gen < call[c].new /\ call[c].new <= family[c.sess].gen
          /\ call[c].aal2 => family[c.sess].aal2
    /\ call[c].pc \in {"verify", "complete"} => c.kind \in {"mfa", "stepup", "enroll"}
    /\ (c.kind = "login" /\ call[c].pc = "start") => ~ Present(c.sess)
    /\ call[c].pc \in Issuing =>
          /\ c.kind = "login" /\ ~ Present(c.sess)
          /\ family[c.sess].gen = 1 /\ ~ family[c.sess].aal2

SessionInv ==
    /\ RowsLag
    /\ EndedAreStale
    /\ AssuranceIsEarned
    /\ \A c \in Calls : CallIsCurrent(c)

IdentityInv == IdentityTypeOK /\ AccountInv /\ CliInv /\ SessionInv

-----------------------------------------------------------------------------
(* What a step may do to the sessions and to what they rest on.             *)

\* Authority rows stay; their revision and epoch only grow.
AuthorityGrows ==
    \A u \in Subjects : authority[u].on =>
        /\ authority'[u].on
        /\ authority[u].rev <= authority'[u].rev
        /\ authority[u].epoch <= authority'[u].epoch

\* A row keeps its authority coordinates; its pair gets newer; what has ended has ended.
RowGrows(s) ==
    /\ Present(s)'
    /\ row'[s].rev = row[s].rev
    /\ row'[s].epoch = row[s].epoch
    /\ row[s].gen <= row'[s].gen
    /\ row'[s].gen <= family'[s].gen
    /\ row'[s].aal2 => family'[s].aal2
    /\ row[s].state \in {"revoked", "expired"} => row'[s].state \in {"revoked", "expired"}
    /\ family[s].gen <= family'[s].gen
    /\ family[s].aal2 => family'[s].aal2

\* A new row takes the coordinates of the moment and has no assurance.
RowIsNew(s) ==
    /\ authority'[Owner[s]].on
    /\ row'[s].rev = authority'[Owner[s]].rev
    /\ row'[s].epoch = authority'[Owner[s]].epoch
    /\ row'[s].gen <= family'[s].gen
    /\ ~ row'[s].aal2
    /\ ~ family'[s].aal2

RowsStep == \A s \in Sessions : /\ Present(s) => RowGrows(s)
                                /\ (~ Present(s) /\ Present(s)') => RowIsNew(s)

EndedStep ==
    /\ ended' \subseteq Sessions
    /\ \A s \in ended' : s \in ended \/ /\ Present(s)
                                        /\ authority[Owner[s]].epoch < authority'[Owner[s]].epoch

\* Assurance comes with a factor; a factor goes with its reset pending; a reset
\* completes with a new epoch.
AssuranceStep ==
    /\ \A s \in Sessions : (Present(s) /\ family'[s].aal2) => family[s].aal2 \/ account'[Owner[s]].totp
    /\ \A u \in Subjects : account[u].totp =>
            account'[u].totp \/ ~ authority'[u].on \/ ResetPending(u)'
    /\ \A u \in Subjects : ResetPending(u) =>
            ResetPending(u)' \/ authority[u].epoch < authority'[u].epoch

SessionsStep == AuthorityGrows /\ RowsStep /\ EndedStep /\ AssuranceStep

\* What the owner of session s is.
LEMMA OwnerType ==
    ASSUME NEW s \in Sessions PROVE Owner[s] \in Subjects
BY OwnerAssumption

\* Such a step keeps the rows behind, the ended sessions stale and the assurance earned.
LEMMA SessionsKept ==
    ASSUME IdentityInv, IdentityTypeOK', SessionsStep
    PROVE  RowsLag' /\ EndedAreStale' /\ AssuranceIsEarned'
<1> USE OwnerType
<1>t. /\ authority \in [Subjects -> Authority] /\ authority' \in [Subjects -> Authority]
      /\ row \in [Sessions -> Row] /\ row' \in [Sessions -> Row]
      /\ family \in [Sessions -> Family] /\ family' \in [Sessions -> Family]
      /\ ended \subseteq Sessions
  BY DEF IdentityInv, IdentityTypeOK, BrowserTypeOK
<1>n. \A s \in Sessions :
        /\ row[s].rev \in Nat /\ row[s].epoch \in Nat /\ row'[s].rev \in Nat /\ row'[s].epoch \in Nat
        /\ authority[Owner[s]].rev \in Nat /\ authority[Owner[s]].epoch \in Nat
        /\ authority'[Owner[s]].rev \in Nat /\ authority'[Owner[s]].epoch \in Nat
  BY <1>t DEF Row, Authority
<1>1. RowsLag'
  <2> SUFFICES ASSUME NEW s \in Sessions, Present(s)' PROVE RowLags(s)'
    BY DEF RowsLag
  <2>1. CASE Present(s)
    <3>1. RowLags(s) /\ RowGrows(s)
      BY <2>1 DEF IdentityInv, SessionInv, RowsLag, SessionsStep, RowsStep
    <3> QED BY <3>1, <1>n DEF RowLags, RowGrows, SessionsStep, AuthorityGrows
  <2>2. CASE ~ Present(s)
    <3>1. RowIsNew(s)
      BY <2>2 DEF SessionsStep, RowsStep
    <3> QED BY <3>1, <1>n DEF RowLags, RowIsNew
  <2> QED BY <2>1, <2>2
<1>2. EndedAreStale'
  <2> SUFFICES ASSUME NEW s \in ended' PROVE Present(s)' /\ (row[s].epoch < authority[Owner[s]].epoch)'
    BY DEF EndedAreStale
  <2>1. s \in Sessions /\ Present(s)
    BY <1>t DEF SessionsStep, EndedStep, IdentityInv, SessionInv, EndedAreStale
  <2>2. RowLags(s) /\ RowGrows(s)
    BY <2>1 DEF IdentityInv, SessionInv, RowsLag, SessionsStep, RowsStep
  <2>3. authority[Owner[s]].epoch <= authority'[Owner[s]].epoch
    BY <2>1, <2>2 DEF SessionsStep, AuthorityGrows, RowLags
  <2>4. CASE s \in ended
    BY <2>1, <2>2, <2>3, <2>4, <1>n DEF RowGrows, IdentityInv, SessionInv, EndedAreStale
  <2>5. CASE authority[Owner[s]].epoch < authority'[Owner[s]].epoch
    BY <2>1, <2>2, <2>5, <1>n DEF RowGrows, RowLags
  <2> QED BY <2>4, <2>5 DEF SessionsStep, EndedStep
<1>3. AssuranceIsEarned'
  <2> SUFFICES ASSUME NEW s \in Sessions, Present(s)', Fresh(s)', family'[s].aal2
               PROVE  (account[Owner[s]].totp)' \/ ResetPending(Owner[s])'
    BY DEF AssuranceIsEarned
  <2>1. Present(s)
    BY DEF SessionsStep, RowsStep, RowIsNew
  <2>2. RowLags(s) /\ RowGrows(s)
    BY <2>1 DEF IdentityInv, SessionInv, RowsLag, SessionsStep, RowsStep
  <2>3. Fresh(s) /\ authority'[Owner[s]].epoch = authority[Owner[s]].epoch /\ authority'[Owner[s]].on
    BY <2>2, <1>n DEF Fresh, RowLags, RowGrows, SessionsStep, AuthorityGrows
  <2>4. family[s].aal2 \/ account'[Owner[s]].totp
    BY <2>1 DEF SessionsStep, AssuranceStep
  <2>5. CASE family[s].aal2
    <3> DEFINE u == Owner[s]
    <3>1. account[u].totp \/ ResetPending(u)
      BY <2>1, <2>3, <2>5 DEF IdentityInv, SessionInv, AssuranceIsEarned
    <3>2. PICK v \in Subjects : v = u
      OBVIOUS
    <3>3. account'[v].totp \/ ResetPending(v)'
      BY <3>1, <3>2, <2>3, <1>n DEF SessionsStep, AssuranceStep
    <3> QED BY <3>2, <3>3
  <2> QED BY <2>4, <2>5
<1> QED BY <1>1, <1>2, <1>3

\* A request that did not move still knows what it knew, unless it is a login whose
\* session has come into being.
LEMMA CallKept ==
    ASSUME IdentityInv, IdentityTypeOK', RowsStep, NEW d \in Calls, call'[d] = call[d],
           \/ Present(d.sess)
           \/ /\ ~ Present(d.sess)'
              /\ family'[d.sess].gen = family[d.sess].gen
              /\ family'[d.sess].aal2 = family[d.sess].aal2
           \/ d.kind # "login"
    PROVE  CallIsCurrent(d)'
<1>1. d.sess \in Sessions
  BY CallsAssumption
<1>2. /\ call[d] \in Call /\ family[d.sess].gen \in Nat /\ family'[d.sess].gen \in Nat
  BY <1>1, MaxGenAssumption DEF IdentityInv, IdentityTypeOK, BrowserTypeOK, Family
<1>3. CallIsCurrent(d)
  BY DEF IdentityInv, SessionInv
<1>4. CASE Present(d.sess)
  <2>1. RowGrows(d.sess)
    BY <1>1, <1>4 DEF RowsStep
  <2>2. call[d].gen \in Nat /\ call[d].new \in Nat
    BY <1>2, MaxGenAssumption DEF Call
  <2> QED BY <1>2, <1>3, <1>4, <2>1, <2>2 DEF CallIsCurrent, RowGrows, Reading, Issuing
<1>5. CASE ~ Present(d.sess)
  BY <1>1, <1>3, <1>5 DEF CallIsCurrent, Reading, Issuing
<1> QED BY <1>4, <1>5

-----------------------------------------------------------------------------
(* The requests of the session broker.                                      *)

\* No user or administrator comes or goes.
AccountsKeep ==
    \A u \in Subjects : /\ account'[u].exists = account[u].exists
                        /\ authority'[u].on = authority[u].on
                        /\ authority'[u].admin = authority[u].admin

\* A session that is not there yet stays so.
Quiet(s) == ~ Present(s) => /\ ~ Present(s)'
                            /\ family'[s].gen = family[s].gen
                            /\ family'[s].aal2 = family[s].aal2

\* What a step of request c gives, whatever it does.
CallStep(c) ==
    /\ BrowserTypeOK' /\ SessionsStep /\ AccountsKeep
    /\ CallIsCurrent(c)'
    /\ \A d \in Calls \ {c} : call'[d] = call[d] /\ (Quiet(d.sess) \/ d.kind # "login")

\* A request goes on, and the others stay where they are.
LEMMA Going ==
    ASSUME IdentityInv, NEW c \in Calls,
           NEW pc \in {"start", "issue", "issuepending", "verify", "complete", "refresh", "rotate",
               "peer", "reject", "settle", "read", "revoke", "logout", "logoutall", "done"},
           Goto(c, pc)
    PROVE  /\ call' \in [Calls -> Call]
           /\ call'[c] = [call[c] EXCEPT !.pc = pc]
           /\ call'[c].pc = pc
           /\ \A d \in Calls \ {c} : call'[d] = call[d]
<1>1. call \in [Calls -> Call]
  BY DEF IdentityInv, IdentityTypeOK, BrowserTypeOK
<1>2. [call[c] EXCEPT !.pc = pc] \in Call
  BY <1>1 DEF Call
<1>3. call' = [call EXCEPT ![c] = [call[c] EXCEPT !.pc = pc]]
  BY DEF Goto
<1>4. [call[c] EXCEPT !.pc = pc].pc = pc
  BY <1>1 DEF Call
<1> QED BY <1>1, <1>2, <1>3, <1>4

\* A row nobody writes, on an Auth session that only grows.
LEMMA RowStays ==
    ASSUME IdentityInv, NEW s \in Sessions, row'[s] = row[s],
           family[s].gen <= family'[s].gen, family'[s].gen \in Nat, family[s].aal2 => family'[s].aal2
    PROVE  (Present(s) => RowGrows(s)) /\ ~ (~ Present(s) /\ Present(s)')
<1>1. row[s] \in Row /\ family[s] \in Family
  BY DEF IdentityInv, IdentityTypeOK, BrowserTypeOK
<1>2. row[s].gen \in Nat /\ family[s].gen \in Nat
  BY <1>1, MaxGenAssumption DEF Row, Family
<1>3. Present(s) => RowLags(s)
  BY DEF IdentityInv, SessionInv, RowsLag
<1> QED BY <1>2, <1>3 DEF Present, RowGrows, RowLags

\* Without management, authority and pending resets stay.
LEMMA QuietStep ==
    ASSUME IdentityInv, UNCHANGED <<authority, ended, task, accepted>>, RowsStep,
           \A u \in Subjects : account[u].totp => account'[u].totp,
           \A s \in Sessions : (Present(s) /\ family'[s].aal2) => family[s].aal2 \/ account'[Owner[s]].totp
    PROVE  SessionsStep
<1>1. \A u \in Subjects : authority[u].rev \in Nat /\ authority[u].epoch \in Nat
  BY DEF IdentityInv, IdentityTypeOK, BrowserTypeOK, Authority
<1>2. AuthorityGrows
  BY <1>1 DEF AuthorityGrows
<1>3. EndedStep
  BY DEF EndedStep, IdentityInv, IdentityTypeOK, BrowserTypeOK
<1>4. AssuranceStep
  BY DEF AssuranceStep, ResetPending
<1> QED BY <1>2, <1>3, <1>4 DEF SessionsStep

\* A request that only goes on: what it looked at is as it was.
LEMMA OnlyGoes ==
    ASSUME IdentityInv, NEW c \in Calls, call' \in [Calls -> Call],
           \A d \in Calls \ {c} : call'[d] = call[d],
           UNCHANGED <<account, family, authority, row, ended, task, accepted>>, CallIsCurrent(c)'
    PROVE  CallStep(c)
<1>1. BrowserTypeOK'
  BY DEF IdentityInv, IdentityTypeOK, BrowserTypeOK
<1>2. \A s \in Sessions : family[s].gen \in Nat
  BY MaxGenAssumption DEF IdentityInv, IdentityTypeOK, BrowserTypeOK, Family
<1>3. RowsStep
  BY <1>2, RowStays DEF RowsStep
<1>4. SessionsStep
  BY <1>3, QuietStep
<1>5. \A s \in Sessions : Quiet(s)
  BY DEF Quiet, Present
<1>6. \A d \in Calls : Quiet(d.sess)
  BY <1>5, CallsAssumption
<1> QED BY <1>1, <1>4, <1>6 DEF CallStep, AccountsKeep

\* A request that writes rows: the rows grow, and none comes into being.
LEMMA WritesRows ==
    ASSUME IdentityInv, NEW c \in Calls, call' \in [Calls -> Call], row' \in [Sessions -> Row],
           \A d \in Calls \ {c} : call'[d] = call[d],
           UNCHANGED <<account, family, authority, ended, task, accepted>>,
           \A s \in Sessions : row'[s] = row[s] \/ (Present(s) /\ RowGrows(s)), CallIsCurrent(c)'
    PROVE  CallStep(c)
<1>1. BrowserTypeOK'
  BY DEF IdentityInv, IdentityTypeOK, BrowserTypeOK
<1>2. \A s \in Sessions : family[s].gen \in Nat
  BY MaxGenAssumption DEF IdentityInv, IdentityTypeOK, BrowserTypeOK, Family
<1>3. RowsStep
  BY <1>2, RowStays DEF RowsStep
<1>4. SessionsStep
  BY <1>3, QuietStep
<1>5. \A s \in Sessions : Quiet(s)
  BY DEF Quiet, Present
<1>6. \A d \in Calls : Quiet(d.sess)
  BY <1>5, CallsAssumption
<1> QED BY <1>1, <1>4, <1>6 DEF CallStep, AccountsKeep

\* The state of a request in the cases where it knows nothing.
LEMMA KnowsNothing ==
    ASSUME IdentityInv, NEW c \in Calls,
           (call[c].pc)' \in {"revoke", "logout", "logoutall", "done"}
    PROVE  CallIsCurrent(c)'
BY DEF CallIsCurrent, Reading, Issuing

\* The state of a request that waits for another look at its row.
LEMMA LooksAgain ==
    ASSUME IdentityInv, NEW c \in Calls, Present(c.sess)',
           (call[c].pc)' \in {"peer", "reject", "settle", "read", "done"}
    PROVE  CallIsCurrent(c)'
BY DEF CallIsCurrent, Reading, Issuing

\* Password login opens an Auth session for a session row that is not there yet.
LEMMA LoginAuthStep ==
    ASSUME IdentityInv, NEW c \in Calls, LoginAuth(c), UNCHANGED managedVars
    PROVE  CallStep(c)
<1> DEFINE s == c.sess
           u == Owner[c.sess]
           f == [live |-> TRUE, gen |-> 1, aal2 |-> FALSE, pw |-> account[u].pw]
           pc == IF account[u].totp THEN "issuepending" ELSE "issue"
<1>1. s \in Sessions /\ u \in Subjects
  BY CallsAssumption, OwnerType
<1>2. /\ c.kind = "login" /\ call[c].pc = "start" /\ family' = [family EXCEPT ![s] = f]
      /\ Goto(c, pc) /\ UNCHANGED <<account, authority, row, ended, task, accepted>>
  BY DEF LoginAuth, managedVars
<1>3. f \in Family /\ f.gen = 1 /\ f.aal2 = FALSE
  BY <1>1, MaxGenAssumption DEF IdentityInv, IdentityTypeOK, BrowserTypeOK, Account, Family
<1>4. PICK p \in {"issue", "issuepending"} : p = pc
  OBVIOUS
<1>5. /\ call' \in [Calls -> Call] /\ call'[c].pc \in Issuing
      /\ \A d \in Calls \ {c} : call'[d] = call[d]
  BY <1>2, <1>4, Going DEF Issuing
<1> HIDE DEF f, pc
<1>6. /\ family' \in [Sessions -> Family] /\ family'[s] = f
      /\ \A q \in Sessions \ {s} : family'[q] = family[q]
  BY <1>1, <1>2, <1>3 DEF IdentityInv, IdentityTypeOK, BrowserTypeOK
<1>7. ~ Present(s)
  BY <1>2 DEF IdentityInv, SessionInv, CallIsCurrent
<1>8. BrowserTypeOK'
  BY <1>2, <1>5, <1>6 DEF IdentityInv, IdentityTypeOK, BrowserTypeOK
<1>9. RowsStep
  <2> SUFFICES ASSUME NEW q \in Sessions
               PROVE  (Present(q) => RowGrows(q)) /\ ((~ Present(q) /\ Present(q)') => RowIsNew(q))
    BY DEF RowsStep
  <2>1. CASE q = s
    BY <2>1, <1>2, <1>7 DEF Present
  <2>2. CASE q # s
    <3>1. family'[q] = family[q] /\ family[q].gen \in Nat
      BY <2>2, <1>6, MaxGenAssumption DEF IdentityInv, IdentityTypeOK, BrowserTypeOK, Family
    <3> QED BY <3>1, <1>2, RowStays
  <2> QED BY <2>1, <2>2
<1>10. SessionsStep
  BY <1>2, <1>6, <1>7, <1>9, QuietStep
<1>11. CallIsCurrent(c)'
  BY <1>2, <1>3, <1>5, <1>6, <1>7 DEF CallIsCurrent, Reading, Issuing, Present
<1>12. ASSUME NEW d \in Calls \ {c} PROVE Quiet(d.sess) \/ d.kind # "login"
  <2>1. CASE d.sess = s
    BY <1>2, <2>1, LoginsAssumption
  <2>2. CASE d.sess # s
    BY <1>2, <1>6, <2>2, CallsAssumption DEF Quiet, Present
  <2> QED BY <2>1, <2>2
<1> QED BY <1>2, <1>5, <1>8, <1>10, <1>11, <1>12 DEF CallStep, AccountsKeep

\* The row is issued with the authority coordinates of that moment, or there is none.
LEMMA LoginIssueStep ==
    ASSUME IdentityInv, NEW c \in Calls, LoginIssue(c), UNCHANGED managedVars
    PROVE  CallStep(c)
<1> DEFINE s == c.sess
           a == authority[Owner[c.sess]]
<1>1. s \in Sessions /\ Owner[s] \in Subjects
  BY CallsAssumption, OwnerType
<1>2. /\ call[c].pc \in Issuing /\ UNCHANGED <<account, family, authority, ended, task, accepted>>
  BY DEF LoginIssue, managedVars, Issuing
<1>3. c.kind = "login" /\ ~ Present(s) /\ family[s].gen = 1 /\ ~ family[s].aal2
  BY <1>2 DEF IdentityInv, SessionInv, CallIsCurrent
<1>4. CASE a.on
  <2> DEFINE st == IF call[c].pc = "issue" THEN "active" ELSE "pending"
             r == [NoRow EXCEPT !.state = st, !.gen = 1, !.rev = a.rev, !.epoch = a.epoch]
  <2>1. row' = [row EXCEPT ![s] = r] /\ Goto(c, "done")
    BY <1>4 DEF LoginIssue
  <2>2. NoRow \in Row
    BY MaxGenAssumption DEF NoRow, Row
  <2>3. a.rev \in Nat /\ a.epoch \in Nat
    BY <1>1 DEF IdentityInv, IdentityTypeOK, BrowserTypeOK, Authority
  <2>4. r \in Row /\ r.rev = a.rev /\ r.epoch = a.epoch /\ r.gen = 1 /\ r.aal2 = FALSE
    <3>1. 1 \in 0..MaxGen /\ st \in {"active", "pending"} /\ NoRow.aal2 = FALSE
      BY MaxGenAssumption DEF NoRow
    <3> HIDE DEF st
    <3>2. r \in Row
      BY <2>2, <2>3, <3>1 DEF Row
    <3>3. r.rev = a.rev /\ r.epoch = a.epoch /\ r.gen = 1 /\ r.aal2 = NoRow.aal2
      BY <2>2 DEF Row
    <3> QED BY <3>1, <3>2, <3>3
  <2> HIDE DEF r
  <2>5. /\ row' \in [Sessions -> Row] /\ row'[s] = r
        /\ \A q \in Sessions \ {s} : row'[q] = row[q]
    BY <1>1, <2>1, <2>4 DEF IdentityInv, IdentityTypeOK, BrowserTypeOK
  <2>6. call' \in [Calls -> Call] /\ call'[c].pc = "done" /\ \A d \in Calls \ {c} : call'[d] = call[d]
    BY <2>1, Going
  <2>7. BrowserTypeOK'
    BY <1>2, <2>5, <2>6 DEF IdentityInv, IdentityTypeOK, BrowserTypeOK
  <2>8. RowsStep
    <3> SUFFICES ASSUME NEW q \in Sessions
                 PROVE  (Present(q) => RowGrows(q)) /\ ((~ Present(q) /\ Present(q)') => RowIsNew(q))
      BY DEF RowsStep
    <3>1. CASE q = s
      BY <3>1, <1>2, <1>3, <1>4, <2>4, <2>5 DEF RowIsNew
    <3>2. CASE q # s
      <4>1. family[q].gen \in Nat
        BY MaxGenAssumption DEF IdentityInv, IdentityTypeOK, BrowserTypeOK, Family
      <4> QED BY <3>2, <4>1, <1>2, <2>5, RowStays
    <3> QED BY <3>1, <3>2
  <2>9. SessionsStep
    BY <1>2, <2>8, QuietStep
  <2>10. ASSUME NEW d \in Calls \ {c} PROVE Quiet(d.sess) \/ d.kind # "login"
    <3>1. CASE d.sess = s
      BY <1>3, <3>1, LoginsAssumption
    <3>2. CASE d.sess # s
      BY <1>2, <2>5, <3>2, CallsAssumption DEF Quiet, Present
    <3> QED BY <3>1, <3>2
  <2>11. CallIsCurrent(c)'
    BY <2>6, KnowsNothing
  <2> QED BY <1>2, <2>6, <2>7, <2>9, <2>10, <2>11 DEF CallStep, AccountsKeep
<1>5. CASE ~ a.on
  <2>1. Goto(c, "logout") /\ row' = row
    BY <1>5 DEF LoginIssue
  <2> QED BY <1>2, <2>1, Going, KnowsNothing, OnlyGoes
<1> QED BY <1>4, <1>5

\* Logging out at Auth touches no pair.
LEMMA AuthSessionsEnd ==
    ASSUME IdentityInv, NEW c \in Calls, NEW u \in Subjects, GlobalLogout(u) \/ family' = family,
           UNCHANGED <<account, authority, row, ended, task, accepted>>,
           call' \in [Calls -> Call], \A d \in Calls \ {c} : call'[d] = call[d], CallIsCurrent(c)'
    PROVE  CallStep(c)
<1>1. family \in [Sessions -> Family]
  BY DEF IdentityInv, IdentityTypeOK, BrowserTypeOK
<1>2. \A s \in Sessions : /\ [family[s] EXCEPT !.live = FALSE] \in Family
                          /\ [family[s] EXCEPT !.live = FALSE].gen = family[s].gen
                          /\ [family[s] EXCEPT !.live = FALSE].aal2 = family[s].aal2
  BY <1>1 DEF Family
<1>n. \A s \in Sessions : family[s].gen \in Nat
  BY <1>1, MaxGenAssumption DEF Family
<1>3. family' \in [Sessions -> Family]
  BY <1>1, <1>2 DEF GlobalLogout
<1>4. \A s \in Sessions : family'[s].gen = family[s].gen /\ family'[s].aal2 = family[s].aal2
  BY <1>1, <1>2 DEF GlobalLogout
<1>5. BrowserTypeOK'
  BY <1>3 DEF IdentityInv, IdentityTypeOK, BrowserTypeOK
<1>6. RowsStep
  BY <1>n, <1>4, RowStays DEF RowsStep
<1>7. SessionsStep
  BY <1>4, <1>6, QuietStep
<1>8. \A d \in Calls : Quiet(d.sess)
  BY <1>4, CallsAssumption DEF Quiet, Present
<1> QED BY <1>5, <1>7, <1>8 DEF CallStep, AccountsKeep

\* The cleanup after a pair could not be stored.
LEMMA LogoutStep ==
    ASSUME IdentityInv, NEW c \in Calls, Logout(c), UNCHANGED managedVars
    PROVE  CallStep(c)
<1>1. Owner[c.sess] \in Subjects
  BY CallsAssumption, OwnerType
<1>2. /\ Goto(c, "done") /\ UNCHANGED <<account, authority, row, ended, task, accepted>>
      /\ GlobalLogout(Owner[c.sess]) \/ family' = family
  BY DEF Logout, managedVars
<1> QED BY <1>1, <1>2, Going, KnowsNothing, AuthSessionsEnd

\* The last logout of a password recovery.
LEMMA RecoverLogoutStep ==
    ASSUME IdentityInv, NEW c \in Calls, RecoverLogout(c), UNCHANGED managedVars
    PROVE  CallStep(c)
<1>1. Owner[c.sess] \in Subjects
  BY CallsAssumption, OwnerType
<1>2. /\ Goto(c, "done") /\ UNCHANGED <<account, authority, row, ended, task, accepted>>
      /\ GlobalLogout(Owner[c.sess]) \/ family' = family
  BY DEF RecoverLogout, managedVars
<1> QED BY <1>1, <1>2, Going, KnowsNothing, AuthSessionsEnd

\* A usable session is there.
LEMMA UsableIsPresent ==
    ASSUME NEW s \in Sessions, Usable(s) PROVE Present(s)
BY DEF Usable, Present

\* Reading the pair of a row: it is not newer than Auth's.
LEMMA ReadsPair ==
    ASSUME IdentityInv, NEW c \in Calls, Present(c.sess),
           NEW pc \in {"refresh", "verify", "read", "done"},
           pc = "verify" => c.kind \in {"mfa", "stepup", "enroll"},
           call' = [call EXCEPT ![c].pc = pc, ![c].gen = row[c.sess].gen],
           UNCHANGED <<account, family, authority, row, ended, task, accepted>>
    PROVE  CallStep(c)
<1>1. c.sess \in Sessions
  BY CallsAssumption
<1>2. row[c.sess].gen \in 0..MaxGen /\ call \in [Calls -> Call]
  BY <1>1 DEF IdentityInv, IdentityTypeOK, BrowserTypeOK, Row
<1>3. PICK g \in 0..MaxGen : g = row[c.sess].gen
  BY <1>2
<1> DEFINE k == [call[c] EXCEPT !.pc = pc, !.gen = g]
<1>4. k \in Call /\ k.pc = pc /\ k.gen = g
  BY <1>2 DEF Call
<1>5. call' = [call EXCEPT ![c] = k]
  BY <1>3
<1> HIDE DEF k
<1>6. call' \in [Calls -> Call] /\ call'[c] = k /\ \A d \in Calls \ {c} : call'[d] = call[d]
  BY <1>2, <1>4, <1>5
<1>7. row[c.sess].gen <= family[c.sess].gen
  BY <1>1 DEF IdentityInv, SessionInv, RowsLag, RowLags
<1>8. CallIsCurrent(c)'
  BY <1>3, <1>4, <1>6, <1>7 DEF CallIsCurrent, Reading, Issuing, Present
<1> QED BY <1>6, <1>8, OnlyGoes

\* A request reads the credentials of its session.
LEMMA ReadCredentialsStep ==
    ASSUME IdentityInv, NEW c \in Calls, ReadCredentials(c), UNCHANGED managedVars
    PROVE  CallStep(c)
<1>1. PICK pc \in {"refresh", "read", "done"} : pc = IF row[c.sess].due THEN "refresh" ELSE Resolved(c)
  BY DEF Resolved
<1>2. Present(c.sess)
  BY CallsAssumption, UsableIsPresent DEF ReadCredentials
<1>3. /\ call' = [call EXCEPT ![c].pc = pc, ![c].gen = row[c.sess].gen]
      /\ UNCHANGED <<account, family, authority, row, ended, task, accepted>>
  BY <1>1 DEF ReadCredentials, managedVars
<1> QED BY <1>1, <1>2, <1>3, ReadsPair

\* A request reads the pair it will have a TOTP code verified with.
LEMMA ReadForTotpStep ==
    ASSUME IdentityInv, NEW c \in Calls, ReadForTotp(c), UNCHANGED managedVars
    PROVE  CallStep(c)
<1>1. c.sess \in Sessions
  BY CallsAssumption
<1>2. c.kind \in {"mfa", "stepup", "enroll"}
  BY DEF ReadForTotp
<1>3. Present(c.sess)
  BY <1>1, <1>2, UsableIsPresent DEF ReadForTotp, Eligible, Present
<1> QED BY <1>2, <1>3, ReadsPair DEF ReadForTotp, managedVars

\* Auth exchanges the pair a request read for the next one, or refuses.
LEMMA RefreshAuthStep ==
    ASSUME IdentityInv, NEW c \in Calls, RefreshAuth(c), UNCHANGED managedVars
    PROVE  CallStep(c)
<1> DEFINE s == c.sess
<1>1. s \in Sessions /\ Owner[s] \in Subjects
  BY CallsAssumption, OwnerType
<1>2. call[c].pc = "refresh" /\ UNCHANGED <<account, authority, row, ended, task, accepted>>
  BY DEF RefreshAuth, managedVars
<1>3. Present(s) /\ call[c].gen <= family[s].gen
  BY <1>2 DEF IdentityInv, SessionInv, CallIsCurrent, Reading
<1>4. family \in [Sessions -> Family] /\ call \in [Calls -> Call]
  BY DEF IdentityInv, IdentityTypeOK, BrowserTypeOK
<1>5. CASE Goto(c, "peer") /\ family' = family
  BY <1>2, <1>3, <1>5, Going, LooksAgain, OnlyGoes DEF Present
<1>6. CASE /\ family[s].gen = call[c].gen /\ family[s].gen < MaxGen
           /\ family' = [family EXCEPT ![s].gen = family[s].gen + 1]
           /\ call' = [call EXCEPT ![c].pc = "rotate", ![c].new = family[s].gen + 1, ![c].aal2 = family[s].aal2]
  <2>1. PICK n \in 0..MaxGen : n = family[s].gen + 1
    BY <1>1, <1>4, <1>6, MaxGenAssumption DEF Family
  <2>2. PICK b \in BOOLEAN : b = family[s].aal2
    BY <1>1, <1>4 DEF Family
  <2> DEFINE k == [call[c] EXCEPT !.pc = "rotate", !.new = n, !.aal2 = b]
             f == [family[s] EXCEPT !.gen = n]
  <2>3. k \in Call /\ k.pc = "rotate" /\ k.new = n /\ k.aal2 = b /\ k.gen = call[c].gen
    BY <1>4 DEF Call
  <2>4. f \in Family /\ f.gen = n /\ f.aal2 = family[s].aal2
    BY <1>1, <1>4 DEF Family
  <2>5. call' = [call EXCEPT ![c] = k] /\ family' = [family EXCEPT ![s] = f]
    BY <1>6, <2>1, <2>2
  <2> HIDE DEF k, f
  <2>6. call' \in [Calls -> Call] /\ call'[c] = k /\ \A d \in Calls \ {c} : call'[d] = call[d]
    BY <1>4, <2>3, <2>5
  <2>7. family' \in [Sessions -> Family] /\ family'[s] = f /\ \A q \in Sessions \ {s} : family'[q] = family[q]
    BY <1>1, <1>4, <2>4, <2>5
  <2>8. \A q \in Sessions : family[q].gen \in Nat /\ family'[q].gen \in Nat
    BY <1>4, <2>7, MaxGenAssumption DEF Family
  <2>9. \A q \in Sessions : family[q].gen <= family'[q].gen /\ family'[q].aal2 = family[q].aal2
    BY <2>1, <2>4, <2>7, <2>8
  <2>10. BrowserTypeOK'
    BY <1>2, <2>6, <2>7 DEF IdentityInv, IdentityTypeOK, BrowserTypeOK
  <2>11. RowsStep
    BY <1>2, <2>8, <2>9, RowStays DEF RowsStep
  <2>12. SessionsStep
    BY <1>2, <2>9, <2>11, QuietStep
  <2>13. \A d \in Calls : Quiet(d.sess)
    BY <1>2, <1>3, <2>7, CallsAssumption DEF Quiet, Present
  <2>14. CallIsCurrent(c)'
    BY <1>1, <1>2, <1>3, <1>6, <2>1, <2>2, <2>3, <2>4, <2>6, <2>7, <2>8 DEF CallIsCurrent, Reading, Issuing, Present
  <2> QED BY <1>2, <2>6, <2>10, <2>12, <2>13, <2>14 DEF CallStep, AccountsKeep
<1> QED BY <1>5, <1>6 DEF RefreshAuth

\* Auth verifies a code, which renews the pair and proves the factor.
LEMMA VerifyTotpStep ==
    ASSUME IdentityInv, NEW c \in Calls, VerifyTotp(c), UNCHANGED managedVars
    PROVE  CallStep(c)
<1> DEFINE s == c.sess
           u == Owner[c.sess]
<1>1. s \in Sessions /\ u \in Subjects
  BY CallsAssumption, OwnerType
<1>2. /\ call[c].pc = "verify" /\ UNCHANGED <<authority, row, ended, task, accepted>>
      /\ account' = [account EXCEPT ![u].totp = TRUE] /\ family[s].gen < MaxGen
  BY DEF VerifyTotp, managedVars
<1>3. Present(s) /\ call[c].gen <= family[s].gen /\ c.kind \in {"mfa", "stepup", "enroll"}
  BY <1>2 DEF IdentityInv, SessionInv, CallIsCurrent, Reading
<1>4. family \in [Sessions -> Family] /\ call \in [Calls -> Call] /\ account \in [Subjects -> Account]
  BY DEF IdentityInv, IdentityTypeOK, BrowserTypeOK
<1>5. PICK n \in 0..MaxGen : n = family[s].gen + 1
  BY <1>1, <1>4, <1>2, MaxGenAssumption DEF Family
<1> DEFINE k == [call[c] EXCEPT !.pc = "complete", !.new = n, !.aal2 = TRUE]
           f == [family[s] EXCEPT !.gen = n, !.aal2 = TRUE]
<1>6. k \in Call /\ k.pc = "complete" /\ k.new = n /\ k.gen = call[c].gen
  BY <1>4 DEF Call
<1>7. f \in Family /\ f.gen = n /\ f.aal2 = TRUE
  BY <1>1, <1>4 DEF Family
<1>8. call' = [call EXCEPT ![c] = k] /\ family' = [family EXCEPT ![s] = f]
  BY <1>5 DEF VerifyTotp
<1> HIDE DEF k, f
<1>9. call' \in [Calls -> Call] /\ call'[c] = k /\ \A d \in Calls \ {c} : call'[d] = call[d]
  BY <1>4, <1>6, <1>8
<1>10. family' \in [Sessions -> Family] /\ family'[s] = f /\ \A q \in Sessions \ {s} : family'[q] = family[q]
  BY <1>1, <1>4, <1>7, <1>8
<1>11. \A q \in Sessions : family[q].gen \in Nat /\ family'[q].gen \in Nat
  BY <1>4, <1>10, MaxGenAssumption DEF Family
<1>12. \A q \in Sessions : family[q].gen <= family'[q].gen /\ (family[q].aal2 => family'[q].aal2)
  BY <1>5, <1>7, <1>10, <1>11
<1>13. account' \in [Subjects -> Account]
  BY <1>1, <1>2, <1>4 DEF Account
<1>14. /\ \A v \in Subjects : account'[v].exists = account[v].exists /\ (account[v].totp => account'[v].totp)
       /\ account'[u].totp
  BY <1>1, <1>2, <1>4 DEF Account
<1>15. BrowserTypeOK'
  BY <1>2, <1>9, <1>10, <1>13 DEF IdentityInv, IdentityTypeOK, BrowserTypeOK
<1>16. RowsStep
  BY <1>2, <1>11, <1>12, RowStays DEF RowsStep
<1>17. SessionsStep
  BY <1>2, <1>10, <1>14, <1>16, QuietStep
<1>18. \A d \in Calls : Quiet(d.sess)
  BY <1>2, <1>3, <1>10, CallsAssumption DEF Quiet, Present
<1>19. CallIsCurrent(c)'
  BY <1>1, <1>2, <1>3, <1>4, <1>5, <1>6, <1>7, <1>9, <1>10, <1>11, MaxGenAssumption DEF CallIsCurrent, Reading, Issuing, Present, Call
<1> QED BY <1>2, <1>9, <1>14, <1>15, <1>17, <1>18, <1>19 DEF CallStep, AccountsKeep

\* Storing the pair of a request writes the pair and its assurance, and no coordinates.
LEMMA StoredRow ==
    ASSUME IdentityInv, NEW c \in Calls, NEW s \in Sessions, NEW reauth \in BOOLEAN
    PROVE  /\ Stored(s, c, reauth) \in [Sessions -> Row]
           /\ \A q \in Sessions \ {s} : Stored(s, c, reauth)[q] = row[q]
           /\ Stored(s, c, reauth)[s].gen = call[c].new
           /\ Stored(s, c, reauth)[s].aal2 = call[c].aal2
           /\ Stored(s, c, reauth)[s].rev = row[s].rev
           /\ Stored(s, c, reauth)[s].epoch = row[s].epoch
           /\ Stored(s, c, reauth)[s].state = row[s].state
<1>1. row \in [Sessions -> Row] /\ row[s] \in Row /\ call[c] \in Call
  BY DEF IdentityInv, IdentityTypeOK, BrowserTypeOK
<1>2. PICK x \in {"never", "recent", "lapsed"} :
        x = IF reauth \/ (call[c].aal2 /\ row[s].reauth = "never") THEN "recent" ELSE row[s].reauth
  BY <1>1 DEF Row
<1>3. PICK g \in 0..MaxGen : g = call[c].new
  BY <1>1 DEF Call
<1>4. PICK b \in BOOLEAN : b = call[c].aal2
  BY <1>1 DEF Call
<1> DEFINE r == [row[s] EXCEPT !.gen = g, !.aal2 = b, !.due = FALSE, !.reauth = x]
<1>5. /\ r \in Row /\ r.gen = g /\ r.aal2 = b /\ r.rev = row[s].rev /\ r.epoch = row[s].epoch
      /\ r.state = row[s].state
  BY <1>1 DEF Row
<1>6. Stored(s, c, reauth) = [row EXCEPT ![s] = r]
  BY <1>1, <1>2, <1>3, <1>4 DEF Stored, Row
<1> HIDE DEF r
<1> QED BY <1>1, <1>3, <1>4, <1>5, <1>6

\* Revoking writes no more than the state of active rows.
LEMMA RevokedRows ==
    ASSUME IdentityInv, NEW S
    PROVE  /\ Revoked(S) \in [Sessions -> Row]
           /\ \A s \in Sessions :
                /\ Revoked(S)[s].gen = row[s].gen /\ Revoked(S)[s].aal2 = row[s].aal2
                /\ Revoked(S)[s].rev = row[s].rev /\ Revoked(S)[s].epoch = row[s].epoch
                /\ Revoked(S)[s].state = row[s].state
                   \/ (row[s].state = "active" /\ Revoked(S)[s].state = "revoked")
<1>1. row \in [Sessions -> Row]
  BY DEF IdentityInv, IdentityTypeOK, BrowserTypeOK
<1>2. \A s \in Sessions :
        LET r == [row[s] EXCEPT !.state = "revoked"]
        IN  /\ r \in Row /\ r.gen = row[s].gen /\ r.aal2 = row[s].aal2 /\ r.rev = row[s].rev
            /\ r.epoch = row[s].epoch /\ r.state = "revoked"
  BY <1>1 DEF Row
<1>3. \A s \in Sessions :
        \/ Revoked(S)[s] = row[s]
        \/ row[s].state = "active" /\ Revoked(S)[s] = [row[s] EXCEPT !.state = "revoked"]
  BY DEF Revoked
<1>4. Revoked(S) = [s \in Sessions |-> Revoked(S)[s]]
  BY DEF Revoked
<1>5. \A s \in Sessions : Revoked(S)[s] \in Row
  BY <1>1, <1>2, <1>3
<1>6. Revoked(S) \in [Sessions -> Row]
  BY <1>4, <1>5
<1> HIDE DEF Revoked
<1> QED BY <1>2, <1>3, <1>6

\* A row whose pair, coordinates and assurance stay and whose state moves within its life.
LEMMA RowMoves ==
    ASSUME IdentityInv, NEW s \in Sessions, Present(s), UNCHANGED family,
           row'[s].gen = row[s].gen, row'[s].aal2 = row[s].aal2,
           row'[s].rev = row[s].rev, row'[s].epoch = row[s].epoch,
           \/ row'[s].state = row[s].state
           \/ row[s].state \in {"pending", "active"} /\ row'[s].state \in {"revoked", "expired"}
    PROVE  RowGrows(s)
<1>1. row[s].gen \in Nat /\ family[s].gen \in Nat
  BY MaxGenAssumption DEF IdentityInv, IdentityTypeOK, BrowserTypeOK, Row, Family
<1>2. RowLags(s)
  BY DEF IdentityInv, SessionInv, RowsLag
<1> QED BY <1>1, <1>2 DEF RowGrows, RowLags, Present

\* A row revoked by the step of a request.
LEMMA RevokeStep ==
    ASSUME IdentityInv, NEW c \in Calls, NEW S, row' = Revoked(S), Goto(c, "done"),
           UNCHANGED <<account, family, authority, ended, task, accepted>>
    PROVE  CallStep(c)
<1>1. /\ row' \in [Sessions -> Row]
      /\ \A s \in Sessions :
                /\ row'[s].gen = row[s].gen /\ row'[s].aal2 = row[s].aal2
                /\ row'[s].rev = row[s].rev /\ row'[s].epoch = row[s].epoch
                /\ row'[s].state = row[s].state \/ (row[s].state = "active" /\ row'[s].state = "revoked")
  BY RevokedRows
<1>2. \A s \in Sessions : row'[s] = row[s] \/ (Present(s) /\ RowGrows(s))
  <2> SUFFICES ASSUME NEW s \in Sessions, row'[s] # row[s] PROVE Present(s) /\ RowGrows(s)
    OBVIOUS
  <2>1. Present(s)
    BY DEF Revoked, Present
  <2> QED BY <2>1, <1>1, RowMoves
<1> QED BY <1>1, <1>2, Going, KnowsNothing, WritesRows

\* The compare-and-set of the pair that was read.
LEMMA StoreStep ==
    ASSUME IdentityInv, NEW c \in Calls, call[c].pc \in {"rotate", "complete"},
           row[c.sess].gen = call[c].gen, Present(c.sess)
    PROVE  /\ row[c.sess].gen <= call[c].new /\ call[c].new <= family[c.sess].gen
           /\ call[c].aal2 => family[c.sess].aal2
           /\ family[c.sess].gen <= family[c.sess].gen
<1>1. c.sess \in Sessions
  BY CallsAssumption
<1>2. call[c].gen \in Nat /\ call[c].new \in Nat /\ family[c.sess].gen \in Nat
  BY <1>1, MaxGenAssumption DEF IdentityInv, IdentityTypeOK, BrowserTypeOK, Call, Family
<1>3. CallIsCurrent(c)
  BY DEF IdentityInv, SessionInv
<1> QED BY <1>2, <1>3 DEF CallIsCurrent

\* The rotation stores its pair if the row still has the pair it read.
LEMMA RotateStep ==
    ASSUME IdentityInv, NEW c \in Calls, Rotate(c), UNCHANGED managedVars
    PROVE  CallStep(c)
<1> DEFINE s == c.sess
<1>1. s \in Sessions
  BY CallsAssumption
<1>2. /\ call[c].pc = "rotate" /\ Present(s) /\ Goto(c, "settle")
      /\ UNCHANGED <<account, family, authority, ended, task, accepted>>
  BY <1>1, UsableIsPresent DEF Rotate, managedVars
<1>3. CASE row[s].gen = call[c].gen
  <2>1. row' = Stored(s, c, FALSE)
    BY <1>3 DEF Rotate
  <2>2. /\ row' \in [Sessions -> Row] /\ \A q \in Sessions \ {s} : row'[q] = row[q]
        /\ row'[s].gen = call[c].new /\ row'[s].aal2 = call[c].aal2 /\ row'[s].rev = row[s].rev
        /\ row'[s].epoch = row[s].epoch /\ row'[s].state = row[s].state
    BY <1>1, <2>1, StoredRow
  <2>3. RowGrows(s)
    BY <1>1, <1>2, <1>3, <2>2, StoreStep DEF RowGrows, Present
  <2>4. Present(s)'
    BY <2>3 DEF RowGrows
  <2>5. \A q \in Sessions : row'[q] = row[q] \/ (Present(q) /\ RowGrows(q))
    BY <1>2, <2>2, <2>3
  <2> QED BY <1>2, <2>2, <2>4, <2>5, Going, LooksAgain, WritesRows
<1>4. CASE row[s].gen # call[c].gen
  <2>1. row' = row
    BY <1>4 DEF Rotate
  <2> QED BY <1>2, <2>1, Going, LooksAgain, OnlyGoes DEF Present
<1> QED BY <1>3, <1>4

\* The completion of a TOTP code stores its pair on the row it was meant for.
LEMMA CompleteTotpStep ==
    ASSUME IdentityInv, NEW c \in Calls, CompleteTotp(c), UNCHANGED managedVars
    PROVE  CallStep(c)
<1> DEFINE s == c.sess
<1>1. s \in Sessions
  BY CallsAssumption
<1>2. call[c].pc = "complete" /\ UNCHANGED <<account, family, authority, ended, task, accepted>>
  BY DEF CompleteTotp, managedVars
<1>3. Present(s) /\ c.kind \in {"mfa", "stepup", "enroll"}
  BY <1>2 DEF IdentityInv, SessionInv, CallIsCurrent, Reading
<1>4. CASE Eligible(c) /\ row[s].gen = call[c].gen
  <2>1. row' = [Stored(s, c, TRUE) EXCEPT ![s].state = "active"] /\ Goto(c, "done")
    BY <1>4 DEF CompleteTotp
  <2>2. PICK t \in [Sessions -> Row] :
          /\ t = Stored(s, c, TRUE) /\ \A q \in Sessions \ {s} : t[q] = row[q]
          /\ t[s].gen = call[c].new /\ t[s].aal2 = call[c].aal2 /\ t[s].rev = row[s].rev
          /\ t[s].epoch = row[s].epoch
    BY <1>1, StoredRow
  <2>3. row' = [t EXCEPT ![s].state = "active"]
    BY <2>1, <2>2
  <2>4. row' \in [Sessions -> Row] /\ \A q \in Sessions \ {s} : row'[q] = t[q]
    BY <1>1, <2>3 DEF Row
  <2>5. /\ row'[s].gen = t[s].gen /\ row'[s].aal2 = t[s].aal2 /\ row'[s].rev = t[s].rev
        /\ row'[s].epoch = t[s].epoch /\ row'[s].state = "active"
    BY <1>1, <2>3 DEF Row
  <2>6. row[s].state \in {"pending", "active"}
    BY <1>3, <1>4 DEF Eligible, Usable
  <2>7. RowGrows(s)
    BY <1>1, <1>2, <1>3, <1>4, <2>2, <2>5, <2>6, StoreStep DEF RowGrows, Present
  <2>8. \A q \in Sessions : row'[q] = row[q] \/ (Present(q) /\ RowGrows(q))
    BY <1>3, <2>2, <2>4, <2>7
  <2> QED BY <1>2, <2>1, <2>4, <2>8, Going, KnowsNothing, WritesRows
<1>5. CASE Goto(c, "logout") /\ row' = row
  BY <1>2, <1>5, Going, KnowsNothing, OnlyGoes
<1> QED BY <1>4, <1>5 DEF CompleteTotp

\* A request looks at its session after an exchange of its own or of a peer.
LEMMA LookStep ==
    ASSUME IdentityInv, NEW c \in Calls, PeerRotation(c) \/ Settle(c), UNCHANGED managedVars
    PROVE  CallStep(c)
<1>1. Present(c.sess)
  BY CallsAssumption, UsableIsPresent DEF PeerRotation, Settle
<1>2. PICK pc \in {"reject", "read", "done"} : Goto(c, pc)
  BY DEF PeerRotation, Settle, Resolved
<1>3. UNCHANGED <<account, family, authority, row, ended, task, accepted>>
  BY DEF PeerRotation, Settle, managedVars
<1> QED BY <1>1, <1>2, <1>3, Going, LooksAgain, OnlyGoes DEF Present

\* A request ends the session whose pair Auth refused, unless another renewed it.
LEMMA RejectRefreshStep ==
    ASSUME IdentityInv, NEW c \in Calls, RejectRefresh(c), UNCHANGED managedVars
    PROVE  CallStep(c)
<1>1. UNCHANGED <<account, family, authority, ended, task, accepted>> /\ Present(c.sess)
  BY DEF RejectRefresh, managedVars, Present
<1>2. CASE row' = Revoked({c.sess}) /\ Goto(c, "done")
  BY <1>1, <1>2, RevokeStep
<1>3. CASE Goto(c, "settle") /\ row' = row
  BY <1>1, <1>3, Going, LooksAgain, OnlyGoes DEF Present
<1> QED BY <1>2, <1>3 DEF RejectRefresh

\* A user ends sessions of theirs.
LEMMA RevokeOwnedStep ==
    ASSUME IdentityInv, NEW c \in Calls, RevokeOwned(c), UNCHANGED managedVars
    PROVE  CallStep(c)
<1>1. PICK S : S = IF c.kind = "revokeall" THEN OwnedBy(Owner[c.sess]) ELSE {c.target}
  OBVIOUS
<1>2. row' = Revoked(S) /\ Goto(c, "done")
      /\ UNCHANGED <<account, family, authority, ended, task, accepted>>
  BY <1>1 DEF RevokeOwned, managedVars
<1> QED BY <1>2, RevokeStep

\* A request stops where it is.
LEMMA AbortCallStep ==
    ASSUME IdentityInv, NEW c \in Calls, AbortCall(c), UNCHANGED managedVars
    PROVE  CallStep(c)
BY Going, KnowsNothing, OnlyGoes DEF AbortCall, managedVars

\* Auth changes a password: no user, factor or session changes.
LEMMA RecoverAuthStep ==
    ASSUME IdentityInv, NEW c \in Calls, RecoverAuth(c), UNCHANGED managedVars
    PROVE  CallStep(c)
<1> DEFINE u == Owner[c.sess]
<1>1. u \in Subjects
  BY CallsAssumption, OwnerType
<1>2. /\ account' = [account EXCEPT ![u].pw = account[u].pw + 1] /\ Goto(c, "revoke")
      /\ UNCHANGED <<family, authority, row, ended, task, accepted>>
  BY DEF RecoverAuth, managedVars
<1>3. account \in [Subjects -> Account]
  BY DEF IdentityInv, IdentityTypeOK, BrowserTypeOK
<1>4. PICK n \in Nat : n = account[u].pw + 1
  BY <1>1, <1>3 DEF Account
<1>5. account' \in [Subjects -> Account]
  BY <1>1, <1>2, <1>3, <1>4 DEF Account
<1>6. \A v \in Subjects : account'[v].exists = account[v].exists /\ account'[v].totp = account[v].totp
  BY <1>1, <1>2, <1>3 DEF Account
<1>7. call' \in [Calls -> Call] /\ call'[c].pc = "revoke" /\ \A d \in Calls \ {c} : call'[d] = call[d]
  BY <1>2, Going
<1>8. BrowserTypeOK'
  BY <1>2, <1>5, <1>7 DEF IdentityInv, IdentityTypeOK, BrowserTypeOK
<1>9. \A s \in Sessions : family[s].gen \in Nat
  BY MaxGenAssumption DEF IdentityInv, IdentityTypeOK, BrowserTypeOK, Family
<1>10. RowsStep
  BY <1>2, <1>9, RowStays DEF RowsStep
<1>11. SessionsStep
  BY <1>2, <1>6, <1>10, QuietStep
<1>12. \A d \in Calls : Quiet(d.sess)
  BY <1>2, CallsAssumption DEF Quiet, Present
<1> QED BY <1>2, <1>6, <1>7, <1>8, <1>11, <1>12, KnowsNothing DEF CallStep, AccountsKeep

\* Ending the sessions of a subject: its authority row moves to a new epoch, its active
\* rows are revoked and every row of the old epoch is stale.
LEMMA EndingSessions ==
    ASSUME IdentityInv, NEW u \in Subjects, NEW a \in Authority, a.on,
           authority[u].rev <= a.rev, authority[u].epoch < a.epoch,
           authority' = [authority EXCEPT ![u] = a], row' = Revoked(OwnedBy(u)),
           ended' = ended \cup {s \in OwnedBy(u) : row[s].state # "absent"}, UNCHANGED <<family>>
    PROVE  /\ authority' \in [Subjects -> Authority] /\ row' \in [Sessions -> Row]
           /\ authority'[u] = a /\ \A v \in Subjects \ {u} : authority'[v] = authority[v]
           /\ AuthorityGrows /\ RowsStep /\ EndedStep
           /\ \A s \in Sessions : Quiet(s)
<1>1. /\ authority \in [Subjects -> Authority] /\ row \in [Sessions -> Row] /\ ended \subseteq Sessions
  BY DEF IdentityInv, IdentityTypeOK, BrowserTypeOK
<1>2. /\ authority' \in [Subjects -> Authority] /\ authority'[u] = a
      /\ \A v \in Subjects \ {u} : authority'[v] = authority[v]
  BY <1>1
<1>3. \A v \in Subjects : authority[v].rev \in Nat /\ authority[v].epoch \in Nat
  BY <1>1 DEF Authority
<1>4. a.rev \in Nat /\ a.epoch \in Nat
  BY DEF Authority
<1>5. AuthorityGrows
  BY <1>2, <1>3, <1>4 DEF AuthorityGrows
<1>6. /\ row' \in [Sessions -> Row]
      /\ \A s \in Sessions :
                /\ row'[s].gen = row[s].gen /\ row'[s].aal2 = row[s].aal2
                /\ row'[s].rev = row[s].rev /\ row'[s].epoch = row[s].epoch
                /\ row'[s].state = row[s].state \/ (row[s].state = "active" /\ row'[s].state = "revoked")
  BY RevokedRows
<1>7. \A s \in Sessions : Quiet(s) /\ (Present(s)' <=> Present(s))
  BY <1>6 DEF Quiet, Present
<1>8. RowsStep
  BY <1>6, <1>7, RowMoves DEF RowsStep
<1>9. EndedStep
  BY <1>1, <1>2 DEF EndedStep, OwnedBy, Present
<1> QED BY <1>2, <1>5, <1>6, <1>7, <1>8, <1>9

\* Password recovery ends the subject's sessions.
LEMMA RecoverRevokeStep ==
    ASSUME IdentityInv, NEW c \in Calls, RecoverRevoke(c), UNCHANGED managedVars
    PROVE  CallStep(c)
<1>1. PICK u \in Subjects : u = Owner[c.sess]
  BY CallsAssumption, OwnerType
<1>2. /\ authority[u].on /\ Goto(c, "logoutall") /\ UNCHANGED <<account, family, task, accepted>>
      /\ authority' = [authority EXCEPT ![u].epoch = authority[u].epoch + 1]
      /\ row' = Revoked(OwnedBy(u))
      /\ ended' = ended \cup {s \in OwnedBy(u) : row[s].state # "absent"}
  BY <1>1 DEF RecoverRevoke, EndSessions, managedVars
<1>3. authority[u] \in Authority
  BY DEF IdentityInv, IdentityTypeOK, BrowserTypeOK
<1>4. PICK n \in Nat : n = authority[u].epoch + 1
  BY <1>3 DEF Authority
<1>5. PICK a : a = [authority[u] EXCEPT !.epoch = n]
  OBVIOUS
<1>6. /\ a \in Authority /\ a.on = authority[u].on /\ a.admin = authority[u].admin
      /\ a.rev = authority[u].rev /\ a.epoch = n
  BY <1>3, <1>5 DEF Authority
<1>7. authority[u].rev <= a.rev /\ authority[u].epoch < a.epoch
  BY <1>3, <1>4, <1>6 DEF Authority
<1>8. authority' = [authority EXCEPT ![u] = a]
  BY <1>2, <1>4, <1>5
<1>9. /\ authority' \in [Subjects -> Authority] /\ row' \in [Sessions -> Row]
      /\ authority'[u] = a /\ \A v \in Subjects \ {u} : authority'[v] = authority[v]
      /\ AuthorityGrows /\ RowsStep /\ EndedStep
      /\ \A s \in Sessions : Quiet(s)
  BY <1>2, <1>6, <1>7, <1>8, EndingSessions
<1>10. call' \in [Calls -> Call] /\ call'[c].pc = "logoutall" /\ \A d \in Calls \ {c} : call'[d] = call[d]
  BY <1>2, Going
<1>11. BrowserTypeOK'
  BY <1>2, <1>9, <1>10 DEF IdentityInv, IdentityTypeOK, BrowserTypeOK, EndedStep
<1>12. AssuranceStep
  BY <1>2 DEF AssuranceStep, ResetPending
<1>13. AccountsKeep
  BY <1>2, <1>6, <1>9 DEF AccountsKeep
<1> QED BY <1>9, <1>10, <1>11, <1>12, <1>13, KnowsNothing, CallsAssumption DEF CallStep, SessionsStep

-----------------------------------------------------------------------------
(* Time, and all the steps of the session broker together.                  *)

\* A step that moves no request.
TimeStep ==
    /\ BrowserTypeOK' /\ SessionsStep /\ AccountsKeep
    /\ call' = call
    /\ \A s \in Sessions : Quiet(s)

\* One row ages.
LEMMA RowAges ==
    ASSUME IdentityInv, NEW s \in Sessions, NEW r \in Row, row' = [row EXCEPT ![s] = r],
           r.gen = row[s].gen, r.aal2 = row[s].aal2, r.rev = row[s].rev, r.epoch = row[s].epoch,
           r.state = row[s].state \/ (row[s].state \in {"pending", "active"} /\ r.state = "expired"),
           UNCHANGED <<account, family, authority, call, ended, task, accepted>>
    PROVE  TimeStep
<1>1. row' \in [Sessions -> Row] /\ row'[s] = r /\ \A q \in Sessions \ {s} : row'[q] = row[q]
  BY DEF IdentityInv, IdentityTypeOK, BrowserTypeOK
<1>2. BrowserTypeOK'
  BY <1>1 DEF IdentityInv, IdentityTypeOK, BrowserTypeOK
<1>3. \A q \in Sessions : Quiet(q)
  BY <1>1 DEF Quiet, Present
<1>4. RowsStep
  <2> SUFFICES ASSUME NEW q \in Sessions
               PROVE  (Present(q) => RowGrows(q)) /\ ~ (~ Present(q) /\ Present(q)')
    BY DEF RowsStep
  <2>1. ~ (~ Present(q) /\ Present(q)')
    BY <1>1 DEF Present
  <2>2. Present(q) => RowGrows(q)
    BY <1>1, RowMoves
  <2> QED BY <2>1, <2>2
<1>5. SessionsStep
  BY <1>4, QuietStep
<1> QED BY <1>2, <1>3, <1>5 DEF TimeStep, AccountsKeep

\* A row expires, comes due or lapses.
LEMMA AgingStep ==
    ASSUME IdentityInv, NEW s \in Sessions, Expire(s) \/ ComesDue(s) \/ Lapse(s), UNCHANGED managedVars
    PROVE  TimeStep
<1>1. row[s] \in Row
  BY DEF IdentityInv, IdentityTypeOK, BrowserTypeOK
<1>2. UNCHANGED <<account, family, authority, call, ended, task, accepted>>
  BY DEF Expire, ComesDue, Lapse, managedVars
<1>3. CASE Expire(s)
  <2>1. PICK r : r = [row[s] EXCEPT !.state = "expired"]
    OBVIOUS
  <2>2. /\ r \in Row /\ r.gen = row[s].gen /\ r.aal2 = row[s].aal2 /\ r.rev = row[s].rev
        /\ r.epoch = row[s].epoch /\ r.state = "expired"
    BY <1>1, <2>1 DEF Row
  <2>3. row' = [row EXCEPT ![s] = r] /\ row[s].state \in {"pending", "active"}
    BY <1>3, <2>1 DEF Expire
  <2> QED BY <1>2, <2>2, <2>3, RowAges
<1>4. CASE ComesDue(s)
  <2>1. PICK r : r = [row[s] EXCEPT !.due = TRUE]
    OBVIOUS
  <2>2. /\ r \in Row /\ r.gen = row[s].gen /\ r.aal2 = row[s].aal2 /\ r.rev = row[s].rev
        /\ r.epoch = row[s].epoch /\ r.state = row[s].state
    BY <1>1, <2>1 DEF Row
  <2>3. row' = [row EXCEPT ![s] = r]
    BY <1>4, <2>1 DEF ComesDue
  <2> QED BY <1>2, <2>2, <2>3, RowAges
<1>5. CASE Lapse(s)
  <2>1. PICK r : r = [row[s] EXCEPT !.reauth = "lapsed"]
    OBVIOUS
  <2>2. /\ r \in Row /\ r.gen = row[s].gen /\ r.aal2 = row[s].aal2 /\ r.rev = row[s].rev
        /\ r.epoch = row[s].epoch /\ r.state = row[s].state
    BY <1>1, <2>1 DEF Row
  <2>3. row' = [row EXCEPT ![s] = r]
    BY <1>5, <2>1 DEF Lapse
  <2> QED BY <1>2, <2>2, <2>3, RowAges
<1> QED BY <1>3, <1>4, <1>5

\* Any step of a request.
LEMMA BrowserCallStep ==
    ASSUME IdentityInv, NEW c \in Calls, BrowserCall(c), UNCHANGED managedVars
    PROVE  CallStep(c)
BY LoginAuthStep, LoginIssueStep, LogoutStep, ReadCredentialsStep, RefreshAuthStep, RotateStep,
   LookStep, RejectRefreshStep, ReadForTotpStep, VerifyTotpStep, CompleteTotpStep, RecoverAuthStep,
   RecoverRevokeStep, RecoverLogoutStep, RevokeOwnedStep, AbortCallStep DEF BrowserCall

\* Users, authority rows and administrators as they were, tasks as they were.
LEMMA AccountsKept ==
    ASSUME IdentityInv, AccountsKeep, UNCHANGED managedVars
    PROVE  AccountInv'
<1>1. task' = task /\ accepted' = accepted
  BY DEF managedVars
<1>2. \A t \in Tasks : t.target \in Subjects
  BY TasksAssumption
<1>3. AuthorityHasAccount'
  BY DEF AuthorityHasAccount, AccountsKeep, IdentityInv, AccountInv
<1>4. CreatorsAreAlone'
  BY <1>1, <1>2 DEF CreatorsAreAlone, UnderWay, Creation, AccountsKeep, IdentityInv, AccountInv
<1>5. SomeoneIsManaged' <=> SomeoneIsManaged
  BY DEF SomeoneIsManaged, AccountsKeep
<1>6. AdministratorIsThere'
  BY <1>5 DEF AdministratorIsThere, Admin, AccountsKeep, IdentityInv, AccountInv
<1>7. BootstrapsOnce' /\ TasksAreInOrder'
  BY <1>1, <1>5 DEF BootstrapsOnce, Bootstrapped, TasksAreInOrder, IdentityInv, AccountInv
<1> QED BY <1>3, <1>4, <1>6, <1>7 DEF AccountInv

\* The devices as they were.
LEMMA DevicesKept ==
    ASSUME IdentityInv, UNCHANGED cliVars
    PROVE  CliInv' /\ CliTypeOK'
<1>1. enrollment' = enrollment /\ challenge' = challenge /\ cli' = cli /\ cliCall' = cliCall
  BY DEF cliVars
<1>2. CliTypeOK'
  BY <1>1 DEF IdentityInv, IdentityTypeOK, CliTypeOK
<1>3. CliInv'
  BY <1>1 DEF IdentityInv, CliInv, CliSessionsAreEarned, Device, Holder
<1> QED BY <1>2, <1>3

\* The broker and time keep the invariant, and move the sessions as a step may.
LEMMA BrowserKeeps ==
    ASSUME IdentityInv, BrowserNext, UNCHANGED <<managedVars, cliVars>>
    PROVE  IdentityInv' /\ SessionsStep
<1>1. UNCHANGED managedVars /\ UNCHANGED cliVars
  OBVIOUS
<1>2. ManagedTypeOK'
  BY <1>1 DEF managedVars, ManagedTypeOK, IdentityInv, IdentityTypeOK
<1>3. CliInv' /\ CliTypeOK'
  BY <1>1, DevicesKept
<1>4. ASSUME NEW c \in Calls, BrowserCall(c)
      PROVE  IdentityInv' /\ SessionsStep
  <2>1. CallStep(c)
    BY <1>1, <1>4, BrowserCallStep
  <2>2. IdentityTypeOK'
    BY <2>1, <1>2, <1>3 DEF IdentityTypeOK, CallStep
  <2>3. ASSUME NEW d \in Calls PROVE CallIsCurrent(d)'
    <3>1. CASE d = c
      BY <2>1, <3>1 DEF CallStep
    <3>2. CASE d # c
      BY <2>1, <2>2, <3>2, CallKept DEF CallStep, SessionsStep, Quiet
    <3> QED BY <3>1, <3>2
  <2>4. SessionInv'
    BY <2>1, <2>2, <2>3, SessionsKept DEF SessionInv, CallStep
  <2>5. AccountInv'
    BY <1>1, <2>1, AccountsKept DEF CallStep
  <2> QED BY <1>3, <2>1, <2>2, <2>4, <2>5 DEF IdentityInv, CallStep
<1>5. ASSUME NEW s \in Sessions, Expire(s) \/ ComesDue(s) \/ Lapse(s)
      PROVE  IdentityInv' /\ SessionsStep
  <2>1. TimeStep
    BY <1>1, <1>5, AgingStep
  <2>2. IdentityTypeOK'
    BY <2>1, <1>2, <1>3 DEF IdentityTypeOK, TimeStep
  <2>3. ASSUME NEW d \in Calls PROVE CallIsCurrent(d)'
    BY <2>1, <2>2, CallsAssumption, CallKept DEF TimeStep, SessionsStep, Quiet
  <2>4. SessionInv'
    BY <2>1, <2>2, <2>3, SessionsKept DEF SessionInv, TimeStep
  <2>5. AccountInv'
    BY <1>1, <2>1, AccountsKept DEF TimeStep
  <2> QED BY <1>3, <2>1, <2>2, <2>4, <2>5 DEF IdentityInv, TimeStep
<1> QED BY <1>4, <1>5 DEF BrowserNext

-----------------------------------------------------------------------------
(* Management.                                                              *)

\* What a step of an administrative request gives.
TaskStep ==
    /\ BrowserTypeOK' /\ ManagedTypeOK' /\ SessionsStep /\ AccountInv'
    /\ call' = call
    /\ \A s \in Sessions : Quiet(s)

\* The shape of a request.
LEMMA TaskType ==
    ASSUME NEW t \in Tasks
    PROVE  t.sess \in Sessions /\ t.target \in Subjects /\ Actor(t) \in Subjects
BY TasksAssumption, OwnerAssumption DEF Actor

\* A request goes on, and the others stay where they are.
LEMMA GoingTask ==
    ASSUME IdentityInv, NEW t \in Tasks,
           NEW pc \in {"start", "auth", "apply", "complete", "undo", "done", "completed"}, GotoTask(t, pc)
    PROVE  /\ task' \in [Tasks -> Task] /\ task'[t].pc = pc
           /\ \A o \in Tasks \ {t} : task'[o] = task[o]
<1>1. task \in [Tasks -> Task]
  BY DEF IdentityInv, IdentityTypeOK, ManagedTypeOK
<1>2. [task[t] EXCEPT !.pc = pc] \in Task /\ [task[t] EXCEPT !.pc = pc].pc = pc
  BY <1>1 DEF Task
<1>3. task' = [task EXCEPT ![t] = [task[t] EXCEPT !.pc = pc]]
  BY DEF GotoTask
<1> QED BY <1>1, <1>2, <1>3

\* No user or authority row comes or goes, and the request neither begins a creation
\* nor completes a bootstrap.
LEMMA TaskAccounts ==
    ASSUME IdentityInv, NEW t \in Tasks, \A o \in Tasks \ {t} : task'[o] = task[o],
           \A u \in Subjects : account'[u].exists = account[u].exists /\ authority'[u].on = authority[u].on,
           AdministratorIsThere', accepted \subseteq accepted', UnderWay(t)' => UnderWay(t),
           Bootstrapped(t)' => Bootstrapped(t),
           (t.kind \in Lifecycle /\ task'[t].pc = "auth") => t \in accepted',
           task'[t].pc = "apply" => t.kind \in {"profile", "enable", "disable"}
    PROVE  AccountInv'
<1>1. \A o \in Tasks : o.target \in Subjects
  BY TaskType
<1>2. AuthorityHasAccount'
  BY DEF AuthorityHasAccount, IdentityInv, AccountInv
<1>3. \A o \in Tasks : UnderWay(o)' => UnderWay(o)
  BY DEF UnderWay
<1>4. CreatorsAreAlone'
  <2> SUFFICES ASSUME NEW o \in Tasks, UnderWay(o)'
               PROVE  /\ (account[o.target].exists)'
                      /\ \A p \in Tasks : (UnderWay(p)' /\ p.target = o.target) => p = o
    BY DEF CreatorsAreAlone
  <2> QED BY <1>1, <1>3 DEF CreatorsAreAlone, IdentityInv, AccountInv
<1>5. SomeoneIsManaged' <=> SomeoneIsManaged
  BY DEF SomeoneIsManaged
<1>6. \A o \in Tasks : Bootstrapped(o)' => Bootstrapped(o)
  BY DEF Bootstrapped
<1>7. BootstrapsOnce'
  BY <1>5, <1>6 DEF BootstrapsOnce, IdentityInv, AccountInv
<1>8. TasksAreInOrder'
  BY DEF TasksAreInOrder, IdentityInv, AccountInv
<1> QED BY <1>2, <1>4, <1>7, <1>8 DEF AccountInv

\* Administrators stay where roles do.
LEMMA AdministratorsStay ==
    ASSUME IdentityInv, UNCHANGED authority PROVE AdministratorIsThere'
BY DEF IdentityInv, AccountInv, AdministratorIsThere, SomeoneIsManaged, Admin

\* A step that leaves the rows and the authority, and completes no request.
LEMMA TaskSessions ==
    ASSUME IdentityInv, UNCHANGED <<authority, row, ended>>,
           \A s \in Sessions : family'[s].gen = family[s].gen /\ family'[s].aal2 = family[s].aal2,
           accepted \subseteq accepted',
           \A o \in accepted : task'[o].pc = "completed" => task[o].pc = "completed",
           \A u \in Subjects : account[u].totp => account'[u].totp \/ ~ authority[u].on \/ ResetPending(u)'
    PROVE  SessionsStep /\ \A s \in Sessions : Quiet(s)
<1>1. \A u \in Subjects : authority[u].rev \in Nat /\ authority[u].epoch \in Nat
  BY DEF IdentityInv, IdentityTypeOK, BrowserTypeOK, Authority
<1>2. \A s \in Sessions : family[s].gen \in Nat
  BY MaxGenAssumption DEF IdentityInv, IdentityTypeOK, BrowserTypeOK, Family
<1>3. AuthorityGrows
  BY <1>1 DEF AuthorityGrows
<1>4. EndedStep
  BY DEF EndedStep, IdentityInv, IdentityTypeOK, BrowserTypeOK
<1>5. \A u \in Subjects : ResetPending(u) => ResetPending(u)'
  BY DEF ResetPending
<1>6. AssuranceStep
  BY <1>5 DEF AssuranceStep
<1>7. RowsStep
  BY <1>2, RowStays DEF RowsStep
<1>8. \A s \in Sessions : Quiet(s)
  BY DEF Quiet, Present
<1> QED BY <1>3, <1>4, <1>6, <1>7, <1>8 DEF SessionsStep

\* A step of a request that leaves the browser's state alone.
LEMMA TaskOnly ==
    ASSUME IdentityInv, NEW t \in Tasks, task' \in [Tasks -> Task], accepted' \subseteq Tasks,
           accepted \subseteq accepted', UNCHANGED browserVars,
           \A o \in Tasks \ {t} : task'[o] = task[o], UnderWay(t)' => UnderWay(t),
           task'[t].pc # "completed",
           (t.kind \in Lifecycle /\ task'[t].pc = "auth") => t \in accepted',
           task'[t].pc = "apply" => t.kind \in {"profile", "enable", "disable"}
    PROVE  TaskStep
<1>1. UNCHANGED <<account, family, authority, row, call, ended>>
  BY DEF browserVars
<1>2. BrowserTypeOK' /\ ManagedTypeOK'
  BY <1>1 DEF IdentityInv, IdentityTypeOK, BrowserTypeOK, ManagedTypeOK
<1>3. accepted \subseteq Tasks
  BY DEF IdentityInv, IdentityTypeOK, ManagedTypeOK
<1>4. SessionsStep /\ \A s \in Sessions : Quiet(s)
  BY <1>1, <1>3, TaskSessions
<1>5. AccountInv'
  BY <1>1, AdministratorsStay, TaskAccounts DEF Bootstrapped
<1> QED BY <1>1, <1>2, <1>4, <1>5 DEF TaskStep

\* The intent is accepted.
LEMMA PrepareStep ==
    ASSUME IdentityInv, NEW t \in Tasks, Prepare(t) PROVE TaskStep
<1>1. /\ accepted' = accepted \cup {t} /\ GotoTask(t, "auth") /\ UNCHANGED browserVars
  BY DEF Prepare
<1>2. accepted' \subseteq Tasks /\ accepted \subseteq accepted' /\ t \in accepted'
  BY <1>1 DEF IdentityInv, IdentityTypeOK, ManagedTypeOK
<1> QED BY <1>1, <1>2, GoingTask, TaskOnly DEF UnderWay

\* The user is read.
LEMMA ReadUserStep ==
    ASSUME IdentityInv, NEW t \in Tasks, ReadUser(t) PROVE TaskStep
<1>1. PICK k : k = [pc |-> "apply", enabled |-> account[t.target].enabled, name |-> account[t.target].name]
  OBVIOUS
<1>2. /\ task' = [task EXCEPT ![t] = k] /\ UNCHANGED browserVars /\ accepted' = accepted
      /\ t.kind \in {"profile", "enable", "disable"}
  BY <1>1 DEF ReadUser
<1>3. k \in Task /\ k.pc = "apply"
  BY <1>1, TaskType DEF IdentityInv, IdentityTypeOK, BrowserTypeOK, Account, Task
<1>4. /\ task' \in [Tasks -> Task] /\ task'[t] = k /\ \A o \in Tasks \ {t} : task'[o] = task[o]
      /\ accepted \subseteq Tasks
  BY <1>2, <1>3 DEF IdentityInv, IdentityTypeOK, ManagedTypeOK
<1> QED BY <1>2, <1>3, <1>4, TaskOnly DEF UnderWay

\* The completion fails, or the replica stops.
LEMMA CompleteFailsStep ==
    ASSUME IdentityInv, NEW t \in Tasks, CompleteFails(t) \/ AbortTask(t) PROVE TaskStep
<1>1. PICK pc \in {"undo", "done"} : /\ GotoTask(t, pc) /\ UNCHANGED browserVars /\ accepted' = accepted
                                     /\ pc = "undo" => task[t].pc = "complete"
  BY DEF CompleteFails, AbortTask
<1>2. accepted \subseteq Tasks
  BY DEF IdentityInv, IdentityTypeOK, ManagedTypeOK
<1> QED BY <1>1, <1>2, GoingTask, TaskOnly DEF UnderWay

\* The row of a user that is not there is a row.
LEMMA NoAccountType == NoAccount \in Account
<1>1. "" \in Name
  BY DEF Name
<1> QED BY <1>1 DEF NoAccount, Account

\* A step of a request that writes users and leaves them there.
LEMMA TaskWritesUser ==
    ASSUME IdentityInv, NEW t \in Tasks, account' \in [Subjects -> Account],
           \A u \in Subjects : account'[u].exists = account[u].exists,
           \A u \in Subjects : account[u].totp => account'[u].totp \/ ResetPending(u)',
           NEW pc \in {"complete", "undo", "done"}, GotoTask(t, pc), pc = "complete" => ~ Creation(t),
           pc # "undo", family' \in [Sessions -> Family],
           \A s \in Sessions : family'[s].gen = family[s].gen /\ family'[s].aal2 = family[s].aal2,
           UNCHANGED <<authority, row, call, ended, accepted>>
    PROVE  TaskStep
<1>1. task' \in [Tasks -> Task] /\ task'[t].pc = pc /\ \A o \in Tasks \ {t} : task'[o] = task[o]
  BY GoingTask
<1>2. BrowserTypeOK' /\ ManagedTypeOK' /\ accepted \subseteq Tasks
  BY <1>1 DEF IdentityInv, IdentityTypeOK, BrowserTypeOK, ManagedTypeOK
<1>3. SessionsStep /\ \A s \in Sessions : Quiet(s)
  BY <1>1, <1>2, TaskSessions
<1>4. AccountInv'
  BY <1>1, AdministratorsStay, TaskAccounts DEF Bootstrapped, UnderWay
<1> QED BY <1>2, <1>3, <1>4 DEF TaskStep

\* The profile or the enabled state is written.
LEMMA WriteUserStep ==
    ASSUME IdentityInv, NEW t \in Tasks, WriteUser(t) PROVE TaskStep
<1> DEFINE u == t.target
<1>1. u \in Subjects /\ account \in [Subjects -> Account] /\ t.id \in Name
  BY TaskType, TasksAssumption DEF Name, IdentityInv, IdentityTypeOK, BrowserTypeOK
<1>2. /\ task[t].pc = "apply" /\ GotoTask(t, "complete")
      /\ UNCHANGED <<family, authority, row, call, ended, accepted>>
  BY DEF WriteUser
<1>3. t.kind \in {"profile", "enable", "disable"}
  BY <1>2 DEF IdentityInv, AccountInv, TasksAreInOrder
<1>4. \/ account' = [account EXCEPT ![u].name = t.id]
      \/ account' = [account EXCEPT ![u].enabled = TRUE]
      \/ account' = [account EXCEPT ![u].enabled = FALSE]
  BY <1>3 DEF WriteUser
<1>5. /\ account' \in [Subjects -> Account]
      /\ \A v \in Subjects : account'[v].exists = account[v].exists /\ account'[v].totp = account[v].totp
  <2>1. CASE account' = [account EXCEPT ![u].name = t.id]
    BY <1>1, <2>1 DEF Account
  <2>2. CASE account' = [account EXCEPT ![u].enabled = TRUE]
    BY <1>1, <2>2 DEF Account
  <2>3. CASE account' = [account EXCEPT ![u].enabled = FALSE]
    BY <1>1, <2>3 DEF Account
  <2> QED BY <1>4, <2>1, <2>2, <2>3
<1>6. family' \in [Sessions -> Family]
  BY <1>2 DEF IdentityInv, IdentityTypeOK, BrowserTypeOK
<1> QED BY <1>2, <1>3, <1>5, <1>6, TaskWritesUser DEF Creation

\* The factors of a user go while the reset that removes them is pending.
LEMMA RemoveFactorsStep ==
    ASSUME IdentityInv, NEW t \in Tasks, RemoveFactors(t) PROVE TaskStep
<1>1. PICK u \in Subjects : u = t.target
  BY TaskType
<1>2. /\ t.kind \in {"link", "mfareset"} /\ task[t].pc = "auth" /\ GotoTask(t, "complete")
      /\ UNCHANGED <<family, authority, row, call, ended, accepted>>
  BY DEF RemoveFactors
<1>3. account \in [Subjects -> Account]
  BY DEF IdentityInv, IdentityTypeOK, BrowserTypeOK
<1>4. PICK b \in BOOLEAN : b = IF t.kind = "mfareset" THEN FALSE ELSE account[u].totp
  BY <1>3 DEF Account
<1>5. account' = [account EXCEPT ![u].totp = b]
  BY <1>1, <1>4 DEF RemoveFactors
<1>6. /\ account' \in [Subjects -> Account] /\ account'[u].totp = b
      /\ \A v \in Subjects : account'[v].exists = account[v].exists
      /\ \A v \in Subjects \ {u} : account'[v] = account[v]
  BY <1>3, <1>5 DEF Account
<1>7. t \in accepted /\ task'[t].pc = "complete"
  BY <1>2, GoingTask DEF IdentityInv, AccountInv, TasksAreInOrder, Lifecycle
<1>8. t.kind = "mfareset" => ResetPending(u)'
  BY <1>1, <1>2, <1>7 DEF ResetPending
<1>9. \A v \in Subjects : account[v].totp => account'[v].totp \/ ResetPending(v)'
  BY <1>2, <1>4, <1>6, <1>8
<1>10. family' \in [Sessions -> Family]
  BY <1>2 DEF IdentityInv, IdentityTypeOK, BrowserTypeOK
<1> QED BY <1>2, <1>6, <1>9, <1>10, TaskWritesUser DEF Creation

\* The user is made where there was none.
LEMMA CreateUserStep ==
    ASSUME IdentityInv, NEW t \in Tasks, CreateUser(t) PROVE TaskStep
<1>1. PICK u \in Subjects : u = t.target
  BY TaskType
<1>2. /\ Creation(t) /\ GotoTask(t, "complete") /\ ~ account[u].exists
      /\ account' = [account EXCEPT ![u] = NewAccount]
      /\ UNCHANGED <<family, authority, row, call, ended, accepted>>
  BY <1>1 DEF CreateUser, Creation
<1>3. NoAccount \in Account
  BY NoAccountType
<1>4. NewAccount \in Account /\ NewAccount.exists = TRUE
  BY <1>3 DEF NewAccount, Account
<1>5. /\ account' \in [Subjects -> Account] /\ account'[u].exists
      /\ \A v \in Subjects \ {u} : account'[v] = account[v]
  BY <1>2, <1>4 DEF IdentityInv, IdentityTypeOK, BrowserTypeOK
<1>6. task' \in [Tasks -> Task] /\ task'[t].pc = "complete" /\ \A o \in Tasks \ {t} : task'[o] = task[o]
  BY <1>2, GoingTask
<1>7. BrowserTypeOK' /\ ManagedTypeOK' /\ accepted \subseteq Tasks
  BY <1>2, <1>5, <1>6 DEF IdentityInv, IdentityTypeOK, BrowserTypeOK, ManagedTypeOK
<1>8. ~ authority[u].on
  BY <1>2 DEF IdentityInv, AccountInv, AuthorityHasAccount
<1>9. SessionsStep /\ \A s \in Sessions : Quiet(s)
  BY <1>2, <1>5, <1>6, <1>7, <1>8, TaskSessions
<1>10. \A o \in Tasks \ {t} : UnderWay(o)' => UnderWay(o) /\ o.target \in Subjects \ {u}
  <2> SUFFICES ASSUME NEW o \in Tasks \ {t}, UnderWay(o)'
               PROVE  UnderWay(o) /\ o.target \in Subjects \ {u}
    OBVIOUS
  <2>1. UnderWay(o) /\ o.target \in Subjects
    BY <1>6, TaskType DEF UnderWay
  <2>2. account[o.target].exists
    BY <2>1 DEF IdentityInv, AccountInv, CreatorsAreAlone
  <2> QED BY <2>1, <2>2, <1>2
<1>11. CreatorsAreAlone'
  <2> SUFFICES ASSUME NEW o \in Tasks, UnderWay(o)'
               PROVE  /\ (account[o.target].exists)'
                      /\ \A p \in Tasks : (UnderWay(p)' /\ p.target = o.target) => p = o
    BY DEF CreatorsAreAlone
  <2>1. CASE o = t
    BY <2>1, <1>1, <1>5, <1>10
  <2>2. CASE o # t
    <3>1. UnderWay(o) /\ o.target \in Subjects \ {u} /\ account'[o.target] = account[o.target]
      BY <2>2, <1>5, <1>10
    <3>2. /\ account[o.target].exists
          /\ \A p \in Tasks : (UnderWay(p) /\ p.target = o.target) => p = o
      BY <3>1 DEF IdentityInv, AccountInv, CreatorsAreAlone
    <3> QED BY <3>1, <3>2, <1>1, <1>10
  <2> QED BY <2>1, <2>2
<1>12. AuthorityHasAccount'
  BY <1>2, <1>5 DEF AuthorityHasAccount, IdentityInv, AccountInv
<1>13. BootstrapsOnce' /\ TasksAreInOrder'
  BY <1>2, <1>6 DEF BootstrapsOnce, Bootstrapped, SomeoneIsManaged, TasksAreInOrder, IdentityInv, AccountInv
<1>14. AccountInv'
  BY <1>2, <1>11, <1>12, <1>13, AdministratorsStay DEF AccountInv
<1> QED BY <1>2, <1>7, <1>9, <1>14 DEF TaskStep

\* The rollback in Auth: a user goes only without an authority row.
LEMMA UndoStep ==
    ASSUME IdentityInv, NEW t \in Tasks, Undo(t) PROVE TaskStep
<1>1. PICK u \in Subjects : u = t.target
  BY TaskType
<1>2. /\ task[t].pc = "undo" /\ GotoTask(t, "done")
      /\ UNCHANGED <<authority, row, call, ended, accepted>>
      /\ family' = [s \in Sessions |-> [family[s] EXCEPT !.live = family[s].live /\ account'[Owner[s]].exists]]
  BY DEF Undo
<1>3. account \in [Subjects -> Account] /\ family \in [Sessions -> Family] /\ task[t] \in Task
  BY DEF IdentityInv, IdentityTypeOK, BrowserTypeOK, ManagedTypeOK
<1>4. /\ family' \in [Sessions -> Family]
      /\ \A s \in Sessions : family'[s].gen = family[s].gen /\ family'[s].aal2 = family[s].aal2
  <2>1. \A s \in Sessions : \A b \in BOOLEAN :
            /\ [family[s] EXCEPT !.live = b] \in Family
            /\ [family[s] EXCEPT !.live = b].gen = family[s].gen
            /\ [family[s] EXCEPT !.live = b].aal2 = family[s].aal2
    BY <1>3 DEF Family
  <2>2. \A s \in Sessions : (family[s].live /\ account'[Owner[s]].exists) \in BOOLEAN
    OBVIOUS
  <2>3. \A s \in Sessions : /\ family'[s] \in Family
                            /\ family'[s].gen = family[s].gen /\ family'[s].aal2 = family[s].aal2
    BY <1>2, <2>1, <2>2
  <2> QED BY <1>2, <2>3
<1>5. ASSUME account' \in [Subjects -> Account],
             \A v \in Subjects : account'[v].exists = account[v].exists /\ account'[v].totp = account[v].totp
      PROVE  TaskStep
  BY <1>2, <1>4, <1>5, TaskWritesUser
<1>6. CASE ~ Creation(t)
  <2>1. \/ account' = [account EXCEPT ![u].name = task[t].name]
        \/ account' = [account EXCEPT ![u].enabled = task[t].enabled]
        \/ account' = account
    BY <1>1, <1>6 DEF Undo, Creation
  <2>2. task[t].name \in Name /\ task[t].enabled \in BOOLEAN
    BY <1>3 DEF Task
  <2>3. CASE account' = [account EXCEPT ![u].name = task[t].name]
    <3>1. /\ account' \in [Subjects -> Account]
          /\ \A v \in Subjects : account'[v].exists = account[v].exists /\ account'[v].totp = account[v].totp
      BY <1>3, <2>2, <2>3 DEF Account
    <3> QED BY <1>5, <3>1
  <2>4. CASE account' = [account EXCEPT ![u].enabled = task[t].enabled]
    <3>1. /\ account' \in [Subjects -> Account]
          /\ \A v \in Subjects : account'[v].exists = account[v].exists /\ account'[v].totp = account[v].totp
      BY <1>3, <2>2, <2>4 DEF Account
    <3> QED BY <1>5, <3>1
  <2> QED BY <1>3, <1>5, <2>1, <2>3, <2>4
<1>7. CASE Creation(t) /\ authority[u].on
  <2>1. account' = account
    BY <1>1, <1>7 DEF Undo, Creation, DeleteUser
  <2> QED BY <1>3, <1>5, <2>1
<1>8. CASE Creation(t) /\ ~ authority[u].on
  <2>1. account' = [account EXCEPT ![u] = NoAccount]
    BY <1>1, <1>8 DEF Undo, Creation, DeleteUser
  <2>2. account' \in [Subjects -> Account] /\ \A v \in Subjects \ {u} : account'[v] = account[v]
    BY <1>3, <2>1, NoAccountType
  <2>3. task' \in [Tasks -> Task] /\ task'[t].pc = "done" /\ \A o \in Tasks \ {t} : task'[o] = task[o]
    BY <1>2, GoingTask
  <2>4. BrowserTypeOK' /\ ManagedTypeOK' /\ accepted \subseteq Tasks
    BY <1>2, <1>4, <2>2, <2>3 DEF IdentityInv, IdentityTypeOK, BrowserTypeOK, ManagedTypeOK
  <2>5. SessionsStep /\ \A s \in Sessions : Quiet(s)
    BY <1>2, <1>4, <1>8, <2>2, <2>3, <2>4, TaskSessions
  <2>6. UnderWay(t)
    BY <1>2, <1>8 DEF UnderWay
  <2>7. \A o \in Tasks : UnderWay(o)' => UnderWay(o) /\ o.target \in Subjects \ {u}
    <3> SUFFICES ASSUME NEW o \in Tasks, UnderWay(o)'
                 PROVE  UnderWay(o) /\ o.target \in Subjects \ {u}
      OBVIOUS
    <3>1. o # t /\ UnderWay(o)
      BY <2>3 DEF UnderWay
    <3> QED BY <3>1, <2>6, <1>1, TaskType DEF IdentityInv, AccountInv, CreatorsAreAlone
  <2>8. CreatorsAreAlone'
    <3> SUFFICES ASSUME NEW o \in Tasks, UnderWay(o)'
                 PROVE  /\ (account[o.target].exists)'
                        /\ \A p \in Tasks : (UnderWay(p)' /\ p.target = o.target) => p = o
      BY DEF CreatorsAreAlone
    <3>1. UnderWay(o) /\ account'[o.target] = account[o.target]
      BY <2>2, <2>7
    <3> QED BY <3>1, <2>7 DEF IdentityInv, AccountInv, CreatorsAreAlone
  <2>9. AuthorityHasAccount'
    BY <1>2, <1>8, <2>2 DEF AuthorityHasAccount, IdentityInv, AccountInv
  <2>10. BootstrapsOnce' /\ TasksAreInOrder'
    BY <1>2, <2>3 DEF BootstrapsOnce, Bootstrapped, SomeoneIsManaged, TasksAreInOrder, IdentityInv, AccountInv
  <2>11. AccountInv'
    BY <1>2, <2>8, <2>9, <2>10, AdministratorsStay DEF AccountInv
  <2> QED BY <1>2, <2>4, <2>5, <2>11 DEF TaskStep
<1> QED BY <1>6, <1>7, <1>8

\* The completion of a creation: the subject had no authority row.
LEMMA EnrollStep ==
    ASSUME IdentityInv, NEW t \in Tasks, NEW pc \in {"completed", "undo"}, Creation(t),
           Completed(t), Enroll(t.target, t.kind = "bootstrap" \/ t.admin), GotoTask(t, pc),
           UNCHANGED <<account, family, call, accepted>>
    PROVE  TaskStep
<1>1. PICK u \in Subjects : u = t.target
  BY TaskType
<1>2. task[t].pc = "complete" /\ MayComplete(t) /\ UNCHANGED <<row, ended>>
  BY DEF Completed, Enroll
<1>3. PICK a : a = [on |-> TRUE, admin |-> t.kind = "bootstrap" \/ t.admin, rev |-> 1, epoch |-> 0]
  OBVIOUS
<1>4. a \in Authority /\ a.on /\ (t.kind = "bootstrap" => a.admin)
  BY <1>3 DEF Authority
<1>5. /\ authority' \in [Subjects -> Authority] /\ authority'[u] = a
      /\ \A v \in Subjects \ {u} : authority'[v] = authority[v]
  BY <1>1, <1>3, <1>4 DEF Enroll, IdentityInv, IdentityTypeOK, BrowserTypeOK
<1>6. task' \in [Tasks -> Task] /\ task'[t].pc = pc /\ \A o \in Tasks \ {t} : task'[o] = task[o]
  BY GoingTask
<1>7. UnderWay(t) /\ account[u].exists
  BY <1>1, <1>2 DEF UnderWay, IdentityInv, AccountInv, CreatorsAreAlone
<1>8. ~ authority[u].on
  BY <1>1, <1>2 DEF MayComplete, Creation
<1>9. BrowserTypeOK' /\ ManagedTypeOK' /\ accepted \subseteq Tasks
  BY <1>2, <1>5, <1>6 DEF IdentityInv, IdentityTypeOK, BrowserTypeOK, ManagedTypeOK
<1>10. AuthorityGrows
  <2>1. \A v \in Subjects : authority[v].rev \in Nat /\ authority[v].epoch \in Nat
    BY DEF IdentityInv, IdentityTypeOK, BrowserTypeOK, Authority
  <2> QED BY <1>5, <1>8, <2>1 DEF AuthorityGrows
<1>11. \A v \in Subjects : ResetPending(v) => ResetPending(v)'
  <2> SUFFICES ASSUME NEW v \in Subjects, NEW o \in accepted, o.kind = "mfareset", o.target = v,
                      task[o].pc # "completed"
               PROVE  ResetPending(v)'
    BY DEF ResetPending
  <2>1. o # t /\ task'[o] = task[o]
    BY <1>6, <1>9 DEF Creation
  <2> QED BY <2>1 DEF ResetPending
<1>12. RowsStep /\ \A s \in Sessions : Quiet(s)
  <2>1. \A s \in Sessions : family[s].gen \in Nat
    BY MaxGenAssumption DEF IdentityInv, IdentityTypeOK, BrowserTypeOK, Family
  <2>2. RowsStep
    BY <1>2, <2>1, RowStays DEF RowsStep
  <2> QED BY <1>2, <2>2 DEF Quiet, Present
<1>13. SessionsStep
  BY <1>2, <1>9, <1>10, <1>11, <1>12 DEF SessionsStep, EndedStep, AssuranceStep, IdentityInv, IdentityTypeOK, BrowserTypeOK
<1>14. AuthorityHasAccount'
  BY <1>5, <1>7 DEF AuthorityHasAccount, IdentityInv, AccountInv
<1>15. \A o \in Tasks : UnderWay(o)' => UnderWay(o)
  BY <1>6, <1>7 DEF UnderWay
<1>16. CreatorsAreAlone'
  <2> SUFFICES ASSUME NEW o \in Tasks, UnderWay(o)'
               PROVE  /\ (account[o.target].exists)'
                      /\ \A p \in Tasks : (UnderWay(p)' /\ p.target = o.target) => p = o
    BY DEF CreatorsAreAlone
  <2> QED BY <1>15 DEF CreatorsAreAlone, IdentityInv, AccountInv
<1>17. AdministratorIsThere'
  <2>1. CASE t.kind = "bootstrap"
    BY <1>4, <1>5, <2>1 DEF AdministratorIsThere, Admin
  <2>2. CASE t.kind = "create"
    <3>1. PICK v \in Subjects : v = Actor(t)
      BY TaskType
    <3>2. Admin(v)
      BY <1>2, <2>2, <3>1 DEF MayComplete, Permitted, Authorized
    <3>3. authority'[v] = authority[v]
      BY <1>5, <1>8, <3>2 DEF Admin
    <3> QED BY <3>2, <3>3 DEF AdministratorIsThere, Admin
  <2> QED BY <2>1, <2>2 DEF Creation
<1>18. SomeoneIsManaged'
  BY <1>4, <1>5 DEF SomeoneIsManaged
<1>19. BootstrapsOnce'
  <2>1. CASE t.kind = "bootstrap"
    <3>1. ~ SomeoneIsManaged
      BY <1>2, <2>1 DEF MayComplete, SomeoneIsManaged
    <3>2. \A o \in Tasks : ~ Bootstrapped(o)
      BY <3>1 DEF IdentityInv, AccountInv, BootstrapsOnce
    <3>3. \A o \in Tasks : Bootstrapped(o)' => o = t
      BY <1>6, <3>2 DEF Bootstrapped
    <3> QED BY <1>18, <3>3 DEF BootstrapsOnce
  <2>2. CASE t.kind # "bootstrap"
    <3>1. \A o \in Tasks : Bootstrapped(o)' => Bootstrapped(o)
      BY <1>6, <2>2 DEF Bootstrapped
    <3> QED BY <1>18, <3>1 DEF BootstrapsOnce, IdentityInv, AccountInv
  <2> QED BY <2>1, <2>2
<1>20. TasksAreInOrder'
  BY <1>6 DEF TasksAreInOrder, IdentityInv, AccountInv
<1> QED BY <1>9, <1>12, <1>13, <1>14, <1>16, <1>17, <1>19, <1>20 DEF TaskStep, AccountInv

\* A request that ends the sessions of its subject: a reset completes with a new epoch.
LEMMA TaskEndsSessions ==
    ASSUME IdentityInv, NEW t \in Tasks, NEW pc \in {"completed", "undo", "done"}, ~ Creation(t),
           NEW u \in Subjects, u = t.target, NEW a \in Authority, authority[u].on, a.on,
           authority[u].rev <= a.rev, authority[u].epoch < a.epoch,
           authority' = [authority EXCEPT ![u] = a], row' = Revoked(OwnedBy(u)),
           ended' = ended \cup {s \in OwnedBy(u) : row[s].state # "absent"},
           GotoTask(t, pc), UNCHANGED <<account, family, call, accepted>>, AdministratorIsThere'
    PROVE  TaskStep
<1>1. task' \in [Tasks -> Task] /\ task'[t].pc = pc /\ \A o \in Tasks \ {t} : task'[o] = task[o]
  BY GoingTask
<1>2. /\ authority' \in [Subjects -> Authority] /\ row' \in [Sessions -> Row]
      /\ authority'[u] = a /\ \A v \in Subjects \ {u} : authority'[v] = authority[v]
      /\ AuthorityGrows /\ RowsStep /\ EndedStep
      /\ \A s \in Sessions : Quiet(s)
  BY EndingSessions
<1>3. BrowserTypeOK' /\ ManagedTypeOK' /\ accepted \subseteq Tasks
  BY <1>1, <1>2 DEF IdentityInv, IdentityTypeOK, BrowserTypeOK, ManagedTypeOK, EndedStep
<1>4. \A v \in Subjects : ResetPending(v) => ResetPending(v)' \/ authority[v].epoch < authority'[v].epoch
  <2> SUFFICES ASSUME NEW v \in Subjects, NEW o \in accepted, o.kind = "mfareset", o.target = v,
                      task[o].pc # "completed"
               PROVE  ResetPending(v)' \/ authority[v].epoch < authority'[v].epoch
    BY DEF ResetPending
  <2>1. CASE o = t
    BY <1>2, <2>1
  <2>2. CASE o # t
    <3>1. task'[o] = task[o]
      BY <1>1, <1>3, <2>2
    <3> QED BY <3>1 DEF ResetPending
  <2> QED BY <2>1, <2>2
<1>5. SessionsStep
  BY <1>2, <1>4 DEF SessionsStep, AssuranceStep
<1>6. \A v \in Subjects : authority'[v].on = authority[v].on
  BY <1>2 DEF IdentityInv, IdentityTypeOK, BrowserTypeOK, Authority
<1>7. AccountInv'
  BY <1>1, <1>6, TaskAccounts DEF UnderWay, Bootstrapped, Creation
<1> QED BY <1>2, <1>3, <1>5, <1>7 DEF TaskStep

\* complete_managed_identity_lifecycle and claim_initial_administrator.
LEMMA CompleteStep ==
    ASSUME IdentityInv, NEW t \in Tasks, Complete(t) PROVE TaskStep
<1>1. PICK pc \in {"completed", "undo"} : GotoTask(t, pc)
  BY DEF Complete
<1>2. Completed(t) /\ UNCHANGED <<account, family, call, accepted>>
  BY DEF Complete
<1>3. CASE Creation(t)
  <2>1. Enroll(t.target, t.kind = "bootstrap" \/ t.admin)
    BY <1>3 DEF Complete, Creation, EndsSessions
  <2> QED BY <1>1, <1>2, <1>3, <2>1, EnrollStep
<1>4. CASE ~ Creation(t) /\ EndsSessions(t)
  <2>1. PICK u \in Subjects : u = t.target
    BY TaskType
  <2>2. /\ authority' = [authority EXCEPT ![u].epoch = authority[u].epoch + 1]
        /\ row' = Revoked(OwnedBy(u))
        /\ ended' = ended \cup {s \in OwnedBy(u) : row[s].state # "absent"}
    BY <1>4, <2>1 DEF Complete, Creation, EndSessions
  <2>3. authority[u].on
    BY <1>2, <1>4, <2>1 DEF Completed, MayComplete, Permitted, Creation
  <2>4. authority[u] \in Authority /\ authority \in [Subjects -> Authority]
    BY DEF IdentityInv, IdentityTypeOK, BrowserTypeOK
  <2>5. PICK n \in Nat : n = authority[u].epoch + 1
    BY <2>4 DEF Authority
  <2>6. PICK a : a = [authority[u] EXCEPT !.epoch = n]
    OBVIOUS
  <2>7. /\ a \in Authority /\ a.on = authority[u].on /\ a.admin = authority[u].admin
        /\ a.rev = authority[u].rev /\ a.epoch = n
    BY <2>4, <2>6 DEF Authority
  <2>8. authority[u].rev <= a.rev /\ authority[u].epoch < a.epoch
    BY <2>4, <2>5, <2>7 DEF Authority
  <2>9. authority' = [authority EXCEPT ![u] = a]
    BY <2>2, <2>5, <2>6
  <2>10. AdministratorIsThere'
    <3>1. \A v \in Subjects : authority'[v].on = authority[v].on /\ authority'[v].admin = authority[v].admin
      BY <2>4, <2>7, <2>9
    <3> QED BY <3>1 DEF AdministratorIsThere, SomeoneIsManaged, Admin, IdentityInv, AccountInv
  <2> QED BY <1>1, <1>2, <1>4, <2>1, <2>2, <2>3, <2>7, <2>8, <2>9, <2>10, TaskEndsSessions
<1>5. CASE ~ Creation(t) /\ ~ EndsSessions(t)
  <2>1. UNCHANGED <<authority, row, ended>>
    BY <1>5 DEF Complete, Creation
  <2>2. task' \in [Tasks -> Task] /\ task'[t].pc = pc /\ \A o \in Tasks \ {t} : task'[o] = task[o]
    BY <1>1, GoingTask
  <2>3. BrowserTypeOK' /\ ManagedTypeOK' /\ accepted \subseteq Tasks
    BY <1>2, <2>1, <2>2 DEF IdentityInv, IdentityTypeOK, BrowserTypeOK, ManagedTypeOK
  <2>4. \A v \in Subjects : ResetPending(v) => ResetPending(v)'
    <3> SUFFICES ASSUME NEW v \in Subjects, NEW o \in accepted, o.kind = "mfareset", o.target = v,
                        task[o].pc # "completed"
                 PROVE  ResetPending(v)'
      BY DEF ResetPending
    <3>1. o # t /\ task'[o] = task[o]
      BY <1>5, <2>2, <2>3 DEF EndsSessions
    <3> QED BY <1>2, <3>1 DEF ResetPending
  <2>5. RowsStep /\ \A s \in Sessions : Quiet(s)
    <3>1. \A s \in Sessions : family[s].gen \in Nat
      BY MaxGenAssumption DEF IdentityInv, IdentityTypeOK, BrowserTypeOK, Family
    <3>2. RowsStep
      BY <1>2, <2>1, <3>1, RowStays DEF RowsStep
    <3> QED BY <1>2, <2>1, <3>2 DEF Quiet, Present
  <2>6. AuthorityGrows
    <3>1. \A u \in Subjects : authority[u].rev \in Nat /\ authority[u].epoch \in Nat
      BY DEF IdentityInv, IdentityTypeOK, BrowserTypeOK, Authority
    <3> QED BY <2>1, <3>1 DEF AuthorityGrows
  <2>7. SessionsStep
    BY <1>2, <2>1, <2>4, <2>5, <2>6 DEF SessionsStep, EndedStep, AssuranceStep, IdentityInv, IdentityTypeOK, BrowserTypeOK
  <2>8. AccountInv'
    BY <1>2, <1>5, <2>1, <2>2, AdministratorsStay, TaskAccounts DEF UnderWay, Bootstrapped, Creation
  <2> QED BY <1>2, <2>3, <2>5, <2>7, <2>8 DEF TaskStep
<1> QED BY <1>3, <1>4, <1>5

\* A role changes: whoever takes the role from another keeps it.
LEMMA ChangeRoleStep ==
    ASSUME IdentityInv, NEW t \in Tasks, ChangeRole(t) PROVE TaskStep
<1>1. PICK u \in Subjects : u = t.target
  BY TaskType
<1>2. /\ t.kind \in {"grant", "demote"} /\ Authorized(t) /\ authority[u].on /\ GotoTask(t, "done")
      /\ UNCHANGED <<account, family, call, accepted>>
  BY <1>1 DEF ChangeRole
<1>3. authority \in [Subjects -> Authority] /\ authority[u] \in Authority
  BY DEF IdentityInv, IdentityTypeOK, BrowserTypeOK
<1>4. CASE UNCHANGED <<authority, row, ended>>
  <2>1. UNCHANGED browserVars
    BY <1>2, <1>4 DEF browserVars
  <2>2. task' \in [Tasks -> Task] /\ task'[t].pc = "done" /\ \A o \in Tasks \ {t} : task'[o] = task[o]
    BY <1>2, GoingTask
  <2> QED BY <1>2, <2>1, <2>2, TaskOnly DEF UnderWay, IdentityInv, IdentityTypeOK, ManagedTypeOK
<1>5. CASE /\ KeepsAdministrator(t)
           /\ authority' = [authority EXCEPT ![u].admin = (t.kind = "grant"),
                                             ![u].rev = authority[u].rev + 1, ![u].epoch = authority[u].epoch + 1]
           /\ row' = Revoked(OwnedBy(u))
           /\ ended' = ended \cup {s \in OwnedBy(u) : row[s].state # "absent"}
  <2>1. PICK n \in Nat : n = authority[u].epoch + 1
    BY <1>3 DEF Authority
  <2>2. PICK m \in Nat : m = authority[u].rev + 1
    BY <1>3 DEF Authority
  <2>3. PICK b \in BOOLEAN : b = (t.kind = "grant")
    OBVIOUS
  <2>4. PICK a : a = [authority[u] EXCEPT !.admin = b, !.rev = m, !.epoch = n]
    OBVIOUS
  <2>5. a \in Authority /\ a.on = authority[u].on /\ a.admin = b /\ a.rev = m /\ a.epoch = n
    BY <1>3, <2>4 DEF Authority
  <2>6. authority[u].rev <= a.rev /\ authority[u].epoch < a.epoch
    BY <1>3, <2>1, <2>2, <2>5 DEF Authority
  <2>7. authority' = [authority EXCEPT ![u] = a]
    BY <1>5, <2>1, <2>2, <2>3, <2>4
  <2>8. authority'[u] = a /\ \A v \in Subjects \ {u} : authority'[v] = authority[v]
    BY <1>3, <2>7
  <2>9. AdministratorIsThere'
    <3>1. CASE t.kind = "grant"
      BY <1>2, <2>3, <2>5, <2>8, <3>1 DEF AdministratorIsThere, Admin
    <3>2. CASE t.kind = "demote"
      <4>1. PICK v \in Subjects : v = Actor(t)
        BY TaskType
      <4>2. Admin(v) /\ v # u
        BY <1>1, <1>2, <1>5, <3>2, <4>1 DEF Authorized, KeepsAdministrator
      <4> QED BY <2>8, <4>2 DEF AdministratorIsThere, Admin
    <3> QED BY <1>2, <3>1, <3>2
  <2>10. ~ Creation(t)
    BY <1>2 DEF Creation
  <2> QED BY <1>1, <1>2, <1>5, <2>5, <2>6, <2>7, <2>9, <2>10, TaskEndsSessions
<1> QED BY <1>1, <1>4, <1>5 DEF ChangeRole

\* Management keeps the invariant, and moves the sessions as a step may.
LEMMA ManagedKeeps ==
    ASSUME IdentityInv, ManagedNext, UNCHANGED cliVars
    PROVE  IdentityInv' /\ SessionsStep
<1>1. TaskStep
  BY PrepareStep, ReadUserStep, WriteUserStep, CreateUserStep, RemoveFactorsStep, CompleteStep,
     CompleteFailsStep, UndoStep, ChangeRoleStep DEF ManagedNext
<1>2. CliInv' /\ CliTypeOK'
  BY DevicesKept
<1>3. IdentityTypeOK'
  BY <1>1, <1>2 DEF IdentityTypeOK, TaskStep
<1>4. ASSUME NEW d \in Calls PROVE CallIsCurrent(d)'
  BY <1>1, <1>3, CallsAssumption, CallKept DEF TaskStep, SessionsStep, Quiet
<1>5. SessionInv'
  BY <1>1, <1>3, <1>4, SessionsKept DEF SessionInv, TaskStep
<1> QED BY <1>1, <1>2, <1>3, <1>5 DEF IdentityInv, TaskStep

-----------------------------------------------------------------------------
(* The devices.                                                             *)

\* A step that leaves sessions and management alone.
LEMMA IdentityKept ==
    ASSUME IdentityInv, UNCHANGED identityVars
    PROVE  BrowserTypeOK' /\ ManagedTypeOK' /\ AccountInv' /\ SessionInv' /\ SessionsStep
<1>1. UNCHANGED <<account, family, authority, row, call, ended, task, accepted>> /\ UNCHANGED managedVars
  BY DEF identityVars, browserVars, managedVars
<1>2. BrowserTypeOK' /\ ManagedTypeOK'
  BY <1>1 DEF IdentityInv, IdentityTypeOK, BrowserTypeOK, ManagedTypeOK
<1>3. AccountInv'
  BY <1>1, AccountsKept DEF AccountsKeep
<1>4. RowsStep
  <2>1. \A s \in Sessions : family[s].gen \in Nat
    BY MaxGenAssumption DEF IdentityInv, IdentityTypeOK, BrowserTypeOK, Family
  <2> QED BY <1>1, <2>1, RowStays DEF RowsStep
<1>5. SessionsStep
  BY <1>1, <1>4, QuietStep
<1>6. RowsLag' /\ EndedAreStale' /\ AssuranceIsEarned'
  BY <1>1 DEF RowsLag, RowLags, EndedAreStale, AssuranceIsEarned, Present, Fresh, ResetPending, IdentityInv, SessionInv
<1>7. \A c \in Calls : CallIsCurrent(c)'
  BY <1>1 DEF CallIsCurrent, Present, IdentityInv, SessionInv
<1> QED BY <1>2, <1>3, <1>5, <1>6, <1>7 DEF SessionInv

\* The shape of a CLI request.
LEMMA CliRequestType ==
    ASSUME NEW r \in CliRequests
    PROVE  /\ r.enr \in Enrollments /\ r.chal \in Challenges /\ r.sess \in Sessions
           /\ r.kind = "answer" => r \in Answers
BY CliRequestsAssumption DEF Answers

\* One request is handled.
LEMMA HandledType ==
    ASSUME IdentityInv, NEW r \in CliRequests, NEW pc \in {"start", "complete", "done"},
           cliCall' = [cliCall EXCEPT ![r] = pc]
    PROVE  cliCall' \in [CliRequests -> {"start", "complete", "done"}]
BY DEF IdentityInv, IdentityTypeOK, CliTypeOK

\* One enrollment changes and its device is not revoked.
LEMMA EnrollmentMoves ==
    ASSUME IdentityInv, NEW e \in Enrollments, NEW x \in Enrollment, enrollment' = [enrollment EXCEPT ![e] = x],
           \/ x.device = enrollment[e].device /\ x.by = enrollment[e].by
           \/ x.device = "active" /\ x.by \in Subjects,
           UNCHANGED <<challenge, cli>>,
           cliCall' \in [CliRequests -> {"start", "complete", "done"}]
    PROVE  CliTypeOK' /\ CliInv'
<1>1. /\ enrollment' \in [Enrollments -> Enrollment] /\ enrollment'[e] = x
      /\ \A o \in Enrollments \ {e} : enrollment'[o] = enrollment[o]
  BY DEF IdentityInv, IdentityTypeOK, CliTypeOK
<1>2. CliTypeOK'
  BY <1>1 DEF IdentityInv, IdentityTypeOK, CliTypeOK
<1>3. \A o \in Enrollments : Device(o) = "active" => Device(o)' = "active"
  BY <1>1 DEF Device
<1>4. CliSessionsAreEarned'
  <2> SUFFICES ASSUME NEW k \in Answers
               PROVE  /\ cli[k].chal # NoOne => \A o \in Answers : cli[o].chal = cli[k].chal => k = o
                      /\ cli[k].state = "active" => Device(cli[k].enr)' = "active"
    BY DEF CliSessionsAreEarned
  <2>1. cli[k].state = "active" => cli[k].enr \in Enrollments
    BY DEF IdentityInv, CliInv
  <2>2. cli[k].state = "active" => Device(cli[k].enr) = "active"
    BY DEF IdentityInv, CliInv, CliSessionsAreEarned
  <2>3. PICK d : d = cli[k].enr
    OBVIOUS
  <2>4. cli[k].state = "active" => Device(d)' = "active"
    BY <1>3, <2>1, <2>2, <2>3
  <2> QED BY <2>3, <2>4 DEF IdentityInv, CliInv, CliSessionsAreEarned, Device
<1>5. \A o \in Enrollments : enrollment'[o].device = "active" => enrollment'[o].by \in Subjects
  BY <1>1 DEF IdentityInv, CliInv, Device, Holder
<1>6. CliInv'
  BY <1>4, <1>5 DEF IdentityInv, CliInv, Device, Holder
<1> QED BY <1>2, <1>6

\* A device asks to be enrolled, is approved, or its request lapses.
LEMMA EnrollmentStep ==
    ASSUME IdentityInv, NEW r \in CliRequests, CreateEnrollment(r) \/ ApproveEnrollment(r)
    PROVE  CliTypeOK' /\ CliInv'
<1>1. PICK e \in Enrollments : e = r.enr
  BY CliRequestType
<1>2. enrollment[e] \in Enrollment
  BY DEF IdentityInv, IdentityTypeOK, CliTypeOK
<1>3. cliCall' \in [CliRequests -> {"start", "complete", "done"}] /\ UNCHANGED <<challenge, cli>>
  BY HandledType DEF CreateEnrollment, ApproveEnrollment, Handled
<1>4. CASE CreateEnrollment(r)
  <2>1. PICK x : x = [enrollment[e] EXCEPT !.state = "pending", !.live = TRUE]
    OBVIOUS
  <2>2. x \in Enrollment /\ x.device = enrollment[e].device /\ x.by = enrollment[e].by
    BY <1>2, <2>1 DEF Enrollment
  <2>3. enrollment' = [enrollment EXCEPT ![e] = x]
    BY <1>1, <1>4, <2>1 DEF CreateEnrollment
  <2> QED BY <1>3, <2>2, <2>3, EnrollmentMoves
<1>5. CASE ApproveEnrollment(r)
  <2>1. PICK u \in Subjects : u = Owner[r.sess]
    BY CliRequestType, OwnerType
  <2>2. PICK x : x = [enrollment[e] EXCEPT !.state = "approved", !.by = u, !.device = "active"]
    OBVIOUS
  <2>3. x \in Enrollment /\ x.device = "active" /\ x.by = u
    BY <1>2, <2>2 DEF Enrollment
  <2>4. enrollment' = [enrollment EXCEPT ![e] = x]
    BY <1>1, <1>5, <2>1, <2>2 DEF ApproveEnrollment
  <2> QED BY <1>3, <2>3, <2>4, EnrollmentMoves
<1> QED BY <1>4, <1>5

\* One challenge moves, and none that earned a session.
LEMMA ChallengeMoves ==
    ASSUME IdentityInv, NEW h \in Challenges, NEW x \in Challenge, challenge' = [challenge EXCEPT ![h] = x],
           challenge[h].state # "used", x.state = "open" => x.enr \in Enrollments,
           UNCHANGED <<enrollment, cli>>, cliCall' \in [CliRequests -> {"start", "complete", "done"}]
    PROVE  CliTypeOK' /\ CliInv'
<1>1. /\ challenge' \in [Challenges -> Challenge] /\ challenge'[h] = x
      /\ \A o \in Challenges \ {h} : challenge'[o] = challenge[o]
  BY DEF IdentityInv, IdentityTypeOK, CliTypeOK
<1>2. CliTypeOK'
  BY <1>1 DEF IdentityInv, IdentityTypeOK, CliTypeOK
<1>3. \A k \in Answers : cli[k].chal \in Challenges \cup {NoOne}
  BY DEF IdentityInv, IdentityTypeOK, CliTypeOK, CliSession
<1>4. \A k \in Answers : cli[k].chal # NoOne => challenge'[cli[k].chal].state = "used"
  BY <1>1, <1>3 DEF IdentityInv, CliInv
<1>5. \A o \in Challenges : challenge'[o].state = "open" => challenge'[o].enr \in Enrollments
  BY <1>1 DEF IdentityInv, CliInv
<1>6. CliInv'
  BY <1>4, <1>5 DEF IdentityInv, CliInv, CliSessionsAreEarned, Device, Holder
<1> QED BY <1>2, <1>6

\* A challenge is given to an active device.
LEMMA CreateChallengeStep ==
    ASSUME IdentityInv, NEW r \in CliRequests, CreateChallenge(r)
    PROVE  CliTypeOK' /\ CliInv'
<1>1. r.enr \in Enrollments /\ r.chal \in Challenges
  BY CliRequestType
<1>2. cliCall' \in [CliRequests -> {"start", "complete", "done"}] /\ UNCHANGED <<enrollment, cli>>
  BY HandledType DEF CreateChallenge, Handled
<1>3. PICK x : x = [state |-> "open", enr |-> r.enr]
  OBVIOUS
<1>4. x \in Challenge /\ x.enr \in Enrollments
  BY <1>1, <1>3 DEF Challenge
<1>5. challenge' = [challenge EXCEPT ![r.chal] = x] /\ challenge[r.chal].state # "used"
  BY <1>3 DEF CreateChallenge
<1> QED BY <1>1, <1>2, <1>4, <1>5, ChallengeMoves

\* A challenge is read.
LEMMA ReadChallengeStep ==
    ASSUME IdentityInv, NEW r \in CliRequests, ReadChallenge(r)
    PROVE  CliTypeOK' /\ CliInv'
<1>1. cliCall' \in [CliRequests -> {"start", "complete", "done"}] /\ UNCHANGED <<enrollment, challenge, cli>>
  BY HandledType DEF ReadChallenge
<1> QED BY <1>1 DEF IdentityInv, IdentityTypeOK, CliTypeOK, CliInv, CliSessionsAreEarned, Device, Holder

\* The challenge is used up with the session it earns.
LEMMA CompleteCliSessionStep ==
    ASSUME IdentityInv, NEW r \in CliRequests, CompleteCliSession(r)
    PROVE  CliTypeOK' /\ CliInv'
<1>1. PICK h \in Challenges : h = r.chal
  BY CliRequestType
<1>2. r \in Answers
  BY CliRequestType DEF CompleteCliSession
<1>3. cliCall' \in [CliRequests -> {"start", "complete", "done"}] /\ enrollment' = enrollment
  BY HandledType DEF CompleteCliSession, Handled
<1>4. /\ challenge[h].state = "open" /\ Device(challenge[h].enr) = "active"
      /\ challenge' = [challenge EXCEPT ![h].state = "used"]
  BY <1>1 DEF CompleteCliSession, MayCompleteCli
<1>5. challenge \in [Challenges -> Challenge] /\ cli \in [Answers -> CliSession]
      /\ enrollment \in [Enrollments -> Enrollment]
  BY DEF IdentityInv, IdentityTypeOK, CliTypeOK
<1>6. PICK e \in Enrollments : e = challenge[h].enr
  BY <1>4 DEF IdentityInv, CliInv
<1>7. PICK a : a = authority[Holder(e)]
  OBVIOUS
<1>8. PICK k : k = [state |-> "active", chal |-> h, enr |-> e, rev |-> a.rev, epoch |-> a.epoch]
  OBVIOUS
<1>9. cli' = [cli EXCEPT ![r] = k]
  BY <1>1, <1>6, <1>7, <1>8 DEF CompleteCliSession
<1>10. a.rev \in Nat /\ a.epoch \in Nat
  <2>1. Holder(e) \in Subjects
    BY <1>4, <1>6 DEF IdentityInv, CliInv
  <2> QED BY <1>7, <2>1 DEF IdentityInv, IdentityTypeOK, BrowserTypeOK, Authority
<1>11. k \in CliSession /\ k.state = "active" /\ k.chal = h /\ k.enr = e
  BY <1>8, <1>10 DEF CliSession
<1>12. cli' \in [Answers -> CliSession] /\ cli'[r] = k /\ \A o \in Answers \ {r} : cli'[o] = cli[o]
  BY <1>2, <1>5, <1>9, <1>11
<1>13. /\ challenge' \in [Challenges -> Challenge] /\ challenge'[h].state = "used"
       /\ \A o \in Challenges \ {h} : challenge'[o] = challenge[o]
  BY <1>4, <1>5 DEF Challenge
<1>14. CliTypeOK'
  BY <1>3, <1>5, <1>12, <1>13 DEF CliTypeOK
<1>15. \A o \in Challenges : challenge'[o].state = "open" => challenge'[o].enr \in Enrollments
  BY <1>13 DEF IdentityInv, CliInv
<1>16. \A o \in Answers : cli[o].chal \in Challenges \cup {NoOne}
  BY <1>5 DEF CliSession
<1>17. \A o \in Answers : cli'[o].chal # NoOne => challenge'[cli'[o].chal].state = "used"
  BY <1>11, <1>12, <1>13, <1>16 DEF IdentityInv, CliInv
<1>18. \A o \in Answers : cli'[o].state = "active" => cli'[o].enr \in Enrollments
  BY <1>11, <1>12 DEF IdentityInv, CliInv
<1>19. \A o \in Answers \ {r} : cli[o].chal # NoOne => cli[o].chal # h
  BY <1>4 DEF IdentityInv, CliInv
<1>20. \A o, p \in Answers : (cli'[o].chal # NoOne /\ cli'[p].chal = cli'[o].chal) => o = p
  BY <1>11, <1>12, <1>19 DEF IdentityInv, CliInv, CliSessionsAreEarned
<1>21. \A o \in Answers : cli'[o].state = "active" => enrollment'[cli'[o].enr].device = "active"
  BY <1>3, <1>4, <1>6, <1>11, <1>12 DEF IdentityInv, CliInv, CliSessionsAreEarned, Device
<1>22. CliInv'
  BY <1>3, <1>15, <1>17, <1>18, <1>20, <1>21 DEF IdentityInv, CliInv, CliSessionsAreEarned, Device, Holder
<1> QED BY <1>14, <1>22

\* CLI sessions that only end, on devices of which none but theirs is revoked.
LEMMA CliSessionsEnd ==
    ASSUME IdentityInv, enrollment' \in [Enrollments -> Enrollment], cli' \in [Answers -> CliSession],
           challenge' = challenge, cliCall' \in [CliRequests -> {"start", "complete", "done"}],
           \A e \in Enrollments : /\ enrollment'[e].by = enrollment[e].by
                                  /\ enrollment'[e].device = "active" => enrollment[e].device = "active",
           \A k \in Answers : /\ cli'[k].chal = cli[k].chal /\ cli'[k].enr = cli[k].enr
                              /\ cli'[k].state = "active" => cli[k].state = "active",
           \A k \in Answers : cli'[k].state = "active" =>
                                enrollment'[cli[k].enr].device = enrollment[cli[k].enr].device
    PROVE  CliTypeOK' /\ CliInv'
<1>1. CliTypeOK'
  BY DEF IdentityInv, IdentityTypeOK, CliTypeOK
<1>2. \A e \in Enrollments : enrollment'[e].device = "active" => enrollment'[e].by \in Subjects
  BY DEF IdentityInv, CliInv, Device, Holder
<1>3. \A k \in Answers : cli'[k].chal # NoOne => challenge'[cli'[k].chal].state = "used"
  BY DEF IdentityInv, CliInv
<1>4. \A k \in Answers : cli'[k].state = "active" => cli'[k].enr \in Enrollments
  BY DEF IdentityInv, CliInv
<1>5. \A o, p \in Answers : (cli'[o].chal # NoOne /\ cli'[p].chal = cli'[o].chal) => o = p
  BY DEF IdentityInv, CliInv, CliSessionsAreEarned
<1>6. \A k \in Answers : cli'[k].state = "active" => enrollment'[cli'[k].enr].device = "active"
  BY DEF IdentityInv, CliInv, CliSessionsAreEarned, Device
<1>7. CliInv'
  BY <1>2, <1>3, <1>4, <1>5, <1>6 DEF IdentityInv, CliInv, CliSessionsAreEarned, Device, Holder
<1> QED BY <1>1, <1>7

\* A device is revoked with its sessions.
LEMMA RevokeDeviceStep ==
    ASSUME IdentityInv, NEW r \in CliRequests, RevokeDevice(r)
    PROVE  CliTypeOK' /\ CliInv'
<1>1. PICK e \in Enrollments : e = r.enr
  BY CliRequestType
<1>2. cliCall' \in [CliRequests -> {"start", "complete", "done"}] /\ challenge' = challenge
  BY HandledType DEF RevokeDevice, Handled
<1>3. /\ enrollment' = [enrollment EXCEPT ![e].device = "revoked"]
      /\ cli' = [k \in Answers |-> IF cli[k].state = "active" /\ cli[k].enr = e
                                   THEN [cli[k] EXCEPT !.state = "revoked"] ELSE cli[k]]
  BY <1>1 DEF RevokeDevice
<1>4. enrollment \in [Enrollments -> Enrollment] /\ cli \in [Answers -> CliSession]
  BY DEF IdentityInv, IdentityTypeOK, CliTypeOK
<1>5. /\ enrollment' \in [Enrollments -> Enrollment] /\ enrollment'[e].device = "revoked"
      /\ enrollment'[e].by = enrollment[e].by
      /\ \A o \in Enrollments \ {e} : enrollment'[o] = enrollment[o]
  BY <1>3, <1>4 DEF Enrollment
<1>6. \A k \in Answers :
        LET x == [cli[k] EXCEPT !.state = "revoked"]
        IN  x \in CliSession /\ x.chal = cli[k].chal /\ x.enr = cli[k].enr /\ x.state = "revoked"
  BY <1>4 DEF CliSession
<1>7. \A k \in Answers : /\ cli'[k] \in CliSession
                         /\ cli'[k].chal = cli[k].chal /\ cli'[k].enr = cli[k].enr
                         /\ cli'[k].state = "active" => cli[k].state = "active" /\ cli[k].enr # e
  BY <1>3, <1>4, <1>6
<1>8. cli' \in [Answers -> CliSession]
  BY <1>3, <1>7
<1>9. \A k \in Answers : cli'[k].state = "active" => cli[k].enr \in Enrollments \ {e}
  BY <1>7 DEF IdentityInv, CliInv
<1> QED BY <1>2, <1>5, <1>7, <1>8, <1>9, CliSessionsEnd

\* The lifetimes of an enrollment, a challenge and a session.
LEMMA CliExpireStep ==
    ASSUME IdentityInv, CliExpire
    PROVE  CliTypeOK' /\ CliInv'
<1>1. /\ enrollment \in [Enrollments -> Enrollment] /\ cli \in [Answers -> CliSession]
      /\ challenge \in [Challenges -> Challenge]
      /\ cliCall' \in [CliRequests -> {"start", "complete", "done"}]
  BY DEF CliExpire, IdentityInv, IdentityTypeOK, CliTypeOK
<1>2. ASSUME NEW e \in Enrollments, enrollment' = [enrollment EXCEPT ![e].live = FALSE],
             UNCHANGED <<challenge, cli>>
      PROVE  CliTypeOK' /\ CliInv'
  <2>1. PICK x : x = [enrollment[e] EXCEPT !.live = FALSE]
    OBVIOUS
  <2>2. x \in Enrollment /\ x.device = enrollment[e].device /\ x.by = enrollment[e].by
    BY <1>1, <2>1 DEF Enrollment
  <2>3. enrollment' = [enrollment EXCEPT ![e] = x]
    BY <1>2, <2>1
  <2> QED BY <1>1, <1>2, <2>2, <2>3, EnrollmentMoves
<1>3. ASSUME NEW h \in Challenges, challenge[h].state = "open",
             challenge' = [challenge EXCEPT ![h].state = "expired"], UNCHANGED <<enrollment, cli>>
      PROVE  CliTypeOK' /\ CliInv'
  <2>1. PICK x : x = [challenge[h] EXCEPT !.state = "expired"]
    OBVIOUS
  <2>2. x \in Challenge /\ x.state = "expired"
    BY <1>1, <2>1 DEF Challenge
  <2>3. challenge' = [challenge EXCEPT ![h] = x]
    BY <1>3, <2>1
  <2> QED BY <1>1, <1>3, <2>2, <2>3, ChallengeMoves
<1>4. ASSUME NEW k \in Answers, cli' = [cli EXCEPT ![k].state = "expired"], UNCHANGED <<enrollment, challenge>>
      PROVE  CliTypeOK' /\ CliInv'
  <2>1. /\ cli' \in [Answers -> CliSession] /\ cli'[k].state = "expired" /\ cli'[k].chal = cli[k].chal
        /\ cli'[k].enr = cli[k].enr /\ \A o \in Answers \ {k} : cli'[o] = cli[o]
    BY <1>1, <1>4 DEF CliSession
  <2> QED BY <1>1, <1>4, <2>1, CliSessionsEnd
<1> QED BY <1>2, <1>3, <1>4 DEF CliExpire

\* The devices keep the invariant, and leave the sessions.
LEMMA CliKeeps ==
    ASSUME IdentityInv, CliNext
    PROVE  IdentityInv' /\ SessionsStep
<1>1. UNCHANGED identityVars
  BY DEF CliNext, CreateEnrollment, ApproveEnrollment, CreateChallenge, ReadChallenge, CompleteCliSession,
         RevokeDevice, CliExpire
<1>2. CliTypeOK' /\ CliInv'
  BY EnrollmentStep, CreateChallengeStep, ReadChallengeStep, CompleteCliSessionStep, RevokeDeviceStep,
     CliExpireStep DEF CliNext
<1> QED BY <1>1, <1>2, IdentityKept DEF IdentityInv, IdentityTypeOK

-----------------------------------------------------------------------------
(* The situations to start from.                                            *)

\* The sessions and subjects of a scene satisfy the invariant.
LEMMA StartIsSound ==
    ASSUME NEW sc \in Scenes, BrowserStart(sc), ManagedStart(sc), CliStart(sc)
    PROVE  IdentityInv
<1>1. /\ sc.admins \subseteq sc.managed /\ sc.managed \subseteq sc.users /\ sc.users \subseteq Subjects
      /\ sc.managed # {} => sc.admins # {}
      /\ sc.open \subseteq Sessions /\ \A s \in sc.open : Owner[s] \in sc.managed
      /\ sc.totp \subseteq sc.users
      /\ \A c \in Calls : (c.kind = "login" /\ c.id \in sc.calls) => c.sess \notin sc.open
  BY ScenesAssumption
<1>2. /\ account \in [Subjects -> Account]
      /\ \A u \in sc.users : account[u].exists
      /\ \A u \in sc.totp : account[u].totp
  <2>1. NoAccount \in Account
    BY NoAccountType
  <2>2. NewAccount \in Account /\ NewAccount.exists
    BY <2>1 DEF NewAccount, Account
  <2>3. \A b \in BOOLEAN : /\ [NewAccount EXCEPT !.totp = b] \in Account
                           /\ [NewAccount EXCEPT !.totp = b].exists
                           /\ [NewAccount EXCEPT !.totp = b].totp = b
    BY <2>2 DEF Account
  <2>4. \A u \in Subjects : (u \in sc.totp) \in BOOLEAN
    OBVIOUS
  <2>5. account = [u \in Subjects |-> IF u \in sc.users
                    THEN [NewAccount EXCEPT !.totp = u \in sc.totp] ELSE NoAccount]
    BY DEF BrowserStart
  <2>6. \A u \in Subjects : account[u] \in Account
    BY <2>1, <2>3, <2>4, <2>5
  <2>7. \A u \in sc.users : account[u].exists /\ account[u].totp = (u \in sc.totp)
    BY <1>1, <2>3, <2>4, <2>5
  <2> QED BY <1>1, <2>5, <2>6, <2>7
<1>3. /\ authority \in [Subjects -> Authority]
      /\ \A u \in sc.managed : authority[u].on /\ authority[u].rev = 1 /\ authority[u].epoch = 0
                               /\ authority[u].admin = (u \in sc.admins)
      /\ \A u \in Subjects : authority[u].on => u \in sc.managed
  <2>1. NoAuthority \in Authority /\ ~ NoAuthority.on
    BY DEF NoAuthority, Authority
  <2>2. \A b \in BOOLEAN : [on |-> TRUE, admin |-> b, rev |-> 1, epoch |-> 0] \in Authority
    BY DEF Authority
  <2>3. \A u \in Subjects : authority[u] = IF u \in sc.managed
            THEN [on |-> TRUE, admin |-> u \in sc.admins, rev |-> 1, epoch |-> 0] ELSE NoAuthority
    BY DEF BrowserStart
  <2>4. \A u \in Subjects : authority[u] \in Authority
    <3> SUFFICES ASSUME NEW u \in Subjects PROVE authority[u] \in Authority
      OBVIOUS
    <3>1. (u \in sc.admins) = TRUE \/ (u \in sc.admins) = FALSE
      OBVIOUS
    <3>2. CASE u \notin sc.managed
      BY <2>1, <2>3, <3>2
    <3>3. CASE u \in sc.managed /\ (u \in sc.admins) = TRUE
      <4>1. authority[u] = [on |-> TRUE, admin |-> TRUE, rev |-> 1, epoch |-> 0]
        BY <2>3, <3>3
      <4> QED BY <4>1, <2>2
    <3>4. CASE u \in sc.managed /\ (u \in sc.admins) = FALSE
      <4>1. authority[u] = [on |-> TRUE, admin |-> FALSE, rev |-> 1, epoch |-> 0]
        BY <2>3, <3>4
      <4> QED BY <4>1, <2>2
    <3> QED BY <3>1, <3>2, <3>3, <3>4
  <2>5. authority \in [Subjects -> Authority]
    BY <2>4 DEF BrowserStart
  <2>6. \A u \in Subjects : authority[u].on => u \in sc.managed
    BY <2>1, <2>3
  <2> QED BY <1>1, <2>3, <2>5, <2>6
<1>4. /\ family \in [Sessions -> Family] /\ row \in [Sessions -> Row]
      /\ \A s \in Sessions : s \notin sc.open => row[s].state = "absent"
      /\ \A s \in sc.open : /\ family[s].gen = 1 /\ row[s].gen = 1 /\ row[s].rev = 1 /\ row[s].epoch = 0
                            /\ row[s].aal2 = family[s].aal2 /\ (family[s].aal2 => Owner[s] \in sc.totp)
  <2>1. NoFamily \in Family /\ NoRow \in Row /\ NoRow.state = "absent"
    BY MaxGenAssumption DEF NoFamily, Family, NoRow, Row
  <2>2. \A b \in BOOLEAN : [live |-> TRUE, gen |-> 1, aal2 |-> b, pw |-> 0] \in Family
    BY MaxGenAssumption DEF Family
  <2>3. \A b \in BOOLEAN, x \in {"recent", "never"} :
            [state |-> "active", gen |-> 1, aal2 |-> b, reauth |-> x, due |-> FALSE, rev |-> 1, epoch |-> 0] \in Row
    BY MaxGenAssumption DEF Row
  <2>4. \A s \in Sessions : family[s] = IF s \in sc.open
            THEN [live |-> TRUE, gen |-> 1, aal2 |-> Owner[s] \in sc.totp, pw |-> 0] ELSE NoFamily
    BY DEF BrowserStart
  <2>5. \A s \in Sessions : row[s] = IF s \in sc.open
            THEN [state |-> "active", gen |-> 1, aal2 |-> Owner[s] \in sc.totp,
                  reauth |-> IF Owner[s] \in sc.totp THEN "recent" ELSE "never",
                  due |-> FALSE, rev |-> 1, epoch |-> 0] ELSE NoRow
    BY DEF BrowserStart
  <2>6. ASSUME NEW s \in sc.open
        PROVE  /\ family[s] \in Family /\ row[s] \in Row
               /\ family[s].gen = 1 /\ row[s].gen = 1 /\ row[s].rev = 1 /\ row[s].epoch = 0
               /\ row[s].aal2 = family[s].aal2 /\ (family[s].aal2 => Owner[s] \in sc.totp)
    <3>1. s \in Sessions
      BY <1>1
    <3>2. PICK b \in BOOLEAN : (Owner[s] \in sc.totp) = b
      <4>1. (Owner[s] \in sc.totp) = TRUE \/ (Owner[s] \in sc.totp) = FALSE
        OBVIOUS
      <4> QED BY <4>1
    <3>3. PICK x \in {"recent", "never"} : x = IF Owner[s] \in sc.totp THEN "recent" ELSE "never"
      OBVIOUS
    <3>4. /\ family[s] = [live |-> TRUE, gen |-> 1, aal2 |-> b, pw |-> 0]
          /\ row[s] = [state |-> "active", gen |-> 1, aal2 |-> b, reauth |-> x, due |-> FALSE,
                       rev |-> 1, epoch |-> 0]
      BY <2>4, <2>5, <3>1, <3>2, <3>3
    <3>5. family[s] \in Family /\ row[s] \in Row
      BY <2>2, <2>3, <3>4
    <3>6. /\ family[s].gen = 1 /\ row[s].gen = 1 /\ row[s].rev = 1 /\ row[s].epoch = 0
          /\ row[s].aal2 = b /\ family[s].aal2 = b
      BY <3>4
    <3>7. b => Owner[s] \in sc.totp
      BY <3>2
    <3> QED BY <3>5, <3>6, <3>7
  <2>7. \A s \in Sessions : s \notin sc.open => family[s] = NoFamily /\ row[s] = NoRow
    BY <2>4, <2>5
  <2>8. family \in [Sessions -> Family] /\ row \in [Sessions -> Row]
    <3>1. \A s \in Sessions : family[s] \in Family /\ row[s] \in Row
      BY <2>1, <2>6, <2>7
    <3> QED BY <3>1 DEF BrowserStart
  <2> QED BY <2>1, <2>6, <2>7, <2>8
<1>5. /\ call \in [Calls -> Call] /\ \A c \in Calls : call[c].pc \in {"start", "done"}
      /\ \A c \in Calls : call[c].pc = "start" => c.id \in sc.calls
  <2>1. NewCall \in Call /\ NewCall.pc = "start"
    BY MaxGenAssumption DEF NewCall, Call
  <2>2. [NewCall EXCEPT !.pc = "done"] \in Call /\ [NewCall EXCEPT !.pc = "done"].pc = "done"
    BY <2>1 DEF Call
  <2>3. call = [c \in Calls |-> IF c.id \in sc.calls THEN NewCall ELSE [NewCall EXCEPT !.pc = "done"]]
    BY DEF BrowserStart
  <2> QED BY <2>1, <2>2, <2>3
<1>6. /\ task \in [Tasks -> Task] /\ \A t \in Tasks : task[t].pc \in {"start", "done"}
      /\ accepted = {} /\ ended = {}
  <2>1. NewTask \in Task /\ NewTask.pc = "start"
    BY DEF NewTask, Task, Name
  <2>2. [NewTask EXCEPT !.pc = "done"] \in Task /\ [NewTask EXCEPT !.pc = "done"].pc = "done"
    BY <2>1 DEF Task
  <2>3. task = [t \in Tasks |-> IF t.id \in sc.tasks THEN NewTask ELSE [NewTask EXCEPT !.pc = "done"]]
    BY DEF ManagedStart
  <2> QED BY <2>1, <2>2, <2>3 DEF ManagedStart, BrowserStart
<1>7. CliTypeOK /\ CliInv
  <2>1. [state |-> "none", live |-> FALSE, by |-> NoOne, device |-> "none"] \in Enrollment
    BY DEF Enrollment
  <2>2. [state |-> "none", enr |-> NoOne] \in Challenge
    BY DEF Challenge
  <2>3. NoCliSession \in CliSession /\ NoCliSession.chal = NoOne /\ NoCliSession.state = "none"
    BY DEF NoCliSession, CliSession
  <2>4. CliTypeOK
    BY <2>1, <2>2, <2>3 DEF CliStart, CliTypeOK
  <2>5. CliInv
    BY <2>3 DEF CliStart, CliInv, CliSessionsAreEarned, Device
  <2> QED BY <2>4, <2>5
<1>8. IdentityTypeOK
  BY <1>2, <1>3, <1>4, <1>5, <1>6, <1>7 DEF IdentityTypeOK, BrowserTypeOK, ManagedTypeOK
<1>9. AccountInv
  <2>1. AuthorityHasAccount
    BY <1>1, <1>2, <1>3 DEF AuthorityHasAccount
  <2>2. CreatorsAreAlone /\ TasksAreInOrder
    BY <1>6 DEF CreatorsAreAlone, UnderWay, TasksAreInOrder
  <2>3. BootstrapsOnce
    BY <1>6 DEF BootstrapsOnce, Bootstrapped
  <2>4. AdministratorIsThere
    <3> SUFFICES ASSUME SomeoneIsManaged PROVE \E u \in Subjects : Admin(u)
      BY DEF AdministratorIsThere
    <3>1. PICK u \in sc.admins : TRUE
      BY <1>1, <1>3 DEF SomeoneIsManaged
    <3> QED BY <1>1, <1>3, <3>1 DEF Admin
  <2> QED BY <2>1, <2>2, <2>3, <2>4 DEF AccountInv
<1>10. SessionInv
  <2>1. RowsLag
    BY <1>1, <1>3, <1>4 DEF RowsLag, RowLags, Present
  <2>2. EndedAreStale
    BY <1>6 DEF EndedAreStale
  <2>3. AssuranceIsEarned
    BY <1>1, <1>2, <1>4 DEF AssuranceIsEarned, Present
  <2>4. \A c \in Calls : CallIsCurrent(c)
    BY <1>1, <1>4, <1>5, CallsAssumption DEF CallIsCurrent, Present, Reading, Issuing
  <2> QED BY <2>1, <2>2, <2>3, <2>4 DEF SessionInv
<1> QED BY <1>7, <1>8, <1>9, <1>10 DEF IdentityInv

-----------------------------------------------------------------------------
(* The theorems.                                                            *)

\* A step of the whole, or no step, keeps the invariant and moves the sessions as a step may.
LEMMA IdentityStep ==
    ASSUME IdentityInv, [IdentityNext]_allVars
    PROVE  IdentityInv' /\ SessionsStep
<1>1. CASE BrowserNext /\ UNCHANGED <<managedVars, cliVars>>
  BY <1>1, BrowserKeeps
<1>2. CASE ManagedNext /\ UNCHANGED cliVars
  BY <1>2, ManagedKeeps
<1>3. CASE CliNext
  BY <1>3, CliKeeps
<1>4. CASE UNCHANGED allVars
  <2>1. UNCHANGED identityVars /\ UNCHANGED cliVars
    BY <1>4 DEF allVars, identityVars
  <2> QED BY <2>1, IdentityKept, DevicesKept DEF IdentityInv, IdentityTypeOK
<1> QED BY <1>1, <1>2, <1>3, <1>4 DEF IdentityNext

(***************************************************************************)
(* The invariant holds in every situation the broker, the administrators,  *)
(* the CLI devices and time bring about.                                   *)
(***************************************************************************)
THEOREM IdentityInvariant == IdentitySpec => []IdentityInv
<1>1. IdentityInit => IdentityInv
  BY StartIsSound DEF IdentityInit
<1>2. IdentityInv /\ [IdentityNext]_allVars => IdentityInv'
  BY IdentityStep
<1> QED BY <1>1, <1>2, PTL DEF IdentitySpec

(***************************************************************************)
(* Users, authority rows, sessions, requests, tasks and devices always     *)
(* have the shape their tables declare.                                    *)
(***************************************************************************)
THEOREM IdentityTypeCorrectness == IdentitySpec => []IdentityTypeOK
<1>1. IdentityInv => IdentityTypeOK
  BY DEF IdentityInv
<1> QED BY <1>1, IdentityInvariant, PTL

\* A set whose members are all equal has at most one.
LEMMA AtMostOne ==
    ASSUME NEW S, \A x, y \in S : x = y
    PROVE  Cardinality(S) <= 1
<1>1. CASE S = {}
  BY <1>1, FS_EmptySet
<1>2. CASE S # {}
  <2>1. PICK x \in S : TRUE
    BY <1>2
  <2>2. S = {x}
    BY <2>1
  <2> QED BY <2>2, FS_Singleton
<1> QED BY <1>1, <1>2

(***************************************************************************)
(* The Console is never left without an administrator, and has one initial *)
(* administrator (change_managed_identity_role and                         *)
(* claim_initial_administrator), for any number of administrators acting   *)
(* at once.                                                                *)
(***************************************************************************)
THEOREM AdministratorsContinue == IdentitySpec => []AdminContinuity
<1>1. IdentityInv => AdminContinuity
  <2> SUFFICES ASSUME IdentityInv PROVE AdminContinuity
    OBVIOUS
  <2>1. (\E u \in Subjects : authority[u].on) => \E u \in Subjects : Admin(u)
    BY DEF IdentityInv, AccountInv, AdministratorIsThere, SomeoneIsManaged
  <2>2. PICK S : S = {t \in Tasks : t.kind = "bootstrap" /\ task[t].pc = "completed"}
    OBVIOUS
  <2>3. \A t, o \in S : t = o
    BY <2>2 DEF IdentityInv, AccountInv, BootstrapsOnce, Bootstrapped
  <2>4. Cardinality(S) <= 1
    BY <2>3, AtMostOne
  <2> QED BY <2>1, <2>2, <2>4 DEF AdminContinuity
<1> QED BY <1>1, IdentityInvariant, PTL

(***************************************************************************)
(* No creation deletes the user of an authority row, its own or another's, *)
(* however its completion is reported.                                     *)
(***************************************************************************)
THEOREM AccountsRemain == IdentitySpec => []AuthorityHasAccount
<1>1. IdentityInv => AuthorityHasAccount
  BY DEF IdentityInv, AccountInv
<1> QED BY <1>1, IdentityInvariant, PTL

(***************************************************************************)
(* An MFA reset ends the assurance earned with the factors it removed, at  *)
(* the latest when it completes.                                           *)
(***************************************************************************)
THEOREM AssuranceEnds == IdentitySpec => []ResetEndsAssurance
<1>1. IdentityInv => ResetEndsAssurance
  <2> SUFFICES ASSUME IdentityInv, NEW s \in Sessions, Usable(s), row[s].aal2
               PROVE  account[Owner[s]].totp \/ ResetPending(Owner[s])
    BY DEF ResetEndsAssurance, ResetPending
  <2>1. Present(s) /\ Fresh(s)
    BY DEF Usable, Present
  <2>2. family[s].aal2
    BY <2>1 DEF IdentityInv, SessionInv, RowsLag, RowLags
  <2> QED BY <2>1, <2>2 DEF IdentityInv, SessionInv, AssuranceIsEarned
<1> QED BY <1>1, IdentityInvariant, PTL

(***************************************************************************)
(* A challenge is worth one CLI session, and a revoked device has none.    *)
(***************************************************************************)
THEOREM CliSessionsEarned == IdentitySpec => []CliSessionsAreEarned
<1>1. IdentityInv => CliSessionsAreEarned
  BY DEF IdentityInv, CliInv
<1> QED BY <1>1, IdentityInvariant, PTL

(***************************************************************************)
(* The compare-and-set of rotate_browser_session_credentials and of the    *)
(* TOTP completions never replaces a pair by an older one.                 *)
(***************************************************************************)
THEOREM PairsGoForward == IdentitySpec => PairNeverGoesBack
<1>1. IdentityInv /\ [IdentityNext]_allVars
        => [\A s \in Sessions : row[s].state # "absent" => row'[s].gen >= row[s].gen]_allVars
  <2> SUFFICES ASSUME IdentityInv, [IdentityNext]_allVars, NEW s \in Sessions, row[s].state # "absent"
               PROVE  row'[s].gen >= row[s].gen
    OBVIOUS
  <2>1. IdentityInv' /\ RowsStep
    BY IdentityStep DEF SessionsStep
  <2>2. RowGrows(s)
    BY <2>1 DEF RowsStep, Present
  <2>3. row[s].gen \in Nat /\ row'[s].gen \in Nat
    BY <2>1, MaxGenAssumption DEF IdentityInv, IdentityTypeOK, BrowserTypeOK, Row
  <2> QED BY <2>2, <2>3 DEF RowGrows
<1> QED BY <1>1, IdentityInvariant, PTL DEF IdentitySpec, PairNeverGoesBack

(***************************************************************************)
(* A session that was revoked, expired or ended with its owner's sessions  *)
(* is never usable again, whatever was waiting for Auth meanwhile.         *)
(***************************************************************************)
THEOREM EndedForever == IdentitySpec => EndedStaysEnded
<1>1. IdentityInv /\ [IdentityNext]_allVars
        => [\A s \in Sessions : row[s].state \in {"revoked", "expired"} \/ s \in ended => ~Usable(s)']_allVars
  <2> SUFFICES ASSUME IdentityInv, [IdentityNext]_allVars, NEW s \in Sessions,
                      row[s].state \in {"revoked", "expired"} \/ s \in ended
               PROVE  ~Usable(s)'
    OBVIOUS
  <2>1. SessionsStep
    BY IdentityStep
  <2>2. Present(s)
    BY DEF Present, IdentityInv, SessionInv, EndedAreStale
  <2>3. RowGrows(s) /\ RowLags(s)
    BY <2>1, <2>2 DEF SessionsStep, RowsStep, IdentityInv, SessionInv, RowsLag
  <2>4. CASE row[s].state \in {"revoked", "expired"}
    BY <2>3, <2>4 DEF RowGrows, Usable
  <2>5. CASE s \in ended
    <3>1. row[s].epoch < authority[Owner[s]].epoch
      BY <2>5 DEF IdentityInv, SessionInv, EndedAreStale
    <3>2. authority[Owner[s]].epoch <= authority'[Owner[s]].epoch
      BY <2>1, <2>3, OwnerType DEF SessionsStep, AuthorityGrows, RowLags
    <3>3. IdentityInv'
      BY IdentityStep
    <3>4. row[s].epoch \in Nat /\ authority[Owner[s]].epoch \in Nat /\ authority'[Owner[s]].epoch \in Nat
      BY <3>3, OwnerType DEF IdentityInv, IdentityTypeOK, BrowserTypeOK, Row, Authority
    <3>5. row'[s].epoch # authority'[Owner[s]].epoch
      BY <2>3, <3>1, <3>2, <3>4 DEF RowGrows
    <3> QED BY <3>5 DEF Usable, Fresh
  <2> QED BY <2>4, <2>5
<1> QED BY <1>1, IdentityInvariant, PTL DEF IdentitySpec, EndedStaysEnded
=============================================================================
