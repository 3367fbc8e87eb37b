------------------------------ MODULE CliIdentity ------------------------------
(***************************************************************************)
(* Native CLI devices: cli-identity-broker.mjs and the functions of 0018   *)
(* and 0019.  A device asks to be enrolled, a signed-in person approves it *)
(* with recent aal2, and from then on it exchanges a signed challenge for  *)
(* a session of fifteen minutes, with no password and no Auth session.     *)
(*                                                                         *)
(* A device is named by its enrollment.  An "answer" request reads the     *)
(* challenge, verifies the signature and completes it in a second          *)
(* transaction; its session is named by the request.                       *)
(***************************************************************************)
EXTENDS ManagedIdentity

CONSTANTS
    Enrollments,
    Fingerprint,  \* the key of the device that asks
    Challenges,
    CliRequests,
    NoOne

ASSUME CliRequestsAssumption ==
    CliRequests \subseteq [id : STRING, enr : Enrollments, chal : Challenges, sess : Sessions, via : STRING,
                           kind : {"enroll", "approve", "challenge", "answer", "revoke", "revokebycli"}]
ASSUME NoOneAssumption == NoOne \notin Subjects \cup Enrollments

VARIABLES
    enrollment,  \* enrollment -> its cli_enrollment row and the device made of it
    challenge,   \* challenge -> its cli_challenge row
    cli,         \* answer request -> its cli_session row
    cliCall      \* request -> where its handler is

cliVars == <<enrollment, challenge, cli, cliCall>>
identityVars == <<browserVars, managedVars>>

Enrollment == [state : {"none", "pending", "approved"}, live : BOOLEAN, by : Subjects \cup {NoOne},
               device : {"none", "active", "revoked"}]
Challenge == [state : {"none", "open", "used", "expired"}, enr : Enrollments \cup {NoOne}]
CliSession == [state : {"none", "active", "revoked", "expired"}, chal : Challenges \cup {NoOne},
               enr : Enrollments \cup {NoOne}, rev : Nat, epoch : Nat]
NoCliSession == [state |-> "none", chal |-> NoOne, enr |-> NoOne, rev |-> 0, epoch |-> 0]

Answers == {r \in CliRequests : r.kind = "answer"}

CliTypeOK ==
    /\ enrollment \in [Enrollments -> Enrollment]
    /\ challenge \in [Challenges -> Challenge]
    /\ cli \in [Answers -> CliSession]
    /\ cliCall \in [CliRequests -> {"start", "complete", "done"}]

Device(e) == enrollment[e].device
Holder(e) == enrollment[e].by

\* resolve_cli_session returns the session.
CliUsable(r) ==
    LET k == cli[r] IN
    /\ k.state = "active" /\ Device(k.enr) = "active"
    /\ LET a == authority[Holder(k.enr)] IN a.on /\ a.rev = k.rev /\ a.epoch = k.epoch

Handled(r, pc) == cliCall[r] = pc /\ cliCall' = [cliCall EXCEPT ![r] = "done"]

-----------------------------------------------------------------------------
CreateEnrollment(r) ==
    /\ r.kind = "enroll" /\ Handled(r, "start")
    /\ enrollment[r.enr].state = "none"
    /\ enrollment' = [enrollment EXCEPT ![r.enr].state = "pending", ![r.enr].live = TRUE]
    /\ UNCHANGED <<identityVars, challenge, cli>>

\* UNIQUE(subject_id, fingerprint): a person's key makes one device, ever.
KeyIsNew(u, e) ==
    \A o \in Enrollments : Device(o) # "none" /\ Holder(o) = u => Fingerprint[o] # Fingerprint[e]

\* An approved enrollment is a replay for its person and a conflict for any other.
ApproveEnrollment(r) ==
    LET e == r.enr  u == Owner[r.sess] IN
    /\ r.kind = "approve" /\ Handled(r, "start")
    /\ Usable(r.sess) /\ row[r.sess].aal2 /\ row[r.sess].reauth = "recent"
    /\ enrollment[e].state = "pending" /\ enrollment[e].live
    /\ KeyIsNew(u, e)
    /\ enrollment' = [enrollment EXCEPT ![e] = [@ EXCEPT !.state = "approved", !.by = u,
                                                         !.device = "active"]]
    /\ UNCHANGED <<identityVars, challenge, cli>>

CreateChallenge(r) ==
    /\ r.kind = "challenge" /\ Handled(r, "start")
    /\ Device(r.enr) = "active" /\ authority[Holder(r.enr)].on
    /\ challenge[r.chal].state = "none"
    /\ challenge' = [challenge EXCEPT ![r.chal] = [state |-> "open", enr |-> r.enr]]
    /\ UNCHANGED <<identityVars, enrollment, cli>>

-----------------------------------------------------------------------------
\* createSession, up to the verified signature: the unused challenge of an active device.
ReadChallenge(r) ==
    LET h == challenge[r.chal] IN
    /\ r.kind = "answer" /\ cliCall[r] = "start"
    /\ h.state = "open" /\ Device(h.enr) = "active"
    /\ cliCall' = [cliCall EXCEPT ![r] = "complete"]
    /\ UNCHANGED <<identityVars, enrollment, challenge, cli>>

\* mutant: the device is not checked again
CompleteWithoutDevice(r) ==
    challenge[r.chal].state = "open" /\ authority[Holder(challenge[r.chal].enr)].on

\* complete_cli_device_session checks again, under its locks, what ReadChallenge saw.
MayCompleteCli(r) ==
    LET h == challenge[r.chal] IN
    h.state = "open" /\ Device(h.enr) = "active" /\ authority[Holder(h.enr)].on

CompleteCliSession(r) ==
    LET e == challenge[r.chal].enr  a == authority[Holder(challenge[r.chal].enr)] IN
    /\ r.kind = "answer" /\ Handled(r, "complete")
    /\ MayCompleteCli(r)
    /\ challenge' = [challenge EXCEPT ![r.chal].state = "used"]
    /\ cli' = [cli EXCEPT ![r] = [state |-> "active", chal |-> r.chal, enr |-> e,
                                  rev |-> a.rev, epoch |-> a.epoch]]
    /\ UNCHANGED <<identityVars, enrollment>>

(***************************************************************************)
(* A device is revoked, with its sessions, by its person: from a browser   *)
(* session, or from a CLI session of any device of theirs.                 *)
(***************************************************************************)
RevokeDevice(r) ==
    /\ \/ /\ r.kind = "revoke" /\ Usable(r.sess)
          /\ Holder(r.enr) = Owner[r.sess]
       \/ /\ r.kind = "revokebycli"
          /\ \E k \in Answers : k.id = r.via /\ CliUsable(k) /\ Holder(r.enr) = Holder(cli[k].enr)
    /\ Handled(r, "start")
    /\ Device(r.enr) = "active"
    /\ enrollment' = [enrollment EXCEPT ![r.enr].device = "revoked"]
    /\ cli' = [k \in Answers |-> IF cli[k].state = "active" /\ cli[k].enr = r.enr
                                   THEN [cli[k] EXCEPT !.state = "revoked"] ELSE cli[k]]
    /\ UNCHANGED <<identityVars, challenge>>

\* The five minutes of an enrollment, the one of a challenge, the fifteen of a session.
CliExpire ==
    /\ "expire" \in BrowserFaults
    /\ \/ \E e \in Enrollments : /\ enrollment[e].live
                                 /\ enrollment' = [enrollment EXCEPT ![e].live = FALSE]
                                 /\ UNCHANGED <<challenge, cli>>
       \/ \E h \in Challenges : /\ challenge[h].state = "open"
                                /\ challenge' = [challenge EXCEPT ![h].state = "expired"]
                                /\ UNCHANGED <<enrollment, cli>>
       \/ \E k \in Answers : /\ cli[k].state = "active"
                             /\ cli' = [cli EXCEPT ![k].state = "expired"]
                             /\ UNCHANGED <<enrollment, challenge>>
    /\ UNCHANGED <<identityVars, cliCall>>

CliStart(sc) ==
    /\ enrollment = [e \in Enrollments |-> [state |-> "none", live |-> FALSE, by |-> NoOne,
                                            device |-> "none"]]
    /\ challenge = [h \in Challenges |-> [state |-> "none", enr |-> NoOne]]
    /\ cli = [k \in Answers |-> NoCliSession]
    /\ cliCall = [r \in CliRequests |-> IF r.id \in sc.cli THEN "start" ELSE "done"]

CliNext ==
    \/ \E r \in CliRequests :
          \/ CreateEnrollment(r) \/ ApproveEnrollment(r) \/ CreateChallenge(r)
          \/ ReadChallenge(r) \/ CompleteCliSession(r) \/ RevokeDevice(r)
    \/ CliExpire
=============================================================================
