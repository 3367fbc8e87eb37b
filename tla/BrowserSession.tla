---------------------------- MODULE BrowserSession ----------------------------
(***************************************************************************)
(* The browser sessions of the Console: the session broker of C_API        *)
(* (identity-session-broker.mjs), the console_identity functions it calls, *)
(* and Supabase Auth, which is external and is modelled from its client.   *)
(*                                                                         *)
(* A request of the broker awaits Supabase Auth and the database in turn,  *)
(* and several replicas serve several requests of one session at once, so  *)
(* each await ends an action: call[c] is the request's place in its        *)
(* handler and what it has read.  A database function is one transaction.  *)
(* A request that is refused changes nothing and simply stops.             *)
(***************************************************************************)
EXTENDS Naturals, FiniteSets

CONSTANTS
    Subjects,
    Sessions,      \* browser sessions; each rests on one Auth session
    Owner,         \* the subject a session belongs to
    Calls,         \* requests: records with an id, a kind, the session used and a target session
    MaxGen,        \* bound on the credential pairs Auth issues to one session
    BrowserFaults  \* which of "abort", "expire", "due", "lapse" happen

ASSUME OwnerAssumption == Owner \in [Sessions -> Subjects]
ASSUME CallsAssumption ==
    Calls \subseteq [id : STRING, sess : Sessions, target : Sessions,
                     kind : {"login", "mfa", "resolve", "stepup", "enroll",
                             "recover", "revoke", "revokeall"}]
\* Every login makes a session of its own.
ASSUME LoginsAssumption ==
    \A c, d \in Calls : (c.kind = "login" /\ d.kind = "login" /\ c.sess = d.sess) => c = d
ASSUME MaxGenAssumption == MaxGen \in Nat \ {0}

VARIABLES
    account,    \* subject -> its Supabase Auth user
    family,     \* session -> its Auth session
    authority,  \* subject -> its subject_authority row
    row,        \* session -> its browser_session row
    call,       \* request -> where its handler is
    ended       \* history: sessions that existed when their owner's sessions were ended

browserVars == <<account, family, authority, row, call, ended>>

\* pw counts the passwords the user has had; totp: a verified TOTP factor; name: its
\* profile, "" before one is written.
Name == STRING \cup {""}
Account == [exists : BOOLEAN, enabled : BOOLEAN, totp : BOOLEAN, pw : Nat, name : Name]
NoAccount == [exists |-> FALSE, enabled |-> FALSE, totp |-> FALSE, pw |-> 0, name |-> ""]
NewAccount == [NoAccount EXCEPT !.exists = TRUE, !.enabled = TRUE]

\* gen: the one refresh token Auth accepts; aal2: the assurance of its access token.
Family == [live : BOOLEAN, gen : 0..MaxGen, aal2 : BOOLEAN, pw : Nat]
NoFamily == [live |-> FALSE, gen |-> 0, aal2 |-> FALSE, pw |-> 0]

\* on: the row exists.  admin: role console-admins, the only one with console.identity.manage.
Authority == [on : BOOLEAN, admin : BOOLEAN, rev : Nat, epoch : Nat]
NoAuthority == [on |-> FALSE, admin |-> FALSE, rev |-> 0, epoch |-> 0]

(***************************************************************************)
(* gen is the stored credential pair, due that its access token expires    *)
(* within 30 seconds, reauth the age of last_reauthenticated_at against    *)
(* the five minutes recent aal2 asks for.  A pending row has revoked_at    *)
(* set, with reason pending-mfa.                                           *)
(***************************************************************************)
Row == [state : {"absent", "pending", "active", "revoked", "expired"}, gen : 0..MaxGen,
        aal2 : BOOLEAN, reauth : {"never", "recent", "lapsed"}, due : BOOLEAN,
        rev : Nat, epoch : Nat]
NoRow == [state |-> "absent", gen |-> 0, aal2 |-> FALSE, reauth |-> "never", due |-> FALSE,
          rev |-> 0, epoch |-> 0]

\* gen: the pair the request read; new and aal2: the pair Auth gave it.
Call == [pc : {"start", "issue", "issuepending", "verify", "complete", "refresh", "rotate",
               "peer", "reject", "settle", "read", "revoke", "logout", "logoutall", "done"},
         gen : 0..MaxGen, new : 0..MaxGen, aal2 : BOOLEAN]
NewCall == [pc |-> "start", gen |-> 0, new |-> 0, aal2 |-> FALSE]

BrowserTypeOK ==
    /\ account \in [Subjects -> Account]
    /\ family \in [Sessions -> Family]
    /\ authority \in [Subjects -> Authority]
    /\ row \in [Sessions -> Row]
    /\ call \in [Calls -> Call]
    /\ ended \subseteq Sessions

OwnedBy(u) == {s \in Sessions : Owner[s] = u}

\* The row's authority coordinates are still the subject's.
Fresh(s) == LET a == authority[Owner[s]]
            IN  a.on /\ a.rev = row[s].rev /\ a.epoch = row[s].epoch

\* resolve_browser_session returns the session.
Usable(s) == row[s].state = "active" /\ Fresh(s)

Goto(c, pc) == call' = [call EXCEPT ![c].pc = pc]

-----------------------------------------------------------------------------
(***************************************************************************)
(* Ending the sessions of a subject: the epoch moves and the active rows   *)
(* are revoked.  A pending row already has revoked_at set and is left.     *)
(***************************************************************************)
Revoked(S) == [s \in Sessions |-> IF s \in S /\ row[s].state = "active"
                                    THEN [row[s] EXCEPT !.state = "revoked"] ELSE row[s]]

\* mutant: the epoch stays
EndSessionsKeepsEpoch(u) ==
    /\ row' = Revoked(OwnedBy(u))
    /\ ended' = ended \cup {s \in OwnedBy(u) : row[s].state # "absent"}
    /\ UNCHANGED authority

EndSessions(u) ==
    /\ authority' = [authority EXCEPT ![u].epoch = @ + 1]
    /\ row' = Revoked(OwnedBy(u))
    /\ ended' = ended \cup {s \in OwnedBy(u) : row[s].state # "absent"}

\* Supabase Auth's /logout?scope=global: every Auth session of the user ends.
GlobalLogout(u) ==
    family' = [s \in Sessions |-> IF Owner[s] = u THEN [family[s] EXCEPT !.live = FALSE]
                                                  ELSE family[s]]

-----------------------------------------------------------------------------
(***************************************************************************)
(* Password login: Auth verifies the password and opens an Auth session,   *)
(* then the row is issued with the authority coordinates of that moment.   *)
(***************************************************************************)
LoginAuth(c) ==
    LET s == c.sess  a == account[Owner[c.sess]] IN
    /\ c.kind = "login" /\ call[c].pc = "start"
    /\ a.exists /\ a.enabled /\ MaxGen > 0
    /\ family' = [family EXCEPT ![s] = [live |-> TRUE, gen |-> 1, aal2 |-> FALSE, pw |-> a.pw]]
    /\ Goto(c, IF a.totp THEN "issuepending" ELSE "issue")
    /\ UNCHANGED <<account, authority, row, ended>>

LoginIssue(c) ==
    LET s == c.sess  a == authority[Owner[c.sess]] IN
    /\ call[c].pc \in {"issue", "issuepending"}
    /\ IF a.on
         THEN /\ row' = [row EXCEPT ![s] =
                    [NoRow EXCEPT !.state = IF call[c].pc = "issue" THEN "active" ELSE "pending",
                                  !.gen = 1, !.rev = a.rev, !.epoch = a.epoch]]
              /\ Goto(c, "done")
         ELSE /\ Goto(c, "logout")
              /\ UNCHANGED row
    /\ UNCHANGED <<account, family, authority, ended>>

\* The best-effort cleanup after a pair could not be stored.
Logout(c) ==
    /\ call[c].pc = "logout"
    /\ IF family[c.sess].live THEN GlobalLogout(Owner[c.sess]) ELSE UNCHANGED family
    /\ Goto(c, "done")
    /\ UNCHANGED <<account, authority, row, ended>>

-----------------------------------------------------------------------------
(***************************************************************************)
(* resolveSession: a pair about to expire is exchanged at Auth and stored  *)
(* by compare-and-set on the pair that was read.  A rejected exchange may  *)
(* mean that another request already made it: the broker looks again four  *)
(* times within 250 ms, then rejects the pair it read.                     *)
(***************************************************************************)
Resolved(c) == IF c.kind = "resolve" THEN "done" ELSE "read"

ReadCredentials(c) ==
    LET s == c.sess IN
    /\ c.kind \in {"resolve", "stepup", "enroll"} /\ call[c].pc = "start"
    /\ Usable(s)
    /\ call' = [call EXCEPT ![c].pc = IF row[s].due THEN "refresh" ELSE Resolved(c),
                            ![c].gen = row[s].gen]
    /\ UNCHANGED <<account, family, authority, row, ended>>

RefreshAuth(c) ==
    LET s == c.sess  f == family[c.sess] IN
    /\ call[c].pc = "refresh"
    /\ IF f.live /\ f.gen = call[c].gen /\ account[Owner[s]].enabled
         THEN /\ f.gen < MaxGen
              /\ family' = [family EXCEPT ![s].gen = f.gen + 1]
              /\ call' = [call EXCEPT ![c].pc = "rotate", ![c].new = f.gen + 1, ![c].aal2 = f.aal2]
         ELSE /\ Goto(c, "peer")
              /\ UNCHANGED family
    /\ UNCHANGED <<account, authority, row, ended>>

\* The pair of call c in session s's row; the aal2 transition trigger dates a first aal2.
Stored(s, c, reauth) ==
    [row EXCEPT ![s].gen = call[c].new, ![s].aal2 = call[c].aal2, ![s].due = FALSE,
                ![s].reauth = IF reauth \/ (call[c].aal2 /\ @ = "never") THEN "recent" ELSE @]

\* mutant: the rotation does not compare the pair it replaces
RotateUnconditionally(c) ==
    /\ call[c].pc = "rotate"
    /\ Usable(c.sess)
    /\ row' = Stored(c.sess, c, FALSE)
    /\ Goto(c, "settle")
    /\ UNCHANGED <<account, family, authority, ended>>

Rotate(c) ==
    /\ call[c].pc = "rotate"
    /\ Usable(c.sess)
    /\ row' = IF row[c.sess].gen = call[c].gen THEN Stored(c.sess, c, FALSE) ELSE row
    /\ Goto(c, "settle")
    /\ UNCHANGED <<account, family, authority, ended>>

\* The last poll decides: the session is there with a pair not due, or it is still due.
PeerRotation(c) ==
    /\ call[c].pc = "peer"
    /\ Usable(c.sess)
    /\ Goto(c, IF row[c.sess].due THEN "reject" ELSE Resolved(c))
    /\ UNCHANGED <<account, family, authority, row, ended>>

RejectRefresh(c) ==
    LET s == c.sess IN
    /\ call[c].pc = "reject"
    /\ row[s].state = "active"
    /\ IF row[s].gen = call[c].gen
         THEN row' = Revoked({s}) /\ Goto(c, "done")
         ELSE Goto(c, "settle") /\ UNCHANGED row
    /\ UNCHANGED <<account, family, authority, ended>>

\* A pair that is due again is reported as still settling.
Settle(c) ==
    /\ call[c].pc = "settle"
    /\ Usable(c.sess)
    /\ Goto(c, IF row[c.sess].due THEN "done" ELSE Resolved(c))
    /\ UNCHANGED <<account, family, authority, row, ended>>

-----------------------------------------------------------------------------
(***************************************************************************)
(* The three ways to aal2 read the pair, have Auth verify a TOTP code      *)
(* (which renews the pair) and store the new one by compare-and-set:       *)
(* completeMfa on a pending row, step-up on an active one, and enrollment, *)
(* which registers the user's first factor, on an active aal1 one.         *)
(***************************************************************************)
Eligible(c) ==
    CASE c.kind = "mfa"    -> row[c.sess].state = "pending" /\ Fresh(c.sess)
      [] c.kind = "stepup" -> Usable(c.sess)
      [] c.kind = "enroll" -> Usable(c.sess) /\ ~row[c.sess].aal2

ReadForTotp(c) ==
    /\ \/ c.kind = "mfa" /\ call[c].pc = "start"
       \/ c.kind \in {"stepup", "enroll"} /\ call[c].pc = "read"
    /\ Eligible(c)
    /\ call' = [call EXCEPT ![c].pc = "verify", ![c].gen = row[c.sess].gen]
    /\ UNCHANGED <<account, family, authority, row, ended>>

VerifyTotp(c) ==
    LET s == c.sess  u == Owner[c.sess] IN
    /\ call[c].pc = "verify"
    /\ family[s].live /\ family[s].gen < MaxGen
    /\ account[u].totp = (c.kind # "enroll")
    /\ account' = [account EXCEPT ![u].totp = TRUE]
    /\ family' = [family EXCEPT ![s].gen = @ + 1, ![s].aal2 = TRUE]
    /\ call' = [call EXCEPT ![c].pc = "complete", ![c].new = family[s].gen + 1, ![c].aal2 = TRUE]
    /\ UNCHANGED <<authority, row, ended>>

CompleteTotp(c) ==
    /\ call[c].pc = "complete"
    /\ IF Eligible(c) /\ row[c.sess].gen = call[c].gen
         THEN /\ row' = [Stored(c.sess, c, TRUE) EXCEPT ![c.sess].state = "active"]
              /\ Goto(c, "done")
         ELSE Goto(c, "logout") /\ UNCHANGED row
    /\ UNCHANGED <<account, family, authority, ended>>

-----------------------------------------------------------------------------
(***************************************************************************)
(* Password recovery: Auth changes the password, then the Console ends the *)
(* subject's sessions, then every Auth session is logged out.              *)
(***************************************************************************)
RecoverAuth(c) ==
    LET u == Owner[c.sess] IN
    /\ c.kind = "recover" /\ call[c].pc = "start"
    /\ account[u].exists
    /\ account' = [account EXCEPT ![u].pw = @ + 1]
    /\ Goto(c, "revoke")
    /\ UNCHANGED <<family, authority, row, ended>>

RecoverRevoke(c) ==
    /\ call[c].pc = "revoke"
    /\ authority[Owner[c.sess]].on
    /\ EndSessions(Owner[c.sess])
    /\ Goto(c, "logoutall")
    /\ UNCHANGED <<account, family>>

RecoverLogout(c) ==
    /\ call[c].pc = "logoutall"
    /\ GlobalLogout(Owner[c.sess])
    /\ Goto(c, "done")
    /\ UNCHANGED <<account, authority, row, ended>>

\* A user ends one of their sessions, or all of them; the epoch stays.
RevokeOwned(c) ==
    LET S == IF c.kind = "revokeall" THEN OwnedBy(Owner[c.sess]) ELSE {c.target} IN
    /\ c.kind \in {"revoke", "revokeall"} /\ call[c].pc = "start"
    /\ Usable(c.sess)
    /\ Owner[c.target] = Owner[c.sess] /\ row[c.target].state = "active"
    /\ row' = Revoked(S)
    /\ Goto(c, "done")
    /\ UNCHANGED <<account, family, authority, ended>>

-----------------------------------------------------------------------------
(***************************************************************************)
(* What goes wrong: a request stops where it is (a crash of the replica,   *)
(* or an error it reports), and time passes.                               *)
(***************************************************************************)
AbortCall(c) ==
    /\ "abort" \in BrowserFaults /\ call[c].pc \notin {"start", "done"}
    /\ Goto(c, "done")
    /\ UNCHANGED <<account, family, authority, row, ended>>

Expire(s) ==
    /\ "expire" \in BrowserFaults /\ row[s].state \in {"pending", "active"}
    /\ row' = [row EXCEPT ![s].state = "expired"]
    /\ UNCHANGED <<account, family, authority, call, ended>>

ComesDue(s) ==
    /\ "due" \in BrowserFaults /\ row[s].state = "active" /\ ~row[s].due
    /\ row' = [row EXCEPT ![s].due = TRUE]
    /\ UNCHANGED <<account, family, authority, call, ended>>

Lapse(s) ==
    /\ "lapse" \in BrowserFaults /\ row[s].reauth = "recent"
    /\ row' = [row EXCEPT ![s].reauth = "lapsed"]
    /\ UNCHANGED <<account, family, authority, call, ended>>

(***************************************************************************)
(* A scene names the requests that are made, the users that exist, who of  *)
(* them is managed and who is an administrator, who has a TOTP factor, and *)
(* which sessions are signed in.                                           *)
(***************************************************************************)
BrowserStart(sc) ==
    /\ account = [u \in Subjects |-> IF u \in sc.users
                    THEN [NewAccount EXCEPT !.totp = u \in sc.totp] ELSE NoAccount]
    /\ authority = [u \in Subjects |-> IF u \in sc.managed
                    THEN [on |-> TRUE, admin |-> u \in sc.admins, rev |-> 1, epoch |-> 0]
                    ELSE NoAuthority]
    /\ family = [s \in Sessions |-> IF s \in sc.open
                    THEN [live |-> TRUE, gen |-> 1, aal2 |-> Owner[s] \in sc.totp, pw |-> 0]
                    ELSE NoFamily]
    /\ row = [s \in Sessions |-> IF s \in sc.open
                    THEN [state |-> "active", gen |-> 1, aal2 |-> Owner[s] \in sc.totp,
                          reauth |-> IF Owner[s] \in sc.totp THEN "recent" ELSE "never",
                          due |-> FALSE, rev |-> 1, epoch |-> 0]
                    ELSE NoRow]
    /\ call = [c \in Calls |-> IF c.id \in sc.calls THEN NewCall ELSE [NewCall EXCEPT !.pc = "done"]]
    /\ ended = {}

BrowserCall(c) ==
    \/ LoginAuth(c) \/ LoginIssue(c) \/ Logout(c)
    \/ ReadCredentials(c) \/ RefreshAuth(c) \/ Rotate(c)
    \/ PeerRotation(c) \/ RejectRefresh(c) \/ Settle(c)
    \/ ReadForTotp(c) \/ VerifyTotp(c) \/ CompleteTotp(c)
    \/ RecoverAuth(c) \/ RecoverRevoke(c) \/ RecoverLogout(c)
    \/ RevokeOwned(c) \/ AbortCall(c)

BrowserNext ==
    \/ \E c \in Calls : BrowserCall(c)
    \/ \E s \in Sessions : Expire(s) \/ ComesDue(s) \/ Lapse(s)
=============================================================================
