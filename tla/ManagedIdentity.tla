---------------------------- MODULE ManagedIdentity ----------------------------
(***************************************************************************)
(* The management of Console identities: the first administrator, the five *)
(* lifecycle actions (create, profile, enabled, onboarding link, MFA       *)
(* reset) and the role changes of identity-session-broker.mjs, with the    *)
(* functions of 0011, 0016 and 0017.                                       *)
(*                                                                         *)
(* A lifecycle action spans two stores without a common transaction: an    *)
(* accepted intent in the database, the effect in Supabase Auth, and the   *)
(* completion, which rechecks every authority; when the completion fails   *)
(* the effect is undone in Auth.  Roles other than console-admins carry no *)
(* identity permission and are left out.                                   *)
(***************************************************************************)
EXTENDS BrowserSession

CONSTANTS
    Tasks,         \* administrative requests: the administrator's session, the subject changed
    ManagedFaults  \* which of "abort", "lost" happen to them

ASSUME TasksAssumption ==
    Tasks \subseteq [id : STRING, sess : Sessions, target : Subjects, key : STRING, admin : BOOLEAN,
                     kind : {"create", "profile", "enable", "disable", "link", "mfareset",
                             "grant", "demote", "bootstrap"}]

VARIABLES
    task,      \* request -> where its handler is
    accepted   \* the requests whose accepted intent is in the audit ledger

managedVars == <<task, accepted>>

Lifecycle == {"create", "profile", "enable", "disable", "link", "mfareset"}

\* enabled, name: the user as the request read it, for the rollback.
Task == [pc : {"start", "auth", "apply", "complete", "undo", "done", "completed"},
         enabled : BOOLEAN, name : Name]
NewTask == [pc |-> "start", enabled |-> FALSE, name |-> ""]

ManagedTypeOK == task \in [Tasks -> Task] /\ accepted \subseteq Tasks

Actor(t) == Owner[t.sess]
Admin(u) == authority[u].on /\ authority[u].admin
GotoTask(t, pc) == task' = [task EXCEPT ![t].pc = pc]

(***************************************************************************)
(* What every function asks of the administrator: a live session of the    *)
(* current revision and epoch, recent aal2 and console.identity.manage.  A *)
(* user may change their own profile without the last two.                 *)
(***************************************************************************)
Authorized(t) ==
    /\ Usable(t.sess)
    /\ \/ t.kind = "profile" /\ t.target = Actor(t)
       \/ row[t.sess].aal2 /\ row[t.sess].reauth = "recent" /\ Admin(Actor(t))

\* An idempotency key of an administrator is spent by the first request that uses it.
KeyIsFree(t) == \A o \in accepted : ~(o.kind = t.kind /\ o.key = t.key /\ Actor(o) = Actor(t))

Permitted(t) ==
    /\ Authorized(t)
    /\ t.kind # "create" => authority[t.target].on
    /\ t.kind \in {"link", "mfareset"} => t.target # Actor(t)
    /\ t.kind = "disable" => ~Admin(t.target)

Prepare(t) ==
    /\ t.kind \in Lifecycle /\ task[t].pc = "start"
    /\ Permitted(t) /\ KeyIsFree(t)
    /\ accepted' = accepted \cup {t}
    /\ GotoTask(t, "auth")
    /\ UNCHANGED browserVars

-----------------------------------------------------------------------------
(***************************************************************************)
(* Supabase Auth, through its administration interface.  A profile and an  *)
(* enabled state are read before they are written, in two requests.        *)
(***************************************************************************)
ReadUser(t) ==
    /\ t.kind \in {"profile", "enable", "disable"} /\ task[t].pc = "auth"
    /\ account[t.target].exists
    /\ task' = [task EXCEPT ![t] = [pc |-> "apply", enabled |-> account[t.target].enabled,
                                    name |-> account[t.target].name]]
    /\ UNCHANGED <<browserVars, accepted>>

WriteUser(t) ==
    LET u == t.target IN
    /\ task[t].pc = "apply" /\ account[u].exists
    /\ account' = CASE t.kind = "profile" -> [account EXCEPT ![u].name = t.id]
                    [] t.kind = "enable"  -> [account EXCEPT ![u].enabled = TRUE]
                    [] t.kind = "disable" -> [account EXCEPT ![u].enabled = FALSE]
    /\ GotoTask(t, "complete")
    /\ UNCHANGED <<family, authority, row, call, ended, accepted>>

CreateUser(t) ==
    /\ \/ t.kind = "create" /\ task[t].pc = "auth"
       \/ t.kind = "bootstrap" /\ task[t].pc = "start"
    /\ ~account[t.target].exists
    /\ account' = [account EXCEPT ![t.target] = NewAccount]
    /\ GotoTask(t, "complete")
    /\ UNCHANGED <<family, authority, row, call, ended, accepted>>

\* The recovery link changes no user; the factors are deleted one by one and counted again.
RemoveFactors(t) ==
    /\ t.kind \in {"link", "mfareset"} /\ task[t].pc = "auth"
    /\ account' = [account EXCEPT ![t.target].totp = IF t.kind = "mfareset" THEN FALSE ELSE @]
    /\ GotoTask(t, "complete")
    /\ UNCHANGED <<family, authority, row, call, ended, accepted>>

-----------------------------------------------------------------------------
(***************************************************************************)
(* complete_managed_identity_lifecycle and claim_initial_administrator.    *)
(* "lost": the transaction committed but the broker saw an error.          *)
(***************************************************************************)
Enroll(u, admin) ==
    /\ authority' = [authority EXCEPT ![u] = [on |-> TRUE, admin |-> admin, rev |-> 1, epoch |-> 0]]
    /\ UNCHANGED <<row, ended>>

MayComplete(t) ==
    IF t.kind = "bootstrap"
      THEN \A u \in Subjects : ~authority[u].on
      ELSE /\ Permitted(t) /\ t \in accepted
           /\ t.kind = "create" => account[t.target].exists /\ ~authority[t.target].on

Completed(t) == task[t].pc = "complete" /\ MayComplete(t)

\* mutant: an MFA reset leaves the sessions
EndsSessionsUnlessReset(t) == t.kind \in {"enable", "disable"}

EndsSessions(t) == t.kind \in {"enable", "disable", "mfareset"}

Complete(t) ==
    /\ Completed(t)
    /\ CASE t.kind \in {"create", "bootstrap"} -> Enroll(t.target, t.kind = "bootstrap" \/ t.admin)
         [] EndsSessions(t)                    -> EndSessions(t.target)
         [] OTHER                              -> UNCHANGED <<authority, row, ended>>
    /\ \/ GotoTask(t, "completed")
       \/ "lost" \in ManagedFaults /\ GotoTask(t, "undo")
    /\ UNCHANGED <<account, family, call, accepted>>

\* The completion is refused, or the link a creation asks for or the call itself fails.
CompleteFails(t) ==
    /\ task[t].pc = "complete" /\ (~MayComplete(t) \/ "lost" \in ManagedFaults)
    /\ GotoTask(t, "undo")
    /\ UNCHANGED <<browserVars, accepted>>

\* mutant: the user goes although it holds an authority row
DeleteUserAnyway(t) == [account EXCEPT ![t.target] = NoAccount]

(***************************************************************************)
(* The rollback in Auth.  A link or removed factors cannot be undone and   *)
(* the outcome is reported as uncertain, as it is when the user cannot be  *)
(* deleted: subject_authority restricts the deletion of its user.          *)
(***************************************************************************)
DeleteUser(t) ==
    IF authority[t.target].on THEN account ELSE [account EXCEPT ![t.target] = NoAccount]

Undo(t) ==
    LET u == t.target IN
    /\ task[t].pc = "undo"
    /\ account' = CASE t.kind \in {"create", "bootstrap"} -> DeleteUser(t)
                    [] t.kind = "profile"                 -> [account EXCEPT ![u].name = task[t].name]
                    [] t.kind \in {"enable", "disable"}   -> [account EXCEPT ![u].enabled = task[t].enabled]
                    [] OTHER                              -> account
    /\ family' = [s \in Sessions |-> [family[s] EXCEPT !.live = @ /\ account'[Owner[s]].exists]]
    /\ GotoTask(t, "done")
    /\ UNCHANGED <<authority, row, call, ended, accepted>>

-----------------------------------------------------------------------------
\* mutant: the last administrator may be demoted
KeepsAnyAdministrator(t) == TRUE

(***************************************************************************)
(* change_managed_identity_role, under the identity advisory lock.  Asking *)
(* for the role the subject has is a replay.                               *)
(***************************************************************************)
KeepsAdministrator(t) ==
    t.kind = "demote" => /\ t.target # Actor(t)
                         /\ Cardinality({u \in Subjects : Admin(u)}) > 1

ChangeRole(t) ==
    LET u == t.target IN
    /\ t.kind \in {"grant", "demote"} /\ task[t].pc = "start"
    /\ Authorized(t) /\ authority[u].on
    /\ IF authority[u].admin = (t.kind = "grant")
         THEN UNCHANGED <<authority, row, ended>>
         ELSE /\ KeepsAdministrator(t)
              /\ authority' = [authority EXCEPT ![u].admin = (t.kind = "grant"),
                                                ![u].rev = @ + 1, ![u].epoch = @ + 1]
              /\ row' = Revoked(OwnedBy(u))
              /\ ended' = ended \cup {s \in OwnedBy(u) : row[s].state # "absent"}
    /\ GotoTask(t, "done")
    /\ UNCHANGED <<account, family, call, accepted>>

\* The replica stops.
AbortTask(t) ==
    /\ "abort" \in ManagedFaults /\ task[t].pc \notin {"start", "done", "completed"}
    /\ GotoTask(t, "done")
    /\ UNCHANGED <<browserVars, accepted>>

ManagedStart(sc) ==
    /\ task = [t \in Tasks |-> IF t.id \in sc.tasks THEN NewTask ELSE [NewTask EXCEPT !.pc = "done"]]
    /\ accepted = {}

ManagedNext ==
    \E t \in Tasks :
        \/ Prepare(t) \/ ReadUser(t) \/ WriteUser(t) \/ CreateUser(t) \/ RemoveFactors(t)
        \/ Complete(t) \/ CompleteFails(t) \/ Undo(t) \/ ChangeRole(t) \/ AbortTask(t)
=============================================================================
