--------------------------- MODULE IdentityAuthority ---------------------------
(***************************************************************************)
(* Identity as a whole: browser sessions, their management and the CLI     *)
(* devices act on one set of users, authority rows and sessions.  The      *)
(* properties are about what one of them does in the middle of another.    *)
(***************************************************************************)
EXTENDS CliIdentity

CONSTANT Scenes   \* the situations to start from (see BrowserStart)

\* Situations the Console can be in: a managed subject has its Auth user, there is an
\* administrator as soon as somebody is managed, whoever is signed in is managed, and a
\* login makes a session that is not there yet.
ASSUME ScenesAssumption ==
    \A sc \in Scenes :
        /\ sc.admins \subseteq sc.managed /\ sc.managed \subseteq sc.users /\ sc.users \subseteq Subjects
        /\ sc.managed # {} => sc.admins # {}
        /\ sc.open \subseteq Sessions /\ \A s \in sc.open : Owner[s] \in sc.managed
        /\ sc.totp \subseteq sc.users
        /\ \A c \in Calls : (c.kind = "login" /\ c.id \in sc.calls) => c.sess \notin sc.open

IdentityInit == \E sc \in Scenes : BrowserStart(sc) /\ ManagedStart(sc) /\ CliStart(sc)

IdentityNext ==
    \/ BrowserNext /\ UNCHANGED <<managedVars, cliVars>>
    \/ ManagedNext /\ UNCHANGED cliVars
    \/ CliNext

allVars == <<browserVars, managedVars, cliVars>>

IdentitySpec == IdentityInit /\ [][IdentityNext]_allVars

-----------------------------------------------------------------------------
(***************************************************************************)
(* The rows, requests and devices have the shapes their tables declare.    *)
(***************************************************************************)
IdentityTypeOK == BrowserTypeOK /\ ManagedTypeOK /\ CliTypeOK

(***************************************************************************)
(* The credential pair of a row is never replaced by an older one.         *)
(* Supabase Auth accepts only the newest refresh token of a session, so a  *)
(* refresh or a TOTP completion that overwrote the pair of a faster        *)
(* request (of another replica, or another tab) would end the session at   *)
(* its next refresh.  The compare-and-set of rotate_browser_session_       *)
(* credentials and of the completions is what prevents it.                 *)
(***************************************************************************)
PairNeverGoesBack ==
    [][\A s \in Sessions : row[s].state # "absent" => row'[s].gen >= row[s].gen]_allVars

(***************************************************************************)
(* A session that was revoked, or that expired, or that existed when the   *)
(* sessions of its owner were ended (password recovery, role change,       *)
(* enabled change, MFA reset), is never usable again: not when a TOTP      *)
(* completion that was waiting for Auth meanwhile writes its row, and not  *)
(* when it was itself waiting for its TOTP code, which the revocations,    *)
(* active rows only, leave to the revoke epoch.                            *)
(***************************************************************************)
EndedStaysEnded ==
    [][\A s \in Sessions : row[s].state \in {"revoked", "expired"} \/ s \in ended => ~Usable(s)']_allVars

(***************************************************************************)
(* Once there is an authority row there is an administrator, whatever      *)
(* administrators do to each other at once (change_managed_identity_role). *)
(* Two operators who open a fresh Console at once do not both become its   *)
(* initial administrator (claim_initial_administrator).                    *)
(***************************************************************************)
AdminContinuity ==
    /\ (\E u \in Subjects : authority[u].on) => \E u \in Subjects : Admin(u)
    /\ Cardinality({t \in Tasks : t.kind = "bootstrap" /\ task[t].pc = "completed"}) <= 1

(***************************************************************************)
(* Every authority row has its Supabase Auth user.  A creation whose       *)
(* completion committed but was reported as failed deletes the user in its *)
(* cleanup (createManagedIdentity, bootstrapInitialAdministrator); the     *)
(* foreign key of subject_authority refuses that.                          *)
(***************************************************************************)
AuthorityHasAccount == \A u \in Subjects : authority[u].on => account[u].exists

(***************************************************************************)
(* A usable aal2 session rests on a TOTP factor its user still has, unless *)
(* an MFA reset of the user has been accepted and not completed: no        *)
(* assurance earned with a removed factor outlives the reset that removed  *)
(* it, even when the code was verified before and stored after.            *)
(***************************************************************************)
ResetEndsAssurance ==
    \A s \in Sessions : Usable(s) /\ row[s].aal2 =>
        \/ account[Owner[s]].totp
        \/ \E t \in accepted : /\ t.kind = "mfareset" /\ t.target = Owner[s]
                               /\ task[t].pc # "completed"

(***************************************************************************)
(* A challenge is worth one CLI session, however many requests answer it   *)
(* at once (complete_cli_device_session), and no session row of a revoked  *)
(* device is left active: neither one the revocation found nor one whose   *)
(* challenge was being answered meanwhile (revoke_owned_cli_device).       *)
(***************************************************************************)
CliSessionsAreEarned ==
    \A k \in Answers :
        /\ cli[k].chal # NoOne => \A o \in Answers : cli[o].chal = cli[k].chal => k = o
        /\ cli[k].state = "active" => Device(cli[k].enr) = "active"

(***************************************************************************)
(* A subject whose account was disabled, and is still disabled, has no     *)
(* usable CLI session.  The code does not give this: the device challenge  *)
(* asks for an authority row and an active device, and disabling leaves    *)
(* both, so the device is given a session of the new epoch.                *)
(***************************************************************************)
DisabledHasNoCli ==
    \A t \in Tasks, k \in Answers :
        t.kind = "disable" /\ task[t].pc = "completed" /\ ~account[t.target].enabled
            => ~(CliUsable(k) /\ Holder(cli[k].enr) = t.target)
=============================================================================
