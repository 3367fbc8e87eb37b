------------------------------- MODULE MCIdentity -------------------------------
(***************************************************************************)
(* Small instances of IdentityAuthority.  Each scene is a situation of its *)
(* own: a few requests that meet on the same subjects and sessions.        *)
(***************************************************************************)
EXTENDS IdentityAuthority, TLC

CONSTANTS alice, bob, a1, a2, b1, d1, d2, h1, h2

MCOwner == (a1 :> alice) @@ (a2 :> alice) @@ (b1 :> bob)
MCFingerprint == [e \in Enrollments |-> "key"]

C(id, kind, sess, target) == [id |-> id, kind |-> kind, sess |-> sess, target |-> target]
MCCalls == {C("resolve1", "resolve", a1, a1), C("resolve2", "resolve", a1, a1),
            C("stepup", "stepup", a1, a1), C("login", "login", a1, a1), C("mfa1", "mfa", a1, a1),
            C("mfa2", "mfa", a1, a1), C("recover", "recover", a1, a1), C("enroll", "enroll", a1, a1),
            C("revoke", "revoke", a2, a1), C("revokeall", "revokeall", a1, a1)}

T(id, kind, sess, target, key, admin) ==
    [id |-> id, kind |-> kind, sess |-> sess, target |-> target, key |-> key, admin |-> admin]
MCTasks == {T("boot1", "bootstrap", a1, alice, "", TRUE), T("boot2", "bootstrap", b1, bob, "", TRUE),
            T("create1", "create", a1, bob, "k1", FALSE), T("create2", "create", a1, bob, "k1", TRUE),
            T("disable", "disable", b1, alice, "k1", FALSE), T("enable", "enable", b1, alice, "k2", FALSE),
            T("profile1", "profile", a1, alice, "k1", FALSE), T("profile2", "profile", b1, alice, "k2", FALSE),
            T("reset", "mfareset", b1, alice, "k3", FALSE), T("link", "link", b1, alice, "k4", FALSE),
            T("demoteA", "demote", b1, alice, "", FALSE), T("demoteB", "demote", a1, bob, "", FALSE),
            T("demoteSelf", "demote", b1, bob, "", FALSE), T("grantA", "grant", b1, alice, "", TRUE)}

R(id, kind, enr, chal, sess) ==
    [id |-> id, kind |-> kind, enr |-> enr, chal |-> chal, sess |-> sess, via |-> "answer1"]
MCCliRequests == {R("enroll1", "enroll", d1, h1, a1), R("enroll2", "enroll", d2, h1, a1),
                  R("approve1", "approve", d1, h1, a1), R("approve2", "approve", d1, h1, b1),
                  R("approve3", "approve", d2, h1, a1),
                  R("challenge1", "challenge", d1, h1, a1), R("challenge2", "challenge", d1, h2, a1),
                  R("answer1", "answer", d1, h1, a1), R("answer2", "answer", d1, h1, a1),
                  R("answer3", "answer", d1, h2, a1),
                  R("drop", "revoke", d1, h1, a1), R("dropcli", "revokebycli", d1, h1, a1)}

Scene(calls, tasks, requests, admins, members, open) ==
    [calls |-> calls, tasks |-> tasks, cli |-> requests, users |-> admins \cup members,
     managed |-> admins \cup members, admins |-> admins, totp |-> admins, open |-> open]

MCScenes == {
    Scene({"resolve1", "resolve2", "stepup"}, {}, {}, {alice}, {}, {a1, a2}),
    Scene({"login", "mfa1", "mfa2", "recover"}, {}, {}, {alice}, {}, {a2}),
    Scene({"login", "enroll", "resolve1", "revoke"}, {}, {}, {bob}, {alice}, {a2}),
    Scene({"login", "mfa1", "revokeall"}, {"reset"}, {}, {alice, bob}, {}, {b1, a2}),
    Scene({"resolve1"}, {"disable", "enable", "grantA"}, {}, {bob}, {alice}, {a1, b1}),
    Scene({}, {"demoteA", "demoteB", "demoteSelf", "disable"}, {}, {alice, bob}, {}, {a1, b1}),
    Scene({}, {"profile1", "profile2", "link", "demoteB"}, {}, {alice, bob}, {}, {a1, b1}),
    Scene({}, {"create1", "create2"}, {}, {alice}, {}, {a1}),
    Scene({"login"}, {"boot1", "boot2"}, {}, {}, {}, {}),
    Scene({}, {}, {"enroll1", "enroll2", "approve1", "approve2", "approve3", "drop"}, {alice, bob}, {}, {a1, b1}),
    Scene({}, {"demoteA"}, {"enroll1", "approve1", "challenge1", "answer1", "answer2", "challenge2", "answer3", "dropcli"},
          {alice, bob}, {}, {a1, b1})}

\* An enrolled person is demoted and then disabled.
MCDisableScene == {
    Scene({}, {"demoteA", "disable"}, {"enroll1", "approve1", "challenge1", "answer1"},
          {alice, bob}, {}, {a1, b1})}
=============================================================================
