---------------------------- MODULE MCNotification ----------------------------
(***************************************************************************)
(* Small instances of NotificationDispatch: one event, two dispatchers.    *)
(***************************************************************************)
EXTENDS NotificationDispatch

CONSTANTS c1, c2, q1, q2

Scene(channels, requests, upsets) == [channels |-> channels, retries |-> requests, faults |-> upsets]

MCNotificationScenes == {
    Scene({c1, c2}, {q1}, {"timeout"}), Scene({c1}, {q1, q2}, {"timeout"}), Scene({c1}, {q1}, {"silent"}),
    Scene({c1}, {q1}, {"slow"}), Scene({c1}, {q1}, {"store"}), Scene({c1}, {q1}, {"crash", "slow", "timeout"}),
    Scene({c1}, {q1}, {"paused"}), Scene({c1}, {q1}, {"switch"})}

\* A dispatcher stops between recording an attempt and settling the delivery.
MCCrashScene == {Scene({c1}, {}, {"crash"})}

\* Two operators retry the same failed delivery.
MCOverlapScene == {Scene({c1}, {q1, q2}, {})}

\* An SMTP server that takes the connection and says nothing.
MCSilentScene == {Scene({c1}, {}, {"silent"})}
=============================================================================
