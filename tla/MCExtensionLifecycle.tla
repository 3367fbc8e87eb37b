------------------------- MODULE MCExtensionLifecycle -------------------------
(***************************************************************************)
(* Small instances of ExtensionLifecycle: three releases, of which a scene *)
(* publishes some, and two management calls.                               *)
(***************************************************************************)
EXTENDS ExtensionLifecycle

CONSTANTS r1, r2, r3, c1, c2, m1, m2

\* A scene without calls: r1 serves, r2 may be published once.
Scene(reconcilers) ==
    [first |-> r1, previous |-> NoRelease, installed |-> TRUE, official |-> FALSE,
     bad |-> {}, broken |-> {}, releases |-> {r1, r2}, reconcilers |-> reconcilers, asks |-> {},
     faults |-> {}, publishes |-> 1, installs |-> 0, troubles |-> 0]

Ask(m, asks) == {m} \X asks

\* One operator removes the extension, another takes that back or disables it.
Disputed == [Scene({c1}) EXCEPT !.asks = Ask(m1, {"Uninstalled"}) \cup Ask(m2, {"Enabled", "Disabled"}),
                                !.faults = {"timeout", "crash"}, !.publishes = 0, !.troubles = 1]

\* Requests fail and Pods stop during an update, a removal and a re-install.
Troubled == [Scene({c1}) EXCEPT !.asks = Ask(m1, {"Uninstalled", "Disabled"}),
                                !.faults = {"timeout", "crash", "lost", "pods"}, !.installs = 1, !.troubles = 1]

\* A rollback, or a removal, races with the next release.
RolledBack == [Scene({c1}) EXCEPT !.previous = r2, !.releases = Releases, !.troubles = 1,
                                  !.asks = Ask(m1, {"rollback", "Uninstalled"}), !.faults = {"lost", "crash"}]

\* Two updates, each of which fails verification or never starts.
Unusable(bad) == [Scene({c1}) EXCEPT !.releases = Releases, !.publishes = 2, !.bad = bad, !.broken = {r2, r3} \ bad,
                                     !.asks = Ask(m1, {"rollback", "Uninstalled"})]

\* The official module, whose spec must be the one its envelope signs.
Official == [Scene({c1}) EXCEPT !.official = TRUE, !.publishes = 2, !.asks = Ask(m1, {"rollback"}),
                                !.faults = {"crash", "catalog"}, !.troubles = 1]

\* From the first installation to a second one.
Fresh == [Scene({c1}) EXCEPT !.installed = FALSE, !.installs = 2, !.asks = Ask(m1, {"Disabled", "Uninstalled"}),
                             !.faults = {"timeout"}, !.troubles = 1]

\* A controller is being replaced: two reconcilers at work.
OverlapUpdate == Scene({c1, c2})
OverlapRemoval == [Scene({c1, c2}) EXCEPT !.publishes = 0,
                                          !.asks = Ask(m1, {"Uninstalled"}) \cup Ask(m2, {"Enabled"})]

MCScenes == {Disputed, Troubled, RolledBack, Official, Fresh, OverlapUpdate, OverlapRemoval}
            \cup {Unusable(bad) : bad \in SUBSET {r2, r3}}

\* Three revisions exist when the extension is to be removed.
MCAccumulated == {Unusable({})}
\* The official module is rolled back, and may be removed afterwards.
MCOfficial == {[Official EXCEPT !.publishes = 0, !.faults = {}, !.previous = r2,
                                !.asks = Ask(m1, {"rollback"}) \cup Ask(m2, {"Uninstalled"})]}
\* The removal is taken back, perhaps too late.
MCDisputed == {Disputed}
\* An answer may break off in its body.
MCCut == {[Disputed EXCEPT !.faults = {"cut"}]}
=============================================================================
