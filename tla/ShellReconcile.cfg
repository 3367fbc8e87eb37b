SPECIFICATION FairReconcilerSpec
CONSTANTS
  alice = alice
  w1 = w1
  Actors = {alice}
  Sessions = {s1}
  ActorOf <- MCActorOf
  Tickets = {t1}
  Workers = {w1, w2}
  Uids = {u1, u2, u3}
  ActorLimit = 1
  GlobalLimit = 1
  MaxEpoch = 3
  MaxGeneration = 2
  MaxRevision = 1
  Scenes <- MCScenes
  NoSession = NoSession
  NoWorker = NoWorker
  NoUid = NoUid
  NoPod = NoPod
INVARIANTS
  AttachedRuntimeIsBound
PROPERTIES
  TeardownConcludes
CHECK_DEADLOCK FALSE
