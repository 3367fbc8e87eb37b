SPECIFICATION FairReconcilerSpec
CONSTANTS
  alice = alice
  w1 = w1
  Actors = {alice}
  Sessions = {s1}
  ActorOf <- MCActorOf
  Tickets = {}
  Workers = {w1}
  Uids = {u1, u2}
  ActorLimit = 1
  GlobalLimit = 1
  MaxEpoch = 3
  MaxGeneration = 1
  MaxRevision = 1
  Scenes <- MCPermissionScene
  NoSession = NoSession
  NoWorker = NoWorker
  NoUid = NoUid
  NoPod = NoPod
PROPERTIES
  TeardownAlwaysConcludes
CHECK_DEADLOCK FALSE
