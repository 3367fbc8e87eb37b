SPECIFICATION ReconcilerSpec
CONSTANTS
  alice = alice
  w1 = w1
  Actors = {alice}
  Sessions = {s1}
  ActorOf <- MCActorOf
  Tickets = {}
  Workers = {w1}
  Uids = {u1, u2}
  ActorLimit = 1
  GlobalLimit = 1
  MaxEpoch = 3
  MaxGeneration = 1
  MaxRevision = 0
  Scenes <- MCCrashScene
  NoSession = NoSession
  NoWorker = NoWorker
  NoUid = NoUid
  NoPod = NoPod
INVARIANTS
  NoResidue
CHECK_DEADLOCK FALSE
