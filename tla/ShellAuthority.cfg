SPECIFICATION Spec
CONSTANTS
  alice = alice
  Actors = {alice}
  Sessions = {s1}
  ActorOf <- MCActorOf
  Tickets = {t1}
  Workers = {w1}
  Uids = {u1, u2}
  ActorLimit = 1
  GlobalLimit = 2
  MaxEpoch = 3
  MaxGeneration = 2
  MaxRevision = 1
  NoSession = NoSession
  NoWorker = NoWorker
  NoUid = NoUid
INVARIANTS
  ReadyIsRegistered
  DrainHolds
PROPERTIES
  TeardownIsFinal
  MutationGuardHolds
CHECK_DEADLOCK FALSE
