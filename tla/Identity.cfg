SPECIFICATION IdentitySpec
CONSTANTS
  alice = alice
  bob = bob
  a1 = a1
  a2 = a2
  b1 = b1
  d1 = d1
  d2 = d2
  h1 = h1
  h2 = h2
  Subjects = {alice, bob}
  Sessions = {a1, a2, b1}
  Owner <- MCOwner
  Calls <- MCCalls
  MaxGen = 4
  BrowserFaults = {"abort", "expire", "due", "lapse"}
  Tasks <- MCTasks
  ManagedFaults = {"abort", "lost"}
  Enrollments = {d1, d2}
  Fingerprint <- MCFingerprint
  Challenges = {h1, h2}
  CliRequests <- MCCliRequests
  NoOne = NoOne
  Scenes <- MCScenes
INVARIANTS
  AdminContinuity
  AuthorityHasAccount
  ResetEndsAssurance
  CliSessionsAreEarned
PROPERTIES
  PairNeverGoesBack
  EndedStaysEnded
CHECK_DEADLOCK FALSE
