SPECIFICATION MCSpec
CONSTANTS
  alice = alice
  bob = bob
  alias = alias
  i1 = i1
  k1 = k1
  k2 = k2
  Subjects = {alice, bob, alias}
  Person <- MCPerson
  Grants <- MCGrants
  Keys = {k1, k2}
  Images = {i1}
  Requests <- MCRequests
  w1 = w1
  w2 = w2
  Workers = {w1, w2}
  Uids = {u1, u2}
  MaxClaims = 2
  NoSubject = NoSubject
  NoWorker = NoWorker
  NoUid = NoUid
  NoRequest = NoRequest
INVARIANTS
  TypeOK
  DispatchMatchesState
  ReceiptsAreFenced
  OneOperationPerKey
  VerifiedIsJustified
  ClaimedOnlyWhenAuthorized
PROPERTIES
  ImplementsLifecycle
  RevokedImageGainsNothing
