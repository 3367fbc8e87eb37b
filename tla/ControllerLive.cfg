SPECIFICATION FairControllerSpec
CONSTANTS
  alice = alice
  bob = bob
  i1 = i1
  x1 = x1
  k1 = k1
  k2 = k2
  Subjects = {alice, bob}
  Person <- MCPerson
  Grants <- MCGrants
  Keys = {k1, k2}
  Images = {i1}
  Extensions = {x1}
  Extension <- MCExtension
  NoSubject = NoSubject
  NoWorker = NoWorker
  NoUid = NoUid
  NoRequest = NoRequest
  NoReg = NoReg
  Requests <- MCInstallRevoke
  Workers = {w1}
  Uids = {u1, u2}
  MaxClaims = 3
  MaxAttempts = 2
  Scenes <- MCLiveScenes
PROPERTIES
  RevocationConcludes
  ObservationConcludes
CHECK_DEADLOCK FALSE
