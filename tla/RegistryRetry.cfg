SPECIFICATION RegistrySpec
CONSTANTS
  authorize = authorize
  replace = replace
  remove = remove
  Replicas = {p1, p2}
  Requests = {authorize, replace, remove}
  Kind <- MCKind
  Namespaces = 2
  MaxCredential = 3
  NoRequest = NoRequest
  RegistryScenes <- MCReconnectScene
INVARIANT RefreshOnce
CHECK_DEADLOCK FALSE
