SPECIFICATION LifecycleSpec
CONSTANTS
  r1 = r1
  r2 = r2
  r3 = r3
  c1 = c1
  c2 = c2
  Releases = {r1, r2, r3}
  NoRelease = NoRelease
  Reconcilers = {c1, c2}
  m1 = m1
  m2 = m2
  Calls = {m1, m2}
  NoReg = NoReg
  LifecycleScenes <- MCDisputed
PROPERTIES
  RevivedIsKept
CHECK_DEADLOCK FALSE
