SPECIFICATION DirectorySpec
CONSTANTS
  p1 = p1
  p2 = p2
  p3 = p3
  c1 = c1
  c2 = c2
  r1 = r1
  r2 = r2
  g1 = g1
  h1 = h1
  h2 = h2
  m1 = m1
  Profiles = {p1, p2, p3}
  Groups = {g1}
  Credentials = {c1, c2}
  Rules = {r1, r2}
  Hosts = {h1, h2}
  Kinds = {k1}
  Materials = {m1}
  None = None
  MaxJumps = 1
  Tasks = {t1, t2}
  Deployments = {FALSE, TRUE}
  Drafts <- MCDrafts
  Sources <- MCSources
  Start <- MCStart
  MaxEdits = 2
  Calls = {q1, q2}
  NoVault = novault
  MaxKeys = 3
  MaxItems = 1
  MaxLogins = 1
INVARIANTS
  KeyOpensVault
  RecoverySaved
  DraftStoredOnce
PROPERTIES
  ImplementsConfiguration
  RuleNamesProfile
CHECK_DEADLOCK FALSE
