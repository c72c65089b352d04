SPECIFICATION Spec
CONSTANTS
  p1 = p1
  p2 = p2
  Hosts = {h1, h2}
  Groups = {g1, g2, g3}
  Labels = {la, lb}
  GroupNames = {gx, gy, gz}
  Looks = {"l1"}
  Vals = {"v0", "v1"}
  Pages = {p1, p2}
  Slots = {1, 2}
  None = None
  Profiles = {q1, q2}
  Shells = {bash, zsh}
  Vars = {"TOKEN", "PATH"}
  Sensitive = {"TOKEN"}
  Values = {v1}
  Mask = Mask
  Channels = {c1, c2}
  c1 = c1
  c2 = c2
  h1 = h1
  h2 = h2
  HostOf <- MCHostOf
  Default = "v0"
  Bad = Bad
  Absent = Absent
  Tokens = {t1, t2}
  Casts <- MCCasts
  Secrets = {k1, k2, k3}
  Codes = {n1, n2}
  MaxActive = 2
  CodeLife = 2
  TokenTtl = 2
  VerifyMax = 3
  VerifyWindow = 2
  Threshold = 2
INVARIANTS GroupOrder PageAgrees SecretKept ProfileIsCurrent OneTokenPerCode
PROPERTIES AttemptsLimited NoRevival
CHECK_DEADLOCK FALSE
SYMMETRY Sym
