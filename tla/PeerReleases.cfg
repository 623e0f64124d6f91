SPECIFICATION ReleaseSpec
CONSTANTS
  None = None
  u1 = u1
  u2 = u2
  r1 = r1
  r2 = r2
  p1 = p1
  Urls = {u1}
  V0Urls = {}
  Releases = {r1, r2}
  Packages = {p1}
  Statuses = {"GOOD", "BAD"}
  Plans <- ReleasePlans
  Clients = {c1}
  Tasks = {t1, t2}
  MaxPeerId = 2
INVARIANT
  DisagreementsAreFlagged
