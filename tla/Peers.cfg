SPECIFICATION MCSpec
CONSTANTS
  None = None
  u1 = u1
  u2 = u2
  r1 = r1
  r2 = r2
  Urls = {u1, u2}
  V0Urls = {u2}
  Releases = {r1}
  p1 = p1
  Packages = {p1}
  Statuses = {"GOOD", "BAD"}
  Plans <- MCPlans
  Clients = {c1}
  Tasks = {t1, t2}
  MaxPeerId = 3
INVARIANTS
  VerdictsBelongToPeer
PROPERTIES
  VerdictsSurvive
  VerdictsSettle
