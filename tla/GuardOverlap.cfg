SPECIFICATION Spec

CONSTANTS
  root = root
  u1 = u1
  u2 = u2
  g1 = g1
  g2 = g2
  t1 = t1
  t2 = t2
  t3 = t3
  None = None
  Thread = {t1, t2, t3}
  Uid = {root, u1, u2}
  Gid = {root, u1}
  Group = {g1, g2}
  Service <- BareService

SYMMETRY Symmetry

INVARIANTS
  RunsAsSpecified
