SPECIFICATION Spec
CONSTANTS
  Trees = {t1, t2}
  Uids = {u1}
  Statuses = {s1, s2}
  None = None
INVARIANTS SnapshotShown
