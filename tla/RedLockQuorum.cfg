\* Two contenders on one replica, three masters, one of them unreliable.
SPECIFICATION Spec
CONSTANTS
  p1 = p1
  Requests = {r1, r2}
  Processes = {p1}
  process <- SharedReplica
  Masters = {m1, m2, m3}
  Faulty = {m3}
  Nobody = Nobody
SYMMETRY Alike
CHECK_DEADLOCK FALSE
INVARIANTS
  LockInv
  MutualExclusion
  LiveLeaseKept
  LeaseHasMajority
