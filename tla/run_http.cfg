SPECIFICATION FairSpec
CONSTANTS
  f = f
  r1 = r1
  r2 = r2
  s1 = s1
  s2 = s2
  s3 = s3
  s4 = s4
  Files = {f}
  Big = {f}
  Last = 1
  Workers = {r1, r2}
  Senders = {s1, s2, s3, s4}
  Mode = "http"
  Faults = {"reader", "sender", "writer", "timeout"}
INVARIANTS
  Conserved
  Delivered

  
CHECK_DEADLOCK FALSE
