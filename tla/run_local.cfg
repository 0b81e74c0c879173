SPECIFICATION FairSpec
CONSTANTS
  f = f
  g = g
  r1 = r1
  r2 = r2
  s1 = s1
  s2 = s2
  s3 = s3
  s4 = s4
  Files = {f, g}
  Big = {}
  Last = 1
  Workers = {r1, r2}
  Senders = {s1, s2, s3, s4}
  Mode = "local"
  Faults = {"list", "hash", "reader", "writer", "timeout"}
INVARIANTS
  TypeOK
  Conserved
  ReceiverComplete
PROPERTIES
  RunCompletes
CHECK_DEADLOCK FALSE
