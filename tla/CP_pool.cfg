CONSTANTS
  r1 = r1  r2 = r2  r3 = r3
  u1 = u1  u2 = u2
  x1 = x1
  d1 = d1  d2 = d2
  tcpA = tcpA  tcpB = tcpB  sshA = sshA  sshB = sshB
  Callers = {r1, r2}
  Updates = {u1}
  Deletes = {x1}
  Databases = {d1}
  Infos = {tcpA, sshA}
  Tunnelled = {sshA}
  Mixed = mixed
  None = none
SPECIFICATION FairSpec
INVARIANTS
  NoLostPool
  AddrIsCurrent
PROPERTIES
  CacheSpec
  EveryCallEnds
