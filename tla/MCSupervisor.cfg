SPECIFICATION FairSpec
CONSTANTS
  NoPeer = NoPeer
  Peer = {p1, p2, p3}
  Carrier = {wg, h3, h2}
  WireGuard = wg
  RecentCap = 2
  MaxFails = 2
  Cooldown = 3
INVARIANTS
  TypeOK
  CooldownRespected
  NoTryTooMany
  RingSound
PROPERTIES
  KeepsReconnecting
