SPECIFICATION FairSpec
CONSTANTS
  Publishers = {p1, p2}
  Subscribers = {s1, s2}
  Changes = {c1, c2}
  Retained = 2
  MaxEpoch = 4
INVARIANTS NoLostWakeup
PROPERTIES ImplementsLog CatchesUp
