SPECIFICATION FairSpec
CONSTANTS
  MaxSenders = 2
  MaxPadding = 1400
  Seqs = {0, 1}
  Ttl = 64
  Mtu = 1500
  EcnK = 5
  QDepths = {5, 6}
  MaxDrops = 1
INVARIANT WellFormed
INVARIANT DeliveredRight
INVARIANT RoundTrip
INVARIANT NamedRight
PROPERTY AllAnswered
