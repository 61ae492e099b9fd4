SPECIFICATION Spec
CONSTANTS
  Files <- TheFiles
  Number <- Numbers
  Suffixed <- Units
  HostPort <- HostPorts
  Ipv4 <- Quads
  PathOf <- Characters
  Relative = {"e.html", "i.html", "up", "py"}
  IntMax = 1048575
  KeyOrder <- Keyed
  Peer = {p1, p2}
  HeaderBlocks <- Lines
  NoHost = "none"
INVARIANT TimeoutOfItsListener
CHECK_DEADLOCK FALSE
