SPECIFICATION Spec
CONSTANTS
  Socks = {ip4, ip6}
  Conns = {c1, c2}
  Strays = {}
  Requests <- EachAsks
  Cells = {m1, m2}
  MaxFd = 2
  InCnt = 2
  OutCnt = 1
  Configs <- SomeConfigs
  None = None
INVARIANT OwnConnection
CHECK_DEADLOCK FALSE
