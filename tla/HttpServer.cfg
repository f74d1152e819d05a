SPECIFICATION FairSpec
CONSTANTS
  Socks = {ip4}
  Conns = {c1, c2}
  Strays = {t1}
  Requests <- EachAsks
  Cells = {m1, m2}
  MaxFd = 2
  InCnt = 2
  OutCnt = 1
  Configs <- SomeConfigs
  None = None
INVARIANTS TypeOK OwnConnection Authorised OneAnswer
 
CHECK_DEADLOCK FALSE
