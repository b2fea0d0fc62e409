SPECIFICATION FairSpec
CONSTANTS
  Conns = {c1}
  Sessions = {s1, s2}
  Fds = {f1, f2}
  Asked = {"sensors", "other"}
  NoObject = NoObject
  NoFd = NoFd
PROPERTIES
  FirstStopReturns
  LostClientIsReleased
\* The guests may be gone and the server stopped for good.
CHECK_DEADLOCK FALSE
