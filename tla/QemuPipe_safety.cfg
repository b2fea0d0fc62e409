SPECIFICATION Spec
CONSTANTS
  Conns = {c1, c2}
  Sessions = {s1, s2}
  Fds = {f1, f2, f3}
  Asked = {"sensors", "other"}
  NoObject = NoObject
  NoFd = NoFd
SYMMETRY Symmetry
INVARIANTS
  EntryHasOwner
  StoppedServerIsQuiet
  OwnDescriptors
  UpdatesReachSubscribers
\* The guests may be gone and the server stopped for good.
CHECK_DEADLOCK FALSE
