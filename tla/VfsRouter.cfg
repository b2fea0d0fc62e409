SPECIFICATION Spec
CONSTANTS
  Threads = {t1, t2}
  NoThread = NoThread
  NoPath = NoPath
  AppId = "com.vmgo.app"
  Rootfs <- MCRootfs
  Paths <- MCPaths
  Files <- MCFiles
  Host <- MCHost
INVARIANTS
  TypeOK
  AnswersStay
PROPERTY AnswersOfOneMoment
