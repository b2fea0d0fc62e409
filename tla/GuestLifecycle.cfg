\* Two activities: the monitor of the first launch meets the launch and the
\* stop of the second.  What holds for any number of them is proved.
SPECIFICATION FairSpec
CONSTANTS
  Activities = {a1, a2}
  NoPid = NoPid
INVARIANTS
  PublishedPidHasOwnMonitor
  RunningHasClearer
  SoleGuestIsRegistered
PROPERTIES
  DeadGuestIsForgotten
  RunningIsReset
  StopReapsSoleGuest
\* Every activity may be destroyed and every thread finished.
CHECK_DEADLOCK FALSE
