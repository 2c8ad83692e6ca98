\* A disk that is done within five seconds; a broker that may be too slow for a
\* subscription, a control socket too slow for a call.  All may end.
SPECIFICATION MCSpec
CONSTANTS
  t1 = t1
  t2 = t2
  t3 = t3
  g1 = g1
  g2 = g2
  d1 = d1
  d2 = d2
  a = a
  b = b
  Timers = {t1, t2, t3}
  Runners = {g1, g2}
  Nil = Nil
  Flusher = Flusher
  MaxBumps = 4
  SlowDisk = FALSE
  Daemons = {d1, d2}
  NameOf <- MCNameOf
  Rc = "rc"
  CmdIds = {a, b}
  MaxRegs = 2
  MaxLaunches = 2
  PumpFails = TRUE
  SlowSocket = TRUE
  rc = rc
  daemon1 = daemon1
  sum = sum
  Scripts = {rc}
  Remotes = {daemon1}
  Cmds = {sum}
  AcceptsOf <- MCAccepts
  MaxCalls = 2
  MaxSessions = 2
  Bounds <- MCBounds
  OpsCap = 1
  EarlySessions = FALSE
INVARIANTS
  AnswersCurrent
  AcceptFollowsBroker
  FiresOnce
PROPERTIES
  ScriptsInOrder
  NobodyWaits
  CountsSaved
  LaunchFires
  EntriesDie
  LiveEntriesStay
CHECK_DEADLOCK FALSE
