SPECIFICATION FairSpec
CONSTANTS
  Pids = {p1, p2, p3}
  Pid1 = init
  Kthread = kthread
  NoPid = none
  SpawnErrors = 1
INVARIANTS
  TypeOK
  OneConsoleProcess
  RunStatusKept
  IdleDelaysNoRestart
PROPERTIES
  RestartIffShellReaped
  ZombiesReaped
  ImplementsConsole
