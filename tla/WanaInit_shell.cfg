SPECIFICATION FairSpec
CONSTANTS
  Pids = {p1, p2}
  Pid1 = init
  Kthread = kthread
  NoPid = none
  SpawnErrors = 1
PROPERTY
  ShellKeptAlive
