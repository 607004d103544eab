SPECIFICATION SystemFairSpec
CONSTANTS
  Pids = {p1}
  Pid1 = init
  Kthread = kthread
  NoPid = none
  SpawnErrors = 1
  Words <- MCWords
  MaxWords = 2
  MaxFailed = 1
INVARIANTS
  ReadyMeansMounted
  MissingMountReported
  GoodBootTraced
  OptionsObeyed
  CommandLineObeyed
  ReportComesFirst
PROPERTIES
  ImplementsWanaInit
  BootLeadsToService
