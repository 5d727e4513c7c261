SPECIFICATION FairSpec
CONSTANTS
  alice = alice
  bob = bob
  Accounts = {alice, bob}
  Ends = {"e1", "e2"}
  Limits = {0, 1}
  Boots <- TwoBoots
  Configs <- SomeConfigs
  Secrets <- WithOrWithout
  Nil = Nil
  JoinTimesOut = TRUE
  MaxStarts = 1
  MaxReloads = 2
INVARIANTS TypeOK RepeatedReloadConverges HealthIsShared OneWorkerPerSide StopLeavesNothing
PROPERTIES SiblingsUntouched CallsReturn
CHECK_DEADLOCK FALSE
