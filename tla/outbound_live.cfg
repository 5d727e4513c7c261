SPECIFICATION FairSpec
CONSTANTS
  c1 = c1
  c2 = c2
  m1 = m1
  m2 = m2
  Cmds = {c1, c2}
  Ids = {m1, m2}
  Nil = Nil
  MsgIdOf <- FreshIds
  NoRecipients = {c2}
  Gens = {g1}
  NoGen = NoGen
  MAX_ATTEMPTS = 2
  MaxDlqLines = 2
  Faults = {"clean"}
  JoinTimesOut = FALSE
  MaxOps = 0
  MaxCrashes = 0
  MaxFaults = 1
  MaxDisruptions = 1
PROPERTIES AcceptedIsDrained
