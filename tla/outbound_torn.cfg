SPECIFICATION Spec
CONSTANTS
  c1 = c1
  c2 = c2
  m1 = m1
  m2 = m2
  Cmds = {c1, c2}
  Ids = {m1, m2}
  Nil = Nil
  MsgIdOf <- FreshIds
  NoRecipients = {}
  Gens = {g1}
  NoGen = NoGen
  MAX_ATTEMPTS = 1
  MaxDlqLines = 1
  Faults = {"torn"}
  JoinTimesOut = FALSE
  MaxOps = 0
  MaxCrashes = 1
  MaxFaults = 1
  MaxDisruptions = 2
INVARIANTS LossBoundedByFaults
SYMMETRY Swap
