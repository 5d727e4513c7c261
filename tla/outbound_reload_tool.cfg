SPECIFICATION Spec
CONSTANTS
  c1 = c1
  c2 = c2
  m1 = m1
  m2 = m2
  Cmds = {c1, c2}
  Ids = {m1, m2}
  Nil = Nil
  MsgIdOf <- FreshIds
  NoRecipients = {}
  Gens = {g1, g2}
  NoGen = NoGen
  MAX_ATTEMPTS = 2
  MaxDlqLines = 1
  Faults = {"clean"}
  JoinTimesOut = FALSE
  MaxOps = 1
  MaxCrashes = 0
  MaxFaults = 0
  MaxDisruptions = 2
INVARIANTS NoAcceptedJobLost
SYMMETRY SwapBoth
