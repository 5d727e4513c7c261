SPECIFICATION Spec
CONSTANTS
  c1 = c1
  c2 = c2
  m1 = m1
  m2 = m2
  Cmds = {c1, c2}
  Ids = {m1, m2}
  Nil = Nil
  MsgIdOf <- FreshIds
  NoRecipients = {}
  Gens = {g1}
  NoGen = NoGen
  MAX_ATTEMPTS = 2
  MaxDlqLines = 1
  Faults = {"clean"}
  JoinTimesOut = FALSE
  MaxOps = 0
  MaxCrashes = 1
  MaxFaults = 1
  MaxDisruptions = 1
INVARIANTS TypeOK NoAcceptedJobLost NotLiveAndDead DuplicateOnlyIfDisrupted RetriesBounded AckIsDurable
PROPERTIES TerminalAckIsFinal DlqKeepsNewest ImplementsOutbox
SYMMETRY Swap
