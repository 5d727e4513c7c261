SPECIFICATION FairSpec
CONSTANTS
  m1 = m1
  m2 = m2
  m3 = m3
  Msgs = {m1, m2, m3}
  Kind <- OneOfEach
  Gone = Gone
  Nil = Nil
  Gens = {g1}
  NoGen = NoGen
  Limit = Nil
  U32 = 16
  Idles = {TRUE}
  AnnouncesLate = TRUE
  JoinTimesOut = FALSE
  MaxRotations = 1
  MaxExpunges = 0
  MaxFaults = 1
  MaxCrashes = 1
  MaxOps = 0
INVARIANTS TypeOK NoGap DuplicateOnlyIfDisrupted 
PROPERTIES CursorMonotone EveryMailHandled
