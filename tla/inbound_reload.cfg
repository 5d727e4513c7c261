SPECIFICATION Spec
CONSTANTS
  m1 = m1
  m2 = m2
  m3 = m3
  Msgs = {m1, m2, m3}
  Kind <- AllMail
  Gone = Gone
  Nil = Nil
  Gens = {g1, g2}
  NoGen = NoGen
  Limit = 1
  U32 = 16
  Idles = {FALSE}
  AnnouncesLate = TRUE
  JoinTimesOut = FALSE
  MaxRotations = 1
  MaxExpunges = 1
  MaxFaults = 1
  MaxCrashes = 0
  MaxOps = 1
INVARIANTS NoGap
PROPERTIES RecentIsKept
SYMMETRY SwapBoth
