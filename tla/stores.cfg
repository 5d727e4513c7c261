SPECIFICATION Spec
CONSTANTS
  s1 = s1
  s2 = s2
  Instances = {"ops", "new"}
  Kept = {"ops"}
  Shas = {s1, s2}
  Spellings = {"bob", "Bob "}
  Recipients = {"bob"}
  Norm <- Lower
  Classes = {"permanent", "transient"}
  Nil = Nil
  OneDir = TRUE
  AttRetention = 1
  BounceRetention = 1
  MaxTime = 3
  MaxFaults = 1
  MaxMails = 2
  MaxCalls = 1
INVARIANTS TypeOK ListedIsReadable OrphanNeedsFault StrictRefusesKnownBounce
SYMMETRY Hashes
