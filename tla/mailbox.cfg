SPECIFICATION Spec
CONSTANTS
  Ids <- AllIds
  Junk = {99}
  Nil = Nil
  ReferencesMax = 2
  Senders = {"me", "ann", "bob", "daemon", "far"}
  Nobody = "nobody"
  Me = "me"
  Daemons = {"daemon"}
  Rules = {"autoSubmitted", "list", "spam", "feedback", "esp", "selfFrom"}
  Profiles <- Somebody
  Seeds <- Openings
  Calls = {1, 2}
  SearchLimit = 2
  ThreadLimit = 2
  OrphanBase = 100
  MaxMails = 5
  Scenarios <- Stories
INVARIANTS TypeOK OneThread RobotsGetNoReply NothingVanishes ThreadListsItsRoot
CHECK_DEADLOCK FALSE
