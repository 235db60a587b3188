\* One command, two sessions, two uploads of progress at a time.
SPECIFICATION FairSpec
CONSTANTS
  CommandIds = {c1}
  Threads = {t1, t2}
  MaxSessions = 2
  MaxReports = 2
INVARIANTS TypeOK RevisionCounts
PROPERTIES SettledForGood CommandsEnd ForwardUnlessOvertaken
