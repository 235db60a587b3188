\* One conversation and three messages: a history of two entries is trimmed,
\* rewound, deleted and saved to while replies, stops, failed saves and
\* restarts interleave.
SPECIFICATION FairSpec
CHECK_DEADLOCK FALSE
CONSTANTS
  Sessions = {"a"}
  MaxRequests = 3
  MaxTurns = 2
  MaxSteps = 2
  Replies <- OneTool
  DisksFail = TRUE
INVARIANTS TypeOK ClaimedWhileActive ModelSeesTheNewest HistoryBounded AnswersInPlace RepliesInOrder
PROPERTIES IsDialogue EveryRunEnds
