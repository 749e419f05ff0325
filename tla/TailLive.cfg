\* Two connections of one client: every interleaving of appends, broadcasts,
\* replays, slow reads, disconnects and failed replays, and what happens in the end.
SPECIFICATION FairSpec
CONSTANTS
  Buffer = 1
  Wire = 1
  Cap = 3
  MaxSeq = 2
  MaxConn = 2
  ReplayMayFail = TRUE
INVARIANTS NoSendOnClosed EntriesArriveOnce
PROPERTIES EventuallyShown
CHECK_DEADLOCK FALSE
