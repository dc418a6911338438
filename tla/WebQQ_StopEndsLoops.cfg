SPECIFICATION FairSpec
CONSTANTS FetchGroups = TRUE
          Disciplined = TRUE
          MaxCrashes = 0
          QueueCap = 1
          MaxMsgs = 1
          Gids = {g1}
          All = all
          AppGids = {}
          Pauses = {0}
          MaxQueue = 0
PROPERTIES StopEndsLoops
CHECK_DEADLOCK FALSE
