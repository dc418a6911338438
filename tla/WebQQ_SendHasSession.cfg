SPECIFICATION Spec
CONSTANTS FetchGroups = FALSE
          Disciplined = TRUE
          MaxCrashes = 0
          QueueCap = 1
          MaxMsgs = 2
          Gids = {g1}
          All = all
          AppGids = {}
          Pauses = {0}
          MaxQueue = 0
PROPERTIES SendHasSession
CHECK_DEADLOCK FALSE
