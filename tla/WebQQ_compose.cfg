SPECIFICATION Spec
CONSTANTS FetchGroups = TRUE
          Disciplined = TRUE
          MaxCrashes = 1
          QueueCap = 1
          MaxMsgs = 2
          Gids = {g1, g2}
          All = all
          AppGids = {all}
          Pauses = {0}
          MaxQueue = 0
PROPERTIES SenderSpec RefreshSpec NothingSentWhileLoggedOut
CHECK_DEADLOCK FALSE
VIEW Visible
