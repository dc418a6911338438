SPECIFICATION FairSpec
CONSTANTS Gids = {g1, g2}
          All = all
          AppGids = {g1, g2, all}
          Pauses = {0, 59, 1799, 1859, 1860, 3600, 3659}
          MaxQueue = 2
INVARIANTS TypeOK CalledBackOnce FullSpaced
PROPERTIES Served
CHECK_DEADLOCK FALSE
