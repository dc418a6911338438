SPECIFICATION FairSpec
CONSTANTS Gids = {g1, g2}
          Uins = {u1}
          MaxItems = 3
          MaxImages = 2
INVARIANTS TypeOK DeliveredInOrder ReloginJustified
PROPERTIES Polled
CHECK_DEADLOCK FALSE
