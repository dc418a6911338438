SPECIFICATION FairSpec
CONSTANTS QueueCap = 2
          MaxMsgs = 5
          MaxCrashes = 1
INVARIANTS TypeOK InOrderOnce NoSilentLoss NewestKept CallbackIffSent
PROPERTIES Delivered
CHECK_DEADLOCK FALSE
