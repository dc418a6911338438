SPECIFICATION LiveSpec
CONSTANTS FetchGroups = TRUE
          Disciplined = TRUE
          MaxCrashes = 1
INVARIANTS TypeOK IInv JarNeverAhead DoneMeansQuitting VcFresh LoginMeansSession
PROPERTIES LoginsSpaced PresenceSpec Recovery StopHonoured
CHECK_DEADLOCK FALSE
