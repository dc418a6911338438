SPECIFICATION FairSpec
CONSTANTS Calls = {c1, c2}
          Tokens = {1, 2}
          Blocks = 2
INVARIANTS TypeOK CookiesSent CallbackOnce
PROPERTIES Answered
CHECK_DEADLOCK FALSE
