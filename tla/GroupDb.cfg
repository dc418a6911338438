SPECIFICATION FairSpec
CONSTANTS Codes = {c1, c2}
          Rounds = 2
          Fixed = {c2}
          NoNum = none
INVARIANTS TypeOK OneRow AnswerListed
PROPERTIES NumberKept WalkEnds
CHECK_DEADLOCK FALSE
