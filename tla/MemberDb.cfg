SPECIFICATION FairSpec
CONSTANTS Gids = {g1, g2}
          Uids = {u1, u2, u3}
          None = none
          Chains = {c1, c2}
INVARIANTS TypeOK NumbersOwed
PROPERTIES ChainsEnd
CHECK_DEADLOCK FALSE
