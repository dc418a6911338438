SPECIFICATION Spec
CONSTANTS Gids = {g1, g2}
          Uins = {u1}
          MaxItems = 2
          MaxImages = 1
INVARIANTS UnknownGroupRelogins
CHECK_DEADLOCK FALSE
