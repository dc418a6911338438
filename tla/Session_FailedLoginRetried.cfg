SPECIFICATION Spec
CONSTANTS FetchGroups = TRUE
          Disciplined = TRUE
          MaxCrashes = 0
PROPERTIES FailedLoginRetried
CHECK_DEADLOCK FALSE
