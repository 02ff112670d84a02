SPECIFICATION FSpec
CONSTANTS
  Versions = {1, 2}
  Refused = {2}
  MaxResults = 2
INVARIANT EveryFieldArrives
