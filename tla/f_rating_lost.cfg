SPECIFICATION ReviewSpec
CONSTANTS
  Authors = {u1, u2}
  Reviewed = {p1}
  Stars = {2, 5}
  ReviewCalls = {c1, c2}
  MaxReviewEdits = 4
  MaxReviewFaults = 0
INVARIANTS
  RatingsInSync
CHECK_DEADLOCK FALSE
