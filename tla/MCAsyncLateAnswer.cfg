SPECIFICATION Spec
CONSTANTS
  Wrappers = {w1, w2, w3}
  Suspended = {w3}
  MaxRequests = 3
INVARIANT LateAnswerWorks
CHECK_DEADLOCK FALSE
