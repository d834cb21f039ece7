SPECIFICATION Spec
CONSTANTS
  Keys = {k1}
  Lights = {l1}
  Values = {v1, v2}
  NoValue = none
  MaxRequests = 3
  MaxTimeouts = 1
CHECK_DEADLOCK FALSE
INVARIANT AnswersOwnRequest
