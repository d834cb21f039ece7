SPECIFICATION Spec
CONSTANTS
  Keys = {k1}
  Lights = {l1}
  Values = {v1, v2}
  NoValue = none
  MaxRequests = 6
  MaxTimeouts = 3
CHECK_DEADLOCK FALSE
INVARIANT TypeOK
PROPERTIES ReadIsOfItsTarget FreshUnlessManyTimeouts
SYMMETRY Symmetry
