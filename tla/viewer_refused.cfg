SPECIFICATION Spec
CONSTANTS
  v1 = v1
  v2 = v2
  v3 = v3
  Nobody = Nobody
  Viewers = {v1, v2, v3}
  AllowUnsafe = FALSE
  Failures = FALSE
PROPERTIES
  RefusedForAReason
