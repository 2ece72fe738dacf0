SPECIFICATION Spec
CONSTANTS
  p1 = p1
  p2 = p2
  Players <- OnePlayer
  Crowd = {}
  Nobody = Nobody
INVARIANT GoneNotShown
