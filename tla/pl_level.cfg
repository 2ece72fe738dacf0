SPECIFICATION FairSpec
CONSTANTS
  p1 = p1
  p2 = p2
  Players <- OnePlayer
  Crowd <- OnePlayer
  Nobody = Nobody
INVARIANTS TypeOK NoPlayerForgotten HelpDoesNotCount TestModeRestored InterpolateFindsPlayer
PROPERTIES SpectatorNotShown ExitIsLast IconsLoaded
