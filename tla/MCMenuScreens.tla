--------------------------- MODULE MCMenuScreens ---------------------------
(* Values of MenuScreens' constants for TLC.                               *)
EXTENDS MenuScreensProperties

CONSTANTS s1, s2, l1, l2

TwoServers == {s1, s2}
FewAndMore == {{{s1}}, {{s1}, {s2}, {s1, s2}}}
OneLevel == {l1}
TwoLevels == {l1, l2}
=============================================================================
