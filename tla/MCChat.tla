------------------------------- MODULE MCChat -------------------------------
(* Values of Chat's constants for TLC.                                     *)
EXTENDS ChatProperties

CONSTANTS friend, stranger

TwoPlayers == {friend, stranger}
OneFriend == {friend}
OneText == {<<2, 1, 1, 2>>}
On == {TRUE}
=============================================================================
