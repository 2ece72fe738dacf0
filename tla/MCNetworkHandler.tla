-------------------------- MODULE MCNetworkHandler --------------------------
(* Values of NetworkHandler's constants for TLC.                           *)
EXTENDS NetworkHandlerProperties

CONSTANTS s1, s2

TwoServers == {s1, s2}
=============================================================================
