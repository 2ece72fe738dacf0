---------------------------- MODULE PlayerPlaces ----------------------------
(***************************************************************************)
(* What a game server promises about where players are, without tables,    *)
(* tasks or locks: a player is away, in the lobby (signed in, on no level) *)
(* or on exactly one level.  A player signs in into the lobby while there  *)
(* is room, moves between the lobby and one level at a time, and can leave *)
(* the server from anywhere.                                               *)
(***************************************************************************)
EXTENDS Integers, FiniteSets

CONSTANTS
  Clients,     \* the players
  LevelIds,    \* the levels they can be on
  MaxClients,  \* how many may be signed in at once, 0 for no limit
  Away,        \* the place of a player who is not signed in
  Lobby        \* the place of a signed-in player on no level

VARIABLE place  \* where each player is

SignedIn == {c \in Clients : place[c] # Away}

Move(c, p) == place' = [place EXCEPT ![c] = p]

Init == place = [c \in Clients |-> Away]

SignIn(c) ==
  /\ place[c] = Away
  /\ MaxClients # 0 => Cardinality(SignedIn) < MaxClients
  /\ Move(c, Lobby)

Enter(c, l) == place[c] = Lobby /\ Move(c, l)

Leave(c) == place[c] \in LevelIds /\ Move(c, Lobby)

SignOut(c) == place[c] # Away /\ Move(c, Away)

Next ==
  \E c \in Clients :
    \/ SignIn(c)
    \/ \E l \in LevelIds : Enter(c, l)
    \/ Leave(c)
    \/ SignOut(c)

Spec == Init /\ [][Next]_place
=============================================================================
