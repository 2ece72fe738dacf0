\* Chat as it is when it is turned on.  The game may stop by a crash, and
\* after MaxLevels levels there is nothing left to do.
SPECIFICATION Spec
CONSTANTS
  Players <- TwoPlayers
  Friends <- OneFriend
  friend = friend
  stranger = stranger
  Self = Self
  Server = Server
  ChatSettings <- On
  Texts <- OneText
  NameWidth = 2
  LineWidth = 4
  BoxLines = 5
  Cap = 2
  MaxQueue = 2
  MaxLevels = 2
  None = None
CHECK_DEADLOCK FALSE
INVARIANTS TypeOK DecisionHonoured BoxOfThisLevel LinesFaithful
