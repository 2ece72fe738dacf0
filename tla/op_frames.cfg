\* The other player moves until MaxTime and then stands still.
SPECIFICATION Spec
CONSTANTS
  Modes <- AllModes
  Settings <- AllOn
  Looks <- TwoLooks
  Relayed <- LooksAsSent
  EmptyLook <- NoDataLook
  Delay = 1
  Steps = {1, 2}
  MaxTime = 4
  NaN = NaN
  None = None
  Unreadable = Unreadable
  DataSent <- MoreData
  DataCut <- CutData
  AccountsSent <- Accounts
INVARIANTS TypeOK ShownAsSent DeathShownOnce SignalsTakenAtOnce LooksNotKeptBack
INVARIANTS RelayFaithful ValidEffectsTimed
PROPERTIES HiddenNotDrawn BadFramesFade
