SPECIFICATION ChoiceSpec
CONSTANTS
  Feature = {f}
  MaxRooms = 2
  MaxPlaces = 2
  MaxParty = 4
INVARIANT OverflowAsksAHost
CHECK_DEADLOCK FALSE
