SPECIFICATION RoomSpec
CONSTANTS
  ana = ana  bea = bea  a1 = a1  b1 = b1
  double = double  pair = pair
  Invitation = {ana, bea}
  Visit = {a1, b1}
  MadeFor <- MCMadeFor
  Room = {double}
  Block = {repairs}
  LastNight = 2
  Party = {pair}
  People <- MCPeople
  Children = {}
  Pets = {}
  Rules <- MCOneRule
  Arrangement = {"beds", "mattress"}
  Entries <- MCEntries
  MaxOverrides = 1
  NoDraft = NoDraft
  RoomRun = {request}
  Plans <- MCPlans
SYMMETRY MCSymmetry
INVARIANTS RoomNightsExclusive ApprovalIsForTheseTerms
PROPERTIES AppliedTakesEffect ImplementsLedger
CHECK_DEADLOCK FALSE
