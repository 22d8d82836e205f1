SPECIFICATION HookSpec
CONSTANTS
  ana = ana  bea = bea  a1 = a1  a2 = a2  b1 = b1
  single = single  double = double  quiet = quiet  asker = asker  couple = couple
  Invitation = {ana, bea}
  Visit = {a1, a2, b1}
  MadeFor <- MCMadeFor
  Room = {single, double}
  Block = {}
  LastNight = 2
  Party = {quiet, asker, couple}
  People <- MCPeople
  Children = {quiet, couple}
  Pets = {quiet, asker}
  Rules <- MCRules
  Arrangement = {"beds", "air", "sofa"}
  Entries <- MCEntries
  MaxOverrides = 0
  NoDraft = NoDraft
  Asking = {asker}
  Wishes <- MCWishes
INVARIANTS OneVisitPerInvitation
PROPERTIES HostsHaveSeenIt OverflowIsApproved ConfirmedWithinRules NightsStayWithinRules
CHECK_DEADLOCK FALSE
