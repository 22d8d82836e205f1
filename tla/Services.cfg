SPECIFICATION ServicesSpec
CONSTANTS
  Dispatcher = {d1, d2}
  MaxAttempts = 2
  MaxGenerations = 2
  Sender = {s1, s2}
  Address = {desk, phone}
  Caller = {c1, c2, c3}
  Party = {p1, p2}
  Eraser = {forget, sweep}
  PageSize = 1
  MaxItems = 2
  LinkLifetime = 2
  Grace = 1
  LastDay = 5
  MaxLinks = 3
  Stay = {march, april}
  GuestCount = {2, 3}
  RoomLabels = {garden, tower}
  NoRooms = unnamed
  MaxSequence = 2
  User = {u1, u2}
  h1 = h1
  h2 = h2
  e1 = e1
  e2 = e2
  e3 = e3
  Host <- MCHost
  Email <- MCEmail
  HostOf <- MCHostOf
  Guests = {g1}
  Feature = {f}
  MaxRooms = 3
  MaxPlaces = 2
  MaxParty = 4
  Form = {t1, t2}
  LastWindow = 1
  MaxClaims <- MCClaims
  MaxCaptured = 2
SYMMETRY DispatcherSymmetry
CONSTRAINT ServicesBound
INVARIANTS ServicesTypeOK SentAtMostOnce StatusIsTrue VerifiedByItsOwnEmail
INVARIANTS RecommendsTheBest OffersAreBookable FreshPingsAreSentOnce
INVARIANTS SchedulesFollowTheirJobs ForgottenMemoryIsGone
INVARIANTS SweepSparesTheLiving PageKeepsWatching GuestsKeepTheirLink
INVARIANTS SequenceTellsTheLatest ClaimsNameTheHostsAccount ProbesLeaveNothing CapturedOnce
PROPERTY ImplementsNotices
CHECK_DEADLOCK FALSE
