CONSTANTS
  denied = denied  open = open  run2 = run2  finished = finished  over = over
  j1 = j1  h1 = h1  h2 = h2
  Sources = {denied, open}
  Listings = {denied, open, run2}
  Jobs = {j1}
  Listing <- MCListing
  PageSize = 2
  Denied = {denied}
  Handlers = {h1, h2}
  Deliveries = 2
  Minute = 1
  Long = 2
  MaxFaults = 1
SPECIFICATION FairSpec
CONSTRAINT MCLoad
INVARIANTS
  DiscoveryTypeOK
PROPERTIES
  GateHonoured
  NothingLeftOut
  MissedJobFound
