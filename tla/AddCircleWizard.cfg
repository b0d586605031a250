SPECIFICATION MCSpec
CONSTANTS
  None = None
  p1 = p1
  p2 = p2
  p3 = p3
  c1 = c1
  docs = docs
  pics = pics
  dir = dir
  gone = gone
  Pages = {p1, p2, p3}
  Circles = {c1}
  Names = {docs, pics}
  Locals = {dir, gone}
  BadNames = {}
  Missing = {gone}
  PeerShares = {pics}
  MaxRows <- RowsOfPages
  MountpointFlag = FALSE
  MaxFaults = 1
  Configured <- OneCircle
CHECK_DEADLOCK FALSE
INVARIANTS DoneMeansShared CertsBelongTogether FailedRegistrationAddsNothing
PROPERTY WaitsEnd
