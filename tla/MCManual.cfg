SPECIFICATION Spec
CONSTANTS
  i1 = i1  i2 = i2  r1 = r1  r2 = r2  r3 = r3  e1 = e1  e2 = e2  a1 = a1  b1 = b1  a2 = a2
  NoRoute = NoRoute  NoBlock = NoBlock  NoTenant = NoTenant
  Transfer = {e1}
  Block = {a1, b1}
  Intent = {i1, i2}
  Route = {r1, r2}
  IntentOf <- TwoIntents
  TenantOf <- OneTenant
  ExpiresAt <- DueAt1
  TransferInfo <- Shortfall
  BlockInfo <- LoneForkBlocks
  RouteInfo <- TwoInvoices
  Report <- OnlyFinal
  ProofBlocks = {}
  Dust = 0
  NearWindow = 1
  LateGrace = 1
  AcceptChoices <- ShortOrAll
  MaxTime = 1
  MaxRewinds = 1
  MaxResolutions = 2
INVARIANTS EventMatchedOnce Backed OutboxSequenced
PROPERTIES Authorised KeepsAccount
CHECK_DEADLOCK FALSE
