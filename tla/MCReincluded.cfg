SPECIFICATION Spec
CONSTANTS
  i1 = i1  i2 = i2  r1 = r1  r2 = r2  r3 = r3  e1 = e1  e2 = e2  a1 = a1  b1 = b1  a2 = a2
  NoRoute = NoRoute  NoBlock = NoBlock  NoTenant = NoTenant
  Transfer = {e1}
  Block = {a1, b1}
  Intent = {i1}
  Route = {r1, r2}
  IntentOf <- OneIntent
  TenantOf <- OneTenant
  ExpiresAt <- DueAt1
  TransferInfo <- OncePaid
  BlockInfo <- LoneForkBlocks
  RouteInfo <- TwoRoutes
  Report <- SmallReports
  ProofBlocks = {b1}
  Dust = 4
  NearWindow = 1
  LateGrace = 1
  AcceptChoices = {}
  MaxTime = 2
  MaxRewinds = 3
  MaxResolutions = 0
INVARIANTS PaidOnce OutboxSequenced MerchantTold
CHECK_DEADLOCK FALSE
