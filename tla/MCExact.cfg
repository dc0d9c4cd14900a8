SPECIFICATION Spec
CONSTANTS
  i1 = i1  i2 = i2  r1 = r1  r2 = r2  r3 = r3  e1 = e1  e2 = e2  a1 = a1  b1 = b1  a2 = a2
  NoRoute = NoRoute  NoBlock = NoBlock  NoTenant = NoTenant
  Transfer = {e1, e2}
  Block = {a1, b1, a2}
  Intent = {i1}
  Route = {r1, r2}
  IntentOf <- OneIntent
  TenantOf <- OneTenant
  ExpiresAt <- DueAt1
  TransferInfo <- TwicePaid
  BlockInfo <- ForkBlocks
  RouteInfo <- TwoRoutes
  Report <- SmallReports
  ProofBlocks = {}
  Dust = 0
  NearWindow = 1
  LateGrace = 1
  AcceptChoices = {}
  MaxTime = 2
  MaxRewinds = 1
  MaxResolutions = 0
INVARIANTS TypeOK PaidOnce SettledIffPosted Backed OutboxSequenced MerchantTold OrphansUnpaid
PROPERTIES Authorised NeverBackToPending VersionPerChange
CHECK_DEADLOCK FALSE
