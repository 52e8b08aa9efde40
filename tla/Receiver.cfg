SPECIFICATION FairSpec
CONSTANTS
  e1 = e1
  e2 = e2
  secret = secret
  otherSecret = otherSecret
  tenant = tenant
  otherTenant = otherTenant
  h1 = h1
  h2 = h2
  Nil = Nil
  NoSecret = NoSecret
  Secrets = {secret, otherSecret}
  Events = {e1, e2}
  Tenants = {tenant, otherTenant}
  Threads = {h1, h2}
  Secret = secret
  Tenant = tenant
  HalfSpan = 3
  TicksPerSecond = 2
  Tolerance = 1
  MaxNow = 2
  MaxSends = 2
  MaxFaults = 1
  Forged <- MCForged
  Misaddressed <- MCMisaddressed
INVARIANTS
  TypeOK
  VerifiesWhatWasSigned
  EffectIffMarker
PROPERTIES
  DeliverySpec
  EventuallyProcessed
