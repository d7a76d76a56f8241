SPECIFICATION Spec
CONSTANTS
  Dials = {d1}
  Normal <- Spelled
  Chains <- Presented
  Builtin <- Seed
  ServedPools <- Pools
  Classes <- AllOf
  SampleSizes <- Sizes
  BlackholeSampleSize = 2
  Places <- Abroad
  EchoHost = "echo"
  BandwidthHosts <- NoHosts
  ServedPins <- Pins
CHECK_DEADLOCK FALSE
INVARIANTS
  NoVerdictWithoutALoad
