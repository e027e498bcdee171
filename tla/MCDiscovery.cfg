CONSTANTS
  udn = "uuid:root"
  deviceType = "light"
  embeddedDeviceList <- MCEmbedded
  serviceList <- MCServices
  Targets <- MCTargets
  Ghost = "nobody"
  MaxStarts = 2
  MaxSearches = 1
  MaxGets = 2
  MaxLost = 1
SPECIFICATION DiscoverySpec
INVARIANT ViewRight
PROPERTY SearchFinds
CHECK_DEADLOCK FALSE
