CONSTANTS
  c1 = c1
  c2 = c2
  Client = {c1, c2}
  None = None
  Invalid = Invalid
  MaxNetworks = 2
  Setup <- MCSetup
  AddressLen = {"usable"}
  Patient = FALSE
  MaxSteps = 3

SPECIFICATION FairSpec
PROPERTIES
  WaitsEnd
