\* Every SAP fits every SPP.
CONSTANTS
  a1 = a1  a2 = a2  a3 = a3  a4 = a4  p1 = p1  p2 = p2  alarm = alarm  clock = clock
  NONE = none
  Sap <- Saps
  Spp <- Spps
  Service <- Services
  NumFarEnd <- FarEnds
  Locked <- LockedSaps
  Automatic <- AutoNames
  Complementary <- All
SPECIFICATION Spec
INVARIANTS TypeOK BindingsSound NoneWaitsInVain
PROPERTY NoOvertaking
