CONSTANTS
  Spots = {0, 10}
  Forwards = {10}
  Rates = {0}
  SVICoefficients <- MCSVICoefficients
  Timestamps = {0, 200, 400}
  OptionRequests <- MCOptionRequests
  IVRequests <- MCIVRequests
  Absent = Absent
  InitialObs <- MCInitialObs
SPECIFICATION Spec
INVARIANTS DigitalPremiumWithinDiscount
