\* The service, a daemon started by hand, one fault and two crashes.
SPECIFICATION FairSpec
CONSTANTS
  Daemons = {svc, hand}
  Service = svc
  None = None
  MaxFaults = 1
  MaxCrashes = 2
INVARIANTS TypeOK ServingIsReachable OnlyAcceptErrorDegrades
PROPERTIES CrashIsRepaired
