SPECIFICATION FairSpec
CONSTANTS
  Processes = {"a", "b"}
  Supports <- TwoReleases
  Packages <- AnyPackages
  Exclusive = FALSE
  MaxFaults = 2
INVARIANT OpenIsCurrent
PROPERTY AnyStopIsOpenable
PROPERTY OneLibrary
PROPERTY RefusedStaysAsItWas
PROPERTY OpensInTheEnd
CHECK_DEADLOCK FALSE
