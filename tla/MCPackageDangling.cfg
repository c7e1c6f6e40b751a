SPECIFICATION Spec
CONSTANTS
  Processes = {"a"}
  Supports <- SameRelease
  Packages <- DanglingPackages
  Exclusive = TRUE
  MaxFaults = 1
PROPERTY PreservedMeansUntouched
